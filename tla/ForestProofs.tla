------------------------------ MODULE ForestProofs ------------------------------
(***************************************************************************)
(* What a template keeps of the enrollment graph, for any number of        *)
(* samples and any registrations: the decoder undoes the triangular index, *)
(* and the relations written connect what registration connected.          *)
(*                                                                         *)
(* The argument about connection is by sets that no edge leads out of, so  *)
(* that it needs no paths.  The walk keeps that such a set holds a sample  *)
(* with its root or neither (Tied), and that a sample that has been walked *)
(* has every strong neighbour in its group (Walked).  That weak relations  *)
(* never decide anything is where the enrollment graph comes in: a weak    *)
(* one only leads to the anchor, and StronglyConnected, by induction over  *)
(* the order in which samples became canonical, has the anchor in the same *)
(* group already.                                                          *)
(***************************************************************************)
EXTENDS TemplateForest, GraphProofs

-----------------------------------------------------------------------------
(* Numbers.                                                                *)

Row(h) == (h * (h - 1)) \div 2

(* A row of the triangular table has as many entries as its number, and    *)
(* later rows begin after it.                                              *)
LEMMA RowNext ==
  ASSUME NEW h \in Nat
  PROVE  Row(h) \in Int /\ Row(h + 1) = Row(h) + h /\ ((h + 1) * h) \div 2 = Row(h + 1)
<1>1. (h + 1) * ((h + 1) - 1) = h * (h - 1) + 2 * h /\ (h + 1) * ((h + 1) - 1) = (h + 1) * h
  OBVIOUS
<1> DEFINE m == h * (h - 1)
<1>2. m \in Int
  OBVIOUS
<1>3. Row(h) = m \div 2 /\ Row(h + 1) = (m + 2 * h) \div 2
  BY <1>1 DEF Row
<1>4. ((h + 1) * h) \div 2 = (m + 2 * h) \div 2
  BY <1>1
<1> HIDE DEF m
<1> QED BY <1>2, <1>3, <1>4

LEMMA RowGrows ==
  ASSUME NEW g \in Nat, NEW h \in Nat, g =< h
  PROVE  Row(g) =< Row(h)
<1>1. PICK k \in Nat : h = g + k
  <2> WITNESS h - g \in Nat
  <2> QED OBVIOUS
<1>2. h * (h - 1) = g * (g - 1) + k * (g + h - 1)
  BY <1>1
<1>3. k * (g + h - 1) >= 0
  <2>1. CASE k = 0
    BY <2>1
  <2>2. CASE k > 0
    <3>1. g + h - 1 \in Nat
      BY <1>1, <2>2
    <3> QED BY <3>1
  <2> QED BY <2>1, <2>2
<1> DEFINE a == g * (g - 1)
           b == h * (h - 1)
<1>4. a \in Int /\ b \in Int /\ a =< b
  BY <1>2, <1>3
<1>5. Row(g) = a \div 2 /\ Row(h) = b \div 2
  BY DEF Row
<1> HIDE DEF a, b
<1> QED BY <1>4, <1>5

(* The decoder finds the pair an index was made for, and only that one.    *)
LEMMA IndexUndone ==
  ASSUME CoreType, NEW p \in Pairs, p[1] < count
  PROVE  RelationIndices(Index(p)) = {p}
<1>1. /\ p[1] \in Nat /\ p[2] \in Nat /\ p[2] < p[1] /\ p = <<p[1], p[2]>> /\ count \in Nat
      /\ p[1] \in 1..count - 1 /\ p[2] \in 0..count - 1
  BY GraphAssumption DEF Pairs, Samples, CoreType
<1> DEFINE i == Index(p)
<1>2. i = Row(p[1]) + p[2]
  BY DEF Index, Row
<1>3. \A q \in (1..count - 1) \X (0..count - 1) :
        q \in RelationIndices(i) <=> Row(q[1]) =< i /\ i < Row(q[1] + 1) /\ q[2] = i - Row(q[1])
  <2> SUFFICES ASSUME NEW q \in (1..count - 1) \X (0..count - 1)
               PROVE  q \in RelationIndices(i) <=>
                        Row(q[1]) =< i /\ i < Row(q[1] + 1) /\ q[2] = i - Row(q[1])
    OBVIOUS
  <2>1. q[1] \in Nat /\ ((q[1] + 1) * q[1]) \div 2 = Row(q[1] + 1)
    BY <1>1, RowNext
  <2>2. (q[1] * (q[1] - 1)) \div 2 = Row(q[1])
    BY DEF Row
  <2> HIDE DEF i
  <2> QED BY <2>1, <2>2 DEF RelationIndices
<1> HIDE DEF i
<1>4. Row(p[1]) \in Int /\ Row(p[1] + 1) = Row(p[1]) + p[1]
  BY <1>1, RowNext
<1>5. p \in RelationIndices(i)
  BY <1>1, <1>2, <1>3, <1>4
<1>6. ASSUME NEW q \in RelationIndices(i) PROVE q = p
  <2>1. /\ q \in (1..count - 1) \X (0..count - 1) /\ q[1] \in Nat /\ q = <<q[1], q[2]>>
    BY <1>1 DEF RelationIndices
  <2>2. Row(q[1]) =< i /\ i < Row(q[1] + 1) /\ q[2] = i - Row(q[1])
    BY <2>1, <1>3
  <2>3. Row(q[1]) \in Int /\ Row(q[1] + 1) \in Int
    BY <2>1, RowNext
  <2>4. ~(q[1] < p[1])
    <3>1. q[1] < p[1] => Row(q[1] + 1) =< Row(p[1])
      BY <1>1, <2>1, RowGrows
    <3> QED BY <3>1, <1>1, <1>2, <1>4, <2>2, <2>3
  <2>5. ~(p[1] < q[1])
    <3>1. p[1] < q[1] => Row(p[1] + 1) =< Row(q[1])
      BY <1>1, <2>1, RowGrows
    <3> QED BY <3>1, <1>1, <1>2, <1>4, <2>2, <2>3
  <2>6. q[1] = p[1]
    BY <1>1, <2>1, <2>4, <2>5
  <2> QED BY <1>1, <1>2, <2>1, <2>2, <2>6, <1>4
<1> QED BY <1>5, <1>6 DEF i

-----------------------------------------------------------------------------
(* The graph the walk is given.                                            *)

(* A set that no strong relation between canonical samples leads out of    *)
(* holds all of them or none.                                              *)
LEMMA MembersTied ==
  ASSUME Core, NEW S,
         \A i, j \in Members : Strong(i, j) => (i \in S <=> j \in S)
  PROVE  \A i, j \in Members : i \in S <=> j \in S
<1>1. /\ joined \in Seq(Samples) /\ DOMAIN joined = 1..Len(joined) /\ Len(joined) \in Nat
      /\ \A k \in 1..Len(joined) : joined[k] \in Members
      /\ \A m \in Members : \E k \in 1..Len(joined) : joined[k] = m
  BY LenProperties DEF Core, CoreType, Members, Range
<1> DEFINE Astray == {k \in 1..Len(joined) : ~(joined[k] \in S <=> joined[1] \in S)}
<1>2. Astray = {}
  <2> SUFFICES ASSUME Astray # {} PROVE FALSE
    OBVIOUS
  <2>1. Astray \subseteq Nat
    BY <1>1
  <2>2. PICK k \in Astray : \A l \in Astray : k =< l
    <3> HIDE DEF Astray
    <3> QED BY <2>1, LeastNumber
  <2>3. k \in 2..Len(joined)
    BY <1>1, <2>2
  <2>4. PICK j \in 1..k - 1 : Value(joined[k], joined[j]) > 2
    BY <2>3 DEF Core, StronglyConnected
  <2>5. j \in 1..Len(joined) /\ j < k /\ j \notin Astray
    BY <1>1, <2>2, <2>3
  <2>6. joined[k] # joined[j]
    BY <1>1, <2>3, <2>5 DEF Core, Distinct
  <2>7. joined[k] \in S <=> joined[j] \in S
    BY <1>1, <2>3, <2>4, <2>5, <2>6 DEF Strong
  <2> QED BY <2>2, <2>5, <2>7
<1> QED BY <1>1, <1>2

\* A strong relation of a canonical sample to the anchor was measured.
StrongFound == \A m \in Members \ {anchor} : Value(m, anchor) > 2 => Found(m, anchor)

(* Every relation above 2 comes from a registration, every registration    *)
(* but those with the anchor is in the table with its value, and no        *)
(* relation is between 0 and 2 but those.                                  *)
LEMMA RelationsFound ==
  ASSUME Core, StrongFound, NEW i \in Samples, NEW j \in Samples, i # j
  PROVE  /\ Value(i, j) \in Int /\ Value(i, j) = Value(j, i)
         /\ Strong(i, j) => Found(i, j)
         /\ Strong(i, j) <=> Strong(j, i)
         /\ Found(i, j) => Strong(i, j) \/ (i \in Members /\ j \in Members)
         /\ Weak(i, j) => Strong(i, j) \/ (i \in Members /\ j \in Members)
<1>1. Pair(i, j) \in Pairs /\ Pair(i, j) = Pair(j, i)
  BY PairType
<1>2. Value(i, j) \in Int /\ Value(i, j) = Value(j, i) /\ (Found(i, j) <=> Found(j, i))
  BY <1>1 DEF Value, Found, Core, CoreType, Record
<1>3. CASE ~(i = anchor /\ j \in Members) /\ ~(j = anchor /\ i \in Members)
  BY <1>2, <1>3, ReadsMeasured DEF Strong, Weak
<1>4. CASE i = anchor /\ j \in Members
  <2>1. i \in Members /\ j \in Members \ {anchor}
    BY <1>4, AnchorMember DEF Samples
  <2> QED BY <1>2, <1>4, <2>1 DEF StrongFound, Strong
<1>5. CASE j = anchor /\ i \in Members
  <2>1. j \in Members /\ i \in Members \ {anchor}
    BY <1>5, AnchorMember DEF Samples
  <2> QED BY <1>2, <1>5, <2>1 DEF StrongFound, Strong
<1> QED BY <1>3, <1>4, <1>5

\* One more canonical sample.
LEMMA StoredKeepsStrong ==
  ASSUME Core, StrongFound, anchor # -1, NEW s \in Samples, s \notin Members, NEW v, NEW t,
         link' = Stored(s, anchor, v, t), joined' = Append(joined, s),
         UNCHANGED <<measured, anchor>>, v > 2 => Found(s, anchor)
  PROVE  StrongFound'
<1>1. Members' = Members \union {s}
  BY JoinedGrows DEF Core
<1>2. anchor \in Samples /\ anchor \in Members /\ anchor # s /\ Members \subseteq Samples
  BY AnchorMember
<1> SUFFICES ASSUME NEW m \in (Members \union {s}) \ {anchor}, link'[Pair(m, anchor)].value > 2
             PROVE  measured[Pair(m, anchor)] # Nothing
  BY <1>1 DEF StrongFound, Value, Found
<1>3. Pair(s, anchor) \in Pairs /\ Pair(m, anchor) \in Pairs /\ link \in [Pairs -> Record]
  BY <1>2, PairType DEF Core, CoreType
<1>4. CASE m = s
  <2>1. link'[Pair(s, anchor)].value = v
    BY <1>3 DEF Stored
  <2> QED BY <2>1, <1>4 DEF Found
<1>5. CASE m # s
  <2>1. Pair(m, anchor) # Pair(s, anchor)
    BY <1>2, <1>5, PairApart
  <2>2. link'[Pair(m, anchor)] = link[Pair(m, anchor)]
    BY <1>3, <2>1 DEF Stored
  <2> QED BY <2>2, <1>5 DEF StrongFound, Value, Found
<1> QED BY <1>4, <1>5

LEMMA StrongFoundKeeps ==
  ASSUME IInv, StrongFound, [Next]_vars
  PROVE  StrongFound'
<1>1. ASSUME UNCHANGED <<measured, link, anchor, joined>> PROVE StrongFound'
  BY <1>1 DEF StrongFound, Members, Value, Found
<1>2. ASSUME NEW find \in [0..count - 1 -> Measures \union {Nothing}], AddSample(find)
      PROVE  StrongFound'
  <2>1. /\ Members' = Members /\ anchor' = anchor
        /\ \A p \in Pairs : p[1] # count => measured'[p] = measured[p] /\ link'[p] = link[p]
    BY <1>2 DEF AddSample, Register, Members
  <2> SUFFICES ASSUME NEW m \in Members \ {anchor}
               PROVE  /\ measured'[Pair(m, anchor)] = measured[Pair(m, anchor)]
                      /\ link'[Pair(m, anchor)] = link[Pair(m, anchor)]
    BY <2>1 DEF StrongFound, Value, Found
  <2>2. /\ m \in Samples /\ anchor \in Samples /\ m # anchor
        /\ m \in 0..count - 1 /\ anchor \in 0..count - 1 /\ count \in Nat
    <3>1. Members \subseteq Samples /\ anchor \in Members /\ Core
      BY AnchorMember DEF IInv
    <3>2. Members \subseteq 0..count - 1 /\ count \in Nat
      BY GraphAssumption DEF IInv, Core, CoreType, NotYet
    <3> QED BY <3>1, <3>2
  <2>3. Pair(m, anchor) \in Pairs /\ Pair(m, anchor)[1] # count
    BY <2>2, PairType DEF Pair
  <2> QED BY <2>1, <2>3
<1>3. CASE Attach
  <2>1. PICK through \in Strongest(Successful \intersect Members) :
          IF through \in Placed
          THEN Join(through, IF Value(Current, anchor) < 0 THEN 0 ELSE Value(Current, anchor))
          ELSE Breaks
    BY <1>3 DEF Attach
  <2>2. through \in Placed /\ pc = "attach" /\ anchor # -1
    BY <1>3, AnchorMember DEF IInv, Attach, Strongest
  <2> DEFINE v == IF Value(Current, anchor) < 0 THEN 0 ELSE Value(Current, anchor)
             t == Compose(ToAnchor(through), Transform(Current, through))
  <2>3. /\ link' = Stored(Current, anchor, v, t)
        /\ joined' = Append(joined, Current)
        /\ UNCHANGED <<measured, anchor>>
    BY <2>1, <2>2 DEF Join
  <2>4. /\ Current \in Samples /\ Current \notin Members
        /\ anchor \in Samples /\ anchor \in Members /\ anchor # Current
    BY <2>2, CurrentFacts, AnchorMember DEF IInv, Stages
  <2>5. v > 2 => Found(Current, anchor)
    BY <2>4, ReadsMeasured DEF IInv
  <2> HIDE DEF v, t
  <2> QED BY <2>2, <2>3, <2>4, <2>5, StoredKeepsStrong DEF IInv
<1>4. CASE Establish
  <2>1. PICK best \in Strongest(Successful) :
          /\ anchor' = best
          /\ joined' = <<best, Current>>
    BY <1>4 DEF Establish
  <2>2. pc = "attach" /\ measured' = measured
    BY <1>4 DEF Establish
  <2>3. Found(Current, best) /\ Members' = {best, Current}
    <3>1. Found(Current, best)
      BY <2>2, CurrentFacts DEF Strongest
    <3>2. DOMAIN <<best, Current>> = 1..2
      OBVIOUS
    <3> QED BY <2>1, <3>1, <3>2 DEF Members, Range
  <2> SUFFICES ASSUME NEW m \in Members' \ {best}
               PROVE  measured'[Pair(m, best)] # Nothing
    BY <2>1 DEF StrongFound, Found
  <2> QED BY <2>2, <2>3 DEF Found
<1>5. ASSUME NEW s, NEW through, NEW t, s \in 0..Current - 1, s \notin Members,
             pc = "grow", Promote(s, through, t)
      PROVE  StrongFound'
  <2>1. /\ link' = Stored(s, anchor, 0, Compose(ToAnchor(through), t))
        /\ joined' = Append(joined, s) /\ UNCHANGED <<measured, anchor>>
    BY <1>5 DEF Promote
  <2>2. s \in Samples /\ anchor # -1
    BY <1>5, CurrentFacts DEF IInv, Stages
  <2> QED BY <1>5, <2>1, <2>2, StoredKeepsStrong DEF IInv
<1>6. CASE PromoteMatched
  <2>1. pc = "grow"
    BY <1>6 DEF PromoteMatched
  <2>2. PICK p \in Least(Promotable) : Promote(p, Current, Invert(Transform(Current, p)))
    BY <1>6 DEF PromoteMatched
  <2>3. p \in 0..Current - 1 /\ p \notin Members
    BY DEF Least, Promotable, Successful
  <2> QED BY <1>5, <2>1, <2>2, <2>3
<1>7. CASE Close
  <2>1. pc = "grow"
    BY <1>7 DEF Close, Walking
  <2>2. PICK c \in Least(Reachable(Seed)) : Promote(c, Seed, Transform(c, Seed))
    BY <1>7 DEF Close
  <2>3. c \in 0..Current - 1 /\ c \notin Members
    BY DEF Least, Reachable
  <2> QED BY <1>5, <2>1, <2>2, <2>3
<1>8. CASE NextSeed \/ Finish \/ StaysOutside \/ UNCHANGED vars
  BY <1>1, <1>8 DEF NextSeed, Finish, StaysOutside, Breaks, vars
<1> QED BY <1>2, <1>3, <1>4, <1>6, <1>7, <1>8 DEF Next, Integrate

-----------------------------------------------------------------------------
(* The walk.                                                               *)

Fresh ==
  /\ root = -1 /\ stack = <<>> /\ current = -1
  /\ group_root = [s \in Samples |-> -1]
  /\ parent = [s \in Samples |-> -1]

WalkType ==
  /\ root \in Kept \union {-1}
  /\ stack \in Seq(Kept)
  /\ current \in Kept \union {-1}
  /\ group_root \in [Samples -> Kept \union {-1}]
  /\ parent \in [Samples -> Kept \union {-1}]

Grouped == {s \in Samples : group_root[s] # -1}

Rooted == \A s \in Grouped : s \in Kept /\ group_root[group_root[s]] = group_root[s]

\* Only strong relations lead to a parent, and no root has one.
Parented ==
  \A s \in Samples : parent[s] # -1 =>
    /\ s \in Grouped /\ group_root[s] # s
    /\ parent[s] \in Kept /\ group_root[parent[s]] = group_root[s]
    /\ Strong(parent[s], s)

OnStack(s) == \E k \in 1..Len(stack) : stack[k] = s

\* What is being walked belongs to the root.
Active ==
  /\ root = -1 => stack = <<>> /\ current = -1
  /\ root # -1 => group_root[root] = root
  /\ \A s \in Kept : OnStack(s) \/ s = current => group_root[s] = root

\* A sample that is done with has its strong neighbours in its group.
Walked ==
  \A s \in Grouped, t \in Kept :
    Strong(s, t) /\ ~OnStack(s) /\ s # current => group_root[t] = group_root[s]

\* A set that no parent leads out of holds a sample with its root or neither.
Tied ==
  \A S \in SUBSET Samples :
    (\A s \in Samples : parent[s] # -1 => (s \in S <=> parent[s] \in S))
      => \A s \in Grouped : s \in S <=> group_root[s] \in S

SavedAll ==
  /\ root = -1 /\ Free = {}
  /\ relations = {[index |-> Index(p), value |-> link[p].value,
                   transform |-> link[p].transform] :
                    p \in {q \in Pairs : q[1] < count /\ Selected(q)}}

WalkInv ==
  /\ stage \in {"enrolling", "walking", "saved"}
  /\ stage = "enrolling" => Fresh
  /\ stage # "enrolling" => WalkType /\ Rooted /\ Parented /\ Active /\ Walked /\ Tied
  /\ stage = "saved" => SavedAll

ForestInv == IInv /\ StrongFound /\ WalkInv

LEMMA KeptFacts ==
  ASSUME Core
  PROVE  /\ Kept \subseteq Samples /\ Members \subseteq Kept /\ count \in Nat
         /\ -1 \notin Samples /\ -1 \notin Kept
         /\ \A s \in Kept : s < count
  BY GraphAssumption DEF Core, CoreType, NotYet, Kept, Samples

\* What has no candidates left has its strong neighbours in its group.
LEMMA CurrentWalked ==
  ASSUME Core, StrongFound, WalkInv, stage # "enrolling", current # -1, Candidates = {},
         NEW t \in Kept, Strong(current, t)
  PROVE  group_root[t] = root
<1>1. /\ current \in Kept /\ group_root[current] = root /\ root # -1
      /\ group_root \in [Samples -> Kept \union {-1}]
  BY DEF WalkInv, WalkType, Active
<1>2. t \in Samples /\ current \in Samples /\ t # current
  BY <1>1, KeptFacts DEF Strong
<1>3. t \in Grouped
  BY <1>2 DEF Candidates, Free, Grouped
<1>4. Strong(t, current)
  BY <1>2, RelationsFound
<1>5. CASE OnStack(t)
  BY <1>5 DEF WalkInv, Active
<1>6. CASE ~OnStack(t)
  BY <1>1, <1>2, <1>3, <1>4, <1>6 DEF WalkInv, Walked
<1> QED BY <1>5, <1>6

\* At the end of a walk every sample that has a group is done with.
LEMMA AllWalked ==
  ASSUME Core, StrongFound, WalkInv, stage # "enrolling", stack = <<>>, Candidates = {},
         NEW s \in Grouped, NEW t \in Kept, Strong(s, t)
  PROVE  group_root[t] = group_root[s]
<1>1. ~OnStack(s)
  BY DEF OnStack
<1>2. CASE s = current
  <2>1. s \in Kept /\ s # -1
    BY KeptFacts DEF WalkInv, Rooted
  <2>2. group_root[s] = root
    BY <1>2, <2>1 DEF WalkInv, Active
  <2> QED BY <1>2, <2>1, <2>2, CurrentWalked
<1>3. CASE s # current
  BY <1>1, <1>3 DEF WalkInv, Walked
<1> QED BY <1>2, <1>3

\* No weak relation leads from a walked group to a sample without one.
LEMMA NothingWeak ==
  ASSUME Core, StrongFound, WalkInv, stage # "enrolling", root # -1, stack = <<>>,
         Candidates = {}
  PROVE  {c \in Free : Weak(root, c)} = {}
<1> SUFFICES ASSUME NEW c \in Free, Weak(root, c) PROVE FALSE
  OBVIOUS
<1>1. /\ c \in Kept /\ c \in Samples /\ group_root[c] = -1
      /\ root \in Kept /\ root \in Samples /\ group_root[root] = root /\ c # root
      /\ root \in Grouped
  BY KeptFacts DEF Free, WalkInv, WalkType, Active, Grouped
<1>2. ~Strong(root, c)
  BY <1>1, AllWalked
<1>3. root \in Members /\ c \in Members
  BY <1>1, <1>2, RelationsFound
<1> DEFINE S == {s \in Kept : group_root[s] = root}
<1>4. ASSUME NEW i \in Members, NEW j \in Members, Strong(i, j), i \in S PROVE j \in S
  <2>1. i \in Grouped /\ j \in Kept
    BY <1>4, KeptFacts DEF Grouped
  <2> QED BY <1>4, <2>1, AllWalked
<1>5. \A i, j \in Members : Strong(i, j) => (i \in S <=> j \in S)
  <2> SUFFICES ASSUME NEW i \in Members, NEW j \in Members, Strong(i, j)
               PROVE  i \in S <=> j \in S
    OBVIOUS
  <2>1. i \in Samples /\ j \in Samples /\ i # j
    BY KeptFacts DEF Strong
  <2>2. Strong(j, i)
    BY <2>1, RelationsFound
  <2> HIDE DEF S
  <2> QED BY <1>4, <2>2
<1>6. root \in S <=> c \in S
  <2> HIDE DEF S
  <2> QED BY <1>3, <1>5, MembersTied
<1> QED BY <1>1, <1>6

-----------------------------------------------------------------------------
(* The steps.                                                              *)

\* A step of the walk leaves the graph, and what is known of it, alone.
LEMMA GraphRests ==
  ASSUME ForestInv, UNCHANGED vars
  PROVE  /\ IInv' /\ StrongFound' /\ Kept' = Kept /\ Samples' = Samples
         /\ \A s, t : Strong(s, t)' = Strong(s, t)
<1>1. IInv' /\ StrongFound'
  BY StutterKeeps, StrongFoundKeeps DEF ForestInv
<1>2. \A s, t : Strong(s, t)' = Strong(s, t)
  BY DEF vars, Strong, Value
<1> QED BY <1>1, <1>2 DEF vars, Kept, Samples

LEMMA EnrollKeeps ==
  ASSUME ForestInv, Enroll
  PROVE  ForestInv'
<1>1. IInv' /\ StrongFound'
  BY GraphNext, StrongFoundKeeps DEF ForestInv, Enroll
<1>2. WalkInv'
  BY DEF ForestInv, WalkInv, Enroll, walk, Fresh, Samples
<1> QED BY <1>1, <1>2 DEF ForestInv

LEMMA BeginKeeps ==
  ASSUME ForestInv, BeginWalk
  PROVE  ForestInv'
<1>1. /\ stage = "enrolling" /\ stage' = "walking" /\ UNCHANGED vars /\ UNCHANGED walk
  BY DEF BeginWalk
<1>2. IInv' /\ StrongFound' /\ Kept' = Kept /\ Samples' = Samples
  BY <1>1, GraphRests
<1>3. /\ root' = -1 /\ stack' = <<>> /\ current' = -1 /\ Len(stack') = 0
      /\ group_root' = [s \in Samples |-> -1] /\ parent' = [s \in Samples |-> -1]
  BY <1>1 DEF ForestInv, WalkInv, Fresh, walk
<1>4. Grouped' = {}
  BY <1>2, <1>3 DEF Grouped
<1>5. -1 \notin Kept
  BY KeptFacts DEF ForestInv, IInv
<1>6. WalkType'
  BY <1>2, <1>3 DEF WalkType
<1>7. Rooted' /\ Walked'
  BY <1>4 DEF Rooted, Walked
<1>8. Tied'
  BY <1>4 DEF Tied
<1>9. Parented'
  BY <1>2, <1>3 DEF Parented
<1>10. Active'
  BY <1>2, <1>3, <1>5 DEF Active, OnStack
<1> QED BY <1>1, <1>2, <1>6, <1>7, <1>8, <1>9, <1>10 DEF ForestInv, WalkInv

\* A root has no parent and nothing leads from what is done with to it.
LEMMA NextRootKeeps ==
  ASSUME ForestInv, NextRoot
  PROVE  ForestInv'
<1>1. /\ stage = "walking" /\ root = -1 /\ UNCHANGED <<vars, stage, current, parent, relations>>
  BY DEF NextRoot
<1>2. PICK r \in Least(Free) : /\ root' = r
                              /\ group_root' = [group_root EXCEPT ![r] = r]
                              /\ stack' = <<r>>
  BY DEF NextRoot
<1>3. /\ IInv' /\ StrongFound' /\ Kept' = Kept /\ Samples' = Samples
      /\ \A s, t : Strong(s, t)' = Strong(s, t)
  BY <1>1, GraphRests
<1>4. /\ WalkType /\ Rooted /\ Parented /\ Active /\ Walked /\ Tied /\ Core
      /\ stack = <<>> /\ current = -1 /\ Len(stack) = 0
  BY <1>1 DEF ForestInv, WalkInv, Active, IInv
<1>5. /\ r \in Kept /\ r \in Samples /\ group_root[r] = -1 /\ r \notin Grouped /\ r # -1
      /\ Kept \subseteq Samples /\ -1 \notin Kept
  BY <1>4, KeptFacts DEF Least, Free, Grouped
<1>6. /\ group_root' \in [Samples -> Kept \union {-1}]
      /\ \A s \in Samples : group_root'[s] = IF s = r THEN r ELSE group_root[s]
      /\ Grouped' = Grouped \union {r}
  BY <1>2, <1>3, <1>4, <1>5 DEF WalkType, Grouped
<1>7. stack' \in Seq(Kept) /\ Len(stack') = 1 /\ stack'[1] = r
  BY <1>2, <1>5
<1>8. \A s : OnStack(s)' <=> s = r
  BY <1>7 DEF OnStack
<1>9. WalkType'
  BY <1>1, <1>2, <1>3, <1>4, <1>5, <1>6, <1>7 DEF WalkType
<1>10. Rooted'
  <2> SUFFICES ASSUME NEW s \in Grouped'
               PROVE  s \in Kept /\ group_root'[group_root'[s]] = group_root'[s]
    BY <1>3 DEF Rooted
  <2>1. CASE s = r
    BY <2>1, <1>5, <1>6
  <2>2. CASE s # r
    <3>1. s \in Grouped /\ s \in Samples
      BY <2>2, <1>6 DEF Grouped
    <3>2. /\ s \in Kept /\ group_root[group_root[s]] = group_root[s] /\ group_root[s] # -1
          /\ group_root[s] \in Samples
      BY <3>1, <1>4, <1>5 DEF Rooted, Grouped, WalkType
    <3>3. group_root[s] # r
      BY <3>2, <1>5
    <3> QED BY <2>2, <3>1, <3>2, <3>3, <1>6
  <2> QED BY <2>1, <2>2
<1>11. Parented'
  <2> SUFFICES ASSUME NEW s \in Samples, parent[s] # -1
               PROVE  /\ s \in Grouped' /\ group_root'[s] # s
                      /\ parent[s] \in Kept /\ group_root'[parent[s]] = group_root'[s]
                      /\ Strong(parent[s], s)
    BY <1>1, <1>3 DEF Parented
  <2>1. /\ s \in Grouped /\ group_root[s] # s
        /\ parent[s] \in Kept /\ group_root[parent[s]] = group_root[s]
        /\ Strong(parent[s], s)
    BY <1>4 DEF Parented
  <2>2. s # r /\ parent[s] # r /\ parent[s] \in Samples
    BY <2>1, <1>5 DEF Grouped
  <2> QED BY <2>1, <2>2, <1>6
<1>12. Active'
  <2>1. root' # -1 /\ group_root'[root'] = root'
    BY <1>2, <1>5, <1>6
  <2>2. ASSUME NEW s \in Kept, OnStack(s)' \/ s = current PROVE group_root'[s] = root'
    BY <2>2, <1>2, <1>4, <1>5, <1>6, <1>8
  <2> QED BY <2>1, <2>2, <1>1, <1>3 DEF Active
<1>13. Walked'
  <2> SUFFICES ASSUME NEW s \in Grouped', NEW t \in Kept, Strong(s, t), s # r
               PROVE  group_root'[t] = group_root'[s]
    BY <1>3, <1>8 DEF Walked
  <2>1. s \in Grouped /\ s \in Kept /\ s # current /\ ~OnStack(s) /\ t \in Samples
        /\ s \in Samples /\ group_root[s] # -1
    BY <1>4, <1>5, <1>6 DEF Rooted, OnStack, Grouped
  <2>2. group_root[t] = group_root[s]
    BY <2>1, <1>4 DEF Walked
  <2>3. t # r
    BY <2>1, <2>2, <1>5
  <2> QED BY <2>1, <2>2, <2>3, <1>6
<1>14. Tied'
  <2> SUFFICES ASSUME NEW S \in SUBSET Samples,
                      \A s \in Samples : parent[s] # -1 => (s \in S <=> parent[s] \in S),
                      NEW s \in Grouped'
               PROVE  s \in S <=> group_root'[s] \in S
    BY <1>1, <1>3 DEF Tied
  <2>1. CASE s = r
    BY <2>1, <1>5, <1>6
  <2>2. CASE s # r
    <3>1. s \in Grouped /\ group_root'[s] = group_root[s]
      BY <2>2, <1>6 DEF Grouped
    <3> QED BY <3>1, <1>4 DEF Tied
  <2> QED BY <2>1, <2>2
<1> QED BY <1>1, <1>3, <1>9, <1>10, <1>11, <1>12, <1>13, <1>14 DEF ForestInv, WalkInv

\* A sample that is pushed comes into the group of the one it was found from.
LEMMA PushKeeps ==
  ASSUME ForestInv, Push
  PROVE  ForestInv'
<1>1. stage = "walking" /\ UNCHANGED <<vars, stage, root, current, relations>>
  BY DEF Push
<1>2. PICK c \in Candidates : Assign({c}, current) /\ stack' = Append(stack, c)
  BY DEF Push
<1>3. /\ IInv' /\ StrongFound' /\ Kept' = Kept /\ Samples' = Samples
      /\ \A s, t : Strong(s, t)' = Strong(s, t)
  BY <1>1, GraphRests
<1>4. /\ WalkType /\ Rooted /\ Parented /\ Active /\ Walked /\ Tied /\ Core
  BY <1>1 DEF ForestInv, WalkInv, IInv
<1>5. /\ c \in Kept /\ c \in Samples /\ group_root[c] = -1 /\ c \notin Grouped
      /\ current # -1 /\ current \in Kept /\ Strong(current, c) /\ c # current
      /\ Kept \subseteq Samples /\ -1 \notin Kept
  BY <1>4, KeptFacts DEF Candidates, Free, Grouped, WalkType, Strong
<1>6. /\ group_root[current] = root /\ root # -1 /\ root \in Kept /\ group_root[root] = root
      /\ root # c
  BY <1>4, <1>5 DEF Active, WalkType
<1>7. parent[c] = -1
  BY <1>4, <1>5 DEF Parented
<1>8. /\ group_root' \in [Samples -> Kept \union {-1}]
      /\ \A s \in Samples : group_root'[s] = IF s = c THEN root ELSE group_root[s]
      /\ parent' \in [Samples -> Kept \union {-1}]
      /\ \A s \in Samples : parent'[s] = IF s = c THEN current ELSE parent[s]
  BY <1>2, <1>4, <1>5, <1>6 DEF WalkType, Assign
<1>9. Grouped' = Grouped \union {c}
  BY <1>3, <1>5, <1>6, <1>8 DEF Grouped
<1>10. /\ stack' \in Seq(Kept)
       /\ \A s : OnStack(s)' <=> OnStack(s) \/ s = c
  <2>1. stack \in Seq(Kept) /\ Len(stack) \in Nat
    BY <1>4, LenProperties DEF WalkType
  <2>2. /\ stack' \in Seq(Kept) /\ Len(stack') = Len(stack) + 1
        /\ \A k \in 1..Len(stack) : stack'[k] = stack[k]
        /\ stack'[Len(stack) + 1] = c
    BY <2>1, <1>2, <1>5, AppendProperties
  <2> SUFFICES ASSUME NEW s PROVE OnStack(s)' <=> OnStack(s) \/ s = c
    BY <2>2
  <2>3. ASSUME OnStack(s)' PROVE OnStack(s) \/ s = c
    <3>1. PICK k \in 1..Len(stack') : stack'[k] = s
      BY <2>3 DEF OnStack
    <3>2. CASE k \in 1..Len(stack)
      BY <3>1, <3>2, <2>2 DEF OnStack
    <3>3. CASE k = Len(stack) + 1
      BY <3>1, <3>3, <2>2
    <3> QED BY <3>2, <3>3, <2>1, <2>2
  <2>4. ASSUME OnStack(s) PROVE OnStack(s)'
    <3>1. PICK k \in 1..Len(stack) : stack[k] = s
      BY <2>4 DEF OnStack
    <3>2. k \in 1..Len(stack') /\ stack'[k] = s
      BY <3>1, <2>1, <2>2
    <3> QED BY <3>2 DEF OnStack
  <2>5. s = c => OnStack(s)'
    BY <2>1, <2>2 DEF OnStack
  <2> QED BY <2>3, <2>4, <2>5
<1>11. WalkType'
  BY <1>1, <1>3, <1>4, <1>8, <1>10 DEF WalkType
<1>12. \A s \in Grouped : s # c /\ s \in Samples /\ s \in Kept /\ group_root'[s] = group_root[s]
  BY <1>4, <1>5, <1>8 DEF Grouped, Rooted
<1>13. Rooted'
  <2> SUFFICES ASSUME NEW s \in Grouped'
               PROVE  s \in Kept /\ group_root'[group_root'[s]] = group_root'[s]
    BY <1>3 DEF Rooted
  <2>1. CASE s = c
    BY <2>1, <1>5, <1>6, <1>8
  <2>2. CASE s # c
    <3>1. s \in Grouped
      BY <2>2, <1>9
    <3>2. /\ s \in Kept /\ group_root[group_root[s]] = group_root[s] /\ group_root[s] # -1
          /\ group_root[s] \in Samples
      BY <3>1, <1>4, <1>5 DEF Rooted, Grouped, WalkType
    <3>3. group_root[s] \in Grouped
      BY <3>2 DEF Grouped
    <3> QED BY <3>1, <3>2, <3>3, <1>12
  <2> QED BY <2>1, <2>2
<1>14. Parented'
  <2> SUFFICES ASSUME NEW s \in Samples, parent'[s] # -1
               PROVE  /\ s \in Grouped' /\ group_root'[s] # s
                      /\ parent'[s] \in Kept /\ group_root'[parent'[s]] = group_root'[s]
                      /\ Strong(parent'[s], s)
    BY <1>3 DEF Parented
  <2>1. CASE s = c
    BY <2>1, <1>5, <1>6, <1>8, <1>9
  <2>2. CASE s # c
    <3>1. /\ s \in Grouped /\ group_root[s] # s /\ parent'[s] = parent[s]
          /\ parent[s] \in Kept /\ group_root[parent[s]] = group_root[s]
          /\ Strong(parent[s], s)
      BY <2>2, <1>4, <1>8 DEF Parented
    <3>2. parent[s] \in Grouped
      BY <3>1, <1>5 DEF Grouped
    <3> QED BY <3>1, <3>2, <1>9, <1>12
  <2> QED BY <2>1, <2>2
<1>15. Active'
  <2>1. root' = root /\ group_root'[root'] = root'
    BY <1>1, <1>5, <1>6, <1>8
  <2>2. ASSUME NEW s \in Kept, OnStack(s)' \/ s = current PROVE group_root'[s] = root
    BY <2>2, <1>4, <1>5, <1>8, <1>10 DEF Active
  <2> QED BY <2>1, <2>2, <1>1, <1>3, <1>6 DEF Active
<1>16. Walked'
  <2> SUFFICES ASSUME NEW s \in Grouped', NEW t \in Kept, Strong(s, t), s # c, s # current,
                      ~OnStack(s)
               PROVE  group_root'[t] = group_root'[s]
    BY <1>1, <1>3, <1>10 DEF Walked
  <2>1. s \in Grouped /\ t \in Samples /\ group_root[s] # -1
    BY <1>5, <1>9 DEF Grouped
  <2>2. group_root[t] = group_root[s]
    BY <2>1, <1>4 DEF Walked
  <2>3. t \in Grouped
    BY <2>1, <2>2 DEF Grouped
  <2> QED BY <2>1, <2>2, <2>3, <1>12
<1>17. Tied'
  <2> SUFFICES ASSUME NEW S \in SUBSET Samples,
                      \A s \in Samples : parent'[s] # -1 => (s \in S <=> parent'[s] \in S),
                      NEW s \in Grouped'
               PROVE  s \in S <=> group_root'[s] \in S
    BY <1>3 DEF Tied
  <2>1. \A i \in Samples : parent[i] # -1 => (i \in S <=> parent[i] \in S)
    BY <1>7, <1>8
  <2>2. \A i \in Grouped : i \in S <=> group_root[i] \in S
    BY <2>1, <1>4 DEF Tied
  <2>3. CASE s = c
    <3>1. c \in S <=> current \in S
      BY <1>5, <1>8
    <3>2. current \in Grouped
      BY <1>5, <1>6 DEF Grouped
    <3> QED BY <2>2, <2>3, <3>1, <3>2, <1>5, <1>6, <1>8
  <2>4. CASE s # c
    BY <2>2, <2>4, <1>9, <1>12
  <2> QED BY <2>3, <2>4
<1> QED BY <1>1, <1>3, <1>11, <1>13, <1>14, <1>15, <1>16, <1>17 DEF ForestInv, WalkInv

\* What has been popped before and has no candidates left is done with.
LEMMA PopKeeps ==
  ASSUME ForestInv, Pop
  PROVE  ForestInv'
<1>1. /\ stage = "walking" /\ stack # <<>> /\ Candidates = {}
      /\ current' = stack[Len(stack)] /\ stack' = SubSeq(stack, 1, Len(stack) - 1)
      /\ UNCHANGED <<vars, stage, root, group_root, parent, relations>>
  BY DEF Pop
<1>2. /\ IInv' /\ StrongFound' /\ Kept' = Kept /\ Samples' = Samples
      /\ \A s, t : Strong(s, t)' = Strong(s, t)
  BY <1>1, GraphRests
<1>3. /\ WalkType /\ Rooted /\ Parented /\ Active /\ Walked /\ Tied /\ Core /\ StrongFound
      /\ WalkInv /\ -1 \notin Kept
  BY <1>1, KeptFacts DEF ForestInv, WalkInv, IInv
<1>4. /\ Len(stack) \in Nat /\ Len(stack) >= 1 /\ \A k \in 1..Len(stack) : stack[k] \in Kept
  <2>1. stack \in Seq(Kept)
    BY <1>3 DEF WalkType
  <2> QED BY <1>1, <2>1, LenProperties, EmptySeq, ElementOfSeq
<1>5. /\ stack' \in Seq(Kept) /\ Len(stack') = Len(stack) - 1
      /\ \A k \in 1..Len(stack) - 1 : stack'[k] = stack[k]
  <2> DEFINE n == Len(stack) - 1
             f == SubSeq(stack, 1, n)
  <2>1. n \in Nat /\ \A k \in 1..n : stack[k] \in Kept
    BY <1>4
  <2>2. stack' = f /\ n = Len(stack) - 1
    BY <1>1
  <2>3. /\ f \in Seq(Kept)
        /\ Len(f) = IF 1 <= n THEN n - 1 + 1 ELSE 0
        /\ \A k \in 1..n - 1 + 1 : f[k] = stack[1 + k - 1]
    <3> HIDE DEF n
    <3>1. n \in Int /\ 1 \in Int
      BY <2>1
    <3> QED BY <2>1, <3>1, SubSeqProperties
  <2> HIDE DEF n, f
  <2>4. n - 1 + 1 = n /\ Len(f) = n
    BY <2>1, <2>3
  <2>5. ASSUME NEW k \in 1..n PROVE f[k] = stack[k]
    <3>1. k \in Nat /\ 1 + k - 1 = k
      BY <2>1
    <3> QED BY <2>3, <2>4, <3>1
  <2> QED BY <2>2, <2>3, <2>4, <2>5
<1>6. /\ current' \in Kept /\ current' # -1
      /\ \A s : OnStack(s)' \/ s = current' <=> OnStack(s)
  <2>1. current' \in Kept /\ current' # -1
    BY <1>1, <1>3, <1>4
  <2> SUFFICES ASSUME NEW s PROVE OnStack(s)' \/ s = current' <=> OnStack(s)
    BY <2>1
  <2>2. ASSUME OnStack(s) PROVE OnStack(s)' \/ s = current'
    <3>1. PICK k \in 1..Len(stack) : stack[k] = s
      BY <2>2 DEF OnStack
    <3>2. CASE k = Len(stack)
      BY <1>1, <3>1, <3>2
    <3>3. CASE k # Len(stack)
      <4>1. k \in 1..Len(stack') /\ stack'[k] = s
        BY <3>1, <3>3, <1>4, <1>5
      <4> QED BY <4>1 DEF OnStack
    <3> QED BY <3>2, <3>3
  <2>3. ASSUME OnStack(s)' PROVE OnStack(s)
    <3>1. PICK k \in 1..Len(stack') : stack'[k] = s
      BY <2>3 DEF OnStack
    <3>2. k \in 1..Len(stack) /\ stack[k] = s
      BY <3>1, <1>4, <1>5
    <3> QED BY <3>2 DEF OnStack
  <2>4. s = current' => OnStack(s)
    BY <1>1, <1>4 DEF OnStack
  <2> QED BY <2>2, <2>3, <2>4
<1>7. WalkType'
  BY <1>1, <1>2, <1>3, <1>5, <1>6 DEF WalkType
<1>8. Grouped' = Grouped
  BY <1>1, <1>2 DEF Grouped
<1>9. Rooted'
  BY <1>1, <1>2, <1>3, <1>8 DEF Rooted
<1>10. Parented'
  BY <1>1, <1>2, <1>3, <1>8 DEF Parented
<1>11. Active'
  <2>1. root # -1
    BY <1>1, <1>3 DEF Active
  <2>2. ASSUME NEW s \in Kept, OnStack(s)' \/ s = current' PROVE group_root[s] = root
    BY <2>2, <1>3, <1>6 DEF Active
  <2> QED BY <2>1, <2>2, <1>1, <1>2, <1>3 DEF Active
<1>12. Walked'
  <2> SUFFICES ASSUME NEW s \in Grouped, NEW t \in Kept, Strong(s, t), ~OnStack(s)
               PROVE  group_root[t] = group_root[s]
    BY <1>1, <1>2, <1>6, <1>8 DEF Walked
  <2>1. CASE s = current
    <3>1. s \in Kept /\ s # -1
      BY <1>3 DEF Rooted
    <3>2. group_root[s] = root
      BY <1>3, <2>1, <3>1 DEF Active
    <3>3. group_root[t] = root
      BY <1>1, <1>3, <2>1, <3>1, CurrentWalked
    <3> QED BY <3>2, <3>3
  <2>2. CASE s # current
    BY <2>2, <1>3 DEF Walked
  <2> QED BY <2>1, <2>2
<1>13. Tied'
  BY <1>1, <1>2, <1>3, <1>8 DEF Tied
<1> QED BY <1>1, <1>2, <1>7, <1>9, <1>10, <1>11, <1>12, <1>13 DEF ForestInv, WalkInv

\* The walk from a root ends; the pass over the rest finds nothing.
LEMMA AttachWeakKeeps ==
  ASSUME ForestInv, AttachWeak
  PROVE  ForestInv'
<1>1. /\ stage = "walking" /\ root # -1 /\ stack = <<>> /\ Candidates = {}
      /\ Assign({c \in Free : Weak(root, c)}, root)
      /\ root' = -1 /\ current' = -1
      /\ UNCHANGED <<vars, stage, stack, relations>>
  BY DEF AttachWeak
<1>2. /\ IInv' /\ StrongFound' /\ Kept' = Kept /\ Samples' = Samples
      /\ \A s, t : Strong(s, t)' = Strong(s, t)
  BY <1>1, GraphRests
<1>3. /\ WalkType /\ Rooted /\ Parented /\ Active /\ Walked /\ Tied /\ Core /\ StrongFound
      /\ WalkInv /\ -1 \notin Kept
  BY <1>1, KeptFacts DEF ForestInv, WalkInv, IInv
<1>4. {c \in Free : Weak(root, c)} = {}
  BY <1>1, <1>3, NothingWeak
<1>5. group_root' = group_root /\ parent' = parent
  <2>1. /\ group_root' = [s \in Samples |-> group_root[s]]
        /\ parent' = [s \in Samples |-> parent[s]]
    BY <1>1, <1>4 DEF Assign
  <2> QED BY <2>1, <1>3 DEF WalkType
<1>6. Grouped' = Grouped /\ stack' = <<>> /\ Len(stack') = 0
  BY <1>1, <1>2, <1>5 DEF Grouped
<1>7. WalkType' /\ Rooted' /\ Parented' /\ Tied'
  BY <1>1, <1>2, <1>3, <1>5, <1>6 DEF WalkType, Rooted, Parented, Tied
<1>8. Active'
  BY <1>1, <1>2, <1>3, <1>6 DEF Active, OnStack
<1>9. Walked'
  <2>1. \A s \in Grouped, t \in Kept : Strong(s, t) => group_root[t] = group_root[s]
    BY <1>1, <1>3, AllWalked
  <2> QED BY <2>1, <1>2, <1>5, <1>6 DEF Walked
<1> QED BY <1>1, <1>2, <1>7, <1>8, <1>9 DEF ForestInv, WalkInv

LEMMA EncodeKeeps ==
  ASSUME ForestInv, Encode
  PROVE  ForestInv'
<1>1. /\ stage = "walking" /\ stage' = "saved" /\ root = -1 /\ Free = {}
      /\ relations' = {[index |-> Index(p), value |-> link[p].value,
                        transform |-> link[p].transform] :
                         p \in {q \in Pairs : q[1] < count /\ Selected(q)}}
      /\ UNCHANGED vars /\ UNCHANGED <<root, stack, current, group_root, parent>>
  BY DEF Encode, walk
<1>2. /\ IInv' /\ StrongFound' /\ Kept' = Kept /\ Samples' = Samples
      /\ \A s, t : Strong(s, t)' = Strong(s, t)
  BY <1>1, GraphRests
<1>3. WalkType /\ Rooted /\ Parented /\ Active /\ Walked /\ Tied
  BY <1>1 DEF ForestInv, WalkInv
<1>4. Grouped' = Grouped /\ \A s : OnStack(s)' = OnStack(s)
  BY <1>1, <1>2 DEF Grouped, OnStack
<1>5. WalkType' /\ Rooted' /\ Parented' /\ Tied'
  BY <1>1, <1>2, <1>3, <1>4 DEF WalkType, Rooted, Parented, Tied
<1>6. Active' /\ Walked'
  BY <1>1, <1>2, <1>3, <1>4 DEF Active, Walked
<1>7. SavedAll'
  <2>1. Pairs' = Pairs /\ Free' = Free /\ link' = link /\ count' = count
    BY <1>1, <1>2 DEF Pairs, Free, vars
  <2>2. \A p : Selected(p)' = Selected(p)
    BY <1>1, <2>1 DEF Selected
  <2> QED BY <1>1, <2>1, <2>2 DEF SavedAll
<1> QED BY <1>1, <1>2, <1>5, <1>6, <1>7 DEF ForestInv, WalkInv

LEMMA RestKeeps ==
  ASSUME ForestInv, UNCHANGED forestVars
  PROVE  ForestInv'
<1>1. /\ UNCHANGED vars /\ UNCHANGED <<stage, relations>>
      /\ UNCHANGED <<root, stack, current, group_root, parent>>
  BY DEF forestVars, walk
<1>2. /\ IInv' /\ StrongFound' /\ Kept' = Kept /\ Samples' = Samples
      /\ \A s, t : Strong(s, t)' = Strong(s, t)
  BY <1>1, GraphRests
<1>3. Grouped' = Grouped /\ \A s : OnStack(s)' = OnStack(s)
  BY <1>1, <1>2 DEF Grouped, OnStack
<1>4. CASE stage = "enrolling"
  BY <1>1, <1>2, <1>4 DEF ForestInv, WalkInv, Fresh
<1>5. CASE stage # "enrolling"
  <2>1. WalkType /\ Rooted /\ Parented /\ Active /\ Walked /\ Tied
    BY <1>5 DEF ForestInv, WalkInv
  <2>2. WalkType' /\ Rooted' /\ Parented' /\ Tied'
    BY <1>1, <1>2, <1>3, <2>1 DEF WalkType, Rooted, Parented, Tied
  <2>3. Active' /\ Walked'
    BY <1>1, <1>2, <1>3, <2>1 DEF Active, Walked
  <2>4. SavedAll => SavedAll'
    <3>1. Pairs' = Pairs /\ Free' = Free /\ link' = link /\ count' = count
      BY <1>1, <1>2 DEF Pairs, Free, vars
    <3>2. \A p : Selected(p)' = Selected(p) /\ Index(p)' = Index(p)
      BY <1>1, <3>1 DEF Selected, Index
    <3> QED BY <1>1, <3>1, <3>2 DEF SavedAll
  <2> QED BY <1>1, <1>2, <1>5, <2>2, <2>3, <2>4 DEF ForestInv, WalkInv
<1> QED BY <1>4, <1>5

LEMMA ForestStart == ForestInit => ForestInv
<1> SUFFICES ASSUME ForestInit PROVE ForestInv
  OBVIOUS
<1>1. IInv
  BY GraphInit DEF ForestInit
<1>2. StrongFound
  BY DEF ForestInit, Init, StrongFound, Members, Range
<1>3. WalkInv
  BY DEF ForestInit, WalkInv, Fresh
<1> QED BY <1>1, <1>2, <1>3 DEF ForestInv

\* The inductive invariant holds.
LEMMA ForestInvariant == ForestSpec => []ForestInv
<1>1. ForestInit => ForestInv
  BY ForestStart
<1>2. ForestInv /\ [ForestNext]_forestVars => ForestInv'
  BY EnrollKeeps, BeginKeeps, NextRootKeeps, PushKeeps, PopKeeps, AttachWeakKeeps,
     EncodeKeeps, RestKeeps DEF ForestNext
<1> QED BY <1>1, <1>2, PTL DEF ForestSpec

-----------------------------------------------------------------------------
(* The theorems.                                                           *)

\* A relation that is written leads to a parent, and all of these are written.
LEMMA WrittenParents ==
  ASSUME ForestInv, stage = "saved", NEW p \in Pairs, p[1] < count
  PROVE  /\ p[1] \in Kept /\ p[2] \in Kept /\ p[1] \in Samples /\ p[2] \in Samples /\ p[1] # p[2]
         /\ Pair(p[1], p[2]) = p /\ Value(p[1], p[2]) = link[p].value
         /\ Selected(p) <=> parent[p[1]] = p[2] \/ parent[p[2]] = p[1]
         /\ Selected(p) => Strong(p[1], p[2])
<1>1. Core /\ StrongFound /\ Parented
  BY DEF ForestInv, IInv, WalkInv
<1>2. /\ p[1] \in Samples /\ p[2] \in Samples /\ p[2] < p[1] /\ p = <<p[1], p[2]>>
      /\ p[1] \in Nat /\ p[2] \in Nat /\ count \in Nat
  BY <1>1, GraphAssumption DEF Pairs, Samples, Core, CoreType
<1>3. p[1] \in Kept /\ p[2] \in Kept /\ p[1] # p[2] /\ Pair(p[1], p[2]) = p
  BY <1>2 DEF Kept, Pair
<1>4. Value(p[1], p[2]) = link[p].value
  BY <1>3 DEF Value
<1>5. parent[p[1]] = p[2] => Strong(p[2], p[1]) /\ group_root[p[1]] # p[1]
  BY <1>1, <1>2 DEF Parented
<1>6. parent[p[2]] = p[1] => Strong(p[1], p[2]) /\ group_root[p[2]] # p[2]
  BY <1>1, <1>2 DEF Parented
<1>7. (Strong(p[1], p[2]) <=> Strong(p[2], p[1])) /\ Value(p[1], p[2]) \in Int
  BY <1>1, <1>2, <1>3, RelationsFound
<1>8. Strong(p[1], p[2]) => link[p].value >= 0
  BY <1>4, <1>7 DEF Strong
<1> QED BY <1>2, <1>3, <1>4, <1>5, <1>6, <1>7, <1>8 DEF Selected

\* The decoder reads back the relations that were written, each between its own pair.
LEMMA ReadBack ==
  ASSUME ForestInv, stage = "saved"
  PROVE  /\ \A r \in relations : \E p \in Pairs :
              /\ p[1] < count /\ Selected(p) /\ RelationIndices(r.index) = {p}
              /\ r = [index |-> Index(p), value |-> link[p].value, transform |-> link[p].transform]
         /\ Reopened = {[pair |-> p, value |-> link[p].value, transform |-> link[p].transform] :
                          p \in {q \in Pairs : q[1] < count /\ Selected(q)}}
<1>1. CoreType
  BY DEF ForestInv, IInv, Core
<1> DEFINE Written == {q \in Pairs : q[1] < count /\ Selected(q)}
           Record96(p) == [index |-> Index(p), value |-> link[p].value, transform |-> link[p].transform]
           Back(p) == [pair |-> p, value |-> link[p].value, transform |-> link[p].transform]
<1>2. relations = {Record96(p) : p \in Written}
  BY DEF ForestInv, WalkInv, SavedAll
<1>3. \A p \in Written : /\ RelationIndices(Index(p)) = {p} /\ Record96(p).index = Index(p)
                        /\ Record96(p).value = link[p].value
                        /\ Record96(p).transform = link[p].transform
  BY <1>1, IndexUndone
<1>4. ASSUME NEW r \in relations
      PROVE  \E p \in Written : /\ RelationIndices(r.index) = {p} /\ r = Record96(p)
                              /\ r.value = link[p].value /\ r.transform = link[p].transform
  <2>1. PICK p \in Written : r = Record96(p)
    BY <1>2
  <2> HIDE DEF Written
  <2> QED BY <2>1, <1>3
<1>5. ASSUME NEW b \in Reopened PROVE \E p \in Written : b = Back(p)
  <2>1. PICK r \in relations : \E q \in RelationIndices(r.index) :
          b = [pair |-> q, value |-> r.value, transform |-> r.transform]
    BY DEF Reopened
  <2>2. PICK p \in Written : /\ RelationIndices(r.index) = {p}
                            /\ r.value = link[p].value /\ r.transform = link[p].transform
    BY <1>4
  <2> HIDE DEF Written
  <2> QED BY <2>1, <2>2
<1>6. ASSUME NEW p \in Written PROVE Back(p) \in Reopened
  <2>1. Record96(p) \in relations /\ p \in RelationIndices(Record96(p).index)
    <3> HIDE DEF Written, Record96
    <3> QED BY <1>2, <1>3
  <2>2. Back(p) = [pair |-> p, value |-> Record96(p).value, transform |-> Record96(p).transform]
    BY <1>3
  <2> HIDE DEF Record96, Back
  <2> QED BY <2>1, <2>2 DEF Reopened
<1>7. Reopened = {Back(p) : p \in Written}
  <2> HIDE DEF Written, Back
  <2> QED BY <1>5, <1>6
<1>8. \A p \in Written : p \in Pairs /\ p[1] < count /\ Selected(p)
  OBVIOUS
<1> QED BY <1>4, <1>7, <1>8

\* The decoder takes every template and puts each relation between its own samples.
THEOREM DecoderTakesAll == ForestSpec => []DecoderAccepts
<1>1. ASSUME ForestInv PROVE DecoderAccepts
  <2> SUFFICES ASSUME stage = "saved"
               PROVE  /\ \A r \in relations : r.value >= 0 /\ RelationIndices(r.index) # {}
                      /\ \A q, r \in relations : q.index = r.index => q = r
                      /\ \A r \in Reopened : /\ r.value = link[r.pair].value
                                             /\ r.transform = link[r.pair].transform
                      /\ anchor \in Kept \union {-1}
    BY DEF DecoderAccepts
  <2>1. \A r \in relations : \E p \in Pairs :
          /\ p[1] < count /\ Selected(p) /\ RelationIndices(r.index) = {p}
          /\ r = [index |-> Index(p), value |-> link[p].value, transform |-> link[p].transform]
    BY <1>1, ReadBack
  <2>2. \A r \in relations : r.value >= 0 /\ RelationIndices(r.index) # {}
    <3> SUFFICES ASSUME NEW r \in relations PROVE r.value >= 0 /\ RelationIndices(r.index) # {}
      OBVIOUS
    <3>1. PICK p \in Pairs : /\ Selected(p) /\ RelationIndices(r.index) = {p}
                            /\ r.value = link[p].value
      BY <2>1
    <3> QED BY <3>1 DEF Selected
  <2>3. \A q, r \in relations : q.index = r.index => q = r
    <3> SUFFICES ASSUME NEW q \in relations, NEW r \in relations, q.index = r.index PROVE q = r
      OBVIOUS
    <3>1. PICK a \in Pairs : /\ RelationIndices(q.index) = {a}
                            /\ q = [index |-> Index(a), value |-> link[a].value, transform |-> link[a].transform]
      BY <2>1
    <3>2. PICK b \in Pairs : /\ RelationIndices(r.index) = {b}
                            /\ r = [index |-> Index(b), value |-> link[b].value, transform |-> link[b].transform]
      BY <2>1
    <3>3. a = b
      BY <3>1, <3>2
    <3> QED BY <3>1, <3>2, <3>3
  <2>4. \A r \in Reopened : r.value = link[r.pair].value /\ r.transform = link[r.pair].transform
    BY <1>1, ReadBack
  <2>5. anchor \in Kept \union {-1}
    BY <1>1, AnchorMember, KeptFacts DEF ForestInv, IInv
  <2> QED BY <2>2, <2>3, <2>4, <2>5
<1>2. ForestInv => DecoderAccepts
  BY <1>1
<1> QED BY <1>2, ForestInvariant, PTL

\* What registration connects is connected in the template, and nothing else is.
THEOREM NothingTornApart == ForestSpec => []ComponentsSurvive
<1>1. ASSUME ForestInv, stage = "saved"
      PROVE  Closed({r.pair : r \in Reopened}) = Closed(Registered)
  <2> DEFINE Written == {q \in Pairs : q[1] < count /\ Selected(q)}
  <2>1. {r.pair : r \in Reopened} = Written
    <3> DEFINE Back(p) == [pair |-> p, value |-> link[p].value, transform |-> link[p].transform]
    <3>1. Reopened = {Back(p) : p \in Written}
      BY <1>1, ReadBack
    <3>2. \A p : Back(p).pair = p
      OBVIOUS
    <3> HIDE DEF Written, Back
    <3> QED BY <3>1, <3>2
  <2>2. /\ Core /\ StrongFound /\ WalkType /\ Rooted /\ Parented /\ Active /\ Walked /\ Tied /\ WalkInv
        /\ root = -1 /\ Free = {} /\ stack = <<>> /\ current = -1 /\ Candidates = {}
    BY <1>1 DEF ForestInv, IInv, WalkInv, SavedAll, Active, Candidates
  <2>3. Kept \subseteq Samples /\ Kept \subseteq Grouped /\ Members \subseteq Kept
    BY <2>2, KeptFacts DEF Free, Grouped
  <2>4. \A s, t \in Kept : Strong(s, t) => group_root[t] = group_root[s]
    BY <1>1, <2>2, <2>3, AllWalked
  <2>5. ASSUME NEW S \in SUBSET Kept, \A e \in Written : e[1] \in S <=> e[2] \in S,
               NEW e \in Registered
        PROVE  e[1] \in S <=> e[2] \in S
    <3>1. \A s \in Samples : parent[s] # -1 => (s \in S <=> parent[s] \in S)
      <4> SUFFICES ASSUME NEW s \in Samples, parent[s] # -1 PROVE s \in S <=> parent[s] \in S
        OBVIOUS
      <4>1. /\ s \in Kept /\ parent[s] \in Kept /\ s # parent[s] /\ parent[s] \in Samples
        BY <2>2, <2>3 DEF Parented, Rooted, Strong
      <4> DEFINE p == Pair(s, parent[s])
      <4>2. p \in Pairs /\ (p = <<s, parent[s]>> \/ p = <<parent[s], s>>)
        BY <4>1, PairType DEF Pair
      <4>3. p[1] < count
        BY <2>2, <4>1, <4>2, KeptFacts
      <4>4. Selected(p)
        <5> HIDE DEF p
        <5> QED BY <1>1, <4>2, <4>3, WrittenParents
      <4>5. p \in Written
        <5> HIDE DEF p
        <5> QED BY <4>2, <4>3, <4>4
      <4> HIDE DEF p, Written
      <4> QED BY <2>5, <4>2, <4>5
    <3>2. \A s \in Kept : s \in S <=> group_root[s] \in S
      <4>1. S \in SUBSET Samples
        BY <2>3
      <4> QED BY <2>2, <2>3, <3>1, <4>1 DEF Tied
    <3>3. \A s, t \in Kept : Strong(s, t) => (s \in S <=> t \in S)
      BY <2>4, <3>2
    <3>4. /\ e \in Pairs /\ e[1] < count /\ measured[e] # Nothing
      BY DEF Registered
    <3>5. /\ e[1] \in Kept /\ e[2] \in Kept /\ e[1] \in Samples /\ e[2] \in Samples
          /\ e[1] # e[2] /\ Pair(e[1], e[2]) = e
      BY <1>1, <3>4, WrittenParents
    <3>6. Found(e[1], e[2])
      BY <3>4, <3>5 DEF Found
    <3>7. Strong(e[1], e[2]) \/ (e[1] \in Members /\ e[2] \in Members)
      BY <2>2, <3>5, <3>6, RelationsFound
    <3>8. \A i, j \in Members : i \in S <=> j \in S
      <4>1. \A i, j \in Members : Strong(i, j) => (i \in S <=> j \in S)
        BY <2>3, <3>3
      <4> QED BY <2>2, <4>1, MembersTied
    <3> QED BY <3>3, <3>5, <3>7, <3>8
  <2>6. ASSUME NEW S \in SUBSET Kept, \A e \in Registered : e[1] \in S <=> e[2] \in S,
               NEW e \in Written
        PROVE  e[1] \in S <=> e[2] \in S
    <3>1. e \in Pairs /\ e[1] < count /\ Selected(e)
      OBVIOUS
    <3>2. /\ e[1] \in Samples /\ e[2] \in Samples /\ e[1] # e[2] /\ Pair(e[1], e[2]) = e
          /\ Strong(e[1], e[2])
      BY <1>1, <3>1, WrittenParents
    <3>3. Found(e[1], e[2])
      BY <2>2, <3>2, RelationsFound
    <3>4. e \in Registered
      BY <3>1, <3>2, <3>3 DEF Registered, Found
    <3> QED BY <2>6, <3>4
  <2>7. Closed(Written) = Closed(Registered)
    <3> HIDE DEF Written
    <3> QED BY <2>5, <2>6 DEF Closed
  <2> QED BY <2>1, <2>7
<1>2. ForestInv => ComponentsSurvive
  BY <1>1 DEF ComponentsSurvive
<1> QED BY <1>2, ForestInvariant, PTL
=============================================================================
