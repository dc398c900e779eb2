------------------------------ MODULE GraphProofs ------------------------------
(***************************************************************************)
(* The canonical component for any number of samples, any group-like       *)
(* transforms and any outcome of the registrations: every sample in it is  *)
(* placed by a measured registration, none is ever moved, and the          *)
(* integration never meets a canonical sample whose way to the anchor is   *)
(* missing.                                                                *)
(*                                                                         *)
(* The properties are not inductive.  Core adds that a relation still says *)
(* what registration measured unless it leads from a canonical sample to   *)
(* the anchor, which is the only kind that promotion rewrites; Stages says *)
(* what each stage of the integration may rely on.  The last part bounds   *)
(* the rounds of an integration, and shows that none gets stuck.           *)
(***************************************************************************)
EXTENDS EnrollmentGraph, FiniteSets, SequenceTheorems, FiniteSetTheorems,
        FunctionTheorems, WellFoundedInduction, TLAPS

Record == [value : Int, transform : Transforms]
AsMeasured(m) == IF m = Nothing THEN Absent
                 ELSE [value |-> m.inliers, transform |-> m.transform]

CoreType ==
  /\ count \in 0..MaxSamples
  /\ measured \in [Pairs -> Measures \union {Nothing}]
  /\ link \in [Pairs -> Record]
  /\ anchor \in Samples \union {-1}
  /\ joined \in Seq(Samples)

\* Only the relations between the anchor and another canonical sample are rewritten.
LinksMeasured ==
  \A i, j \in Samples :
    i # j /\ ~(i = anchor /\ j \in Members) /\ ~(j = anchor /\ i \in Members)
      => link[Pair(i, j)] = AsMeasured(measured[Pair(i, j)])

\* No registration and no place for a sample that has not been added.
NotYet == /\ \A p \in Pairs : p[1] >= count => measured[p] = Nothing
          /\ Members \subseteq 0..count - 1

Distinct == \A j, k \in 1..Len(joined) : joined[j] = joined[k] => j = k

AllPlaced == \A s \in Members \ {anchor} : Value(s, anchor) >= 0

Core == CoreType /\ LinksMeasured /\ NotYet /\ Distinct /\ AllPlaced
        /\ MembersDerived /\ StronglyConnected

\* What each stage may rely on.
Stages ==
  /\ pc \in {"idle", "attach", "grow"}
  /\ pc = "idle" => flags = Members
  /\ pc = "attach" => count > 0 /\ Current \notin Members /\ promoted = <<>> /\ head = 0
  /\ pc = "grow" => anchor # -1 /\ Current \in Members /\ Current # anchor
  /\ \A k \in 1..Len(promoted) : promoted[k] \in Members \ {anchor, Current}

IInv == TypeOK /\ Core /\ Stages /\ ClosureComplete

-----------------------------------------------------------------------------
(* Pairs and transforms. *)

\* A pair of different samples has one record, whichever way it is named.
LEMMA PairType ==
  ASSUME NEW i \in Samples, NEW j \in Samples, i # j
  PROVE  Pair(i, j) \in Pairs /\ Pair(i, j) = Pair(j, i)
  BY GraphAssumption DEF Pair, Pairs, Samples

\* Different pairs have different records.
LEMMA PairApart ==
  ASSUME NEW i \in Samples, NEW j \in Samples, NEW k \in Samples, NEW l \in Samples,
         Pair(i, j) = Pair(k, l)
  PROVE  (i = k /\ j = l) \/ (i = l /\ j = k)
  BY DEF Pair

\* Storing a transform in either direction and reading it in the same one gives it
\* back (set_relation_source_to_target, relation_source_to_target).
LEMMA DirectedBack ==
  ASSUME NEW i, NEW j, NEW t \in Transforms
  PROVE  Directed(i, j, t) \in Transforms /\ Directed(i, j, Directed(i, j, t)) = t
  BY GraphAssumption DEF Directed

\* A registration or its absence has a transform.
LEMMA MeasureType ==
  /\ Nothing \notin Measures
  /\ \A m \in Measures \union {Nothing} : m.transform \in Transforms /\ AsMeasured(m) \in Record
  /\ \A m \in Measures : m.inliers \in Nat /\ m.inliers > 5
  <1>1. \A m \in Measures : /\ m.inliers \in Nat /\ m.inliers > 5
                            /\ m.transform \in Transforms
    BY MeasureAssumption
  <1>2. Nothing.inliers = 0 /\ Nothing.transform = Identity
    BY DEF Nothing
  <1> QED BY <1>1, <1>2, GraphAssumption DEF AsMeasured, Absent, Record

\* The transform of a registration, in either direction.
LEMMA DirectType ==
  ASSUME CoreType, NEW i \in Samples, NEW j \in Samples, i # j
  PROVE  Direct(i, j) \in Transforms
  <1>1. measured[Pair(i, j)].transform \in Transforms
    BY PairType, MeasureType DEF CoreType
  <1> QED BY <1>1, DirectedBack DEF Direct

\* The way of a sample to the anchor.
LEMMA ToAnchorType ==
  ASSUME CoreType, anchor # -1, NEW s \in Samples
  PROVE  ToAnchor(s) \in Transforms
  <1>1. CASE s = anchor BY <1>1, GraphAssumption DEF ToAnchor
  <1>2. CASE s # anchor
    <2>1. Pair(s, anchor) \in Pairs BY <1>2, PairType DEF CoreType
    <2>2. link[Pair(s, anchor)].transform \in Transforms BY <2>1 DEF CoreType, Record
    <2> QED BY <1>2, <2>2, DirectedBack DEF ToAnchor, Transform
  <1> QED BY <1>1, <1>2

\* Appending a sample to the component adds it and leaves the rest in order.
LEMMA JoinedGrows ==
  ASSUME CoreType, NEW s \in Samples, joined' = Append(joined, s)
  PROVE  /\ joined' \in Seq(Samples)
         /\ Len(joined) \in Nat
         /\ Len(joined') = Len(joined) + 1
         /\ \A k \in 1..Len(joined) : joined'[k] = joined[k]
         /\ joined'[Len(joined) + 1] = s
         /\ Members' = Members \union {s}
         /\ \A k \in 1..Len(joined) : joined[k] \in Members
         /\ \A m \in Members : \E k \in 1..Len(joined) : joined[k] = m
  <1>1. joined \in Seq(Samples) BY DEF CoreType
  <1>2. /\ joined' \in Seq(Samples)
        /\ Len(joined') = Len(joined) + 1
        /\ \A k \in 1..Len(joined) : joined'[k] = joined[k]
        /\ joined'[Len(joined) + 1] = s
    BY <1>1, AppendProperties
  <1>3. Len(joined) \in Nat /\ DOMAIN joined = 1..Len(joined) /\ DOMAIN joined' = 1..Len(joined')
    BY <1>1, <1>2, LenProperties
  <1>4. Members' = Members \union {s}
    BY <1>2, <1>3 DEF Members, Range
  <1>5. \A k \in 1..Len(joined) : joined[k] \in Members
    BY <1>3 DEF Members, Range
  <1>6. \A m \in Members : \E k \in 1..Len(joined) : joined[k] = m
    BY <1>3 DEF Members, Range
  <1> QED BY <1>2, <1>3, <1>4, <1>5, <1>6

\* Storing a relation changes that relation only.
LEMMA StoredOne ==
  ASSUME CoreType, NEW s \in Samples, NEW a \in Samples, s # a, NEW v \in Int,
         NEW t \in Transforms, NEW new, new = Stored(s, a, v, t)
  PROVE  /\ new \in [Pairs -> Record]
         /\ new[Pair(s, a)].value = v
         /\ Directed(s, a, new[Pair(s, a)].transform) = t
         /\ \A i, j \in Samples : i # j /\ ~(i = s /\ j = a) /\ ~(i = a /\ j = s)
                                => new[Pair(i, j)] = link[Pair(i, j)]
  <1>1. Pair(s, a) \in Pairs BY PairType
  <1>2. Directed(s, a, t) \in Transforms /\ Directed(s, a, Directed(s, a, t)) = t
    BY DirectedBack
  <1>3. link \in [Pairs -> Record] BY DEF CoreType
  <1>4. /\ new = [link EXCEPT ![Pair(s, a)] = [value |-> v, transform |-> Directed(s, a, t)]]
        /\ [value |-> v, transform |-> Directed(s, a, t)] \in Record
    BY <1>2 DEF Stored, Record
  <1>5. new \in [Pairs -> Record] BY <1>3, <1>4
  <1>6. new[Pair(s, a)] = [value |-> v, transform |-> Directed(s, a, t)]
    BY <1>1, <1>3, <1>4
  <1>7. ASSUME NEW i \in Samples, NEW j \in Samples, i # j, ~(i = s /\ j = a), ~(i = a /\ j = s)
        PROVE  new[Pair(i, j)] = link[Pair(i, j)]
    <2>1. Pair(i, j) \in Pairs BY <1>7, PairType
    <2>2. Pair(i, j) # Pair(s, a) BY <1>7, PairApart
    <2> QED BY <2>1, <2>2, <1>3, <1>4
  <1> QED BY <1>2, <1>5, <1>6, <1>7

-----------------------------------------------------------------------------
(* A sample is given its place. *)

\* A sample outside the component that registration matched with one inside joins it
\* (store_current_to_anchor and store_promoted_to_anchor): the component keeps its
\* shape and nobody in it moves.
LEMMA PlaceKeeps ==
  ASSUME Core, anchor # -1, NEW s \in 0..count - 1, s \notin Members,
         NEW through \in Members, NEW v \in Nat, Found(s, through),
         link' = Stored(s, anchor, v, Compose(ToAnchor(through), Direct(s, through))),
         joined' = Append(joined, s), UNCHANGED <<count, measured, anchor>>,
         through = anchor => v > 2
  PROVE  /\ Core'
         /\ Members' = Members \union {s}
         /\ \A m \in Members : ToAnchor(m)' = ToAnchor(m)
  <1> DEFINE way == Compose(ToAnchor(through), Direct(s, through))
  <1>1. /\ s \in Samples /\ through \in Samples /\ anchor \in Samples
        /\ Members \subseteq Samples /\ Members \subseteq 0..count - 1
    BY GraphAssumption DEF Core, CoreType, NotYet, Samples
  <1>2. anchor \in Members
    BY LenProperties DEF Core, CoreType, MembersDerived, Members, Range
  <1>3. s # anchor /\ s # through BY <1>2
  <1>4. way \in Transforms
    BY <1>1, <1>3, ToAnchorType, DirectType, GraphAssumption DEF Core
  <1>5. /\ link' \in [Pairs -> Record]
        /\ Value(s, anchor)' = v
        /\ Transform(s, anchor)' = way
        /\ \A i, j \in Samples : i # j /\ ~(i = s /\ j = anchor) /\ ~(i = anchor /\ j = s)
                                   => link'[Pair(i, j)] = link[Pair(i, j)]
    <2>1. /\ link' \in [Pairs -> Record]
          /\ link'[Pair(s, anchor)].value = v
          /\ Directed(s, anchor, link'[Pair(s, anchor)].transform) = way
          /\ \A i, j \in Samples : i # j /\ ~(i = s /\ j = anchor) /\ ~(i = anchor /\ j = s)
                                   => link'[Pair(i, j)] = link[Pair(i, j)]
      <3>1. CoreType /\ v \in Int /\ link' = Stored(s, anchor, v, way) BY DEF Core
      <3> HIDE DEF way
      <3> QED BY <3>1, <1>1, <1>3, <1>4, StoredOne
    <2> QED BY <2>1 DEF Value, Transform
  <1>6. /\ joined' \in Seq(Samples)
        /\ Len(joined) \in Nat
        /\ Len(joined') = Len(joined) + 1
        /\ \A k \in 1..Len(joined) : joined'[k] = joined[k]
        /\ joined'[Len(joined) + 1] = s
        /\ Members' = Members \union {s}
        /\ \A k \in 1..Len(joined) : joined[k] \in Members
        /\ \A m \in Members : \E k \in 1..Len(joined) : joined[k] = m
    BY <1>1, JoinedGrows DEF Core
  <1>7. CoreType' BY <1>5, <1>6 DEF Core, CoreType
  <1>8. LinksMeasured'
    <2> SUFFICES ASSUME NEW i \in Samples, NEW j \in Samples, i # j,
                        ~(i = anchor /\ j \in Members \union {s}),
                        ~(j = anchor /\ i \in Members \union {s})
                 PROVE  link'[Pair(i, j)] = AsMeasured(measured[Pair(i, j)])
      BY <1>6 DEF LinksMeasured
    <2> QED BY <1>5 DEF Core, LinksMeasured
  <1>9. NotYet' BY <1>6 DEF Core, NotYet
  <1>10. Distinct'
    <2> SUFFICES ASSUME NEW j \in 1..Len(joined) + 1, NEW k \in 1..Len(joined) + 1,
                        joined'[j] = joined'[k]
                 PROVE  j = k
      BY <1>6 DEF Distinct
    <2>1. CASE j \in 1..Len(joined) /\ k \in 1..Len(joined)
      BY <2>1, <1>6 DEF Core, Distinct
    <2>2. CASE j \in 1..Len(joined) /\ k = Len(joined) + 1
      <3>1. joined'[j] \in Members /\ joined'[k] = s BY <2>2, <1>6
      <3> QED BY <3>1
    <2>3. CASE j = Len(joined) + 1 /\ k \in 1..Len(joined)
      <3>1. joined'[k] \in Members /\ joined'[j] = s BY <2>3, <1>6
      <3> QED BY <3>1
    <2> QED BY <2>1, <2>2, <2>3, <1>6
  <1>11. AllPlaced'
    <2> SUFFICES ASSUME NEW m \in Members \union {s}, m # anchor
                 PROVE  Value(m, anchor)' >= 0
      BY <1>6 DEF AllPlaced
    <2>1. CASE m = s BY <2>1, <1>5
    <2>2. CASE m # s
      <3>1. link'[Pair(m, anchor)] = link[Pair(m, anchor)] BY <2>2, <1>1, <1>5
      <3> QED BY <3>1, <2>2 DEF Core, AllPlaced, Value
    <2> QED BY <2>1, <2>2
  <1>12. ASSUME NEW m \in Members PROVE ToAnchor(m)' = ToAnchor(m)
    <2>1. CASE m = anchor BY <2>1 DEF ToAnchor
    <2>2. CASE m # anchor
      <3>1. link'[Pair(m, anchor)] = link[Pair(m, anchor)] BY <2>2, <1>1, <1>5
      <3> QED BY <3>1, <2>2 DEF ToAnchor, Transform
    <2> QED BY <2>1, <2>2
  <1>13. ToAnchor(s)' = Compose(ToAnchor(through), Direct(s, through))
    BY <1>3, <1>5 DEF ToAnchor
  <1>14. MembersDerived'
    <2>1. (anchor # -1 <=> joined # <<>>)' /\ (joined # <<>> => joined[1] = anchor)'
      BY <1>6 DEF Core, MembersDerived
    <2>2. ASSUME NEW k \in 2..Len(joined)
          PROVE  \E j \in 1..k - 1 :
                   /\ Found(joined[k], joined[j])'
                   /\ ToAnchor(joined[k])' = Compose(ToAnchor(joined[j])', Direct(joined[k], joined[j])')
      <3>1. PICK j \in 1..k - 1 :
              /\ Found(joined[k], joined[j])
              /\ ToAnchor(joined[k]) = Compose(ToAnchor(joined[j]), Direct(joined[k], joined[j]))
        BY DEF Core, MembersDerived
      <3>2. joined'[k] = joined[k] /\ joined'[j] = joined[j] /\ joined[k] \in Members /\ joined[j] \in Members
        BY <1>6
      <3> DEFINE x == joined[k]
                 y == joined[j]
      <3>3. ToAnchor(x)' = ToAnchor(x) /\ ToAnchor(y)' = ToAnchor(y)
        BY <3>2, <1>12 DEF ToAnchor, Transform
      <3> QED BY <3>1, <3>2, <3>3 DEF Found, Direct
    <2>3. ASSUME NEW k \in 2..Len(joined) + 1, k = Len(joined) + 1
          PROVE  \E j \in 1..k - 1 :
                   /\ Found(joined[k], joined[j])'
                   /\ ToAnchor(joined[k])' = Compose(ToAnchor(joined[j])', Direct(joined[k], joined[j])')
      <3>1. PICK j \in 1..Len(joined) : joined[j] = through /\ joined'[j] = through
        BY <1>6
      <3>2. joined'[k] = s /\ j \in 1..k - 1 BY <1>6, <2>3
      <3>3. ToAnchor(through)' = ToAnchor(through) BY <1>12
      <3>4. /\ Found(joined[k], joined[j])'
            /\ ToAnchor(joined[k])' = ToAnchor(s)'
            /\ ToAnchor(joined[j])' = ToAnchor(through)'
            /\ Direct(joined[k], joined[j])' = Direct(s, through)
        BY <3>1, <3>2 DEF Found, Direct, ToAnchor, Transform
      <3> QED BY <3>2, <3>3, <3>4, <1>13
    <2>4. \A k \in 2..Len(joined)' : k \in 2..Len(joined) \/ (k = Len(joined) + 1 /\ k \in 2..Len(joined) + 1)
      BY <1>6
    <2>5. (\A k \in 2..Len(joined) : \E j \in 1..k - 1 :
              /\ Found(joined[k], joined[j])
              /\ ToAnchor(joined[k]) = Compose(ToAnchor(joined[j]), Direct(joined[k], joined[j])))'
      BY <2>2, <2>3, <2>4
    <2> QED BY <2>1, <2>5 DEF MembersDerived
  <1>15. StronglyConnected'
    <2>1. ASSUME NEW k \in 2..Len(joined)
          PROVE  \E j \in 1..k - 1 : Value(joined[k], joined[j])' > 2
      <3>1. PICK j \in 1..k - 1 : Value(joined[k], joined[j]) > 2
        BY DEF Core, StronglyConnected
      <3>2. /\ joined'[k] = joined[k] /\ joined'[j] = joined[j]
            /\ joined[k] \in Members /\ joined[j] \in Members
            /\ joined[k] # joined[j]
        BY <1>6 DEF Core, Distinct
      <3>3. link'[Pair(joined[k], joined[j])] = link[Pair(joined[k], joined[j])]
        BY <3>2, <1>1, <1>5
      <3> QED BY <3>1, <3>2, <3>3 DEF Value
    <2>2. Value(s, through)' > 2
      <3>1. CASE through = anchor BY <3>1, <1>5
      <3>2. CASE through # anchor
        <4>1. link'[Pair(s, through)] = link[Pair(s, through)]
          BY <3>2, <1>1, <1>3, <1>5
        <4>2. link[Pair(s, through)] = AsMeasured(measured[Pair(s, through)])
          BY <3>2, <1>1, <1>3 DEF Core, LinksMeasured
        <4>3. measured[Pair(s, through)] \in Measures
          BY <1>1, <1>3, PairType DEF Core, CoreType, Found
        <4> QED BY <4>1, <4>2, <4>3, MeasureType DEF AsMeasured, Value
      <3> QED BY <3>1, <3>2
    <2>3. ASSUME NEW k \in 2..Len(joined) + 1, k = Len(joined) + 1
          PROVE  \E j \in 1..k - 1 : Value(joined[k], joined[j])' > 2
      <3>1. PICK j \in 1..Len(joined) : joined[j] = through /\ joined'[j] = through
        BY <1>6
      <3>2. joined'[k] = s /\ j \in 1..k - 1 BY <1>6, <2>3
      <3> QED BY <3>1, <3>2, <2>2 DEF Value
    <2>4. \A k \in 2..Len(joined)' : k \in 2..Len(joined) \/ (k = Len(joined) + 1 /\ k \in 2..Len(joined) + 1)
      BY <1>6
    <2> QED BY <2>1, <2>3, <2>4 DEF StronglyConnected
  <1> QED BY <1>6, <1>7, <1>8, <1>9, <1>10, <1>11, <1>12, <1>14, <1>15 DEF Core

-----------------------------------------------------------------------------
(* The steps. *)

\* A relation the integration reads is still the measured one, and a match is in the
\* table: what Attach, promotion and closure compose is what registration said.
LEMMA ReadsMeasured ==
  ASSUME Core, NEW i \in Samples, NEW j \in Samples, i # j,
         ~(i = anchor /\ j \in Members), ~(j = anchor /\ i \in Members)
  PROVE  /\ Transform(i, j) = Direct(i, j)
         /\ Found(i, j) => Value(i, j) \in Nat /\ Value(i, j) > 5
         /\ ~Found(i, j) => Value(i, j) = -1
  <1>1. link[Pair(i, j)] = AsMeasured(measured[Pair(i, j)]) BY DEF Core, LinksMeasured
  <1>2. Pair(i, j) \in Pairs BY PairType
  <1>3. measured[Pair(i, j)] \in Measures \union {Nothing} BY <1>2 DEF Core, CoreType
  <1>4. CASE Found(i, j)
    <2>1. /\ measured[Pair(i, j)] \in Measures
          /\ link[Pair(i, j)].value = measured[Pair(i, j)].inliers
          /\ link[Pair(i, j)].transform = measured[Pair(i, j)].transform
      BY <1>1, <1>3, <1>4 DEF Found, AsMeasured
    <2> QED BY <1>4, <2>1, MeasureType DEF Transform, Direct, Value
  <1>5. CASE ~Found(i, j)
    <2>1. /\ link[Pair(i, j)].value = -1
          /\ link[Pair(i, j)].transform = measured[Pair(i, j)].transform
      BY <1>1, <1>5 DEF Found, AsMeasured, Absent, Nothing
    <2> QED BY <1>5, <2>1 DEF Transform, Direct, Value
  <1> QED BY <1>4, <1>5

\* The anchor is canonical.
LEMMA AnchorMember ==
  ASSUME Core
  PROVE  /\ anchor # -1 => anchor \in Members
         /\ anchor = -1 => Members = {}
         /\ Members \subseteq Samples
         /\ Members \subseteq Placed
  <1>1. joined \in Seq(Samples) /\ DOMAIN joined = 1..Len(joined) /\ Len(joined) \in Nat
    BY LenProperties DEF Core, CoreType
  <1>2. anchor # -1 => anchor \in Members
    <2> SUFFICES ASSUME anchor # -1 PROVE anchor \in Members OBVIOUS
    <2>1. joined # <<>> /\ joined[1] = anchor BY DEF Core, MembersDerived
    <2>2. 1 \in DOMAIN joined BY <1>1, <2>1, EmptySeq
    <2> QED BY <2>1, <2>2 DEF Members, Range
  <1>3. anchor = -1 => Members = {}
    BY <1>1 DEF Core, MembersDerived, Members, Range
  <1>4. Members \subseteq Samples
    BY <1>1, ElementOfSeq DEF Members, Range
  <1>5. Members \subseteq Placed BY DEF Core, AllPlaced, Placed
  <1> QED BY <1>2, <1>3, <1>4, <1>5

\* A new sample, and what registration makes of it, leave the component as it is.
LEMMA AddKeeps ==
  ASSUME IInv, NEW find \in [0..count - 1 -> Measures \union {Nothing}], AddSample(find)
  PROVE  IInv' /\ Members' = Members /\ (\A s \in Members : ToAnchor(s)' = ToAnchor(s))
  <1> USE DEF AddSample, Register
  <1>1. /\ count \in Nat /\ count < MaxSamples /\ count \in Samples /\ MaxSamples \in Nat
        /\ count' = count + 1 /\ Current' = count
    BY GraphAssumption DEF IInv, TypeOK, Samples, Current
  <1>2. \A p \in Pairs : p[1] \in Samples /\ p[2] \in Samples /\ p[2] < p[1] /\ p = <<p[1], p[2]>>
    BY DEF Pairs
  <1>3. \A p \in Pairs : p[1] = count => p[2] \in 0..count - 1
    BY <1>1, <1>2 DEF Samples
  <1>4. measured' \in [Pairs -> Measures \union {Nothing}]
    BY <1>3 DEF IInv, Core, CoreType
  <1>5. \A p \in Pairs : p[1] = count => link[p] = Absent
    <2> SUFFICES ASSUME NEW p \in Pairs, p[1] = count PROVE link[p] = Absent OBVIOUS
    <2>1. p[1] \notin Members /\ p[1] # anchor
      BY <1>1, AnchorMember DEF IInv, Core, NotYet
    <2>2. /\ p[1] \in Samples /\ p[2] \in Samples /\ p[1] # p[2]
          /\ ~(p[1] = anchor /\ p[2] \in Members) /\ ~(p[2] = anchor /\ p[1] \in Members)
          /\ Pair(p[1], p[2]) = p
      BY <1>1, <1>2, <2>1 DEF Pair, Samples
    <2>3. measured[p] = Nothing BY <1>1 DEF IInv, Core, NotYet
    <2>4. link[Pair(p[1], p[2])] = AsMeasured(measured[Pair(p[1], p[2])])
      BY <2>2 DEF IInv, Core, LinksMeasured
    <2> QED BY <2>2, <2>3, <2>4, Zenon DEF AsMeasured
  <1>6. \A p \in Pairs : link'[p] = IF p[1] = count THEN AsMeasured(measured'[p]) ELSE link[p]
    <2> SUFFICES ASSUME NEW p \in Pairs
                 PROVE  link'[p] = IF p[1] = count THEN AsMeasured(measured'[p]) ELSE link[p]
      OBVIOUS
    <2>1. CASE p[1] = count
      <3>1. p[2] \in 0..count - 1 /\ link[p] = Absent BY <2>1, <1>3, <1>5
      <3>2. measured'[p] = find[p[2]] BY <2>1
      <3>3. p[2] \in Accepted(find) <=> measured'[p] # Nothing BY <3>1, <3>2 DEF Accepted
      <3>4. link'[p] = IF measured'[p] # Nothing
                       THEN [value |-> find[p[2]].inliers, transform |-> find[p[2]].transform]
                       ELSE link[p]
        BY <2>1, <3>3
      <3> QED BY <2>1, <3>1, <3>2, <3>4 DEF AsMeasured
    <2>2. CASE p[1] # count BY <2>2
    <2> QED BY <2>1, <2>2
  <1>7. link' \in [Pairs -> Record]
    <2>1. \A p \in Pairs : link'[p] \in Record
      BY <1>4, <1>6, MeasureType DEF IInv, Core, CoreType
    <2>2. link' = [p \in Pairs |-> link'[p]] OBVIOUS
    <2> QED BY <2>1, <2>2
  <1>8. joined' = joined /\ anchor' = anchor /\ Members' = Members BY DEF Members
  <1>9. CoreType' BY <1>1, <1>4, <1>7, <1>8 DEF IInv, Core, CoreType
  <1>10. \A i, j \in Samples : i # j /\ i # count /\ j # count =>
           /\ measured'[Pair(i, j)] = measured[Pair(i, j)]
           /\ link'[Pair(i, j)] = link[Pair(i, j)]
    <2> SUFFICES ASSUME NEW i \in Samples, NEW j \in Samples, i # j, i # count, j # count
                 PROVE  /\ measured'[Pair(i, j)] = measured[Pair(i, j)]
                        /\ link'[Pair(i, j)] = link[Pair(i, j)]
      OBVIOUS
    <2>1. Pair(i, j) \in Pairs /\ Pair(i, j)[1] # count BY PairType DEF Pair
    <2> QED BY <2>1, <1>6
  <1>11. LinksMeasured'
    <2> SUFFICES ASSUME NEW i \in Samples, NEW j \in Samples, i # j,
                        ~(i = anchor /\ j \in Members), ~(j = anchor /\ i \in Members)
                 PROVE  link'[Pair(i, j)] = AsMeasured(measured'[Pair(i, j)])
      BY <1>8 DEF LinksMeasured
    <2>1. Pair(i, j) \in Pairs BY PairType
    <2>2. CASE Pair(i, j)[1] = count BY <2>1, <2>2, <1>6
    <2>3. CASE Pair(i, j)[1] # count
      <3>1. link'[Pair(i, j)] = link[Pair(i, j)] BY <2>1, <2>3, <1>6
      <3>2. measured'[Pair(i, j)] = measured[Pair(i, j)] BY <2>1, <2>3
      <3> QED BY <3>1, <3>2 DEF IInv, Core, LinksMeasured
    <2> QED BY <2>2, <2>3
  <1>12. NotYet'
    <2>1. ASSUME NEW p \in Pairs, p[1] >= count + 1 PROVE measured'[p] = Nothing
      <3>1. p[1] \in Int /\ p[1] # count /\ p[1] >= count BY <2>1, <1>1, <1>2 DEF Samples
      <3>2. measured[p] = Nothing BY <3>1 DEF IInv, Core, NotYet
      <3> QED BY <3>1, <3>2
    <2>2. Members \subseteq 0..count BY <1>1 DEF IInv, Core, NotYet
    <2> QED BY <2>1, <2>2, <1>1, <1>8 DEF NotYet
  <1>13. Distinct' BY <1>8 DEF IInv, Core, Distinct
  <1>14. \A s \in Members : s \in Samples /\ s # count
    BY <1>1, AnchorMember DEF IInv, Core, NotYet
  <1>15. anchor # -1 => anchor \in Samples /\ anchor # count /\ anchor \in Members
    BY <1>14, AnchorMember DEF IInv
  <1>16. Members # {} => anchor # -1 BY AnchorMember DEF IInv
  <1>17. \A s \in Members : /\ Value(s, anchor)' = Value(s, anchor) \/ s = anchor
                            /\ ToAnchor(s)' = ToAnchor(s)
    <2> SUFFICES ASSUME NEW s \in Members
                 PROVE  /\ Value(s, anchor)' = Value(s, anchor) \/ s = anchor
                        /\ ToAnchor(s)' = ToAnchor(s)
      OBVIOUS
    <2>1. CASE s = anchor BY <2>1, <1>8 DEF ToAnchor
    <2>2. CASE s # anchor
      <3>1. link'[Pair(s, anchor)] = link[Pair(s, anchor)]
        BY <2>2, <1>10, <1>14, <1>15, <1>16
      <3>2. Value(s, anchor)' = Value(s, anchor) BY <3>1, <1>8 DEF Value
      <3>3. ToAnchor(s)' = ToAnchor(s) BY <2>2, <3>1, <1>8 DEF ToAnchor, Transform
      <3> QED BY <3>2, <3>3
    <2> QED BY <2>1, <2>2
  <1>18. AllPlaced' BY <1>8, <1>17 DEF IInv, Core, AllPlaced
  <1>19. \A k \in 1..Len(joined) : joined[k] \in Members
    BY LenProperties DEF IInv, Core, CoreType, Members, Range
  <1>20. Len(joined) \in Nat BY LenProperties DEF IInv, Core, CoreType
  <1>21. \A j, k \in 1..Len(joined) : j # k =>
           /\ measured'[Pair(joined[k], joined[j])] = measured[Pair(joined[k], joined[j])]
           /\ link'[Pair(joined[k], joined[j])] = link[Pair(joined[k], joined[j])]
    BY <1>10, <1>14, <1>19 DEF IInv, Core, Distinct
  <1>22. MembersDerived'
    <2>1. (anchor # -1 <=> joined # <<>>)' /\ (joined # <<>> => joined[1] = anchor)'
      BY <1>8 DEF IInv, Core, MembersDerived
    <2>2. (\A k \in 2..Len(joined) : \E j \in 1..k - 1 :
              /\ Found(joined[k], joined[j])
              /\ ToAnchor(joined[k]) = Compose(ToAnchor(joined[j]), Direct(joined[k], joined[j])))'
      <3> SUFFICES ASSUME NEW k \in 2..Len(joined)
                   PROVE  \E j \in 1..k - 1 :
                            /\ measured'[Pair(joined[k], joined[j])] # Nothing
                            /\ ToAnchor(joined[k])' = Compose(ToAnchor(joined[j])',
                                 Directed(joined[k], joined[j],
                                          measured'[Pair(joined[k], joined[j])].transform))
        BY <1>8 DEF Found, Direct
      <3>1. PICK j \in 1..k - 1 :
              /\ Found(joined[k], joined[j])
              /\ ToAnchor(joined[k]) = Compose(ToAnchor(joined[j]), Direct(joined[k], joined[j]))
        BY DEF IInv, Core, MembersDerived
      <3> DEFINE x == joined[k]
                 y == joined[j]
      <3>2. j \in 1..Len(joined) /\ k \in 1..Len(joined) /\ j # k BY <1>20
      <3>3. x \in Members /\ y \in Members BY <3>2, <1>19
      <3>4. ToAnchor(x)' = ToAnchor(x) /\ ToAnchor(y)' = ToAnchor(y)
        BY <3>3, <1>8, <1>17 DEF ToAnchor, Transform
      <3> QED BY <3>1, <3>2, <3>4, <1>21 DEF Found, Direct
    <2> QED BY <2>1, <2>2 DEF MembersDerived
  <1>23. StronglyConnected'
    <2> SUFFICES ASSUME NEW k \in 2..Len(joined)
                 PROVE  \E j \in 1..k - 1 : link'[Pair(joined[k], joined[j])].value > 2
      BY <1>8 DEF StronglyConnected, Value
    <2>1. PICK j \in 1..k - 1 : Value(joined[k], joined[j]) > 2
      BY DEF IInv, Core, StronglyConnected
    <2>2. j \in 1..Len(joined) /\ k \in 1..Len(joined) /\ j # k BY <1>20
    <2> QED BY <2>1, <2>2, <1>21 DEF Value
  <1>24. Core'
    BY <1>9, <1>11, <1>12, <1>13, <1>18, <1>22, <1>23 DEF Core
  <1>25. head' = 0 /\ promoted' = <<>> /\ Len(promoted') = 0 /\ promoted' \in Seq(Samples)
    OBVIOUS
  <1>26. Stages'
    <2>1. count' - 1 \notin Members BY <1>1 DEF IInv, Core, NotYet
    <2>2. pc = "idle" /\ flags = Members BY DEF IInv, Stages
    <2> QED BY <2>1, <2>2, <1>1, <1>8, <1>25 DEF Stages, Idle, SyncFlags, Current, Members
  <1>27. ClosureComplete' BY <1>25 DEF ClosureComplete
  <1>28. TypeOK'
    <2>1. flags' \subseteq Samples
      BY <1>8, AnchorMember DEF IInv, TypeOK, Idle, SyncFlags, Members
    <2> QED BY <2>1, <1>9, <1>25 DEF IInv, TypeOK, CoreType, Record, Idle
  <1> QED BY <1>8, <1>17, <1>24, <1>26, <1>27, <1>28 DEF IInv

\* What the new sample registered with, and where it is.
LEMMA CurrentFacts ==
  ASSUME IInv, pc \in {"attach", "grow"}
  PROVE  /\ Current \in Samples /\ Current \in 0..count - 1 /\ count \in Nat
         /\ \A p \in 0..Current - 1 : p \in Samples /\ p \in 0..count - 1 /\ p # Current
         /\ \A p \in Successful : p \in 0..Current - 1 /\ Found(Current, p)
  <1>1. count \in Nat /\ count =< MaxSamples /\ MaxSamples \in Nat
    BY GraphAssumption DEF IInv, TypeOK
  <1>2. count > 0
    <2>1. CASE pc = "attach" BY <2>1 DEF IInv, Stages
    <2>2. CASE pc = "grow"
      <3>1. Current \in 0..count - 1 BY <2>2 DEF IInv, Stages, Core, NotYet
      <3> QED BY <3>1, <1>1
    <2> QED BY <2>1, <2>2
  <1>3. Current = count - 1 BY DEF Current
  <1> QED BY <1>1, <1>2, <1>3 DEF Samples, Successful

\* Attaching the new sample to the component.
LEMMA AttachKeeps ==
  ASSUME IInv, Attach
  PROVE  IInv' /\ Members \subseteq Members' /\ (\A s \in Members : ToAnchor(s)' = ToAnchor(s))
  <1>1. PICK through \in Strongest(Successful \intersect Members) :
          IF through \in Placed
          THEN Join(through, IF Value(Current, anchor) < 0 THEN 0 ELSE Value(Current, anchor))
          ELSE Breaks
    BY DEF Attach
  <1>2. pc = "attach" /\ anchor # -1 BY DEF Attach
  <1>3. through \in Members /\ through \in 0..Current - 1 /\ Found(Current, through)
    BY <1>2, CurrentFacts DEF Strongest
  <1>4. through \in Placed /\ anchor \in Members BY <1>2, <1>3, AnchorMember DEF IInv
  <1> DEFINE v == IF Value(Current, anchor) < 0 THEN 0 ELSE Value(Current, anchor)
  <1>5. /\ link' = Stored(Current, anchor, v,
                          Compose(ToAnchor(through), Transform(Current, through)))
        /\ joined' = Append(joined, Current)
        /\ pc' = "grow"
        /\ UNCHANGED <<count, measured, anchor, promoted, head, flags>>
    BY <1>1, <1>4 DEF Join
  <1>6. /\ Current \notin Members /\ promoted = <<>> /\ head = 0
        /\ Current \in Samples /\ Current \in 0..count - 1
        /\ through \in Samples /\ through # Current /\ anchor \in Samples /\ anchor # Current
    BY <1>2, <1>3, <1>4, CurrentFacts, AnchorMember DEF IInv, Stages
  <1>7. Transform(Current, through) = Direct(Current, through)
    BY <1>6, ReadsMeasured DEF IInv
  <1>8. v \in Nat /\ (through = anchor => v > 2)
    <2>1. Value(Current, anchor) \in Int
      BY <1>6, PairType DEF Value, IInv, Core, CoreType, Record
    <2>2. through = anchor => Value(Current, anchor) > 5
      BY <1>3, <1>6, ReadsMeasured DEF IInv
    <2> QED BY <2>1, <2>2
  <1>9. /\ Core'
        /\ Members' = Members \union {Current}
        /\ \A m \in Members : ToAnchor(m)' = ToAnchor(m)
    <2>1. link' = Stored(Current, anchor, v, Compose(ToAnchor(through), Direct(Current, through)))
      BY <1>5, <1>7
    <2> HIDE DEF v
    <2> QED BY <2>1, <1>2, <1>3, <1>5, <1>6, <1>8, PlaceKeeps DEF IInv
  <1>10. Current' = Current BY <1>5 DEF Current
  <1>11. Stages' BY <1>2, <1>5, <1>6, <1>9, <1>10 DEF Stages
  <1>12. ClosureComplete' BY <1>5, <1>6 DEF ClosureComplete
  <1>13. TypeOK'
    BY <1>5, <1>9 DEF IInv, Core, CoreType, TypeOK, Record
  <1> QED BY <1>9, <1>11, <1>12, <1>13 DEF IInv

\* Establishing the component with the new sample's best match as its anchor.
LEMMA EstablishKeeps ==
  ASSUME IInv, Establish
  PROVE  IInv' /\ Members = {}
  <1>1. PICK best \in Strongest(Successful) :
          /\ anchor' = best
          /\ joined' = <<best, Current>>
          /\ link' = Stored(Current, best, Value(Current, best), Transform(Current, best))
    BY DEF Establish
  <1>2. /\ pc = "attach" /\ anchor = -1 /\ Members = {}
        /\ pc' = "grow" /\ UNCHANGED <<count, measured, promoted, head, flags>>
    BY AnchorMember DEF Establish, IInv
  <1>3. /\ best \in 0..Current - 1 /\ best \in 0..count - 1 /\ Found(Current, best) /\ best \in Samples
        /\ Current \in Samples /\ Current \in 0..count - 1 /\ best # Current /\ best # -1
    BY <1>2, CurrentFacts DEF Strongest
  <1>4. /\ Transform(Current, best) = Direct(Current, best)
        /\ Value(Current, best) \in Nat /\ Value(Current, best) > 5
    BY <1>2, <1>3, ReadsMeasured DEF IInv
  <1>5. /\ link' \in [Pairs -> Record]
        /\ link'[Pair(Current, best)].value > 5
        /\ Directed(Current, best, link'[Pair(Current, best)].transform) = Direct(Current, best)
        /\ \A i, j \in Samples : i # j /\ ~(i = Current /\ j = best) /\ ~(i = best /\ j = Current)
                                   => link'[Pair(i, j)] = link[Pair(i, j)]
    <2>1. Direct(Current, best) \in Transforms BY <1>3, DirectType DEF IInv, Core
    <2>2. CoreType /\ Value(Current, best) \in Int BY <1>4 DEF IInv, Core
    <2> QED BY <1>1, <1>3, <1>4, <2>1, <2>2, StoredOne
  <1>6. /\ joined' \in Seq(Samples) /\ Len(joined') = 2 /\ joined'[1] = best
        /\ joined'[2] = Current /\ joined' # <<>> /\ DOMAIN joined' = 1..2
    BY <1>1, <1>3
  <1>7. Members' = {best, Current} BY <1>6 DEF Members, Range
  <1>8. CoreType' BY <1>1, <1>2, <1>3, <1>5, <1>6 DEF IInv, Core, CoreType
  <1>9. LinksMeasured'
    <2> SUFFICES ASSUME NEW i \in Samples, NEW j \in Samples, i # j,
                        ~(i = best /\ j \in {best, Current}), ~(j = best /\ i \in {best, Current})
                 PROVE  link'[Pair(i, j)] = AsMeasured(measured[Pair(i, j)])
      BY <1>1, <1>2, <1>7 DEF LinksMeasured
    <2> QED BY <1>2, <1>5 DEF IInv, Core, LinksMeasured
  <1>10. NotYet' BY <1>2, <1>3, <1>7 DEF IInv, Core, NotYet
  <1>11. Distinct'
    <2>1. \A j \in 1..Len(joined') : j = 1 \/ j = 2 BY <1>6
    <2> QED BY <2>1, <1>3, <1>6 DEF Distinct
  <1>12. AllPlaced'
    <2> SUFFICES Value(Current, best)' >= 0
      BY <1>1, <1>2, <1>7 DEF AllPlaced, Value, Current
    <2> QED BY <1>1, <1>2, <1>3, <1>5, PairType DEF Value, Current, Record
  <1>13. MembersDerived'
    <2>1. (anchor # -1 <=> joined # <<>>)' /\ (joined # <<>> => joined[1] = anchor)'
      BY <1>1, <1>3, <1>6
    <2>2. Found(Current, best)' BY <1>2, <1>3 DEF Found, Current
    <2>3. /\ ToAnchor(joined[2])' = Direct(Current, best)
          /\ ToAnchor(joined[1])' = Identity
          /\ Direct(joined[2], joined[1])' = Direct(Current, best)
          /\ Found(joined[2], joined[1])'
      BY <1>1, <1>2, <1>3, <1>5, <1>6 DEF ToAnchor, Transform, Direct, Found
    <2>4. Compose(Identity, Direct(Current, best)) = Direct(Current, best)
      BY <1>3, DirectType, GraphAssumption DEF IInv, Core
    <2>5. \A k \in 2..Len(joined') : k = 2 BY <1>6
    <2>6. 1 \in 1..2 - 1 OBVIOUS
    <2>7. (\A k \in 2..Len(joined) : \E j \in 1..k - 1 :
              /\ Found(joined[k], joined[j])
              /\ ToAnchor(joined[k]) = Compose(ToAnchor(joined[j]), Direct(joined[k], joined[j])))'
      <3> SUFFICES /\ Found(joined[2], joined[1])'
                   /\ ToAnchor(joined[2])' = Compose(ToAnchor(joined[1])', Direct(joined[2], joined[1])')
        BY <2>5, <2>6
      <3> QED BY <2>3, <2>4
    <2> QED BY <2>1, <2>7 DEF MembersDerived
  <1>14. StronglyConnected'
    <2>1. /\ link'[Pair(Current, best)].value \in Int
          /\ link'[Pair(Current, best)].value > 5
      BY <1>3, <1>5, PairType DEF Record
    <2>2. Value(joined[2], joined[1])' > 2
      BY <1>6, <2>1 DEF Value
    <2>3. \A k \in 2..Len(joined') : k = 2 /\ 1 \in 1..k - 1 BY <1>6
    <2> QED BY <2>2, <2>3 DEF StronglyConnected
  <1>15. Core' BY <1>8, <1>9, <1>10, <1>11, <1>12, <1>13, <1>14 DEF Core
  <1>16. promoted = <<>> /\ head = 0 /\ Current' = Current
    BY <1>2 DEF IInv, Stages, Current
  <1>17. Stages' BY <1>1, <1>2, <1>3, <1>7, <1>16 DEF Stages
  <1>18. ClosureComplete' BY <1>2, <1>16 DEF ClosureComplete
  <1>19. TypeOK' BY <1>2, <1>8 DEF IInv, CoreType, TypeOK, Record
  <1> QED BY <1>2, <1>15, <1>17, <1>18, <1>19 DEF IInv

\* One more promoted sample: it registered with a canonical sample that is not the
\* anchor, and takes its place from that one.
LEMMA PromoteKeeps ==
  ASSUME IInv, pc = "grow", NEW s \in 0..Current - 1, s \notin Members,
         NEW through \in Members, through # anchor, Found(s, through),
         Promote(s, through, Direct(s, through))
  PROVE  IInv' /\ Members \subseteq Members' /\ (\A m \in Members : ToAnchor(m)' = ToAnchor(m))
  <1>1. /\ link' = Stored(s, anchor, 0, Compose(ToAnchor(through), Direct(s, through)))
        /\ joined' = Append(joined, s)
        /\ promoted' = Append(promoted, s)
        /\ UNCHANGED <<count, measured, anchor, head, flags, pc>>
    BY DEF Promote
  <1>2. /\ anchor # -1 /\ anchor \in Members /\ Current \in Members
        /\ s \in Samples /\ s \in 0..count - 1 /\ s # Current /\ s # anchor
    BY CurrentFacts, AnchorMember DEF IInv, Stages
  <1>3. /\ Core'
        /\ Members' = Members \union {s}
        /\ \A m \in Members : ToAnchor(m)' = ToAnchor(m)
    <2>1. Core /\ 0 \in Nat BY DEF IInv
    <2> QED BY <2>1, <1>1, <1>2, PlaceKeeps
  <1>4. /\ promoted' \in Seq(Samples)
        /\ Len(promoted) \in Nat
        /\ Len(promoted') = Len(promoted) + 1
        /\ \A k \in 1..Len(promoted) : promoted'[k] = promoted[k]
        /\ promoted'[Len(promoted) + 1] = s
    BY <1>1, <1>2, AppendProperties, LenProperties DEF IInv, TypeOK
  <1>5. Current' = Current BY <1>1 DEF Current
  <1>6. Stages'
    <2>1. ASSUME NEW k \in 1..Len(promoted')
          PROVE  promoted'[k] \in Members' \ {anchor, Current}
      <3>1. CASE k \in 1..Len(promoted) BY <3>1, <1>3, <1>4 DEF IInv, Stages
      <3>2. CASE k = Len(promoted) + 1 BY <3>2, <1>2, <1>3, <1>4
      <3> QED BY <3>1, <3>2, <1>4
    <2> QED BY <2>1, <1>1, <1>2, <1>3, <1>5 DEF IInv, Stages
  <1>7. ClosureComplete'
    <2>1. head \in 0..Len(promoted) BY DEF IInv, TypeOK
    <2>2. \A k \in 1..head : promoted'[k] = promoted[k] BY <2>1, <1>4
    <2>3. ASSUME NEW k \in 1..head, NEW c \in (0..Current - 1) \ Members',
                 Found(c, promoted[k])
          PROVE  Score(c, promoted[k]) =< GraphThreshold
      <3>1. c \in (0..Current - 1) \ Members BY <1>3
      <3> QED BY <3>1, <2>3 DEF IInv, ClosureComplete
    <2>4. measured' = measured /\ head' = head BY <1>1
    <2>5. ASSUME NEW k \in 1..head, NEW c \in (0..Current - 1) \ Members',
                 Found(c, promoted[k])'
          PROVE  Score(c, promoted[k])' =< GraphThreshold
      <3>1. promoted'[k] = promoted[k] BY <2>2
      <3>2. Found(c, promoted[k]) BY <3>1, <2>4, <2>5 DEF Found
      <3>3. Score(c, promoted[k])' = Score(c, promoted[k]) BY <3>1, <2>4 DEF Score
      <3> QED BY <3>2, <3>3, <2>3
    <2>6. GraphThreshold' = GraphThreshold BY DEF GraphThreshold
    <2> QED BY <2>4, <2>5, <2>6, <1>5, Zenon DEF ClosureComplete
  <1>8. TypeOK'
    <2>1. head' \in 0..Len(promoted') BY <1>1, <1>4 DEF IInv, TypeOK
    <2> QED BY <2>1, <1>1, <1>3, <1>4 DEF IInv, Core, CoreType, TypeOK, Record
  <1> QED BY <1>3, <1>6, <1>7, <1>8 DEF IInv

\* A sample is compared by an integer score.
LEMMA ScoreType ==
  ASSUME CoreType, NEW i \in Samples, NEW j \in Samples, i # j
  PROVE  Score(i, j) \in Int
  <1>1. measured[Pair(i, j)] \in Measures \union {Nothing}
    BY PairType DEF CoreType
  <1>2. \A m \in Measures \union {Nothing} : m.score \in Int /\ m.back \in Int
    BY MeasureAssumption DEF Nothing
  <1> QED BY <1>1, <1>2 DEF Score

\* A seed of the closure, or a sample promoted with it, is canonical and is neither the
\* anchor nor the new sample.
LEMMA SeedFacts ==
  ASSUME IInv, Walking
  PROVE  /\ pc = "grow" /\ head \in Nat /\ head + 1 \in 1..Len(promoted)
         /\ Seed \in Members /\ Seed # anchor /\ Seed # Current /\ Seed \in Samples
         /\ Seed \in Placed
  <1>1. pc = "grow" /\ head < Len(promoted) BY DEF Walking
  <1>2. head \in Nat /\ Len(promoted) \in Nat
    BY LenProperties DEF IInv, TypeOK
  <1>3. head + 1 \in 1..Len(promoted) BY <1>1, <1>2
  <1>4. Seed \in Members \ {anchor, Current} BY <1>3 DEF Seed, IInv, Stages
  <1> QED BY <1>1, <1>2, <1>3, <1>4, AnchorMember DEF IInv

\* What a seed reaches registered with it, and what registered with it well enough is
\* reached.
LEMMA ReachableFound ==
  ASSUME IInv, Walking, NEW c \in (0..Current - 1) \ Members
  PROVE  /\ c \in Reachable(Seed) <=> Found(c, Seed) /\ ~(Score(c, Seed) =< GraphThreshold)
         /\ Transform(c, Seed) = Direct(c, Seed)
  <1>1. /\ c \in Samples /\ Seed \in Samples /\ c # Seed /\ Seed # anchor /\ c # anchor
    BY SeedFacts, CurrentFacts, AnchorMember DEF IInv, Stages
  <1>2. /\ Transform(c, Seed) = Direct(c, Seed)
        /\ Found(c, Seed) => Value(c, Seed) \in Nat /\ Value(c, Seed) > 5
        /\ ~Found(c, Seed) => Value(c, Seed) = -1
    BY <1>1, ReadsMeasured DEF IInv
  <1>3. Found(c, Seed) <=> Value(c, Seed) >= 0 BY <1>2
  <1>4. Score(c, Seed) \in Int BY <1>1, ScoreType DEF IInv, Core
  <1>5. c \in Reachable(Seed) <=> Value(c, Seed) >= 0 /\ Score(c, Seed) > GraphThreshold
    BY DEF Reachable
  <1>6. Score(c, Seed) > GraphThreshold <=> ~(Score(c, Seed) =< GraphThreshold)
    BY <1>4 DEF GraphThreshold
  <1> QED BY <1>2, <1>3, <1>5, <1>6

\* Promoting what the new sample matches.
LEMMA MatchedKeeps ==
  ASSUME IInv, PromoteMatched
  PROVE  IInv' /\ Members \subseteq Members' /\ (\A m \in Members : ToAnchor(m)' = ToAnchor(m))
  <1>1. pc = "grow" BY DEF PromoteMatched
  <1>2. PICK p \in Least(Promotable) : Promote(p, Current, Invert(Transform(Current, p)))
    BY DEF PromoteMatched
  <1>3. p \in Successful /\ p \notin Members BY DEF Least, Promotable
  <1>4. p \in 0..Current - 1 /\ Found(Current, p) BY <1>1, <1>3, CurrentFacts
  <1>5. /\ p \in Samples /\ Current \in Samples /\ p # Current /\ p < Current /\ ~(Current < p)
        /\ Current \in Members /\ Current # anchor /\ p # anchor
    BY <1>1, <1>3, <1>4, CurrentFacts, AnchorMember DEF IInv, Stages, Samples
  <1>6. Pair(p, Current) = Pair(Current, p) BY <1>5, PairType
  <1>7. Transform(Current, p) = Direct(Current, p) BY <1>3, <1>5, ReadsMeasured DEF IInv
  <1>8. Invert(Direct(Current, p)) = Direct(p, Current)
    BY <1>5, <1>6 DEF Direct, Directed
  <1>9. Found(p, Current) BY <1>4, <1>6 DEF Found
  <1>10. Promote(p, Current, Direct(p, Current)) BY <1>2, <1>7, <1>8
  <1> QED BY <1>1, <1>3, <1>4, <1>5, <1>9, <1>10, PromoteKeeps

\* Promoting what a seed reaches.
LEMMA CloseKeeps ==
  ASSUME IInv, Close
  PROVE  IInv' /\ Members \subseteq Members' /\ (\A m \in Members : ToAnchor(m)' = ToAnchor(m))
  <1>1. Walking BY DEF Close
  <1>2. PICK c \in Least(Reachable(Seed)) : Promote(c, Seed, Transform(c, Seed))
    BY DEF Close
  <1>3. c \in Reachable(Seed) BY DEF Least
  <1>4. c \in (0..Current - 1) \ Members BY <1>3 DEF Reachable
  <1>5. Found(c, Seed) /\ Transform(c, Seed) = Direct(c, Seed)
    BY <1>1, <1>3, <1>4, ReachableFound
  <1>6. pc = "grow" /\ Seed \in Members /\ Seed # anchor BY <1>1, SeedFacts
  <1>7. Promote(c, Seed, Direct(c, Seed)) BY <1>2, <1>5
  <1> QED BY <1>4, <1>5, <1>6, <1>7, PromoteKeeps

\* A step that leaves the graph alone leaves what is known of it alone.
LEMMA CoreStays ==
  ASSUME Core, UNCHANGED <<count, measured, link, anchor, joined>>
  PROVE  Core'
  <1>1. Members' = Members BY DEF Members
  <1>2. CoreType' BY DEF Core, CoreType
  <1>3. LinksMeasured' BY <1>1 DEF Core, LinksMeasured
  <1>4. NotYet' BY <1>1 DEF Core, NotYet
  <1>5. Distinct' BY DEF Core, Distinct
  <1>6. AllPlaced' BY <1>1 DEF Core, AllPlaced, Value
  <1>7. MembersDerived' BY DEF Core, MembersDerived, Found, ToAnchor, Transform, Direct
  <1>8. StronglyConnected' BY DEF Core, StronglyConnected, Value
  <1> QED BY <1>2, <1>3, <1>4, <1>5, <1>6, <1>7, <1>8 DEF Core

\* Going on to the next seed.
LEMMA NextSeedKeeps ==
  ASSUME IInv, NextSeed
  PROVE  IInv' /\ UNCHANGED <<joined, anchor, link>>
  <1>1. Walking BY DEF NextSeed
  <1>2. /\ Reachable(Seed) = {}
        /\ head' = head + 1
        /\ UNCHANGED <<count, measured, link, anchor, joined, promoted, flags, pc>>
    BY <1>1, SeedFacts DEF NextSeed
  <1>3. head \in Nat /\ head + 1 \in 1..Len(promoted) BY <1>1, SeedFacts
  <1>4. Members' = Members /\ Current' = Current BY <1>2 DEF Members, Current
  <1>5. Core' BY <1>2, CoreStays DEF IInv
  <1>6. Stages'
    <2>1. pc = "grow" BY <1>1, SeedFacts
    <2> QED BY <2>1, <1>2, <1>4 DEF IInv, Stages
  <1>7. ClosureComplete'
    <2> SUFFICES ASSUME NEW k \in 1..head + 1, NEW c \in (0..Current - 1) \ Members,
                        Found(c, promoted[k])
                 PROVE  Score(c, promoted[k]) =< GraphThreshold
      BY <1>2, <1>4 DEF ClosureComplete, Found, Score, GraphThreshold
    <2>1. CASE k \in 1..head BY <2>1 DEF IInv, ClosureComplete
    <2>2. CASE k = head + 1
      <3>1. c \notin Reachable(Seed) /\ Seed = promoted[k] BY <2>2, <1>2 DEF Seed
      <3> QED BY <3>1, <1>1, ReachableFound
    <2> QED BY <2>1, <2>2, <1>3
  <1>8. TypeOK' BY <1>2, <1>3 DEF IInv, TypeOK
  <1> QED BY <1>2, <1>5, <1>6, <1>7, <1>8 DEF IInv

\* The end of the integration, and the new sample that stays outside.
LEMMA EndKeeps ==
  ASSUME IInv, Finish \/ StaysOutside
  PROVE  IInv' /\ UNCHANGED <<joined, anchor, link>>
  <1>1. /\ UNCHANGED <<count, measured, link, anchor, joined, promoted, head>>
        /\ pc' = "idle" /\ flags' = Range(joined')
    BY AnchorMember DEF IInv, Finish, StaysOutside, Idle, SyncFlags
  <1>2. Members' = Members /\ Current' = Current /\ flags' = Members
    BY <1>1 DEF Members, Current
  <1>3. Core' BY <1>1, CoreStays DEF IInv
  <1>4. Stages'
    <2>1. \A k \in 1..Len(promoted) : promoted[k] \in Members \ {anchor, Current}
      BY DEF IInv, Stages
    <2> QED BY <2>1, <1>1, <1>2 DEF Stages
  <1>5. ClosureComplete'
    BY <1>1, <1>2 DEF IInv, ClosureComplete, Found, Score, GraphThreshold
  <1>6. TypeOK' BY <1>1, <1>2, AnchorMember DEF IInv, TypeOK
  <1> QED BY <1>1, <1>3, <1>4, <1>5, <1>6 DEF IInv

\* Nothing moves without a step.
LEMMA StutterKeeps ==
  ASSUME IInv, UNCHANGED vars
  PROVE  IInv' /\ UNCHANGED <<joined, anchor, link>>
  <1>1. Members' = Members /\ Current' = Current BY DEF vars, Members, Current
  <1>2. Core' BY CoreStays DEF vars, IInv
  <1>3. Stages' BY <1>1 DEF vars, IInv, Stages
  <1>4. ClosureComplete' BY <1>1 DEF vars, IInv, ClosureComplete, Found, Score, GraphThreshold
  <1>5. TypeOK' BY DEF vars, IInv, TypeOK
  <1> QED BY <1>2, <1>3, <1>4, <1>5 DEF IInv, vars

-----------------------------------------------------------------------------
(* The theorems. *)

\* The empty template satisfies the invariant.
LEMMA GraphInit == Init => IInv
  <1> SUFFICES ASSUME Init PROVE IInv OBVIOUS
  <1>1. Members = {} /\ Len(joined) = 0 /\ Len(promoted) = 0 /\ joined = <<>> /\ anchor = -1
    BY DEF Init, Members, Range
  <1>2. CoreType /\ TypeOK
    BY <1>1, GraphAssumption DEF Init, CoreType, TypeOK, Record, Absent, Samples, Pairs
  <1>3. LinksMeasured
    <2> SUFFICES ASSUME NEW i \in Samples, NEW j \in Samples, i # j
                 PROVE  link[Pair(i, j)] = AsMeasured(measured[Pair(i, j)])
      BY DEF LinksMeasured
    <2> QED BY PairType DEF Init, AsMeasured
  <1>4. NotYet /\ Distinct /\ AllPlaced /\ MembersDerived /\ StronglyConnected
    BY <1>1 DEF Init, NotYet, Distinct, AllPlaced, MembersDerived, StronglyConnected
  <1>5. Stages /\ ClosureComplete BY <1>1 DEF Init, Stages, ClosureComplete
  <1> QED BY <1>2, <1>3, <1>4, <1>5 DEF IInv, Core

\* Every step keeps the invariant, the anchor, the members and their places.
LEMMA GraphNext ==
  ASSUME IInv, [Next]_vars
  PROVE  /\ IInv'
         /\ anchor # -1 => anchor' = anchor
         /\ \A s \in Members : s \in Members' /\ ToAnchor(s)' = ToAnchor(s)
  <1> DEFINE Still == \A s \in Members : s \in Members' /\ ToAnchor(s)' = ToAnchor(s)
  <1>1. UNCHANGED <<joined, anchor, link>> => Still
    BY DEF Members, ToAnchor, Transform
  <1>2. ASSUME NEW find \in [0..count - 1 -> Measures \union {Nothing}], AddSample(find)
        PROVE  IInv' /\ anchor' = anchor /\ Still
    BY <1>2, AddKeeps DEF AddSample, Register
  <1>3. CASE Attach
    <2>1. IInv' /\ Still BY <1>3, AttachKeeps
    <2>2. anchor' = anchor BY <1>3 DEF Attach, Join, Breaks
    <2> QED BY <2>1, <2>2
  <1>4. CASE Establish
    <2>1. IInv' /\ Still BY <1>4, EstablishKeeps
    <2>2. anchor = -1 BY <1>4 DEF Establish
    <2> QED BY <2>1, <2>2
  <1>5. CASE PromoteMatched
    <2>1. IInv' /\ Still BY <1>5, MatchedKeeps
    <2>2. anchor' = anchor BY <1>5 DEF PromoteMatched, Promote
    <2> QED BY <2>1, <2>2
  <1>6. CASE Close
    <2>1. IInv' /\ Still BY <1>6, CloseKeeps
    <2>2. anchor' = anchor BY <1>6 DEF Close, Promote
    <2> QED BY <2>1, <2>2
  <1>7. CASE NextSeed BY <1>1, <1>7, NextSeedKeeps
  <1>8. CASE Finish \/ StaysOutside BY <1>1, <1>8, EndKeeps
  <1>9. CASE UNCHANGED vars BY <1>1, <1>9, StutterKeeps
  <1> QED BY <1>2, <1>3, <1>4, <1>5, <1>6, <1>7, <1>8, <1>9 DEF Next, Integrate

\* The inductive invariant holds.
LEMMA GraphInvariance == Spec => []IInv
  <1>1. Init => IInv BY GraphInit
  <1>2. IInv /\ [Next]_vars => IInv' BY GraphNext
  <1> QED BY <1>1, <1>2, PTL DEF Spec

\* Type correctness of the enrollment graph.
THEOREM GraphTypes == Spec => []TypeOK
  <1>1. IInv => TypeOK BY DEF IInv
  <1> QED BY <1>1, GraphInvariance, PTL

\* The integration never fails on a canonical sample without a way to the anchor
\* (MissingCanonicalTransform), and the persistent flags follow the graph.
THEOREM NobodyStranded == Spec => []NeverStranded
  <1>1. IInv => NeverStranded BY DEF IInv, Stages, NeverStranded
  <1> QED BY <1>1, GraphInvariance, PTL

\* Every canonical sample is placed by a measured registration with an earlier one.
THEOREM PlacesAreDerived == Spec => []MembersDerived
  <1>1. IInv => MembersDerived BY DEF IInv, Core
  <1> QED BY <1>1, GraphInvariance, PTL

\* Strong relations connect the canonical component.
THEOREM ComponentIsStrong == Spec => []StronglyConnected
  <1>1. IInv => StronglyConnected BY DEF IInv, Core
  <1> QED BY <1>1, GraphInvariance, PTL

\* A walked seed has left no sample behind that it should have taken in.
THEOREM ClosureIsComplete == Spec => []ClosureComplete
  <1>1. IInv => ClosureComplete BY DEF IInv
  <1> QED BY <1>1, GraphInvariance, PTL

\* No step moves a canonical sample, drops one or changes the anchor.
THEOREM NobodyMoves == Spec => MembersStay
  <1> DEFINE Stay == /\ anchor # -1 => anchor' = anchor
                     /\ \A s \in Members : s \in Members' /\ ToAnchor(s)' = ToAnchor(s)
  <1>1. IInv /\ [Next]_vars => [Stay]_vars BY GraphNext
  <1> QED BY <1>1, GraphInvariance, PTL DEF Spec, MembersStay

-----------------------------------------------------------------------------
(* The integration ends.  Its loops are bounded by the samples that are not   *)
(* canonical yet: promoting one costs a round and may make one more seed, so  *)
(* a sample outside the component counts twice.  And in every stage one of    *)
(* the next steps can be taken: the strongest match and the least candidate   *)
(* exist where there is one at all.                                           *)

\* At least the rounds that are left of this call.
Rounds == IF pc \in {"attach", "grow"}
          THEN 2 * (count - Len(joined)) + (Len(promoted) - head) + 1
          ELSE 0

\* The guards of the stages: attachment, establishment or none of them, ...
Attachable    == anchor # -1 /\ Strongest(Successful \intersect Members) # {}
Establishable == anchor = -1 /\ \E best \in Strongest(Successful) : Matches(best)
Unmatched     == IF anchor = -1
                 THEN \A best \in Strongest(Successful) : ~Matches(best)
                 ELSE Successful \intersect Members = {}
\* ... promotion, closure, the next seed or the end.
Grows == \/ Least(Promotable) # {}
         \/ Walking /\ Seed \in Placed /\ Least(Reachable(Seed)) # {}
         \/ Walking /\ Seed \in Placed /\ Reachable(Seed) = {}
         \/ Promotable = {} /\ head = Len(promoted) /\ Members \subseteq Placed

NeverStuck == /\ pc = "attach" => Attachable \/ Establishable \/ Unmatched
              /\ pc = "grow" => Grows
RoundsBounded == /\ Rounds \in Nat
                 /\ pc = "attach" => Rounds =< 2 * count + 1
                 /\ pc = "idle" => Rounds = 0
RoundsFall == [][Integrate => Rounds' < Rounds]_vars

\* Every set of natural numbers has a least one, if it has any.
LEMMA LeastNumber ==
  ASSUME NEW T, T \subseteq Nat, T # {}
  PROVE  \E n \in T : \A m \in T : n =< m
  <1> DEFINE below == {0..(n - 1) : n \in T}
             R == StrictSubsetOrdering(Nat)
  <1>1. below \subseteq FiniteSubsetsOf(Nat) /\ below # {}
    <2>1. \A n \in T : 0..(n - 1) \in SUBSET Nat /\ IsFiniteSet(0..(n - 1))
      BY FS_Interval
    <2>2. \A n \in T : 0..(n - 1) \in FiniteSubsetsOf(Nat) BY <2>1 DEF FiniteSubsetsOf
    <2> QED BY <2>2
  <1>2. PICK b \in below : \A c \in below : ~(<<c, b>> \in R)
    <2> HIDE DEF below, R
    <2>1. IsWellFoundedOn(StrictSubsetOrdering(Nat), FiniteSubsetsOf(Nat))
      BY FS_StrictSubsetOrderingWellFounded
    <2> QED BY <1>1, <2>1, WFMin DEF R
  <1>3. PICK n \in T : b = 0..(n - 1) OBVIOUS
  <1>4. ASSUME NEW m \in T, m < n PROVE FALSE
    <2> DEFINE c == 0..(m - 1)
    <2>1. c \in below OBVIOUS
    <2>2. n \in Nat /\ m \in Nat OBVIOUS
    <2>3. c \subseteq b /\ m \in b /\ m \notin c BY <1>3, <1>4, <2>2
    <2>4. b \in SUBSET Nat /\ c \in SUBSET Nat BY <1>3
    <2>5. <<c, b>> \in R BY <2>3, <2>4 DEF StrictSubsetOrdering
    <2> QED BY <1>2, <2>1, <2>5
  <1> QED BY <1>4

\* Least finds one of any set of samples.
LEMMA LeastExists ==
  ASSUME NEW S, S \subseteq Nat, S # {}
  PROVE  Least(S) # {}
  BY LeastNumber DEF Least

\* Of numbered things one has the greatest measure, and the highest number of those
\* that have it: by induction over the numbers, as an argument about the least
\* number at which it fails.
LEMMA GreatestExists ==
  ASSUME NEW N \in Nat, NEW S, S \subseteq 0..(N - 1), S # {}, NEW v, \A s \in S : v[s] \in Int
  PROVE  \E s \in S : \A o \in S \ {s} : v[o] < v[s] \/ (v[o] = v[s] /\ o < s)
  <1> DEFINE Beats(s, o) == v[o] < v[s] \/ (v[o] = v[s] /\ o < s)
             Upto(k) == {s \in S : s < k}
             Good(k) == Upto(k) = {} \/ \E s \in Upto(k) : \A o \in Upto(k) \ {s} : Beats(s, o)
             Bad == {k \in Nat : ~Good(k)}
  <1>1. Bad = {}
    <2> SUFFICES ASSUME Bad # {} PROVE FALSE OBVIOUS
    <2>1. Bad \subseteq Nat OBVIOUS
    <2>2. PICK k \in Bad : \A m \in Bad : k =< m
      <3> HIDE DEF Bad
      <3> QED BY <2>1, LeastNumber
    <2>3. k \in Nat /\ ~Good(k) OBVIOUS
    <2>4. S \subseteq Nat OBVIOUS
    <2>5. k # 0
      <3>1. \A s \in S : ~(s < 0) BY <2>4
      <3>2. Upto(0) = {} BY <3>1
      <3> QED BY <3>2, <2>3
    <2>6. k - 1 \in Nat /\ Good(k - 1) BY <2>2, <2>3, <2>5
    <2>7. \A s \in S : s \in Upto(k) <=> s \in Upto(k - 1) \/ s = k - 1
      BY <2>3, <2>4
    <2> HIDE DEF Upto
    <2>8. \A j : Upto(j) \subseteq S BY DEF Upto
    <2>9. CASE k - 1 \notin S
      <3>1. Upto(k) = Upto(k - 1) BY <2>7, <2>8, <2>9
      <3> QED BY <3>1, <2>3, <2>6
    <2>10. CASE k - 1 \in S
      <3>1. Upto(k) = Upto(k - 1) \union {k - 1} BY <2>7, <2>8, <2>10
      <3>2. \A o \in Upto(k - 1) : o < k - 1 /\ o \in S BY DEF Upto
      <3>3. CASE Upto(k - 1) = {}
        <4>1. k - 1 \in Upto(k) /\ \A o \in Upto(k) \ {k - 1} : FALSE BY <3>1, <3>3
        <4> QED BY <4>1, <2>3
      <3>4. CASE Upto(k - 1) # {}
        <4>1. PICK s \in Upto(k - 1) : \A o \in Upto(k - 1) \ {s} : Beats(s, o)
          BY <3>4, <2>6
        <4>2. s \in S /\ s < k - 1 /\ s \in Nat BY <3>2, <2>4
        <4>3. CASE v[k - 1] < v[s]
          <5>1. \A o \in Upto(k) \ {s} : Beats(s, o) BY <4>1, <4>3, <3>1
          <5> QED BY <5>1, <3>1, <2>3
        <4>4. CASE ~(v[k - 1] < v[s])
          <5>1. \A o \in Upto(k - 1) : Beats(k - 1, o)
            <6> SUFFICES ASSUME NEW o \in Upto(k - 1) PROVE Beats(k - 1, o) OBVIOUS
            <6>1. /\ v[o] \in Int /\ v[s] \in Int /\ v[k - 1] \in Int /\ o < k - 1
                  /\ o \in Nat
              BY <3>2, <4>2, <2>4, <2>10
            <6>2. v[o] =< v[s] BY <4>1, <6>1
            <6> QED BY <4>4, <6>1, <6>2
          <5>2. \A o \in Upto(k) \ {k - 1} : Beats(k - 1, o) BY <5>1, <3>1
          <5> QED BY <5>2, <3>1, <2>3
        <4> QED BY <4>3, <4>4
      <3> QED BY <3>3, <3>4
    <2> QED BY <2>9, <2>10
  <1>2. Good(N) BY <1>1
  <1>3. Upto(N) = S
    <2>1. \A s \in S : s < N OBVIOUS
    <2> QED BY <2>1
  <1> QED BY <1>2, <1>3

\* The strongest match exists among any of the matches of the new sample.
LEMMA StrongestExists ==
  ASSUME IInv, pc = "attach", NEW S \in SUBSET Successful, S # {}
  PROVE  Strongest(S) # {}
  <1> DEFINE v == [s \in S |-> Value(Current, s)]
  <1>1. /\ Current \in Nat /\ S \subseteq 0..(Current - 1)
        /\ \A s \in S : v[s] \in Int
    <2>1. /\ Current \in Samples /\ count \in Nat /\ Current \in 0..count - 1
          /\ \A p \in Successful : p \in 0..Current - 1 /\ p \in Samples /\ p # Current
      BY CurrentFacts
    <2>2. \A s \in S : Pair(Current, s) \in Pairs BY <2>1, PairType
    <2>3. \A s \in S : Value(Current, s) \in Int
      BY <2>2 DEF IInv, TypeOK, Value
    <2> QED BY <2>1, <2>3
  <1>2. \A s \in S : v[s] = Value(Current, s) OBVIOUS
  <1> HIDE DEF v
  <1>3. PICK s \in S : \A o \in S \ {s} : v[o] < v[s] \/ (v[o] = v[s] /\ o < s)
    BY <1>1, GreatestExists
  <1>4. \A o \in S \ {s} : Weaker(o, s) BY <1>2, <1>3 DEF Weaker
  <1> QED BY <1>4 DEF Strongest

\* The members are no more than the samples.
LEMMA MembersFit ==
  ASSUME IInv
  PROVE  /\ Len(joined) \in Nat /\ count \in Nat /\ Len(joined) =< count
         /\ Len(promoted) \in Nat /\ head \in Nat /\ head =< Len(promoted)
  <1>1. /\ Len(joined) \in Nat /\ count \in Nat /\ Len(promoted) \in Nat
        /\ joined \in [1..Len(joined) -> Samples]
    BY LenProperties DEF IInv, TypeOK
  <1>2. \A k \in 1..Len(joined) : joined[k] \in 0..(count - 1)
    <2>1. Members \subseteq 0..(count - 1) BY DEF IInv, Core, NotYet
    <2> QED BY <1>1, <2>1 DEF Members, Range
  <1>3. joined \in Injection(1..Len(joined), 0..(count - 1))
    <2>1. joined \in [1..Len(joined) -> 0..(count - 1)] BY <1>1, <1>2
    <2>2. \A j, k \in 1..Len(joined) : joined[j] = joined[k] => j = k
      BY DEF IInv, Core, Distinct
    <2> QED BY <2>1, <2>2 DEF Injection, IsInjective
  <1>4. /\ IsFiniteSet(0..(count - 1)) /\ Cardinality(0..(count - 1)) = count
        /\ Cardinality(1..Len(joined)) = Len(joined)
    <2>1. 0 \in Int /\ 1 \in Int /\ count - 1 \in Int /\ Len(joined) \in Int BY <1>1
    <2>2. /\ IsFiniteSet(0..(count - 1))
          /\ Cardinality(0..(count - 1)) = IF 0 > count - 1 THEN 0 ELSE (count - 1) - 0 + 1
      BY <2>1, FS_Interval, Zenon
    <2>3. Cardinality(1..Len(joined)) = IF 1 > Len(joined) THEN 0 ELSE Len(joined) - 1 + 1
      BY <2>1, FS_Interval, Zenon
    <2> QED BY <1>1, <2>2, <2>3
  <1>5. Cardinality(1..Len(joined)) =< Cardinality(0..(count - 1))
    BY <1>3, <1>4, FS_Injection
  <1> QED BY <1>1, <1>4, <1>5 DEF IInv, TypeOK

\* The bound is a number, and no more than two rounds a sample when the call begins.
LEMMA RoundsInv == IInv => RoundsBounded
  <1> SUFFICES ASSUME IInv PROVE RoundsBounded OBVIOUS
  <1>1. pc = "attach" => Len(promoted) = 0 /\ head = 0 BY DEF IInv, Stages
  <1> QED BY <1>1, MembersFit DEF RoundsBounded, Rounds

\* One more canonical sample.
LEMMA JoinFalls ==
  ASSUME IInv, IInv', NEW s, joined' = Append(joined, s), count' = count, head' = head,
         pc \in {"attach", "grow"}, pc' = "grow",
         \/ promoted' = promoted
         \/ \E p : promoted' = Append(promoted, p)
  PROVE  Rounds' < Rounds
  <1>1. /\ Len(joined) \in Nat /\ count \in Nat /\ Len(promoted) \in Nat /\ head \in Nat
        /\ Len(joined') \in Nat /\ Len(promoted') \in Nat
    BY MembersFit
  <1>2. Len(joined') = Len(joined) + 1
    <2>1. joined \in Seq(Samples) /\ joined' \in Seq(Samples) BY DEF IInv, TypeOK
    <2> QED BY <2>1
  <1>3. Len(promoted') =< Len(promoted) + 1
    <2>1. promoted \in Seq(Samples) /\ promoted' \in Seq(Samples) BY DEF IInv, TypeOK
    <2> QED BY <2>1, <1>1
  <1> QED BY <1>1, <1>2, <1>3 DEF Rounds

\* Every step of the integration costs a round.
LEMMA IntegrateFalls ==
  ASSUME IInv, Integrate
  PROVE  Rounds' < Rounds
  <1>1. IInv' /\ pc \in {"attach", "grow"}
    <2>1. IInv' BY GraphNext DEF Next
    <2> QED BY <2>1 DEF Integrate, Attach, Establish, StaysOutside, PromoteMatched, Close,
                        NextSeed, Finish, Walking
  <1>2. /\ Len(joined) \in Nat /\ count \in Nat /\ Len(promoted) \in Nat /\ head \in Nat
        /\ Len(joined) =< count /\ head =< Len(promoted)
    BY MembersFit
  <1>3. pc' # "failed" BY <1>1 DEF IInv, Stages
  <1>4. CASE Attach
    <2>1. PICK through, v : Join(through, v) BY <1>3, <1>4 DEF Attach, Breaks
    <2> QED BY <2>1, <1>1, JoinFalls DEF Join
  <1>5. CASE Establish
    <2>1. joined = <<>> BY <1>5 DEF Establish, IInv, Core, MembersDerived
    <2>2. PICK best : joined' = <<best, Current>> BY <1>5 DEF Establish
    <2>3. Len(joined) = 0 /\ Len(joined') = 2 BY <2>1, <2>2
    <2>4. UNCHANGED <<count, promoted, head>> /\ pc' = "grow" BY <1>5 DEF Establish
    <2> QED BY <2>3, <2>4, <1>1, <1>2 DEF Rounds
  <1>6. CASE StaysOutside \/ Finish
    <2>1. pc' = "idle" BY <1>3, <1>6 DEF StaysOutside, Finish, Idle, Breaks
    <2> QED BY <2>1, <1>1, <1>2 DEF Rounds
  <1>7. CASE PromoteMatched \/ Close
    <2>1. PICK s, through, way : Promote(s, through, way)
      BY <1>7 DEF PromoteMatched, Close
    <2>2. pc = "grow" BY <1>7 DEF PromoteMatched, Close, Walking
    <2> QED BY <2>1, <2>2, <1>1, JoinFalls DEF Promote
  <1>8. CASE NextSeed
    <2>1. /\ head' = head + 1
          /\ UNCHANGED <<count, joined, promoted, pc>>
      BY <1>3, <1>8 DEF NextSeed, Breaks
    <2>2. pc' \in {"attach", "grow"} BY <2>1, <1>1
    <2> QED BY <2>1, <2>2, <1>1, <1>2 DEF Rounds
  <1> QED BY <1>4, <1>5, <1>6, <1>7, <1>8 DEF Integrate

\* In every stage one of the next steps can be taken.
LEMMA StuckNowhere == IInv => NeverStuck
  <1> SUFFICES ASSUME IInv PROVE NeverStuck OBVIOUS
  <1>1. ASSUME pc = "attach" PROVE Attachable \/ Establishable \/ Unmatched
    <2>1. CASE anchor = -1 BY <2>1 DEF Establishable, Unmatched
    <2>2. CASE anchor # -1 /\ Successful \intersect Members # {}
      <3>1. Strongest(Successful \intersect Members) # {}
        BY <1>1, <2>2, StrongestExists
      <3> QED BY <3>1, <2>2 DEF Attachable
    <2>3. CASE anchor # -1 /\ Successful \intersect Members = {}
      BY <2>3 DEF Unmatched
    <2> QED BY <2>1, <2>2, <2>3
  <1>2. ASSUME pc = "grow" PROVE Grows
    <2>1. CASE Promotable # {}
      <3>1. Promotable \subseteq Nat
        <4>1. \A p \in Successful : p \in 0..Current - 1 BY <1>2, CurrentFacts
        <4> QED BY <4>1 DEF Promotable
      <3>2. Least(Promotable) # {} BY <2>1, <3>1, LeastExists
      <3> QED BY <3>2 DEF Grows
    <2>2. CASE Promotable = {} /\ head < Len(promoted)
      <3>1. Walking BY <1>2, <2>2 DEF Walking
      <3>2. Seed \in Placed BY <3>1, SeedFacts
      <3>3. Reachable(Seed) \subseteq Nat BY DEF Reachable
      <3>4. Reachable(Seed) # {} => Least(Reachable(Seed)) # {} BY <3>3, LeastExists
      <3> QED BY <3>1, <3>2, <3>4 DEF Grows
    <2>3. CASE Promotable = {} /\ ~(head < Len(promoted))
      <3>1. head = Len(promoted) BY <2>3, MembersFit
      <3>2. Members \subseteq Placed BY AnchorMember DEF IInv
      <3> QED BY <3>1, <3>2, <2>3 DEF Grows
    <2> QED BY <2>1, <2>2, <2>3
  <1> QED BY <1>1, <1>2 DEF NeverStuck

\* The call of gf3258_integrate_enrollment_graph ends, after two rounds for each sample
\* and one more at the most: what fairness adds to it for IntegrationEnds is only that
\* the call goes on at all.
THEOREM IntegrationIsBounded == Spec => []RoundsBounded /\ RoundsFall /\ []NeverStuck
  <1>1. IInv => RoundsBounded /\ NeverStuck BY RoundsInv, StuckNowhere
  <1>2. IInv /\ [Next]_vars => [Integrate => Rounds' < Rounds]_vars BY IntegrateFalls
  <1> QED BY <1>1, <1>2, GraphInvariance, PTL DEF Spec, RoundsFall
=============================================================================
