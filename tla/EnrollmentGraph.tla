---------------------------- MODULE EnrollmentGraph ----------------------------
(***************************************************************************)
(* How an accepted enrollment sample becomes part of the template:         *)
(* add_sample_with_optional_persistence of src/src/enrollment_add.rs       *)
(* registers it against every earlier sample, and                          *)
(* gf3258_integrate_enrollment_graph of src/src/enrollment_graph.rs grows  *)
(* the canonical component, the samples whose position relative to one     *)
(* anchor sample is known.  The code is sequential; one step here is one   *)
(* stage of it or one round of one of its loops.                           *)
(*                                                                         *)
(* What registration finds (geometric inliers, a transform and the score   *)
(* of the transform in each direction) is chosen freely for every pair of  *)
(* samples.  Transforms are abstract: composing with the identity changes  *)
(* nothing and inverting twice gives the transform back, which the Q8      *)
(* arithmetic of affine.rs does up to rounding.                            *)
(*                                                                         *)
(* AddKeepingHead, AttachZeroing, AttachAbsent, EstablishAnew,             *)
(* PromoteUninverted, ReachableBelow and SameSeed are slips a change of    *)
(* the code could introduce; the specification uses none of them.          *)
(***************************************************************************)
EXTENDS Integers, Sequences, Functions

CONSTANTS MaxSamples,        \* configured_max_samples
          Transforms,        \* the registration transforms
          Identity,
          Compose(_, _),     \* compose_and_normalize: the second one first
          Invert(_),
          Measures           \* what an accepted registration can find

ASSUME GraphAssumption ==
  /\ MaxSamples \in Nat
  /\ Identity \in Transforms
  /\ \A s, t \in Transforms : Compose(s, t) \in Transforms
  /\ \A t \in Transforms : /\ Invert(t) \in Transforms
                           /\ Invert(Invert(t)) = t
                           /\ Compose(Identity, t) = t

\* gf3258_registration_accepts takes no pair with fewer than six inliers.
ASSUME MeasureAssumption ==
  Measures \subseteq [inliers : Nat \ 0..5, transform : Transforms, score : Int, back : Int]

VARIABLES count,       \* samples.len()
          measured,    \* what registration finds for each pair, if anything
          link,        \* relations: the triangular pair table
          anchor,      \* canonical_anchor; -1 while canonical_established is not set
          joined,      \* the canonical members, in the order they became one
          promoted,    \* promoted_samples, and closure_seeds, of this integration
          head,        \* closure seeds already walked
          flags,       \* canonical flags of the persistent samples
          pc           \* where the integration is

vars == <<count, measured, link, anchor, joined, promoted, head, flags, pc>>

-----------------------------------------------------------------------------
(* Thresholds and the pair table. *)

GraphThreshold     == 205      \* GF3258_ENROLLMENT_GRAPH_SCORE_THRESHOLD
PromotionThreshold == 209      \* GF3258_REGISTRATION_SCORE_WEAK

Samples == 0..MaxSamples - 1
Pairs   == {p \in Samples \X Samples : p[2] < p[1]}

\* A pair is stored under its higher sample, its transform from higher to lower.
Pair(i, j) == IF j < i THEN <<i, j>> ELSE <<j, i>>
Directed(i, j, t) == IF j < i THEN t ELSE Invert(t)

\* What registration says of the way from one sample to another.
Nothing      == [inliers |-> 0, transform |-> Identity, score |-> 0, back |-> 0]
Found(i, j)  == measured[Pair(i, j)] # Nothing
Direct(i, j) == Directed(i, j, measured[Pair(i, j)].transform)
Score(i, j)  == IF j < i THEN measured[Pair(i, j)].score ELSE measured[Pair(i, j)].back

\* relation_source_to_target and set_relation_source_to_target.
Absent          == [value |-> -1, transform |-> Identity]
Value(i, j)     == link[Pair(i, j)].value
Transform(i, j) == Directed(i, j, link[Pair(i, j)].transform)
Stored(i, j, v, t) ==
  [link EXCEPT ![Pair(i, j)] = [value |-> v, transform |-> Directed(i, j, t)]]

-----------------------------------------------------------------------------
(* The canonical component. *)

Members == Range(joined)
Current == count - 1
Successful == {p \in 0..Current - 1 : Found(Current, p)}

\* sample_to_anchor, and the samples for which it returns one.
Placed == {anchor} \union {s \in Members \ {anchor} : Value(s, anchor) >= 0}
ToAnchor(s) == IF s = anchor THEN Identity ELSE Transform(s, anchor)

\* max_by_key over ascending samples: the last one of the greatest.
Weaker(o, s) == \/ Value(Current, o) < Value(Current, s)
                \/ Value(Current, o) = Value(Current, s) /\ o < s
Strongest(S) == {s \in S : \A o \in S \ {s} : Weaker(o, s)}

Least(S) == {s \in S : \A o \in S : s =< o}

-----------------------------------------------------------------------------
(* Adding a sample. *)

\* The integration is over: sync_persistent_canonical_flags.
SyncFlags == flags' = Range(joined')

Idle == pc' = "idle" /\ SyncFlags

\* The loop over the earlier samples; find says which registrations are accepted.
Accepted(find) == {p \in 0..count - 1 : find[p] # Nothing}

Register(find) ==
  /\ pc = "idle"
  /\ count < MaxSamples
  /\ count' = count + 1
  /\ measured' = [p \in Pairs |-> IF p[1] = count THEN find[p[2]] ELSE measured[p]]
  /\ link' = [p \in Pairs |->
               IF p[1] = count /\ p[2] \in Accepted(find)
               THEN [value |-> find[p[2]].inliers, transform |-> find[p[2]].transform]
               ELSE link[p]]
  /\ promoted' = <<>>
  /\ UNCHANGED <<anchor, joined>>

AddKeepingHead(find) ==
  /\ Register(find)
  /\ UNCHANGED head
  /\ IF Accepted(find) = {} THEN Idle ELSE pc' = "attach" /\ UNCHANGED flags

AddSample(find) ==
  /\ Register(find)
  /\ head' = 0
  /\ IF Accepted(find) = {} THEN Idle ELSE pc' = "attach" /\ UNCHANGED flags

\* MissingCanonicalTransform ends the enrollment; the sample stays.
Breaks == /\ pc' = "failed"
          /\ UNCHANGED <<count, measured, link, anchor, joined, promoted, head, flags>>

\* store_current_to_anchor, for a new sample that matches a canonical one.
Join(through, v) ==
  /\ link' = Stored(Current, anchor, v, Compose(ToAnchor(through), Transform(Current, through)))
  /\ joined' = Append(joined, Current)
  /\ pc' = "grow"
  /\ UNCHANGED <<count, measured, anchor, promoted, head, flags>>

AttachZeroing ==
  /\ pc = "attach" /\ anchor # -1
  /\ \E through \in Strongest(Successful \intersect Members) : Join(through, 0)

AttachAbsent ==
  /\ pc = "attach" /\ anchor # -1
  /\ \E through \in Strongest(Successful \intersect Members) :
       Join(through, Value(Current, anchor))

\* Stage 1: through the canonical sample the new one matches best; a relation the
\* two already have keeps its value.
Attach ==
  /\ pc = "attach" /\ anchor # -1
  /\ \E through \in Strongest(Successful \intersect Members) :
       IF through \in Placed
       THEN Join(through, IF Value(Current, anchor) < 0 THEN 0 ELSE Value(Current, anchor))
       ELSE Breaks

\* Stage 2: the best match becomes the anchor of the component.
Matches(s) == Value(Current, s) > 5 /\ Score(Current, s) > GraphThreshold

EstablishAnew ==
  /\ pc = "attach"
  /\ \E best \in Strongest(Successful) :
       /\ Matches(best)
       /\ anchor' = best
       /\ joined' = <<best, Current>>
       /\ link' = Stored(Current, best, Value(Current, best), Transform(Current, best))
  /\ pc' = "grow"
  /\ UNCHANGED <<count, measured, promoted, head, flags>>

Establish ==
  /\ pc = "attach" /\ anchor = -1
  /\ \E best \in Strongest(Successful) :
       /\ Matches(best)
       /\ anchor' = best
       /\ joined' = <<best, Current>>
       /\ link' = Stored(Current, best, Value(Current, best), Transform(Current, best))
  /\ pc' = "grow"
  /\ UNCHANGED <<count, measured, promoted, head, flags>>

\* The new sample stays outside the component, or there is none.
StaysOutside ==
  /\ pc = "attach"
  /\ IF anchor = -1
     THEN \A best \in Strongest(Successful) : ~Matches(best)
     ELSE Successful \intersect Members = {}
  /\ UNCHANGED <<count, measured, link, anchor, joined, promoted, head>>
  /\ Idle

-----------------------------------------------------------------------------
(* Growing the component. *)

\* store_promoted_to_anchor, for a sample whose way to the anchor leads through
\* another one.
Promote(s, through, way) ==
  /\ link' = Stored(s, anchor, 0, Compose(ToAnchor(through), way))
  /\ joined' = Append(joined, s)
  /\ promoted' = Append(promoted, s)
  /\ UNCHANGED <<count, measured, anchor, head, flags, pc>>

\* Stage 3: what the new sample matches well enough.
Promotable ==
  {p \in Successful \ Members :
     Value(Current, p) >= 0 /\ Score(Current, p) >= PromotionThreshold}

PromoteUninverted ==
  /\ pc = "grow"
  /\ \E p \in Least(Promotable) : Promote(p, Current, Transform(Current, p))

PromoteMatched ==
  /\ pc = "grow"
  /\ \E p \in Least(Promotable) : Promote(p, Current, Invert(Transform(Current, p)))

\* Stage 4: what the promoted samples are linked to, seed after seed.
ReachableBelow(through) ==
  {c \in 0..through - 1 : /\ c \notin Members
                          /\ Value(c, through) >= 0
                          /\ Score(c, through) > GraphThreshold}

Reachable(through) ==
  {c \in 0..Current - 1 : /\ c \notin Members
                          /\ Value(c, through) >= 0
                          /\ Score(c, through) > GraphThreshold}

Seed    == promoted[head + 1]
Walking == pc = "grow" /\ Promotable = {} /\ head < Len(promoted)

Close ==
  /\ Walking /\ Seed \in Placed
  /\ \E c \in Least(Reachable(Seed)) : Promote(c, Seed, Transform(c, Seed))

SameSeed ==
  /\ Walking /\ Seed \in Placed /\ Reachable(Seed) = {}
  /\ UNCHANGED vars

NextSeed ==
  /\ Walking
  /\ IF Seed \in Placed
     THEN /\ Reachable(Seed) = {}
          /\ head' = head + 1
          /\ UNCHANGED <<count, measured, link, anchor, joined, promoted, flags, pc>>
     ELSE Breaks

\* Stage 5, the novelty, needs the way from every canonical sample to the anchor.
Finish ==
  /\ pc = "grow" /\ Promotable = {} /\ head = Len(promoted)
  /\ IF Members \subseteq Placed
     THEN /\ UNCHANGED <<count, measured, link, anchor, joined, promoted, head>>
          /\ Idle
     ELSE Breaks

-----------------------------------------------------------------------------
Init ==
  /\ count = 0
  /\ measured = [p \in Pairs |-> Nothing]
  /\ link = [p \in Pairs |-> Absent]
  /\ anchor = -1
  /\ joined = <<>>
  /\ promoted = <<>>
  /\ head = 0
  /\ flags = {}
  /\ pc = "idle"

Integrate == \/ Attach \/ Establish \/ StaysOutside
             \/ PromoteMatched \/ Close \/ NextSeed \/ Finish

Next == (\E find \in [0..count - 1 -> Measures \union {Nothing}] : AddSample(find)) \/ Integrate

Spec == Init /\ [][Next]_vars

\* The integration is one call: it runs to its end.
FairSpec == Spec /\ WF_vars(Integrate)

-----------------------------------------------------------------------------
(* Properties. *)

TypeOK ==
  /\ count \in 0..MaxSamples
  /\ measured \in [Pairs -> Measures \union {Nothing}]
  /\ link \in [Pairs -> [value : Int, transform : Transforms]]
  /\ anchor \in Samples \union {-1}
  /\ joined \in Seq(Samples)
  /\ promoted \in Seq(Samples)
  /\ head \in 0..Len(promoted)
  /\ flags \subseteq Samples
  /\ pc \in {"idle", "attach", "grow", "failed"}

\* MissingCanonicalTransform cannot happen, although it could only be noticed when
\* the sample is already in the template; and between two samples the persistent
\* flags are those of the graph.
NeverStranded == pc # "failed" /\ (pc = "idle" => flags = Members)

\* Every canonical sample is where one measured registration puts it from a sample
\* that became canonical before it: whatever the order of attachment, promotion
\* and closure, and whichever way a pair is stored, no way to the anchor is
\* composed the wrong way round, inverted once too often or made up.
MembersDerived ==
  /\ anchor # -1 <=> joined # <<>>
  /\ joined # <<>> => joined[1] = anchor
  /\ \A k \in 2..Len(joined) : \E j \in 1..k - 1 :
       LET s == joined[k]
           t == joined[j]
       IN /\ Found(s, t)
          /\ ToAnchor(s) = Compose(ToAnchor(t), Direct(s, t))

\* The strong relations (above 2) that the template keeps connect every canonical
\* sample to one that became canonical before it, although promotion overwrites
\* relations with 0: the serialization forest of the template, which follows
\* strong relations, does not tear the component apart.
StronglyConnected ==
  \A k \in 2..Len(joined) : \E j \in 1..k - 1 : Value(joined[k], joined[j]) > 2

\* When a seed has been walked no earlier sample outside the component matches it
\* above the threshold, whatever was promoted meanwhile.
ClosureComplete ==
  \A k \in 1..head : \A c \in (0..Current - 1) \ Members :
    Found(c, promoted[k]) => Score(c, promoted[k]) =< GraphThreshold

\* Once a sample has a place relative to the anchor, no later sample moves it, takes
\* it out of the component or changes the anchor.
MembersStay ==
  [][/\ anchor # -1 => anchor' = anchor
     /\ \A s \in Members : s \in Members' /\ ToAnchor(s)' = ToAnchor(s)]_vars

\* The promotion and the closure loops end.
IntegrationEnds == pc \in {"attach", "grow"} ~> pc = "idle"

\* "Samples newly promoted to Feature+0x100 == 1 by this call, excluding the current
\* sample itself."
PromotedListed ==
  [][Finish => Range(promoted) = (Members \ flags) \ {Current}]_vars
=============================================================================
