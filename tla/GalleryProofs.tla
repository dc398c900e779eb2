----------------------------- MODULE GalleryProofs -----------------------------
(***************************************************************************)
(* Proofs about GalleryScan: for every gallery, every metric and any       *)
(* limits on the rejects.                                                  *)
(***************************************************************************)
EXTENDS GalleryScan, TLAPS

(* The latches say what was accepted: a gate, a class, a canonical gate.   *)
LatchesTrue ==
  /\ matcher_state_684 # 0 <=> \E a \in accepted : Gated(a)
  /\ decision = "none" =>
       (matcher_state_688 # 0 <=> \E a \in accepted : a.flags.policy_class # 0)
  /\ matcher_state_644 # 0 <=> \E a \in accepted : Gated(a) /\ a.canonical
  /\ current_score # 0 <=> matcher_state_684 # 0

(* The accumulator holds between 41 and 256 for every accepted sample.     *)
Accumulated ==
  /\ accepted_samples = 0 <=> accepted = {}
  /\ accepted = {} => selected_terminal_work = NoWork
  /\ 41 * accepted_samples =< sum_q8
  /\ sum_q8 =< 256 * accepted_samples

IInv ==
  /\ TypeOK
  /\ LatchesTrue
  /\ Accumulated
  /\ DecisionIsEarned
  /\ SelectedOutranks
  /\ RejectsBounded

--------------------------------------------------------------------------------
(* Arithmetic of the score.                                                *)

(* A judged metric contributes between 41 and 256.                         *)
LEMMA ContributionBounds ==
  ASSUME NEW m \in 5..31
  PROVE  Contribution(m) \in 41..256
BY DEF Contribution

(* Products with a positive number.                                        *)
LEMMA ProductOrder ==
  ASSUME NEW x \in Int, NEW y \in Int, NEW n \in Nat \ {0}, x =< y
  PROVE  x * n =< y * n
  OBVIOUS

LEMMA ProductOfNext ==
  ASSUME NEW x \in Int, NEW n \in Nat \ {0}
  PROVE  (x + 1) * n = x * n + n
  OBVIOUS

(* A quotient is at least any number the divisor fits into that often.     *)
LEMMA QuotientBounds ==
  ASSUME NEW a \in Nat, NEW n \in Nat \ {0}, NEW lo \in Nat, NEW hi \in Nat,
         lo * n =< a, a =< hi * n
  PROVE  a \div n \in lo..hi
<1> DEFINE q == a \div n
<1>1. q \in Int /\ q * n =< a /\ a < q * n + n
  OBVIOUS
<1> HIDE DEF q
<1>2. q >= lo
  <2> SUFFICES ASSUME q + 1 =< lo PROVE FALSE
    BY <1>1
  <2>1. q + 1 \in Int /\ q + 1 =< lo
    BY <1>1
  <2>2. (q + 1) * n =< lo * n
    BY <2>1, ProductOrder
  <2>3. (q + 1) * n = q * n + n
    BY <1>1, ProductOfNext
  <2> DEFINE nq == q * n
             ln == lo * n
             next == (q + 1) * n
  <2>4. nq \in Int /\ ln \in Int /\ next \in Int
    BY <1>1
  <2>5. ln =< a /\ a < nq + n
    BY <1>1
  <2>6. next =< ln /\ next = nq + n
    BY <2>2, <2>3
  <2> HIDE DEF nq, ln, next
  <2> QED BY <2>4, <2>5, <2>6
<1>3. q =< hi
  <2> SUFFICES ASSUME hi + 1 =< q PROVE FALSE
    BY <1>1
  <2>1. hi + 1 \in Int /\ hi + 1 =< q /\ hi \in Int /\ q \in Int
    BY <1>1
  <2>2. (hi + 1) * n =< q * n
    BY <2>1, ProductOrder
  <2>3. (hi + 1) * n = hi * n + n
    BY <2>1, ProductOfNext
  <2> DEFINE nq == q * n
             nh == hi * n
             next == (hi + 1) * n
  <2>4. nq \in Int /\ nh \in Int /\ next \in Int
    BY <1>1
  <2>5. nq =< a /\ a =< nh
    BY <1>1
  <2>6. next =< nq /\ next = nh + n
    BY <2>2, <2>3
  <2> HIDE DEF nq, nh, next
  <2> QED BY <2>4, <2>5, <2>6
<1>4. q \in lo..hi
  BY <1>1, <1>2, <1>3
<1> QED BY <1>4 DEF q

(* A Q8 percentage, scaled down.                                           *)
LEMMA ScaleDown ==
  ASSUME NEW b \in Int, b >= 4100, b =< 25600
  PROVE  b \div 256 \in 16..100
<1> DEFINE q == b \div 256
<1>1. q \in Int /\ 256 * q =< b /\ b < 256 * q + 256
  OBVIOUS
<1> HIDE DEF q
<1>2. q \in 16..100
  BY <1>1
<1> QED BY <1>2 DEF q

(* The percentage of samples that contribute between 41 and 256 each is    *)
(* positive, and 100 at most.                                              *)
LEMMA PercentBounds ==
  ASSUME NEW sum \in Nat, NEW n \in Nat \ {0}, 41 * n =< sum, sum =< 256 * n
  PROVE  Percent(sum, n) \in 16..100
<1> DEFINE a == sum * 100
           lo == 4100
           hi == 25600
           b == a \div n
<1>1. a \in Nat /\ lo * n =< a /\ a =< hi * n
  <2> DEFINE m == 41 * n
             k == 256 * n
  <2>1. m \in Nat /\ k \in Nat /\ 4100 * n = 100 * m /\ 25600 * n = 100 * k
    OBVIOUS
  <2>2. m =< sum /\ sum =< k
    OBVIOUS
  <2> HIDE DEF m, k
  <2>3. a \in Nat /\ 100 * m =< a /\ a =< 100 * k
    BY <2>2, <2>1
  <2> HIDE DEF a
  <2> QED BY <2>1, <2>3
<1>2. lo \in Nat /\ hi \in Nat
  OBVIOUS
<1> HIDE DEF a, lo, hi
<1>3. b \in lo..hi
  BY <1>1, <1>2, QuotientBounds, Zenon
<1> HIDE DEF b
<1>4. b \in Int /\ b >= 4100 /\ b =< 25600
  BY <1>3 DEF lo, hi
<1>5. b \div 256 \in 16..100
  BY <1>4, ScaleDown
<1> QED BY <1>5 DEF Percent, a, b

--------------------------------------------------------------------------------
(* The order of the work records.                                          *)

(* The parts of a key are natural numbers.                                 *)
LEMMA KeyTypes ==
  ASSUME NEW x \in Work \cup {NoWork}
  PROVE  x.metric \in Nat /\ x.evidence \in Nat /\ x.coverage \in Nat
<1>1. CASE x \in Work
  <2>1. x.metric \in Metrics /\ x.evidence \in Evidences /\ x.coverage \in Coverages
    BY <1>1 DEF Work
  <2>2. x.metric \in 0..31 /\ x.evidence \in Nat /\ x.coverage \in Nat
    BY <2>1, MeasuresAssumption, Zenon
  <2> QED BY <2>2
<1>2. CASE x = NoWork
  BY <1>2 DEF NoWork
<1> QED BY <1>1, <1>2

(* Keys are ordered: what does not beat a record does not beat a better    *)
(* one either.                                                             *)
LEMMA BetterOrder ==
  ASSUME NEW u \in Work \cup {NoWork}, NEW v \in Work \cup {NoWork},
         NEW w \in Work \cup {NoWork}, Better(w, v), ~Better(u, v)
  PROVE  ~Better(u, w)
<1>1. \A x \in {u, v, w} :
        x.metric \in Nat /\ x.evidence \in Nat /\ x.coverage \in Nat
  BY KeyTypes
<1> QED BY <1>1 DEF Better

(* No record beats itself.                                                 *)
LEMMA BetterIrreflexive ==
  ASSUME NEW u \in Work \cup {NoWork}
  PROVE  ~Better(u, u)
BY KeyTypes DEF Better

(* A sample that is rescued beats no record at all.                        *)
LEMMA RescuedBeatsNone ==
  ASSUME NEW w \in Work, w.evidence > LowEvidence
  PROVE  Better(w, NoWork)
BY KeyTypes DEF Better, NoWork, LowEvidence

(* A class comes with the gate.                                            *)
LEMMA FlagsOrdered ==
  ASSUME NEW f \in Flags
  PROVE  /\ f.score_gate \in 0..1
         /\ f.policy_class \in 0..2
         /\ f.policy_class # 0 => f.score_gate = 1
BY DEF Flags

--------------------------------------------------------------------------------
(* The preparation of a sample.                                            *)

(* The sample looked at is one of the gallery.                             *)
LEMMA CurrentIsSample ==
  ASSUME TypeOK, Scanning
  PROVE  /\ Current \in Sample
         /\ next_sample_index + 1 \in 1 .. Len(template.samples) + 1
<1>1. template.samples \in Seq(Sample)
  BY TemplatesAssumption DEF TypeOK
<1>2. next_sample_index \in 1 .. Len(template.samples)
  BY <1>1 DEF TypeOK, Scanning
<1> QED BY <1>1, <1>2 DEF Current

(* Promotion never takes the mode down, and keeps it at five or less.      *)
LEMMA PromotedBounds ==
  ASSUME TypeOK, Scanning
  PROVE  Promoted(Current) \in candidate_state .. 5
<1>1. Current \in Sample
  BY CurrentIsSample
<1> QED BY <1>1 DEF Promoted, Sample, TypeOK

(* An evaluated sample leaves the mode and the bump such that every count  *)
(* of rejects up to one more than before is covered.                       *)
LEMMA PrepareBounds ==
  ASSUME TypeOK, RejectsBounded, Evaluates
  PROVE  /\ candidate_state' \in candidate_state .. 5
         /\ candidate_bump_active' \in BOOLEAN
         /\ candidate_bump_active => candidate_bump_active'
         /\ continuation_mode' \in BOOLEAN
         /\ continuation_mode' => continuation_mode
         /\ reject_count + 1 =< RejectStop + 1
         /\ reject_count > RejectBump => candidate_bump_active' \/ candidate_state' > 4
         /\ next_sample_index' \in 1 .. Len(template.samples) + 1
         /\ decision = "none" /\ stop_reason = "none"
<1>1. Promoted(Current) \in candidate_state .. 5
  BY PromotedBounds DEF Evaluates
<1>2. candidate_state \in 0..5 /\ reject_count \in Nat
      /\ candidate_bump_active \in BOOLEAN /\ continuation_mode \in BOOLEAN
  BY DEF TypeOK
<1>3. next_sample_index' \in 1 .. Len(template.samples) + 1
  BY CurrentIsSample DEF Evaluates
<1>4. candidate_state' \in candidate_state .. 5
  BY <1>1, <1>2 DEF Evaluates, Prepare, Bumps, AtLimit
<1>5. /\ candidate_bump_active' \in BOOLEAN
      /\ candidate_bump_active => candidate_bump_active'
      /\ continuation_mode' \in BOOLEAN
      /\ continuation_mode' => continuation_mode
  BY <1>2 DEF Evaluates, Prepare
<1>6. reject_count > RejectBump => candidate_bump_active' \/ candidate_state' > 4
  BY <1>1, <1>2 DEF Evaluates, Prepare, Bumps, AtLimit
<1>7. reject_count + 1 =< RejectStop + 1
  <2>1. CASE AtLimit(Current)
    BY <2>1, <1>2, LimitsAssumption DEF Evaluates, Exhausted
  <2>2. CASE ~AtLimit(Current)
    <3>1. ~candidate_bump_active /\ candidate_state =< 4
      BY <2>2, <1>1, <1>2 DEF AtLimit
    <3> QED BY <3>1, <1>2, LimitsAssumption DEF RejectsBounded
  <2> QED BY <2>1, <2>2
<1> QED BY <1>3, <1>4, <1>5, <1>6, <1>7 DEF Evaluates, Scanning

(* An observation only ever adds a candidate.                              *)
LEMMA ObservesType ==
  ASSUME TypeOK, NEW metric, Observes(metric)
  PROVE  had_candidate' \in BOOLEAN
BY DEF TypeOK, Observes

--------------------------------------------------------------------------------
(* Steps that leave latches and scores alone.                              *)

(* What was said of the samples so far stays true when the scan goes on    *)
(* without a new one.                                                      *)
LEMMA QuietStep ==
  ASSUME IInv, decision = "none",
         UNCHANGED <<config, latches, scores>>,
         decision' \in {"none", "Error"}
  PROVE  /\ LatchesTrue' /\ Accumulated'
         /\ DecisionIsEarned' /\ SelectedOutranks'
<1> USE DEF config, latches, scores
<1>1. LatchesTrue'
  BY DEF IInv, LatchesTrue, Gated
<1>2. Accumulated'
  BY DEF IInv, Accumulated
<1>3. DecisionIsEarned'
  BY DEF DecisionIsEarned
<1>4. SelectedOutranks'
  BY DEF IInv, SelectedOutranks, Rank, Better
<1> QED BY <1>1, <1>2, <1>3, <1>4

--------------------------------------------------------------------------------
(* A sample that is accepted.                                              *)

(* The facts about one accepted sample that every conjunct below needs.    *)
LEMMA AcceptFacts ==
  ASSUME IInv, NEW flags \in Flags, NEW work \in Judged, Accept(flags, work)
  PROVE  /\ work \in Work /\ Contribution(work.metric) \in 41..256
         /\ flags.score_gate \in 0..1 /\ flags.policy_class \in 0..2
         /\ flags.policy_class # 0 => flags.score_gate = 1
         /\ \E new \in Evaluation :
              /\ new.flags = flags /\ new.work = work
              /\ new.canonical = Current.canonical_member
              /\ accepted' = accepted \cup {new}
<1>1. work \in Work /\ work.metric \in 5..31
  <2>1. work \in Work /\ work.metric > 4
    BY DEF Judged
  <2>2. work.metric \in 0..31
    BY <2>1, MeasuresAssumption DEF Work
  <2> QED BY <2>1, <2>2
<1>2. Contribution(work.metric) \in 41..256
  BY <1>1, ContributionBounds
<1>3. Current \in Sample /\ next_sample_index \in Nat
  BY CurrentIsSample DEF IInv, Accept, Evaluates, TypeOK
<1> DEFINE new == [sample |-> next_sample_index, canonical |-> Current.canonical_member,
                   flags |-> flags, work |-> work]
<1>4. new \in Evaluation
  BY <1>1, <1>3 DEF Evaluation, Sample
<1>5. accepted' = accepted \cup {new}
  BY DEF Accept
<1> QED BY <1>1, <1>2, <1>4, <1>5, FlagsOrdered

(* The score kept at a gate is a positive percentage.                      *)
LEMMA AcceptedScore ==
  ASSUME IInv, NEW flags \in Flags, NEW work \in Judged, Accept(flags, work)
  PROVE  /\ Accumulated'
         /\ sum_q8' \in Nat /\ accepted_samples' \in Nat
         /\ flags.score_gate # 0 => current_score' \in 16..100
         /\ flags.score_gate = 0 => current_score' = current_score
<1> DEFINE c == Contribution(work.metric)
<1>1. c \in 41..256
  BY AcceptFacts
<1> HIDE DEF c
<1>2. sum_q8' = sum_q8 + c /\ accepted_samples' = accepted_samples + 1
  BY DEF Accept, c
<1>3. sum_q8 \in Nat /\ accepted_samples \in Nat
  BY DEF IInv, TypeOK
<1>4. /\ sum_q8' \in Nat /\ accepted_samples' \in Nat \ {0}
      /\ 41 * accepted_samples' =< sum_q8' /\ sum_q8' =< 256 * accepted_samples'
  BY <1>1, <1>2, <1>3 DEF IInv, Accumulated
<1>5. accepted' # {}
  BY DEF Accept
<1>6. Accumulated'
  BY <1>4, <1>5 DEF Accumulated
<1>7. Percent(sum_q8', accepted_samples') \in 16..100
  BY <1>4, PercentBounds
<1> QED BY <1>4, <1>6, <1>7 DEF Accept

(* The latches take over what the sample was accepted with.                *)
LEMMA AcceptedLatches ==
  ASSUME IInv, NEW flags \in Flags, NEW work \in Judged, Accept(flags, work)
  PROVE  LatchesTrue'
<1>1. PICK new \in Evaluation :
        /\ new.flags = flags /\ new.work = work
        /\ new.canonical = Current.canonical_member
        /\ accepted' = accepted \cup {new}
  BY AcceptFacts
<1>2. flags.score_gate \in 0..1 /\ flags.policy_class \in 0..2
  BY AcceptFacts
<1>3. decision = "none" /\ decision' = "none"
  BY DEF Accept, Evaluates, Scanning, outcome
<1>4. (matcher_state_684 # 0 <=> \E a \in accepted : Gated(a))'
  <2>1. matcher_state_684' # 0 <=> matcher_state_684 # 0 \/ flags.score_gate # 0
    BY DEF Accept, Latched
  <2>2. (\E a \in accepted' : Gated(a)) <=>
          (\E a \in accepted : Gated(a)) \/ flags.score_gate # 0
    BY <1>1 DEF Gated
  <2> QED BY <2>1, <2>2 DEF IInv, LatchesTrue, Gated
<1>5. (matcher_state_688 # 0 <=> \E a \in accepted : a.flags.policy_class # 0)'
  <2>1. matcher_state_688' # 0 <=> matcher_state_688 # 0 \/ flags.policy_class # 0
    BY DEF Accept, Latched
  <2> QED BY <1>1, <1>3, <2>1 DEF IInv, LatchesTrue
<1>6. (matcher_state_644 # 0 <=> \E a \in accepted : Gated(a) /\ a.canonical)'
  <2>1. matcher_state_644' # 0 <=>
          matcher_state_644 # 0 \/ (flags.score_gate # 0 /\ Current.canonical_member)
    BY DEF Accept
  <2> QED BY <1>1, <2>1 DEF IInv, LatchesTrue, Gated
<1>7. (current_score # 0 <=> matcher_state_684 # 0)'
  <2>1. matcher_state_684' # 0 <=> matcher_state_684 # 0 \/ flags.score_gate # 0
    BY DEF Accept, Latched
  <2>2. CASE flags.score_gate # 0
    <3>1. current_score' # 0
      BY <2>2, AcceptedScore
    <3> QED BY <2>1, <2>2, <3>1
  <2>3. CASE flags.score_gate = 0
    <3>1. current_score' = current_score
      BY <2>3, AcceptedScore
    <3> QED BY <2>1, <2>3, <3>1 DEF IInv, LatchesTrue
  <2> QED BY <2>2, <2>3
<1> QED BY <1>4, <1>5, <1>6, <1>7 DEF LatchesTrue

(* The work selected stays the best one of the highest rank.               *)
LEMMA AcceptedOutranks ==
  ASSUME IInv, NEW flags \in Flags, NEW work \in Judged, Accept(flags, work)
  PROVE  SelectedOutranks'
<1> DEFINE s == selected_terminal_work
           rank == IF flags.policy_class # 0 THEN 2 ELSE flags.score_gate
<1>1. PICK new \in Evaluation :
        /\ new.flags = flags /\ new.work = work
        /\ accepted' = accepted \cup {new}
  BY AcceptFacts
<1>2. /\ work \in Work /\ flags.score_gate \in 0..1 /\ flags.policy_class \in 0..2
      /\ flags.policy_class # 0 => flags.score_gate = 1
  BY AcceptFacts
<1>3. Rank(new) = rank
  BY <1>1 DEF Rank
<1>4. \A b \in accepted :
        /\ b.work \in Work
        /\ Rank(b) \in 0..2
        /\ Rank(b) = 2 <=> b.flags.policy_class # 0
        /\ Rank(b) # 0 <=> Gated(b)
  <2> SUFFICES ASSUME NEW b \in accepted
               PROVE  /\ b.work \in Work /\ Rank(b) \in 0..2
                      /\ Rank(b) = 2 <=> b.flags.policy_class # 0
                      /\ Rank(b) # 0 <=> Gated(b)
    OBVIOUS
  <2>1. b.flags \in Flags /\ b.work \in Work
    BY DEF IInv, TypeOK, Evaluation
  <2> QED BY <2>1, FlagsOrdered DEF Rank, Gated
<1>5. /\ matcher_state_688 # 0 <=> \E b \in accepted : Rank(b) = 2
      /\ matcher_state_684 # 0 <=> \E b \in accepted : Rank(b) # 0
  BY <1>4 DEF IInv, LatchesTrue, Accept, Evaluates, Scanning
<1>6. s \in Work \cup {NoWork}
  BY DEF IInv, TypeOK
<1>7. CASE Replaces(flags, work)
  <2>1. selected_terminal_work' = work
    BY <1>7 DEF Accept
  <2>2. ASSUME NEW b \in accepted
        PROVE  Rank(b) < rank \/ (Rank(b) = rank /\ ~Better(b.work, work))
    <3>1. PICK top \in accepted :
            /\ top.work = s
            /\ \A x \in accepted :
                 Rank(x) < Rank(top) \/ (Rank(x) = Rank(top) /\ ~Better(x.work, top.work))
      BY <2>2 DEF IInv, SelectedOutranks
    <3>2. Better(work, s) => (Rank(b) = Rank(top) => ~Better(b.work, work))
      BY <3>1, <1>4, <1>2, <1>6, BetterOrder
    <3>3. Rank(top) \in 0..2 /\ Rank(b) \in 0..2 /\ Rank(b) =< Rank(top)
      BY <3>1, <1>4
    <3>4. CASE matcher_state_688 # 0
      <4>1. Better(work, s) /\ rank = 2
        BY <1>7, <3>4 DEF Replaces
      <4>2. Rank(top) = 2
        BY <3>1, <3>4, <1>4, <1>5
      <4> QED BY <4>1, <4>2, <3>2, <3>3
    <3>5. CASE matcher_state_688 = 0 /\ matcher_state_684 # 0
      <4>1. Rank(top) = 1
        BY <3>1, <3>5, <1>4, <1>5
      <4>2. flags.policy_class # 0 \/ (flags.score_gate # 0 /\ Better(work, s))
        BY <1>7, <3>5 DEF Replaces
      <4> QED BY <4>1, <4>2, <3>2, <3>3, <1>2
    <3>6. CASE matcher_state_688 = 0 /\ matcher_state_684 = 0
      <4>1. Rank(top) = 0
        BY <3>6, <1>5
      <4>2. flags.policy_class # 0 \/ flags.score_gate # 0 \/ Better(work, s)
        BY <1>7, <3>6 DEF Replaces
      <4> QED BY <4>1, <4>2, <3>2, <3>3, <1>2
    <3> QED BY <3>4, <3>5, <3>6
  <2>3. ~Better(work, work)
    BY <1>2, BetterIrreflexive
  <2>4. \A b \in accepted' :
          Rank(b) < Rank(new) \/ (Rank(b) = Rank(new) /\ ~Better(b.work, new.work))
    BY <1>1, <1>3, <2>2, <2>3
  <2> QED BY <1>1, <2>1, <2>4 DEF SelectedOutranks, Rank, Better
<1>8. CASE ~Replaces(flags, work)
  <2>1. selected_terminal_work' = s
    BY <1>8 DEF Accept
  <2>2. accepted # {}
    <3> SUFFICES ASSUME accepted = {} PROVE FALSE
      OBVIOUS
    <3>1. s = NoWork /\ matcher_state_688 = 0 /\ matcher_state_684 = 0
      BY <1>5 DEF IInv, Accumulated
    <3>2. flags.score_gate = 0 /\ ~Better(work, s)
      BY <1>8, <3>1 DEF Replaces
    <3>3. work.evidence > LowEvidence
      BY <3>2 DEF Accept, ReachesScore
    <3> QED BY <3>1, <3>2, <3>3, <1>2, RescuedBeatsNone
  <2>3. PICK top \in accepted :
          /\ top.work = s
          /\ \A x \in accepted :
               Rank(x) < Rank(top) \/ (Rank(x) = Rank(top) /\ ~Better(x.work, top.work))
    BY <2>2 DEF IInv, SelectedOutranks
  <2>4. rank < Rank(top) \/ (rank = Rank(top) /\ ~Better(work, s))
    <3>1. CASE matcher_state_688 # 0
      <4>1. Rank(top) = 2
        BY <2>3, <3>1, <1>4, <1>5
      <4>2. flags.policy_class = 0 \/ ~Better(work, s)
        BY <1>8, <3>1 DEF Replaces
      <4> QED BY <4>1, <4>2, <1>2
    <3>2. CASE matcher_state_688 = 0 /\ matcher_state_684 # 0
      <4>1. Rank(top) = 1
        BY <2>3, <3>2, <1>4, <1>5
      <4>2. /\ flags.policy_class = 0
            /\ flags.score_gate = 0 \/ ~Better(work, s)
        BY <1>8, <3>2 DEF Replaces
      <4> QED BY <4>1, <4>2, <1>2
    <3>3. CASE matcher_state_688 = 0 /\ matcher_state_684 = 0
      <4>1. Rank(top) = 0
        BY <3>3, <1>5
      <4>2. flags.policy_class = 0 /\ flags.score_gate = 0 /\ ~Better(work, s)
        BY <1>8, <3>3 DEF Replaces
      <4> QED BY <4>1, <4>2
    <3> QED BY <3>1, <3>2, <3>3
  <2>5. \A b \in accepted' :
          Rank(b) < Rank(top) \/ (Rank(b) = Rank(top) /\ ~Better(b.work, top.work))
    BY <1>1, <1>3, <2>3, <2>4
  <2> QED BY <1>1, <2>1, <2>3, <2>5 DEF SelectedOutranks, Rank, Better
<1> QED BY <1>7, <1>8

--------------------------------------------------------------------------------
(* The end of the scan.                                                    *)

(* The decision follows from what was accepted.                            *)
LEMMA FinishDecides ==
  ASSUME IInv, Finish
  PROVE  DecisionIsEarned' /\ score' \in -7 .. 100 /\ decision' \in {"Match", "NoMatch"}
<1>1. UNCHANGED <<accepted, accepted_samples, sum_q8, candidate_state,
                  selected_terminal_work, current_score>>
  BY DEF Finish, modes, scores
<1>2. Retains <=> \E a \in accepted : Gated(a)
  BY DEF IInv, LatchesTrue, Retains
<1>3. current_score \in 0..100 /\ candidate_state \in 0..5 /\ accepted_samples \in Nat
      /\ sum_q8 \in Nat
  BY DEF IInv, TypeOK
<1>4. accepted_samples > 0 <=> accepted # {}
  BY <1>3 DEF IInv, Accumulated
<1>5. accepted_samples > 0 => Percent(sum_q8, accepted_samples) \in 16..100
  BY <1>3, PercentBounds DEF IInv, Accumulated
<1>6. decision' = IF score' > 0 THEN "Match" ELSE "NoMatch"
  BY DEF Finish
<1>7. CASE Retains
  <2>1. score' = current_score
    BY <1>7 DEF Finish, TerminalScores, GateExits, Restores
  <2>2. score' > 0 /\ score' \in -7 .. 100
    BY <1>3, <1>7, <2>1 DEF Retains
  <2> QED BY <1>1, <1>2, <1>6, <1>7, <2>2 DEF DecisionIsEarned, Gated
<1>8. CASE GateExits
  <2>1. score' = 0 /\ ~Retains /\ ~(candidate_state < 4)
    BY <1>3, <1>8 DEF Finish, TerminalScores, GateExits, Restores
  <2> QED BY <1>1, <1>2, <1>6, <2>1 DEF DecisionIsEarned, Gated
<1>9. CASE Restores
  <2>1. score' = Percent(sum_q8, accepted_samples)
    BY <1>9 DEF Finish, TerminalScores, Restores
  <2>2. /\ score' > 0 /\ score' \in -7 .. 100
        /\ accepted # {} /\ candidate_state < 4 /\ selected_terminal_work.strong
    BY <1>3, <1>4, <1>5, <1>9, <2>1 DEF Restores, GateExits
  <2> QED BY <1>1, <1>6, <2>2 DEF DecisionIsEarned
<1>10. CASE ~Retains /\ ~GateExits /\ ~Restores
  <2>1. score' \in FallbackScores
    BY <1>10 DEF Finish, TerminalScores
  <2>2. score' \in -7 .. 0
    BY <2>1 DEF FallbackScores
  <2>3. ~(accepted # {} /\ candidate_state < 4 /\ selected_terminal_work.strong)
    BY <1>4, <1>10 DEF Restores
  <2>4. decision' = "NoMatch" /\ score' \in -7 .. 100
    BY <1>6, <2>2
  <2> QED BY <1>1, <1>2, <1>10, <2>3, <2>4 DEF DecisionIsEarned, Gated
<1> QED BY <1>7, <1>8, <1>9, <1>10

--------------------------------------------------------------------------------
(* The invariant.                                                          *)

(* A scan that has not looked at anything satisfies it.                    *)
LEMMA InitInv == Init => IInv
<1> SUFFICES ASSUME Init PROVE IInv
  OBVIOUS
<1>1. TypeOK
  <2>1. template.samples \in Seq(Sample) /\ retained \in BOOLEAN
    BY TemplatesAssumption, ConfigAssumption DEF Init
  <2>2. next_sample_index \in 1 .. Len(template.samples) + 1
    BY <2>1 DEF Init
  <2>3. /\ candidate_bump_active \in BOOLEAN /\ continuation_mode \in BOOLEAN
        /\ had_candidate \in BOOLEAN
    BY <2>1, Zenon DEF Init
  <2>4. accepted \subseteq Evaluation /\ selected_terminal_work \in Work \cup {NoWork}
    <3>1. accepted = {} /\ selected_terminal_work = NoWork
      BY DEF Init
    <3> QED BY <3>1
  <2>5. score \in -7 .. 100 /\ current_score \in 0..100 /\ candidate_state \in 0..5
    BY DEF Init
  <2> QED BY <2>1, <2>2, <2>3, <2>4, <2>5 DEF Init, TypeOK
<1>2. LatchesTrue /\ Accumulated
  BY DEF Init, LatchesTrue, Accumulated
<1>3. DecisionIsEarned /\ SelectedOutranks
  BY DEF Init, DecisionIsEarned, SelectedOutranks
<1>4. RejectsBounded
  BY LimitsAssumption DEF Init, RejectsBounded
<1> QED BY <1>1, <1>2, <1>3, <1>4 DEF IInv

(* An evaluation that accepts nothing keeps it, with one reject more or    *)
(* none.                                                                   *)
LEMMA EvaluatedQuietly ==
  ASSUME IInv, Evaluates,
         UNCHANGED <<config, latches, scores, stop_reason, outcome>>,
         reject_count' \in {reject_count, reject_count + 1},
         had_candidate' \in BOOLEAN
  PROVE  IInv'
<1>1. TypeOK /\ RejectsBounded
  BY DEF IInv
<1>2. /\ candidate_state' \in candidate_state .. 5
      /\ candidate_bump_active' \in BOOLEAN
      /\ candidate_bump_active => candidate_bump_active'
      /\ continuation_mode' \in BOOLEAN
      /\ continuation_mode' => continuation_mode
      /\ reject_count + 1 =< RejectStop + 1
      /\ reject_count > RejectBump => candidate_bump_active' \/ candidate_state' > 4
      /\ next_sample_index' \in 1 .. Len(template.samples) + 1
      /\ decision = "none" /\ stop_reason = "none"
  BY <1>1, PrepareBounds
<1>3. TypeOK'
  BY <1>1, <1>2 DEF TypeOK, config, latches, scores, outcome
<1>4. RejectsBounded'
  <2>1. reject_count \in Nat /\ candidate_state \in 0..5
    BY <1>1 DEF TypeOK
  <2> QED BY <1>2, <2>1, LimitsAssumption DEF RejectsBounded
<1>5. /\ LatchesTrue' /\ Accumulated'
      /\ DecisionIsEarned' /\ SelectedOutranks'
  BY <1>2, QuietStep DEF outcome
<1> QED BY <1>3, <1>4, <1>5 DEF IInv

(* Every step keeps it.                                                    *)
LEMMA NextInv == IInv /\ [Next]_vars => IInv'
<1> SUFFICES ASSUME IInv, [Next]_vars PROVE IInv'
  OBVIOUS
<1>1. CASE SkipSample
  <2>1. /\ decision = "none" /\ UNCHANGED <<config, latches, scores, outcome, modes>>
        /\ UNCHANGED <<reject_count, had_candidate, stop_reason>>
    BY <1>1 DEF SkipSample, Scanning
  <2>2. TypeOK'
    <3>1. next_sample_index' \in 1 .. Len(template.samples) + 1
      BY <1>1, CurrentIsSample DEF IInv, SkipSample
    <3> QED BY <2>1, <3>1 DEF IInv, TypeOK, config, latches, scores, outcome, modes
  <2>3. RejectsBounded'
    BY <2>1 DEF IInv, RejectsBounded, modes
  <2>4. /\ LatchesTrue' /\ Accumulated'
        /\ DecisionIsEarned' /\ SelectedOutranks'
    BY <2>1, QuietStep DEF outcome, modes
  <2> QED BY <2>2, <2>3, <2>4 DEF IInv
<1>2. CASE StopAtRejects
  <2>1. /\ decision = "none" /\ UNCHANGED <<config, latches, scores, outcome>>
        /\ UNCHANGED <<reject_count, had_candidate, candidate_bump_active, continuation_mode>>
        /\ stop_reason' = "RejectCountLimit"
        /\ candidate_state' = Promoted(Current)
        /\ AtLimit(Current) /\ reject_count > RejectStop
    BY <1>2 DEF StopAtRejects, Scanning, Exhausted
  <2>2. candidate_state' \in candidate_state .. 5
    BY <1>2, <2>1, PromotedBounds DEF IInv, StopAtRejects
  <2>3. TypeOK'
    <3>1. next_sample_index' \in 1 .. Len(template.samples) + 1
      BY <1>2, CurrentIsSample DEF IInv, StopAtRejects
    <3> QED BY <2>1, <2>2, <3>1 DEF IInv, TypeOK, config, latches, scores, outcome
  <2>4. RejectsBounded'
    <3>1. reject_count \in Nat /\ candidate_state \in 0..5
      BY DEF IInv, TypeOK
    <3> QED BY <2>1, <2>2, <3>1, LimitsAssumption DEF IInv, RejectsBounded, AtLimit
  <2>5. /\ LatchesTrue' /\ Accumulated'
        /\ DecisionIsEarned' /\ SelectedOutranks'
    BY <2>1, QuietStep DEF outcome
  <2> QED BY <2>3, <2>4, <2>5 DEF IInv
<1>3. CASE EvaluationFails
  <2>1. /\ decision = "none" /\ decision' = "Error"
        /\ UNCHANGED <<config, latches, scores, modes>>
        /\ UNCHANGED <<next_sample_index, reject_count, had_candidate, stop_reason, score>>
    BY <1>3 DEF EvaluationFails, Scanning
  <2>2. TypeOK'
    BY <2>1 DEF IInv, TypeOK, config, latches, scores, modes
  <2>3. RejectsBounded'
    BY <2>1 DEF IInv, RejectsBounded, modes
  <2>4. /\ LatchesTrue' /\ Accumulated'
        /\ DecisionIsEarned' /\ SelectedOutranks'
    BY <2>1, QuietStep DEF modes
  <2> QED BY <2>2, <2>3, <2>4 DEF IInv
<1>4. CASE GeometryTooWeak
  BY <1>4, EvaluatedQuietly, ObservesType DEF GeometryTooWeak, IInv
<1>5. CASE Dismissed
  BY <1>5, EvaluatedQuietly DEF Dismissed, IInv, TypeOK
<1>6. CASE LatePolicyRejects
  BY <1>6, EvaluatedQuietly DEF LatePolicyRejects, IInv, TypeOK
<1>7. CASE NotSelected
  BY <1>7, EvaluatedQuietly, ObservesType DEF NotSelected, IInv
<1>8. CASE Accepted
  <2>1. PICK flags \in Flags, work \in Judged : Accept(flags, work)
    BY <1>8 DEF Accepted
  <2>2. /\ candidate_state' \in candidate_state .. 5
        /\ candidate_bump_active' \in BOOLEAN
        /\ candidate_bump_active => candidate_bump_active'
        /\ continuation_mode' \in BOOLEAN
        /\ next_sample_index' \in 1 .. Len(template.samples) + 1
        /\ decision = "none" /\ stop_reason = "none"
    BY <2>1, PrepareBounds DEF IInv, Accept
  <2>3. UNCHANGED <<config, reject_count, outcome>>
    BY <2>1 DEF Accept
  <2>4. TypeOK'
    <3>1. matcher_state_644' \in 0..1 /\ matcher_state_684' \in 0..1
          /\ matcher_state_688' \in 0..1
      BY <2>1 DEF IInv, TypeOK, Accept, Latched
    <3>2. /\ sum_q8' \in Nat /\ accepted_samples' \in Nat /\ current_score' \in 0..100
      <4>1. /\ sum_q8' \in Nat /\ accepted_samples' \in Nat
            /\ flags.score_gate # 0 => current_score' \in 16..100
            /\ flags.score_gate = 0 => current_score' = current_score
        BY <2>1, AcceptedScore
      <4>2. current_score \in 0..100
        BY DEF IInv, TypeOK
      <4> QED BY <4>1, <4>2
    <3>3. accepted' \subseteq Evaluation
      BY <2>1, AcceptFacts DEF IInv, TypeOK
    <3>4. selected_terminal_work' \in Work \cup {NoWork}
      BY <2>1, AcceptFacts DEF IInv, TypeOK, Accept
    <3>5. had_candidate' \in BOOLEAN /\ stop_reason' \in {"none", "RejectCountLimit", "ScoreGate"}
      BY <2>1, ObservesType DEF IInv, TypeOK, Accept
    <3>6. candidate_state' \in 0..5
      BY <2>2 DEF IInv, TypeOK
    <3> QED BY <2>2, <2>3, <3>1, <3>2, <3>3, <3>4, <3>5, <3>6 DEF IInv, TypeOK, config, outcome
  <2>5. RejectsBounded'
    <3>1. reject_count \in Nat /\ candidate_state \in 0..5
      BY DEF IInv, TypeOK
    <3>2. stop_reason' # "RejectCountLimit"
      BY <2>1, <2>2 DEF Accept
    <3> QED BY <2>2, <2>3, <3>1, <3>2 DEF IInv, RejectsBounded
  <2>6. DecisionIsEarned'
    BY <2>2, <2>3 DEF DecisionIsEarned, outcome
  <2> QED BY <2>1, <2>4, <2>5, <2>6, AcceptedScore, AcceptedLatches, AcceptedOutranks
      DEF IInv
<1>9. CASE Finish
  <2>1. /\ UNCHANGED <<config, next_sample_index, matcher_state_644, matcher_state_684>>
        /\ UNCHANGED <<reject_count, modes, scores, had_candidate, stop_reason>>
        /\ matcher_state_688' \in {matcher_state_688, 0}
    BY <1>9 DEF Finish
  <2>2. DecisionIsEarned' /\ score' \in -7 .. 100 /\ decision' \in {"Match", "NoMatch"}
    BY <1>9, FinishDecides
  <2>3. TypeOK'
    BY <2>1, <2>2 DEF IInv, TypeOK, config, modes, scores
  <2>4. LatchesTrue'
    BY <2>1, <2>2 DEF IInv, LatchesTrue, Gated, scores
  <2>5. Accumulated'
    BY <2>1 DEF IInv, Accumulated, scores
  <2>6. SelectedOutranks'
    BY <2>1 DEF IInv, SelectedOutranks, Rank, Better, scores
  <2>7. RejectsBounded'
    BY <2>1 DEF IInv, RejectsBounded, modes
  <2> QED BY <2>2, <2>3, <2>4, <2>5, <2>6, <2>7 DEF IInv
<1>10. CASE UNCHANGED vars
  BY <1>10 DEF vars, config, latches, modes, scores, outcome, IInv, TypeOK, LatchesTrue,
               Accumulated, DecisionIsEarned, SelectedOutranks, RejectsBounded,
               Gated, Rank, Better
<1> QED BY <1>1, <1>2, <1>3, <1>4, <1>5, <1>6, <1>7, <1>8, <1>9, <1>10 DEF Next

(* The invariant holds throughout every scan.                              *)
THEOREM GalleryInvariant == Spec => []IInv
BY InitInv, NextInv, PTL DEF Spec

(* Every variable keeps its type; the signed score stays between -7 and    *)
(* 100.                                                                    *)
THEOREM GalleryTypes == Spec => []TypeOK
<1>1. IInv => TypeOK
  BY DEF IInv
<1> QED BY <1>1, GalleryInvariant, PTL

(* A match is said exactly on an accepted gate, or on accepted samples     *)
(* whose best work has a score of its own, for every gallery.              *)
THEOREM MatchIsEarned == Spec => []DecisionIsEarned
<1>1. IInv => DecisionIsEarned
  BY DEF IInv
<1> QED BY <1>1, GalleryInvariant, PTL

(* The terminal score is taken from the best accepted sample, in whatever  *)
(* order the gallery is.                                                   *)
THEOREM BestWorkIsSelected == Spec => []SelectedOutranks
<1>1. IInv => SelectedOutranks
  BY DEF IInv
<1> QED BY <1>1, GalleryInvariant, PTL

(* The late policy rejects at most RejectStop + 1 times, for every length  *)
(* of gallery and any two limits.                                          *)
THEOREM RejectsAreBounded == Spec => []RejectsBounded
<1>1. IInv => RejectsBounded
  BY DEF IInv
<1> QED BY <1>1, GalleryInvariant, PTL

================================================================================
