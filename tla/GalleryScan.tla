------------------------------ MODULE GalleryScan ------------------------------
(***************************************************************************)
(* The scan of a stored gallery against one live feature                   *)
(* (gf3258_verify_persisted_gallery): the samples are tried in the order   *)
(* they are stored in, a mode and three latches go from one sample to the  *)
(* next, and the score that says MATCH is arbitrated at the end.           *)
(*                                                                         *)
(* The image processing and the policy programs are abstracted to what     *)
(* they can answer: the metric and evidence of a sample, and which stage   *)
(* rejects it.  verification_live.rs fixes config_34 = 1, config_48 = 0    *)
(* and no profile: the modes start at zero, no slot is selected and the    *)
(* near-identity test is off.  It also fixes config_10 = 0; the loop keeps *)
(* going after a score gate when config_10 is not zero.                    *)
(***************************************************************************)
EXTENDS Integers, Sequences

CONSTANTS Templates,    \* the galleries: [samples, configured_max_samples]
          Config10,     \* whether a scan goes on after a score gate, by config_10
                        \* and what the feature and the gallery say of it (68c)
          Metrics,      \* geometry metrics, 31 at most
          Evidences,    \* what the maps say of a sample, Q8
          Coverages,    \* scaled coverages, Q8
          RejectBump,   \* rejects tolerated before the mode goes up: 5
          RejectStop    \* rejects tolerated before the scan stops: 10

Sample == [canonical_member : BOOLEAN, embedded : {0, 1, 2, 4, 5}]

ASSUME TemplatesAssumption ==
  \A t \in Templates :
     /\ t.samples \in Seq(Sample)
     /\ t.configured_max_samples \in Nat
     /\ Len(t.samples) =< t.configured_max_samples
ASSUME ConfigAssumption == Config10 \subseteq BOOLEAN
ASSUME MeasuresAssumption ==
  Metrics \subseteq 0..31 /\ Evidences \subseteq Nat /\ Coverages \subseteq Nat
ASSUME LimitsAssumption ==
  RejectBump \in Nat /\ RejectStop \in Nat /\ RejectBump < RejectStop

VARIABLES
  template,               \* the gallery
  retained,               \* what continuation_mode starts with
  next_sample_index,      \* one more than the samples looked at
  matcher_state_644, matcher_state_684, matcher_state_688,
  reject_count,
  candidate_state,
  candidate_bump_active,
  continuation_mode,
  sum_q8, accepted_samples,
  accepted,               \* the accepted evaluations among sample_evaluations
  current_score,
  selected_terminal_work,
  had_candidate,          \* some recovery observation was made
  stop_reason,
  score,
  decision

config == <<template, retained>>
latches == <<matcher_state_644, matcher_state_684, matcher_state_688>>
modes == <<candidate_state, candidate_bump_active, continuation_mode>>
scores == <<sum_q8, accepted_samples, accepted, current_score,
            selected_terminal_work>>
outcome == <<score, decision>>
vars == <<config, next_sample_index, latches, reject_count, modes, scores,
          had_candidate, stop_reason, outcome>>

--------------------------------------------------------------------------------
(* What the stages of one evaluation can say.  The flag programs set a     *)
(* class only together with the gate, and no later stage clears the gate   *)
(* and leaves the class.                                                   *)

\* strong: the score policy (0x69290) gives the work more than zero
Work == [metric : Metrics, evidence : Evidences, coverage : Coverages,
         strong : BOOLEAN]

Flags == {[score_gate |-> 0, policy_class |-> 0]}
         \cup [score_gate : {1}, policy_class : 0..2]

Evaluation == [sample : Nat, canonical : BOOLEAN, flags : Flags, work : Work]

NoWork == [metric |-> 0, evidence |-> 0, coverage |-> 0, strong |-> FALSE]

LowEvidence == 195        \* 0xc3: no rescue at or below it

\* the normalised contribution of a metric, Q8, and their average in percent
Contribution(metric) == (metric * 256 + 15) \div 31
\* variant: the average is left in Q8
PercentInQ8(sum, count) == IF count = 0 THEN 0 ELSE (sum * 100) \div count

Percent(sum, count) ==
  IF count = 0 THEN 0 ELSE ((sum * 100) \div count) \div 256

\* the key of a work record: evidence, metric, coverage in that order
Better(current, selected) ==
  \/ current.evidence > selected.evidence
  \/ /\ current.evidence = selected.evidence
     /\ \/ current.metric > selected.metric
        \/ /\ current.metric = selected.metric
           /\ current.coverage > selected.coverage

\* variant: the key alone decides
BestKey(flags, current) == Better(current, selected_terminal_work)

Replaces(flags, current) ==
  CASE matcher_state_688 # 0 ->
         flags.policy_class # 0 /\ Better(current, selected_terminal_work)
    [] matcher_state_688 = 0 /\ matcher_state_684 # 0 ->
         \/ flags.policy_class # 0
         \/ flags.score_gate # 0 /\ Better(current, selected_terminal_work)
    [] OTHER ->
         \/ flags.policy_class # 0
         \/ flags.score_gate # 0
         \/ Better(current, selected_terminal_work)

Latched(state, flag) == IF state # 0 \/ flag # 0 THEN 1 ELSE 0

--------------------------------------------------------------------------------
(* The caller's gate and the preparation of a sample.                      *)

Current == template.samples[next_sample_index]

Scanning ==
  /\ decision = "none"
  /\ stop_reason = "none"
  /\ next_sample_index =< Len(template.samples)

Processes(sample) ==
  ~ /\ \/ Len(template.samples) = template.configured_max_samples
       \/ matcher_state_688 = 1
    /\ matcher_state_644 = 1
    /\ sample.canonical_member

Promoted(sample) ==
  IF sample.embedded > 3 /\ sample.embedded > candidate_state
  THEN sample.embedded ELSE candidate_state

\* variant: the bump is not remembered
ForgetsBump(sample) == Promoted(sample) > 4

\* the mode can go up no more
AtLimit(sample) == Promoted(sample) > 4 \/ candidate_bump_active

Exhausted(sample) == AtLimit(sample) /\ reject_count > RejectStop

Bumps(sample) == reject_count > RejectBump /\ ~AtLimit(sample)

Prepare(sample) ==
  /\ candidate_state' =
       IF Bumps(sample) THEN Promoted(sample) + 1 ELSE Promoted(sample)
  /\ candidate_bump_active' = (candidate_bump_active \/ Bumps(sample))
  /\ continuation_mode' = (continuation_mode /\ ~Bumps(sample))

Evaluates ==
  /\ Scanning
  /\ Processes(Current)
  /\ ~Exhausted(Current)
  /\ Prepare(Current)
  /\ next_sample_index' = next_sample_index + 1

\* a sample seen before any score gate is scanned again for the fallback
Observes(metric) ==
  /\ had_candidate' \in
       IF matcher_state_684' = 0 /\ metric > 2 THEN {TRUE, had_candidate}
       ELSE {had_candidate}

--------------------------------------------------------------------------------
Init ==
  /\ template \in Templates
  /\ retained \in Config10
  /\ next_sample_index = 1
  /\ matcher_state_644 = 0
  /\ matcher_state_684 = 0
  /\ matcher_state_688 = 0
  /\ reject_count = 0
  /\ candidate_state = 0
  /\ candidate_bump_active = FALSE
  /\ continuation_mode = retained
  /\ sum_q8 = 0
  /\ accepted_samples = 0
  /\ accepted = {}
  /\ current_score = 0
  /\ selected_terminal_work = NoWork
  /\ had_candidate = FALSE
  /\ stop_reason = "none"
  /\ score = 0
  /\ decision = "none"

SkipSample ==
  /\ Scanning
  /\ ~Processes(Current)
  /\ next_sample_index' = next_sample_index + 1
  /\ UNCHANGED <<config, latches, reject_count, modes, scores, had_candidate,
                 stop_reason, outcome>>

\* too many late rejects: the promoted mode is kept, nothing is evaluated
StopAtRejects ==
  /\ Scanning
  /\ Processes(Current)
  /\ Exhausted(Current)
  /\ candidate_state' = Promoted(Current)
  /\ stop_reason' = "RejectCountLimit"
  /\ next_sample_index' = next_sample_index + 1
  /\ UNCHANGED <<config, latches, reject_count, candidate_bump_active,
                 continuation_mode, scores, had_candidate, outcome>>

\* the matcher, a missing map or the recovery fails: the whole scan fails
EvaluationFails ==
  /\ Scanning
  /\ Processes(Current)
  /\ ~Exhausted(Current)
  /\ decision' = "Error"
  /\ UNCHANGED <<config, next_sample_index, latches, reject_count, modes,
                 scores, had_candidate, stop_reason, score>>

\* a weak geometry, or one with too few matched points, is never judged
GeometryTooWeak ==
  /\ Evaluates
  /\ UNCHANGED <<config, latches, reject_count, scores, stop_reason, outcome>>
  /\ \E metric \in Metrics : Observes(metric)

Judged == {w \in Work : w.metric > 4}

\* the pre-tail policy, or the veto of a sample that was to be scored
Dismissed ==
  /\ Evaluates
  /\ Judged # {}
  /\ UNCHANGED <<config, latches, reject_count, scores, had_candidate,
                 stop_reason, outcome>>

LatePolicyRejects ==
  /\ Evaluates
  /\ Judged # {}
  /\ reject_count' = reject_count + 1
  /\ UNCHANGED <<config, latches, scores, had_candidate, stop_reason, outcome>>

\* no gate and no rescue
NotSelected ==
  /\ Evaluates
  /\ UNCHANGED <<config, latches, reject_count, scores, stop_reason, outcome>>
  /\ \E work \in Judged : Observes(work.metric)

ReachesScore(flags, work) ==
  flags.score_gate = 1 \/ work.evidence > LowEvidence

Accept(flags, work) ==
  /\ Evaluates
  /\ ReachesScore(flags, work)
  /\ sum_q8' = sum_q8 + Contribution(work.metric)
  /\ accepted_samples' = accepted_samples + 1
  /\ accepted' = accepted \cup
       {[sample |-> next_sample_index, canonical |-> Current.canonical_member,
         flags |-> flags, work |-> work]}
  /\ selected_terminal_work' =
       IF Replaces(flags, work) THEN work ELSE selected_terminal_work
  /\ current_score' = IF flags.score_gate # 0
                      THEN Percent(sum_q8', accepted_samples')
                      ELSE current_score
  /\ matcher_state_684' = Latched(matcher_state_684, flags.score_gate)
  /\ matcher_state_688' = Latched(matcher_state_688, flags.policy_class)
  /\ matcher_state_644' =
       IF flags.score_gate # 0 /\ Current.canonical_member
       THEN 1 ELSE matcher_state_644
  /\ stop_reason' = IF flags.score_gate # 0 /\ ~continuation_mode'
                    THEN "ScoreGate" ELSE stop_reason
  /\ Observes(work.metric)
  /\ UNCHANGED <<config, reject_count, outcome>>

Accepted == \E flags \in Flags, work \in Judged : Accept(flags, work)

--------------------------------------------------------------------------------
(* The end of the scan.                                                    *)

\* minus the mask of the reasons; without a candidate only the count is short
FallbackScores == IF had_candidate THEN -7 .. 0 ELSE {-4}

Retains == current_score # 0

\* variant: off by one
GateExitsLate == ~Retains /\ candidate_state > 4

GateExits == ~Retains /\ candidate_state >= 4

\* no score was kept, but the best accepted work stands on its own
Restores ==
  /\ ~Retains
  /\ ~GateExits
  /\ accepted_samples > 0
  /\ selected_terminal_work.strong

TerminalScores ==
  CASE Retains -> {current_score}
    [] GateExits -> {0}
    [] Restores -> {Percent(sum_q8, accepted_samples)}
    [] OTHER -> FallbackScores

Finish ==
  /\ decision = "none"
  /\ stop_reason # "none" \/ next_sample_index > Len(template.samples)
  /\ score' \in TerminalScores
  /\ decision' = IF score' > 0 THEN "Match" ELSE "NoMatch"
  /\ matcher_state_688' = IF continuation_mode THEN matcher_state_688 ELSE 0
  /\ UNCHANGED <<config, next_sample_index, matcher_state_644,
                 matcher_state_684, reject_count, modes, scores, had_candidate,
                 stop_reason>>

Next ==
  \/ SkipSample
  \/ StopAtRejects
  \/ EvaluationFails
  \/ GeometryTooWeak
  \/ Dismissed
  \/ LatePolicyRejects
  \/ NotSelected
  \/ Accepted
  \/ Finish

Spec == Init /\ [][Next]_vars

--------------------------------------------------------------------------------
(* Properties.                                                             *)

(* Every variable keeps its type, and the signed score stays in the domain *)
(* gf3258_terminal_arbitrate_score documents.                              *)
TypeOK ==
  /\ template \in Templates
  /\ retained \in Config10
  /\ next_sample_index \in 1 .. Len(template.samples) + 1
  /\ matcher_state_644 \in 0..1
  /\ matcher_state_684 \in 0..1
  /\ matcher_state_688 \in 0..1
  /\ reject_count \in Nat
  /\ candidate_state \in 0..5
  /\ candidate_bump_active \in BOOLEAN
  /\ continuation_mode \in BOOLEAN
  /\ sum_q8 \in Nat
  /\ accepted_samples \in Nat
  /\ accepted \subseteq Evaluation
  /\ current_score \in 0..100
  /\ selected_terminal_work \in Work \cup {NoWork}
  /\ had_candidate \in BOOLEAN
  /\ stop_reason \in {"none", "RejectCountLimit", "ScoreGate"}
  /\ score \in -7 .. 100
  /\ decision \in {"none", "Match", "NoMatch", "Error"}

Gated(a) == a.flags.score_gate # 0

(* MATCH is said exactly when some sample went through the score gate, or  *)
(* when samples were accepted without it, no mode above three was reached  *)
(* and the best of them has a score of its own: neither the rejects before *)
(* it nor the recovery scan can make or unmake a match.                    *)
DecisionIsEarned ==
  decision \in {"Match", "NoMatch"} =>
    (decision = "Match" <=>
       \/ \E a \in accepted : Gated(a)
       \/ /\ accepted # {}
          /\ candidate_state < 4
          /\ selected_terminal_work.strong)

\* samples with a class come before those with the gate alone, these before
\* the rescued ones
Rank(a) == IF a.flags.policy_class # 0 THEN 2 ELSE a.flags.score_gate

(* The work record the terminal score is taken from is that of the best    *)
(* accepted sample: of the highest rank, and of the highest key in it,     *)
(* whatever the order of the gallery.                                      *)
SelectedOutranks ==
  accepted # {} =>
    \E a \in accepted :
      /\ a.work = selected_terminal_work
      /\ \A b \in accepted :
           \/ Rank(b) < Rank(a)
           \/ Rank(b) = Rank(a) /\ ~Better(b.work, a.work)

(* However long the gallery, a finger is refused by the late policy at     *)
(* most RejectStop + 1 times, and the scan gives up on it only at that     *)
(* count and with the strictest mode, or one that was raised for it.       *)
RejectsBounded ==
  /\ reject_count =< RejectStop + 1
  /\ reject_count > RejectBump + 1 => candidate_bump_active \/ candidate_state > 4
  /\ stop_reason = "RejectCountLimit" => reject_count = RejectStop + 1
================================================================================
