------------------------------- MODULE Operations -------------------------------
(***************************************************************************)
(* What enrollment, verification and identification make of the touches of *)
(* the sensor: the three engines of src/src/libfprint_wire.rs around the   *)
(* capture engine, and the callbacks of goodix550a.c that report their     *)
(* results to libfprint.  A touch keeps the promise of TouchContract,      *)
(* which CaptureEngine implements; a failed touch is a cancelled, timed    *)
(* out or broken capture.                                                  *)
(*                                                                         *)
(* Of a frame the model keeps what the engines make of it: enrollment      *)
(* refuses a crowded one (too many feature points), verification does      *)
(* not, and neither takes an unusable one.  Of the matcher it keeps the    *)
(* score it gives a template.  The variables of an engine keep their last  *)
(* value when it is freed; a new operation makes a new engine.  The checks *)
(* of firmware, configuration and a running operation are in               *)
(* DriverLifecycle.                                                        *)
(*                                                                         *)
(* KeepsSamples, LoadsOneMore, SkipsInvalid, RetainsRejected, PrefersLater *)
(* and TriesAgain are slips a change of the code could introduce; the      *)
(* specification uses none of them.                                        *)
(***************************************************************************)
EXTENDS Integers, Sequences

CONSTANTS Target,          \* GF3258_ENROLLMENT_TARGET_SAMPLES
          MaxTouches,      \* bound: touches in a behaviour
          MaxGallery,      \* bound: prints of an identification
          Scores,          \* what the matcher can say of a template
          Reports          \* the ways a touch can fail

ASSUME OperationsAssumption ==
  /\ Target \in Nat \ {0}
  /\ MaxTouches \in Nat
  /\ MaxGallery \in Nat
  /\ Scores \subseteq Int

VARIABLES active, number, report, origin,   \* of TouchContract
          op,          \* the operation libfprint has asked for
          phase,       \* where it is
          opened,      \* touches begun before it
          gallery,     \* prints libfprint handed over with it
          retained,    \* touches whose samples the enrollment template holds
          templates,   \* prints the engine has decoded, in its order
          index,       \* of the gallery loop of dev_identify, then of the engine's
          verdicts,    \* score each print was given
          best,        \* best_match of the accumulator; index 0 for None
          result,      \* disposition of the engine; "none" while it has none
          told,        \* samples libfprint was told of
          outcome,     \* what the latest operation ended with
          print,       \* touches in the print it returned
          matched      \* print it named as the match; 0 for none

touch   == <<active, number, report, origin>>
request == <<op, opened, gallery>>
engine  == <<retained, templates, index, verdicts, best, result>>
reply   == <<told, outcome, print, matched>>
vars    == <<touch, phase, request, engine, reply>>

Touch == INSTANCE TouchContract

Frames    == {"good", "crowded", "unusable"}
Prints    == 1..MaxGallery
NoMatch   == [index |-> 0, score |-> 0]
Matches(score) == score > 0       \* gf3258_vendor_verification_score_is_match

-----------------------------------------------------------------------------
(* Beginning and ending an operation. *)

KeepsSamples(first) ==
  /\ templates' = first /\ index' = 0 /\ verdicts' = {} /\ best' = NoMatch
  /\ result' = "none"
  /\ UNCHANGED retained

FreshEngine(first) ==
  /\ retained' = <<>> /\ templates' = first /\ index' = 0
  /\ verdicts' = {} /\ best' = NoMatch /\ result' = "none"

Request(kind, prints) ==
  /\ phase = "idle" /\ number < MaxTouches
  /\ op' = kind /\ opened' = number /\ gallery' = prints
  /\ told' = 0 /\ outcome' = "none" /\ print' = <<>> /\ matched' = 0

Complete(how, touches, match) ==
  /\ phase' = "idle" /\ op' = "none"
  /\ outcome' = how /\ print' = touches /\ matched' = match
  /\ UNCHANGED <<opened, gallery>>

Fail == Complete("failed", <<>>, 0)

\* The template is missing or not blank, the print or the gallery is missing or
\* empty, the one print does not decode, or no engine can be made.
Refuse ==
  /\ phase = "idle"
  /\ outcome' = "refused" /\ print' = <<>> /\ matched' = 0
  /\ UNCHANGED <<touch, phase, request, engine, told>>

StartEnroll ==
  /\ Request("enroll", 0) /\ FreshEngine(<<>>)
  /\ phase' = "touch" /\ Touch!Begin

StartVerify ==
  /\ Request("verify", 1) /\ FreshEngine(<<1>>)
  /\ phase' = "touch" /\ Touch!Begin

StartIdentify(prints) ==
  /\ Request("identify", prints) /\ FreshEngine(<<>>)
  /\ phase' = "loading"
  /\ UNCHANGED touch

LoadsOneMore ==
  /\ phase = "loading" /\ index =< gallery
  /\ templates' = Append(templates, index + 1)
  /\ index' = index + 1
  /\ UNCHANGED <<touch, phase, request, retained, verdicts, best, result, reply>>

\* The gallery is decoded print after print before the sensor is asked for anything.
LoadPrint ==
  /\ phase = "loading" /\ index < gallery
  /\ templates' = Append(templates, index + 1)
  /\ index' = index + 1
  /\ UNCHANGED <<touch, phase, request, retained, verdicts, best, result, reply>>

SkipsInvalid ==
  /\ phase = "loading" /\ index < gallery
  /\ index' = index + 1
  /\ UNCHANGED <<touch, phase, request, retained, templates, verdicts, best, result, reply>>

PrintInvalid ==
  /\ phase = "loading" /\ index < gallery
  /\ Fail
  /\ UNCHANGED <<touch, engine, told>>

GalleryLoaded ==
  /\ phase = "loading" /\ index = gallery
  /\ phase' = "touch" /\ index' = 0
  /\ Touch!Begin
  /\ UNCHANGED <<request, retained, templates, verdicts, best, result, reply>>

-----------------------------------------------------------------------------
(* The end of a touch: finish_touch, finish_verification, finish_identification. *)

TouchFails ==
  /\ phase = "touch"
  /\ Touch!Abort
  /\ Fail
  /\ UNCHANGED <<engine, told>>

\* The frame or its sample breaks the workflow: an error, not a rejection.
FrameBreaks ==
  /\ phase = "touch"
  /\ Touch!Yield
  /\ Fail
  /\ UNCHANGED <<engine, told>>

RetainsRejected(frame) ==
  /\ phase = "touch"
  /\ frame = "unusable" \/ (frame = "crowded" /\ op # "verify")
  /\ Touch!Yield
  /\ phase' = "report" /\ result' = "retry"
  /\ retained' = IF op = "enroll" THEN Append(retained, number) ELSE retained
  /\ UNCHANGED <<request, templates, index, verdicts, best, reply>>

Rejects(frame) ==
  /\ phase = "touch"
  /\ frame = "unusable" \/ (frame = "crowded" /\ op # "verify")
  /\ Touch!Yield
  /\ phase' = "report" /\ result' = "retry"
  /\ UNCHANGED <<request, retained, templates, index, verdicts, best, reply>>

Retains(frame) ==
  /\ phase = "touch" /\ op = "enroll" /\ frame = "good"
  /\ Touch!Yield
  /\ phase' = "report"
  /\ retained' = Append(retained, origin')
  /\ result' = IF Len(retained') >= Target THEN "complete" ELSE "progress"
  /\ UNCHANGED <<request, templates, index, verdicts, best, reply>>

Verified(p, score) == verdicts \union {[print |-> p, score |-> score]}

Verifies(frame, score) ==
  /\ phase = "touch" /\ op = "verify" /\ frame # "unusable"
  /\ Touch!Yield
  /\ phase' = "report"
  /\ verdicts' = Verified(templates[1], score)
  /\ result' = IF Matches(score) THEN "match" ELSE "nomatch"
  /\ UNCHANGED <<request, retained, templates, index, best, reply>>

\* Accepted as an enrollment sample too: it becomes the scanned print.
Scans(frame) ==
  /\ phase = "touch" /\ op = "identify" /\ frame = "good"
  /\ Touch!Yield
  /\ phase' = "compare"
  /\ UNCHANGED <<request, engine, reply>>

-----------------------------------------------------------------------------
(* The comparison with the gallery. *)

PrefersLater(i, score) ==
  IF Matches(score) /\ (best.index = 0 \/ score >= best.score)
  THEN [index |-> i, score |-> score] ELSE best

\* A later match replaces the best one only with a greater score.
Observe(i, score) ==
  IF Matches(score) /\ (best.index = 0 \/ score > best.score)
  THEN [index |-> i, score |-> score] ELSE best

Compare(score) ==
  /\ phase = "compare" /\ index < Len(templates)
  /\ verdicts' = Verified(templates[index + 1], score)
  /\ best' = Observe(index + 1, score)
  /\ index' = index + 1
  /\ UNCHANGED <<touch, phase, request, retained, templates, result, reply>>

CompareBreaks ==
  /\ phase = "compare" /\ index < Len(templates)
  /\ Fail
  /\ UNCHANGED <<touch, engine, told>>

Concludes ==
  /\ phase = "compare" /\ index = Len(templates)
  /\ phase' = "report"
  /\ result' = IF best.index = 0 THEN "nomatch" ELSE "match"
  /\ UNCHANGED <<touch, request, retained, templates, index, verdicts, best, reply>>

-----------------------------------------------------------------------------
(* The report to libfprint. *)

\* What goodix550a.c checks of an enrollment result before it reports it.
Credible == Len(retained) =< Target /\ (result = "complete" => Len(retained) = Target)

\* A retry and a sample short of the last one ask for another touch.
NextTouch ==
  /\ phase = "report" /\ op = "enroll" /\ result # "complete" /\ Credible
  /\ number < MaxTouches
  /\ told' = Len(retained) /\ result' = "none"
  /\ phase' = "touch" /\ Touch!Begin
  /\ UNCHANGED <<request, retained, templates, index, verdicts, best, outcome, print, matched>>

\* No key material for another touch, although the progress is reported.
NextTouchFails ==
  /\ phase = "report" /\ op = "enroll" /\ result # "complete" /\ Credible
  /\ told' = Len(retained)
  /\ Fail
  /\ UNCHANGED <<touch, engine>>

ReportsPrint ==
  /\ phase = "report" /\ op = "enroll"
  /\ result = "complete" \/ ~Credible
  /\ IF Credible
     THEN told' = Len(retained) /\ Complete("print", retained, 0)
     ELSE UNCHANGED told /\ Fail
  /\ UNCHANGED <<touch, engine>>

TriesAgain ==
  /\ phase = "report" /\ op = "verify"
  /\ IF result = "retry" /\ number < MaxTouches
     THEN /\ phase' = "touch" /\ result' = "none" /\ Touch!Begin
          /\ UNCHANGED <<request, retained, templates, index, verdicts, best, reply>>
     ELSE /\ Complete(result, <<>>, IF result = "match" THEN 1 ELSE 0)
          /\ UNCHANGED <<touch, engine, told>>

ReportsVerdict ==
  /\ phase = "report" /\ op = "verify"
  /\ Complete(result, <<>>, IF result = "match" THEN 1 ELSE 0)
  /\ UNCHANGED <<touch, engine, told>>

\* The print the callback names is the best index in libfprint's own gallery; a
\* scanned print goes with every decision.
ReportsIdentity ==
  /\ phase = "report" /\ op = "identify"
  /\ IF result = "match" /\ best.index > gallery
     THEN Fail
     ELSE Complete(result, IF result = "retry" THEN <<>> ELSE <<origin>>,
                   IF result = "match" THEN best.index ELSE 0)
  /\ UNCHANGED <<touch, engine, told>>

-----------------------------------------------------------------------------
Init ==
  /\ Touch!Init
  /\ op = "none" /\ phase = "idle" /\ opened = 0 /\ gallery = 0
  /\ retained = <<>> /\ templates = <<>> /\ index = 0
  /\ verdicts = {} /\ best = NoMatch /\ result = "none"
  /\ told = 0 /\ outcome = "none" /\ print = <<>> /\ matched = 0

Start == \/ StartEnroll \/ StartVerify \/ Refuse
         \/ \E prints \in Prints : StartIdentify(prints)

Processes(frame) ==
  \/ Rejects(frame) \/ Retains(frame) \/ Scans(frame)
  \/ \E score \in Scores : Verifies(frame, score)

Proceed ==
  \/ LoadPrint \/ PrintInvalid \/ GalleryLoaded
  \/ TouchFails \/ FrameBreaks
  \/ \E frame \in Frames : Processes(frame)
  \/ \E score \in Scores : Compare(score)
  \/ CompareBreaks \/ Concludes
  \/ NextTouch \/ NextTouchFails
  \/ ReportsPrint \/ ReportsVerdict \/ ReportsIdentity

Next == Start \/ Proceed

Spec == Init /\ [][Next]_vars

-----------------------------------------------------------------------------
(* Properties. *)

Touches == 1..MaxTouches

TypeOK ==
  /\ active \in BOOLEAN /\ number \in 0..MaxTouches /\ origin \in 0..MaxTouches
  /\ report \in Reports \union {"none", "delivered"}
  /\ op \in {"none", "enroll", "verify", "identify"}
  /\ phase \in {"idle", "loading", "touch", "compare", "report"}
  /\ opened \in 0..MaxTouches /\ gallery \in 0..MaxGallery \union {1}
  /\ retained \in Seq(Touches)
  /\ templates \in Seq(Prints \union {1})
  /\ index \in Nat
  /\ verdicts \subseteq [print : Prints \union {1}, score : Scores]
  /\ best \in [index : Nat, score : Int]
  /\ result \in {"none", "retry", "progress", "complete", "match", "nomatch"}
  /\ told \in 0..Target
  /\ outcome \in {"none", "refused", "failed", "print", "retry", "match", "nomatch"}
  /\ print \in Seq(Touches)
  /\ matched \in 0..MaxGallery \union {1}

Increasing(s) == \A i, j \in 1..Len(s) : i < j => s[i] < s[j]

\* An enrolled print holds exactly the target number of samples, every one of a
\* different touch and every touch of this enrollment: nothing of an enrollment
\* that was cancelled or failed before it, and no sample twice.
PrintIsWhole ==
  outcome = "print" =>
    /\ Len(print) = Target
    /\ Increasing(print)
    /\ \A i \in 1..Len(print) : print[i] \in opened + 1..number

\* While libfprint waits for a touch it has been told of every sample the template
\* holds and of no other, and there is still one to come: rejected touches have
\* left the template as it was and the progress is never ahead of it.
ToldIsRetained ==
  op = "enroll" /\ phase = "touch" => told = Len(retained) /\ told < Target

\* The sensor is asked for a touch only when the whole gallery has been decoded, in
\* the order in which libfprint will look up the match.
GalleryBeforeTouch ==
  op = "identify" /\ phase # "loading" =>
    Len(templates) = gallery /\ \A i \in 1..gallery : templates[i] = i

\* A decision is one about the whole gallery: every print got one score, the print
\* that is named matched and no other scored higher, nor did an earlier one as
\* high; and none is named only if none matched.
MatchIsBest ==
  outcome \in {"match", "nomatch"} =>
    /\ \A p \in 1..gallery : \E v \in verdicts : v.print = p
    /\ \A v, w \in verdicts : v.print = w.print => v = w
    /\ outcome = "nomatch" => matched = 0 /\ \A v \in verdicts : ~Matches(v.score)
    /\ outcome = "match" =>
         \E v \in verdicts :
           /\ v.print = matched /\ Matches(v.score)
           /\ \A w \in verdicts \ {v} :
                \/ w.score < v.score
                \/ w.score = v.score /\ w.print > v.print

\* Verification and identification look at one touch, the one made for them: a
\* decision or a retry is about a frame exposed after the operation began, and a
\* rejected frame is never followed by another one within the operation.
DecisionsAreFresh ==
  outcome \in {"match", "nomatch", "retry"} =>
    /\ number = opened + 1
    /\ origin = number
    /\ \A i \in 1..Len(print) : print[i] = number
=============================================================================
