---------------------------- MODULE OperationsProofs ----------------------------
(***************************************************************************)
(* What holds of the operations for any target, any gallery, any number of *)
(* touches and any scores of the matcher.                                  *)
(*                                                                         *)
(* The properties speak of what an operation has ended with, and say       *)
(* nothing of one that is under way.  IInv says for each operation what it *)
(* has gathered when it reaches each of its phases: Enrolling, Verifying   *)
(* and Identifying.  In the comparison the heart of it is BestSoFar, that  *)
(* the accumulator holds the best match among the prints compared.         *)
(***************************************************************************)
EXTENDS Operations, TLAPS

\* A touch is under way in one phase only, and an operation in all but idle.
Phases ==
  /\ active <=> phase = "touch"
  /\ phase = "idle" <=> op = "none"
  /\ opened =< number
  /\ phase \notin {"idle", "loading"} => opened < number
  /\ phase # "idle" => outcome = "none"

\* Samples of this enrollment's touches, in their order, none after the last touch.
Samples(last) ==
  /\ Increasing(retained)
  /\ \A i \in 1..Len(retained) : retained[i] \in opened + 1..last

Enrolling ==
  op = "enroll" =>
    /\ phase \in {"touch", "report"}
    /\ phase = "touch" =>
         /\ Samples(number - 1)
         /\ told = Len(retained) /\ told < Target
    /\ phase = "report" =>
         /\ Samples(number)
         /\ result \in {"retry", "progress", "complete"}
         /\ result = "complete" => Len(retained) = Target
         /\ result # "complete" => Len(retained) < Target

Verifying ==
  op = "verify" =>
    /\ phase \in {"touch", "report"}
    /\ gallery = 1 /\ templates = <<1>>
    /\ number = opened + 1
    /\ phase = "touch" => verdicts = {}
    /\ phase = "report" =>
         /\ origin = number
         /\ result \in {"retry", "match", "nomatch"}
         /\ result # "retry" =>
              \E s \in Scores : /\ verdicts = {[print |-> 1, score |-> s]}
                                /\ result = "match" <=> Matches(s)

\* The gallery as far as it has been decoded.
InOrder(n) == Len(templates) = n /\ \A i \in 1..n : templates[i] = i

\* One score for each of the first n prints.
ScoredOnce(n) ==
  /\ \A p \in 1..n : \E v \in verdicts : v.print = p
  /\ \A v \in verdicts : v.print \in 1..n
  /\ \A v, w \in verdicts : v.print = w.print => v = w

Beats(v, w) == w.score < v.score \/ (w.score = v.score /\ w.print > v.print)

BestSoFar ==
  \/ best.index = 0 /\ \A v \in verdicts : ~Matches(v.score)
  \/ \E v \in verdicts :
       /\ v.print = best.index /\ v.score = best.score /\ Matches(v.score)
       /\ \A w \in verdicts \ {v} : Beats(v, w)

Identifying ==
  op = "identify" =>
    /\ phase \in {"loading", "touch", "compare", "report"}
    /\ gallery \in Prints
    /\ phase = "loading" =>
         number = opened /\ number < MaxTouches /\ index \in 0..gallery /\ InOrder(index)
    /\ phase # "loading" => number = opened + 1 /\ InOrder(gallery)
    /\ phase \in {"loading", "touch"} => verdicts = {} /\ best = NoMatch
    /\ phase = "touch" => index = 0
    /\ phase \in {"compare", "report"} => origin = number
    /\ phase = "compare" => index \in 0..gallery /\ ScoredOnce(index) /\ BestSoFar
    /\ phase = "report" =>
         /\ result \in {"retry", "match", "nomatch"}
         /\ result # "retry" =>
              /\ ScoredOnce(gallery) /\ BestSoFar
              /\ result = "match" <=> best.index # 0

IInv == /\ TypeOK
        /\ Phases
        /\ Enrolling
        /\ Verifying
        /\ Identifying
        /\ PrintIsWhole
        /\ MatchIsBest
        /\ DecisionsAreFresh

-----------------------------------------------------------------------------
(* The actions preserve IInv, one lemma for each. *)

\* A refused request leaves everything but the reply as it was.
LEMMA RefuseKeeps ==
  ASSUME IInv, Refuse
  PROVE  IInv'
<1> USE OperationsAssumption DEF IInv, TypeOK, Phases, Refuse, touch, request, engine, reply
<1>1. TypeOK'
  BY DEF TypeOK, Touches, Prints, NoMatch, Frames
<1>2. Phases'
  BY DEF Phases
<1>3. Enrolling'
  BY DEF Enrolling, Samples, Increasing, Credible
<1>4. Verifying'
  BY DEF Verifying, Matches
<1>5. Identifying'
  BY DEF Identifying, InOrder, NoMatch
<1>6. PrintIsWhole'
  BY DEF PrintIsWhole, Increasing
<1>7. MatchIsBest'
  BY DEF MatchIsBest
<1>8. DecisionsAreFresh'
  BY DEF DecisionsAreFresh
<1> QED BY <1>1, <1>2, <1>3, <1>4, <1>5, <1>6, <1>7, <1>8

\* dev_enroll begins the first touch of an empty template.
LEMMA StartEnrollKeeps ==
  ASSUME IInv, StartEnroll
  PROVE  IInv'
<1> USE OperationsAssumption DEF IInv, TypeOK, Phases, StartEnroll, touch, request, engine, reply, Request, FreshEngine, Touch!Begin
<1>1. TypeOK'
  BY DEF TypeOK, Touches, Prints, NoMatch, Frames
<1>2. Phases'
  BY DEF Phases
<1>3. Enrolling'
  BY DEF Enrolling, Samples, Increasing, Credible
<1>4. Verifying'
  BY DEF Verifying, Matches
<1>5. Identifying'
  BY DEF Identifying, InOrder, NoMatch
<1>6. PrintIsWhole'
  BY DEF PrintIsWhole, Increasing
<1>7. MatchIsBest'
  BY DEF MatchIsBest
<1>8. DecisionsAreFresh'
  BY DEF DecisionsAreFresh
<1> QED BY <1>1, <1>2, <1>3, <1>4, <1>5, <1>6, <1>7, <1>8

\* dev_verify begins its touch with the one print it was given.
LEMMA StartVerifyKeeps ==
  ASSUME IInv, StartVerify
  PROVE  IInv'
<1> USE OperationsAssumption DEF IInv, TypeOK, Phases, StartVerify, touch, request, engine, reply, Request, FreshEngine, Touch!Begin
<1>1. TypeOK'
  BY DEF TypeOK, Touches, Prints, NoMatch, Frames
<1>2. Phases'
  BY DEF Phases
<1>3. Enrolling'
  BY DEF Enrolling, Samples, Increasing, Credible
<1>4. Verifying'
  BY DEF Verifying, Matches
<1>5. Identifying'
  BY DEF Identifying, InOrder, NoMatch
<1>6. PrintIsWhole'
  BY DEF PrintIsWhole, Increasing
<1>7. MatchIsBest'
  BY DEF MatchIsBest
<1>8. DecisionsAreFresh'
  BY DEF DecisionsAreFresh
<1> QED BY <1>1, <1>2, <1>3, <1>4, <1>5, <1>6, <1>7, <1>8

\* dev_identify begins its gallery loop with no template.
LEMMA StartIdentifyKeeps ==
  ASSUME IInv, NEW prints \in Prints, StartIdentify(prints)
  PROVE  IInv'
<1> USE OperationsAssumption DEF IInv, TypeOK, Phases, StartIdentify, touch, request, engine, reply, Request, FreshEngine
<1>1. TypeOK'
  BY DEF TypeOK, Touches, Prints, NoMatch, Frames
<1>2. Phases'
  BY DEF Phases
<1>3. Enrolling'
  BY DEF Enrolling, Samples, Increasing, Credible
<1>4. Verifying'
  BY DEF Verifying, Matches
<1>5. Identifying'
  <2>1. templates' = <<>> /\ index' = 0 /\ verdicts' = {} /\ best' = NoMatch
    OBVIOUS
  <2>2. InOrder(index)'
    BY <2>1 DEF InOrder
  <2> QED BY <2>1, <2>2 DEF Identifying, Prints, InOrder
<1>6. PrintIsWhole'
  BY DEF PrintIsWhole, Increasing
<1>7. MatchIsBest'
  BY DEF MatchIsBest
<1>8. DecisionsAreFresh'
  BY DEF DecisionsAreFresh
<1> QED BY <1>1, <1>2, <1>3, <1>4, <1>5, <1>6, <1>7, <1>8

\* The gallery loop decodes one more print, in order.
LEMMA LoadPrintKeeps ==
  ASSUME IInv, LoadPrint
  PROVE  IInv'
<1> USE OperationsAssumption DEF IInv, TypeOK, Phases, LoadPrint, touch, request, engine, reply
<1>1. TypeOK'
  BY DEF TypeOK, Touches, Prints, NoMatch, Frames
<1>2. Phases'
  BY DEF Phases
<1>3. Enrolling'
  BY DEF Enrolling, Samples, Increasing, Credible
<1>4. Verifying'
  BY DEF Verifying, Matches
<1>5. Identifying'
  BY DEF Identifying, InOrder, NoMatch
<1>6. PrintIsWhole'
  BY DEF PrintIsWhole, Increasing
<1>7. MatchIsBest'
  BY DEF MatchIsBest
<1>8. DecisionsAreFresh'
  BY DEF DecisionsAreFresh
<1> QED BY <1>1, <1>2, <1>3, <1>4, <1>5, <1>6, <1>7, <1>8

\* A print that does not decode ends the identification.
LEMMA PrintInvalidKeeps ==
  ASSUME IInv, PrintInvalid
  PROVE  IInv'
<1> USE OperationsAssumption DEF IInv, TypeOK, Phases, PrintInvalid, touch, request, engine, reply, Fail, Complete
<1>1. TypeOK'
  BY DEF TypeOK, Touches, Prints, NoMatch, Frames
<1>2. Phases'
  BY DEF Phases
<1>3. Enrolling'
  BY DEF Enrolling, Samples, Increasing, Credible
<1>4. Verifying'
  BY DEF Verifying, Matches
<1>5. Identifying'
  BY DEF Identifying, InOrder, NoMatch
<1>6. PrintIsWhole'
  BY DEF PrintIsWhole, Increasing
<1>7. MatchIsBest'
  BY DEF MatchIsBest
<1>8. DecisionsAreFresh'
  BY DEF DecisionsAreFresh
<1> QED BY <1>1, <1>2, <1>3, <1>4, <1>5, <1>6, <1>7, <1>8

\* The identification begins its touch with the whole gallery.
LEMMA GalleryLoadedKeeps ==
  ASSUME IInv, GalleryLoaded
  PROVE  IInv'
<1> USE OperationsAssumption DEF IInv, TypeOK, Phases, GalleryLoaded, touch, request, engine, reply, Touch!Begin
<1>1. TypeOK'
  <2>1. /\ active' \in BOOLEAN
       /\ number' \in 0..MaxTouches
       /\ origin' \in 0..MaxTouches
    BY DEF Touches, Enrolling, Verifying, Identifying
  <2>2. report' \in Reports \union {"none", "delivered"}
    BY DEF Touches
  <2>3. /\ op' \in {"none", "enroll", "verify", "identify"}
       /\ phase' \in {"idle", "loading", "touch", "compare", "report"}
       /\ opened' \in 0..MaxTouches
       /\ gallery' \in 0..MaxGallery \union {1}
    BY DEF Touches
  <2>4. /\ retained' \in Seq(Touches)
       /\ templates' \in Seq(Prints \union {1})
       /\ print' \in Seq(Touches)
    BY DEF Touches, Prints
  <2>5. /\ index' \in Nat
       /\ verdicts' \subseteq [print : Prints \union {1}, score : Scores]
       /\ best' \in [index : Nat, score : Int]
       /\ result' \in {"none", "retry", "progress", "complete", "match", "nomatch"}
    BY DEF Touches, Prints, NoMatch
  <2>6. /\ told' \in 0..Target
       /\ outcome' \in {"none", "refused", "failed", "print", "retry", "match", "nomatch"}
       /\ matched' \in 0..MaxGallery \union {1}
    BY DEF Touches
  <2> QED BY <2>1, <2>2, <2>3, <2>4, <2>5, <2>6 DEF Touches
<1>2. Phases'
  BY DEF Phases
<1>3. Enrolling'
  BY DEF Enrolling, Samples, Increasing, Credible
<1>4. Verifying'
  BY DEF Verifying, Matches
<1>5. Identifying'
  BY DEF Identifying, InOrder, NoMatch
<1>6. PrintIsWhole'
  BY DEF PrintIsWhole, Increasing
<1>7. MatchIsBest'
  BY DEF MatchIsBest
<1>8. DecisionsAreFresh'
  BY DEF DecisionsAreFresh
<1> QED BY <1>1, <1>2, <1>3, <1>4, <1>5, <1>6, <1>7, <1>8

\* A cancelled, timed out or broken capture ends the operation.
LEMMA TouchFailsKeeps ==
  ASSUME IInv, TouchFails
  PROVE  IInv'
<1> USE OperationsAssumption DEF IInv, TypeOK, Phases, TouchFails, touch, request, engine, reply, Fail, Complete, Touch!Abort
<1>1. TypeOK'
  <2>1. /\ active' \in BOOLEAN
       /\ number' \in 0..MaxTouches
       /\ origin' \in 0..MaxTouches
    <3>1. active' = FALSE /\ number' = number /\ origin' = 0
      OBVIOUS
    <3>2. active' \in BOOLEAN
      BY <3>1
    <3>3. number \in 0..MaxTouches /\ 0 \in 0..MaxTouches
      OBVIOUS
    <3> QED BY <3>1, <3>2, <3>3
  <2>2. report' \in Reports \union {"none", "delivered"}
    BY DEF Touches
  <2>3. /\ op' \in {"none", "enroll", "verify", "identify"}
       /\ phase' \in {"idle", "loading", "touch", "compare", "report"}
       /\ opened' \in 0..MaxTouches
       /\ gallery' \in 0..MaxGallery \union {1}
    BY DEF Touches
  <2>4. /\ retained' \in Seq(Touches)
       /\ templates' \in Seq(Prints \union {1})
       /\ print' \in Seq(Touches)
    BY DEF Touches, Prints
  <2>5. /\ index' \in Nat
       /\ verdicts' \subseteq [print : Prints \union {1}, score : Scores]
       /\ best' \in [index : Nat, score : Int]
       /\ result' \in {"none", "retry", "progress", "complete", "match", "nomatch"}
    BY DEF Touches, Prints, NoMatch
  <2>6. /\ told' \in 0..Target
       /\ outcome' \in {"none", "refused", "failed", "print", "retry", "match", "nomatch"}
       /\ matched' \in 0..MaxGallery \union {1}
    BY DEF Touches
  <2> QED BY <2>1, <2>2, <2>3, <2>4, <2>5, <2>6 DEF Touches
<1>2. Phases'
  BY DEF Phases
<1>3. Enrolling'
  BY DEF Enrolling, Samples, Increasing, Credible
<1>4. Verifying'
  BY DEF Verifying, Matches
<1>5. Identifying'
  BY DEF Identifying, InOrder, NoMatch
<1>6. PrintIsWhole'
  BY DEF PrintIsWhole, Increasing
<1>7. MatchIsBest'
  BY DEF MatchIsBest
<1>8. DecisionsAreFresh'
  BY DEF DecisionsAreFresh
<1> QED BY <1>1, <1>2, <1>3, <1>4, <1>5, <1>6, <1>7, <1>8

\* A frame that breaks the workflow ends the operation.
LEMMA FrameBreaksKeeps ==
  ASSUME IInv, FrameBreaks
  PROVE  IInv'
<1> USE OperationsAssumption DEF IInv, TypeOK, Phases, FrameBreaks, touch, request, engine, reply, Fail, Complete, Touch!Yield
<1>1. TypeOK'
  <2>1. /\ active' \in BOOLEAN
       /\ number' \in 0..MaxTouches
       /\ origin' \in 0..MaxTouches
    BY DEF Touches
  <2>2. report' \in Reports \union {"none", "delivered"}
    BY DEF Touches
  <2>3. /\ op' \in {"none", "enroll", "verify", "identify"}
       /\ phase' \in {"idle", "loading", "touch", "compare", "report"}
       /\ opened' \in 0..MaxTouches
       /\ gallery' \in 0..MaxGallery \union {1}
    BY DEF Touches
  <2>4. /\ retained' \in Seq(Touches)
       /\ templates' \in Seq(Prints \union {1})
       /\ print' \in Seq(Touches)
    BY DEF Touches, Prints
  <2>5. /\ index' \in Nat
       /\ verdicts' \subseteq [print : Prints \union {1}, score : Scores]
       /\ best' \in [index : Nat, score : Int]
       /\ result' \in {"none", "retry", "progress", "complete", "match", "nomatch"}
    BY DEF Touches, Prints, NoMatch
  <2>6. /\ told' \in 0..Target
       /\ outcome' \in {"none", "refused", "failed", "print", "retry", "match", "nomatch"}
       /\ matched' \in 0..MaxGallery \union {1}
    BY DEF Touches
  <2> QED BY <2>1, <2>2, <2>3, <2>4, <2>5, <2>6 DEF Touches
<1>2. Phases'
  BY DEF Phases
<1>3. Enrolling'
  BY DEF Enrolling, Samples, Increasing, Credible
<1>4. Verifying'
  BY DEF Verifying, Matches
<1>5. Identifying'
  BY DEF Identifying, InOrder, NoMatch
<1>6. PrintIsWhole'
  BY DEF PrintIsWhole, Increasing
<1>7. MatchIsBest'
  BY DEF MatchIsBest
<1>8. DecisionsAreFresh'
  BY DEF DecisionsAreFresh
<1> QED BY <1>1, <1>2, <1>3, <1>4, <1>5, <1>6, <1>7, <1>8

\* A rejected touch leaves the template of the engine as it was.
LEMMA RejectsKeeps ==
  ASSUME IInv, NEW frame \in Frames, Rejects(frame)
  PROVE  IInv'
<1> USE OperationsAssumption DEF IInv, TypeOK, Phases, Rejects, touch, request, engine, reply, Touch!Yield
<1>1. TypeOK'
  BY DEF TypeOK, Touches, Prints, NoMatch, Frames
<1>2. Phases'
  BY DEF Phases
<1>3. Enrolling'
  BY DEF Enrolling, Samples, Increasing, Credible
<1>4. Verifying'
  BY DEF Verifying, Matches
<1>5. Identifying'
  BY DEF Identifying, InOrder, NoMatch
<1>6. PrintIsWhole'
  BY DEF PrintIsWhole, Increasing
<1>7. MatchIsBest'
  BY DEF MatchIsBest
<1>8. DecisionsAreFresh'
  BY DEF DecisionsAreFresh
<1> QED BY <1>1, <1>2, <1>3, <1>4, <1>5, <1>6, <1>7, <1>8

\* A later number at the end of an increasing sequence keeps it increasing: how
\* finish_touch adds the touch it has just processed.
LEMMA AppendIncreasing ==
  ASSUME NEW s \in Seq(Int), NEW x \in Int,
         Increasing(s), \A i \in 1..Len(s) : s[i] < x
  PROVE  Increasing(Append(s, x))
BY DEF Increasing

\* A retained touch is later than every one before it, and the template
\* is complete exactly when it reaches the target.
LEMMA RetainsKeeps ==
  ASSUME IInv, NEW frame \in Frames, Retains(frame)
  PROVE  IInv'
<1> USE OperationsAssumption DEF IInv, TypeOK, Phases, Retains, touch, request, engine, reply, Touch!Yield
<1>1. TypeOK'
  <2>1. /\ active' \in BOOLEAN
       /\ number' \in 0..MaxTouches
       /\ origin' \in 0..MaxTouches
    BY DEF Touches
  <2>2. report' \in Reports \union {"none", "delivered"}
    BY DEF Touches
  <2>3. /\ op' \in {"none", "enroll", "verify", "identify"}
       /\ phase' \in {"idle", "loading", "touch", "compare", "report"}
       /\ opened' \in 0..MaxTouches
       /\ gallery' \in 0..MaxGallery \union {1}
    BY DEF Touches
  <2>4. /\ retained' \in Seq(Touches)
       /\ templates' \in Seq(Prints \union {1})
       /\ print' \in Seq(Touches)
    <3>1. number \in Touches /\ retained' = Append(retained, number)
      BY DEF Touches
    <3>2. retained' \in Seq(Touches)
      BY <3>1
    <3> QED BY <3>2 DEF Touches, Prints
  <2>5. /\ index' \in Nat
       /\ verdicts' \subseteq [print : Prints \union {1}, score : Scores]
       /\ best' \in [index : Nat, score : Int]
       /\ result' \in {"none", "retry", "progress", "complete", "match", "nomatch"}
    BY DEF Touches, Prints, NoMatch
  <2>6. /\ told' \in 0..Target
       /\ outcome' \in {"none", "refused", "failed", "print", "retry", "match", "nomatch"}
       /\ matched' \in 0..MaxGallery \union {1}
    BY DEF Touches
  <2> QED BY <2>1, <2>2, <2>3, <2>4, <2>5, <2>6 DEF Touches
<1>2. Phases'
  BY DEF Phases
<1>3. Enrolling'
  <2>1. origin' = number /\ retained' = Append(retained, number) /\ opened' = opened /\ number' = number
    OBVIOUS
  <2>2. retained \in Seq(Int) /\ number \in Int /\ Increasing(retained)
        /\ \A i \in 1..Len(retained) : retained[i] \in opened + 1..number - 1
    BY DEF Enrolling, Samples, Touches
  <2>3. Increasing(Append(retained, number))
    <3>1. \A i \in 1..Len(retained) : retained[i] < number
      BY <2>2 DEF Touches
    <3> QED BY <2>2, <3>1, AppendIncreasing
  <2>4. Samples(number)'
    <3>1. \A i \in 1..Len(Append(retained, number)) :
            Append(retained, number)[i] \in opened + 1..number
      BY <2>2
    <3> QED BY <2>1, <2>3, <3>1 DEF Samples, Increasing
  <2>5. Len(retained') = Len(retained) + 1 /\ Len(retained) < Target
    BY <2>1, <2>2 DEF Enrolling
  <2> QED BY <2>4, <2>5 DEF Enrolling
<1>4. Verifying'
  BY DEF Verifying, Matches
<1>5. Identifying'
  BY DEF Identifying, InOrder, NoMatch
<1>6. PrintIsWhole'
  BY DEF PrintIsWhole, Increasing
<1>7. MatchIsBest'
  BY DEF MatchIsBest
<1>8. DecisionsAreFresh'
  BY DEF DecisionsAreFresh
<1> QED BY <1>1, <1>2, <1>3, <1>4, <1>5, <1>6, <1>7, <1>8

\* The verification decides with the score of its print.
LEMMA VerifiesKeeps ==
  ASSUME IInv, NEW frame \in Frames, NEW score \in Scores, Verifies(frame, score)
  PROVE  IInv'
<1> USE OperationsAssumption DEF IInv, TypeOK, Phases, Verifies, touch, request, engine, reply, Touch!Yield, Verified
<1>1. TypeOK'
  <2>1. /\ active' \in BOOLEAN
       /\ number' \in 0..MaxTouches
       /\ origin' \in 0..MaxTouches
    BY DEF Touches
  <2>2. report' \in Reports \union {"none", "delivered"}
    BY DEF Touches
  <2>3. /\ op' \in {"none", "enroll", "verify", "identify"}
       /\ phase' \in {"idle", "loading", "touch", "compare", "report"}
       /\ opened' \in 0..MaxTouches
       /\ gallery' \in 0..MaxGallery \union {1}
    BY DEF Touches
  <2>4. /\ retained' \in Seq(Touches)
       /\ templates' \in Seq(Prints \union {1})
       /\ print' \in Seq(Touches)
    BY DEF Touches, Prints
  <2>5. /\ index' \in Nat
       /\ verdicts' \subseteq [print : Prints \union {1}, score : Scores]
       /\ best' \in [index : Nat, score : Int]
       /\ result' \in {"none", "retry", "progress", "complete", "match", "nomatch"}
    BY DEF Touches, Prints, NoMatch, Verifying
  <2>6. /\ told' \in 0..Target
       /\ outcome' \in {"none", "refused", "failed", "print", "retry", "match", "nomatch"}
       /\ matched' \in 0..MaxGallery \union {1}
    BY DEF Touches
  <2> QED BY <2>1, <2>2, <2>3, <2>4, <2>5, <2>6 DEF Touches
<1>2. Phases'
  BY DEF Phases
<1>3. Enrolling'
  BY DEF Enrolling, Samples, Increasing, Credible
<1>4. Verifying'
  BY DEF Verifying, Matches
<1>5. Identifying'
  BY DEF Identifying, InOrder, NoMatch
<1>6. PrintIsWhole'
  BY DEF PrintIsWhole, Increasing
<1>7. MatchIsBest'
  BY DEF MatchIsBest
<1>8. DecisionsAreFresh'
  BY DEF DecisionsAreFresh
<1> QED BY <1>1, <1>2, <1>3, <1>4, <1>5, <1>6, <1>7, <1>8

\* The accumulator of the identification begins with no score at all.
LEMMA ScansKeeps ==
  ASSUME IInv, NEW frame \in Frames, Scans(frame)
  PROVE  IInv'
<1> USE OperationsAssumption DEF IInv, TypeOK, Phases, Scans, touch, request, engine, reply, Touch!Yield
<1>1. TypeOK'
  BY DEF TypeOK, Touches, Prints, NoMatch, Frames
<1>2. Phases'
  BY DEF Phases
<1>3. Enrolling'
  BY DEF Enrolling, Samples, Increasing, Credible
<1>4. Verifying'
  BY DEF Verifying, Matches
<1>5. Identifying'
  <2>1. op = "identify" /\ index' = 0 /\ verdicts' = {} /\ best' = NoMatch
    BY DEF Identifying
  <2>2. ScoredOnce(index)' /\ BestSoFar'
    BY <2>1 DEF ScoredOnce, BestSoFar, NoMatch
  <2>3. InOrder(gallery)' /\ gallery' \in Prints /\ number' = opened' + 1
    BY <2>1 DEF Identifying, InOrder
  <2> QED BY <2>1, <2>2, <2>3 DEF Identifying, Prints
<1>6. PrintIsWhole'
  BY DEF PrintIsWhole, Increasing
<1>7. MatchIsBest'
  BY DEF MatchIsBest
<1>8. DecisionsAreFresh'
  BY DEF DecisionsAreFresh
<1> QED BY <1>1, <1>2, <1>3, <1>4, <1>5, <1>6, <1>7, <1>8

\* The scores of the verdicts are integers, as those of the matcher are.
LEMMA ScoresAreIntegers ==
  ASSUME TypeOK
  PROVE  \A v \in verdicts : v.score \in Int
<1>1. verdicts \subseteq [print : Prints \union {1}, score : Scores] /\ Scores \subseteq Int
  BY OperationsAssumption DEF TypeOK
<1> QED BY <1>1

\* observe keeps the best of the scores it has seen: BestSoFar of the prints before
\* the next one becomes BestSoFar with it.
LEMMA BestOfMore ==
  ASSUME NEW n \in Nat \ {0}, NEW score \in Int, best \in [index : Nat, score : Int],
         \A v \in verdicts : v.print \in 1..n - 1 /\ v.score \in Int,
         BestSoFar,
         verdicts' = verdicts \union {[print |-> n, score |-> score]},
         best' = Observe(n, score)
  PROVE  BestSoFar'
<1> DEFINE new == [print |-> n, score |-> score]
<1> USE DEF Matches
<1>1. CASE Matches(score) /\ (best.index = 0 \/ score > best.score)
  <2>1. best' = [index |-> n, score |-> score]
    BY <1>1 DEF Observe
  <2>2. \A w \in verdicts : w.score < score
    BY <1>1 DEF BestSoFar, Beats
  <2>3. \A w \in verdicts' \ {new} : Beats(new, w)
    BY <2>2 DEF Beats
  <2> QED BY <1>1, <2>1, <2>3 DEF BestSoFar
<1>2. CASE ~(Matches(score) /\ (best.index = 0 \/ score > best.score))
  <2>1. best' = best
    BY <1>2 DEF Observe
  <2>2. CASE best.index = 0
    <3>1. \A v \in verdicts : ~Matches(v.score)
      BY <2>2 DEF BestSoFar
    <3> QED BY <1>2, <2>1, <2>2, <3>1 DEF BestSoFar
  <2>3. CASE best.index # 0
    <3>1. PICK v \in verdicts : /\ v.print = best.index /\ v.score = best.score
                                /\ Matches(v.score)
                                /\ \A w \in verdicts \ {v} : Beats(v, w)
      BY <2>3 DEF BestSoFar
    <3>2. Beats(v, new)
      BY <1>2, <2>3, <3>1 DEF Beats
    <3> QED BY <2>1, <3>1, <3>2 DEF BestSoFar
  <2> QED BY <2>2, <2>3
<1> QED BY <1>1, <1>2

\* A comparison gives the next print its one score and keeps the best.
LEMMA CompareKeeps ==
  ASSUME IInv, NEW score \in Scores, Compare(score)
  PROVE  IInv'
<1> USE OperationsAssumption DEF IInv, TypeOK, Phases, Compare, touch, request, engine, reply, Verified, Observe
<1>1. TypeOK'
  <2>1. /\ active' \in BOOLEAN
       /\ number' \in 0..MaxTouches
       /\ origin' \in 0..MaxTouches
    BY DEF Touches
  <2>2. report' \in Reports \union {"none", "delivered"}
    BY DEF Touches
  <2>3. /\ op' \in {"none", "enroll", "verify", "identify"}
       /\ phase' \in {"idle", "loading", "touch", "compare", "report"}
       /\ opened' \in 0..MaxTouches
       /\ gallery' \in 0..MaxGallery \union {1}
    BY DEF Touches
  <2>4. /\ retained' \in Seq(Touches)
       /\ templates' \in Seq(Prints \union {1})
       /\ print' \in Seq(Touches)
    BY DEF Touches, Prints
  <2>5. /\ index' \in Nat
       /\ verdicts' \subseteq [print : Prints \union {1}, score : Scores]
       /\ best' \in [index : Nat, score : Int]
       /\ result' \in {"none", "retry", "progress", "complete", "match", "nomatch"}
    BY DEF Touches, Prints, NoMatch, Identifying
  <2>6. /\ told' \in 0..Target
       /\ outcome' \in {"none", "refused", "failed", "print", "retry", "match", "nomatch"}
       /\ matched' \in 0..MaxGallery \union {1}
    BY DEF Touches
  <2> QED BY <2>1, <2>2, <2>3, <2>4, <2>5, <2>6 DEF Touches
<1>2. Phases'
  BY DEF Phases
<1>3. Enrolling'
  BY DEF Enrolling, Samples, Increasing, Credible
<1>4. Verifying'
  BY DEF Verifying, Matches
<1>5. Identifying'
  <2> DEFINE n == index + 1
             new == [print |-> n, score |-> score]
  <2>1. op = "identify"
    BY DEF Enrolling, Verifying
  <2>2. /\ index \in 0..gallery /\ n \in 1..gallery /\ templates[n] = n
        /\ InOrder(gallery) /\ ScoredOnce(index) /\ BestSoFar
    BY <2>1 DEF Identifying, InOrder
  <2>3. verdicts' = verdicts \union {new} /\ index' = n
    BY <2>2
  <2>4. \A v \in verdicts : v.print \in 1..n - 1 /\ v.score \in Int /\ v.print \in Int
    <3>1. \A v \in verdicts : v.score \in Int
      BY ScoresAreIntegers
    <3>2. \A v \in verdicts : v.print \in 1..index /\ v.print \in Int
      BY <2>2 DEF ScoredOnce
    <3> HIDE DEF IInv, TypeOK, Compare, new
    <3> QED BY <2>2, <3>1, <3>2
  <2>5. ScoredOnce(index)'
    <3>1. \A p \in 1..n : \E v \in verdicts' : v.print = p
      <4>1. \A p \in 1..n : p = n \/ p \in 1..index
        BY <2>2
      <4>2. \A p \in 1..index : \E v \in verdicts : v.print = p
        BY <2>2 DEF ScoredOnce
      <4> HIDE DEF IInv, TypeOK, Compare
      <4> QED BY <4>1, <4>2, <2>3
    <3>2. \A v \in verdicts' : v.print \in 1..n
      BY <2>2, <2>3, <2>4
    <3>3. \A v, w \in verdicts' : v.print = w.print => v = w
      <4>1. \A v, w \in verdicts : v.print = w.print => v = w
        BY <2>2 DEF ScoredOnce
      <4>2. \A v \in verdicts : v.print # n
        BY <2>2, <2>4
      <4> HIDE DEF IInv, TypeOK, Compare
      <4> QED BY <4>1, <4>2, <2>3
    <3> QED BY <2>3, <3>1, <3>2, <3>3 DEF ScoredOnce
  <2>6. BestSoFar'
    BY <2>2, <2>3, <2>4, BestOfMore
  <2>7. InOrder(gallery)'
    BY <2>2 DEF InOrder
  <2>8. gallery' \in Prints /\ number' = opened' + 1 /\ origin' = number' /\ index' \in 0..gallery'
    BY <2>1, <2>2, <2>3 DEF Identifying
  <2> QED BY <2>1, <2>5, <2>6, <2>7, <2>8 DEF Identifying
<1>6. PrintIsWhole'
  BY DEF PrintIsWhole, Increasing
<1>7. MatchIsBest'
  BY DEF MatchIsBest
<1>8. DecisionsAreFresh'
  BY DEF DecisionsAreFresh
<1> QED BY <1>1, <1>2, <1>3, <1>4, <1>5, <1>6, <1>7, <1>8

\* A comparison that breaks ends the identification with no decision.
LEMMA CompareBreaksKeeps ==
  ASSUME IInv, CompareBreaks
  PROVE  IInv'
<1> USE OperationsAssumption DEF IInv, TypeOK, Phases, CompareBreaks, touch, request, engine, reply, Fail, Complete
<1>1. TypeOK'
  BY DEF TypeOK, Touches, Prints, NoMatch, Frames
<1>2. Phases'
  BY DEF Phases
<1>3. Enrolling'
  BY DEF Enrolling, Samples, Increasing, Credible
<1>4. Verifying'
  BY DEF Verifying, Matches
<1>5. Identifying'
  BY DEF Identifying, InOrder, NoMatch
<1>6. PrintIsWhole'
  BY DEF PrintIsWhole, Increasing
<1>7. MatchIsBest'
  BY DEF MatchIsBest
<1>8. DecisionsAreFresh'
  BY DEF DecisionsAreFresh
<1> QED BY <1>1, <1>2, <1>3, <1>4, <1>5, <1>6, <1>7, <1>8

\* After the last print the accumulator decides.
LEMMA ConcludesKeeps ==
  ASSUME IInv, Concludes
  PROVE  IInv'
<1> USE OperationsAssumption DEF IInv, TypeOK, Phases, Concludes, touch, request, engine, reply
<1>1. TypeOK'
  BY DEF TypeOK, Touches, Prints, NoMatch, Frames
<1>2. Phases'
  BY DEF Phases
<1>3. Enrolling'
  BY DEF Enrolling, Samples, Increasing, Credible
<1>4. Verifying'
  BY DEF Verifying, Matches
<1>5. Identifying'
  <2>1. op = "identify"
    BY DEF Enrolling, Verifying
  <2>2. index = gallery /\ InOrder(gallery)
    BY <2>1 DEF Identifying, InOrder
  <2>3. ScoredOnce(gallery)' /\ BestSoFar' /\ InOrder(gallery)'
    BY <2>1, <2>2 DEF Identifying, ScoredOnce, BestSoFar, InOrder
  <2> QED BY <2>1, <2>3 DEF Identifying
<1>6. PrintIsWhole'
  BY DEF PrintIsWhole, Increasing
<1>7. MatchIsBest'
  BY DEF MatchIsBest
<1>8. DecisionsAreFresh'
  BY DEF DecisionsAreFresh
<1> QED BY <1>1, <1>2, <1>3, <1>4, <1>5, <1>6, <1>7, <1>8

\* The progress that is told is what the template holds.
LEMMA NextTouchKeeps ==
  ASSUME IInv, NextTouch
  PROVE  IInv'
<1> USE OperationsAssumption DEF IInv, TypeOK, Phases, NextTouch, touch, request, engine, reply, Touch!Begin
<1>1. TypeOK'
  <2>1. /\ active' \in BOOLEAN
       /\ number' \in 0..MaxTouches
       /\ origin' \in 0..MaxTouches
    BY DEF Touches
  <2>2. report' \in Reports \union {"none", "delivered"}
    BY DEF Touches
  <2>3. /\ op' \in {"none", "enroll", "verify", "identify"}
       /\ phase' \in {"idle", "loading", "touch", "compare", "report"}
       /\ opened' \in 0..MaxTouches
       /\ gallery' \in 0..MaxGallery \union {1}
    BY DEF Touches
  <2>4. /\ retained' \in Seq(Touches)
       /\ templates' \in Seq(Prints \union {1})
       /\ print' \in Seq(Touches)
    BY DEF Touches, Prints
  <2>5. /\ index' \in Nat
       /\ verdicts' \subseteq [print : Prints \union {1}, score : Scores]
       /\ best' \in [index : Nat, score : Int]
       /\ result' \in {"none", "retry", "progress", "complete", "match", "nomatch"}
    BY DEF Touches, Prints, NoMatch
  <2>6. /\ told' \in 0..Target
       /\ outcome' \in {"none", "refused", "failed", "print", "retry", "match", "nomatch"}
       /\ matched' \in 0..MaxGallery \union {1}
    BY DEF Touches, Credible
  <2> QED BY <2>1, <2>2, <2>3, <2>4, <2>5, <2>6 DEF Touches
<1>2. Phases'
  BY DEF Phases
<1>3. Enrolling'
  BY DEF Enrolling, Samples, Increasing, Credible
<1>4. Verifying'
  BY DEF Verifying, Matches
<1>5. Identifying'
  BY DEF Identifying, InOrder, NoMatch
<1>6. PrintIsWhole'
  BY DEF PrintIsWhole, Increasing
<1>7. MatchIsBest'
  BY DEF MatchIsBest
<1>8. DecisionsAreFresh'
  BY DEF DecisionsAreFresh
<1> QED BY <1>1, <1>2, <1>3, <1>4, <1>5, <1>6, <1>7, <1>8

\* An enrollment that cannot begin its next touch ends with no print.
LEMMA NextTouchFailsKeeps ==
  ASSUME IInv, NextTouchFails
  PROVE  IInv'
<1> USE OperationsAssumption DEF IInv, TypeOK, Phases, NextTouchFails, touch, request, engine, reply, Fail, Complete
<1>1. TypeOK'
  <2>1. /\ active' \in BOOLEAN
       /\ number' \in 0..MaxTouches
       /\ origin' \in 0..MaxTouches
    BY DEF Touches
  <2>2. report' \in Reports \union {"none", "delivered"}
    BY DEF Touches
  <2>3. /\ op' \in {"none", "enroll", "verify", "identify"}
       /\ phase' \in {"idle", "loading", "touch", "compare", "report"}
       /\ opened' \in 0..MaxTouches
       /\ gallery' \in 0..MaxGallery \union {1}
    BY DEF Touches
  <2>4. /\ retained' \in Seq(Touches)
       /\ templates' \in Seq(Prints \union {1})
       /\ print' \in Seq(Touches)
    BY DEF Touches, Prints
  <2>5. /\ index' \in Nat
       /\ verdicts' \subseteq [print : Prints \union {1}, score : Scores]
       /\ best' \in [index : Nat, score : Int]
       /\ result' \in {"none", "retry", "progress", "complete", "match", "nomatch"}
    BY DEF Touches, Prints, NoMatch
  <2>6. /\ told' \in 0..Target
       /\ outcome' \in {"none", "refused", "failed", "print", "retry", "match", "nomatch"}
       /\ matched' \in 0..MaxGallery \union {1}
    BY DEF Touches, Credible
  <2> QED BY <2>1, <2>2, <2>3, <2>4, <2>5, <2>6 DEF Touches
<1>2. Phases'
  BY DEF Phases
<1>3. Enrolling'
  BY DEF Enrolling, Samples, Increasing, Credible
<1>4. Verifying'
  BY DEF Verifying, Matches
<1>5. Identifying'
  BY DEF Identifying, InOrder, NoMatch
<1>6. PrintIsWhole'
  BY DEF PrintIsWhole, Increasing
<1>7. MatchIsBest'
  BY DEF MatchIsBest
<1>8. DecisionsAreFresh'
  BY DEF DecisionsAreFresh
<1> QED BY <1>1, <1>2, <1>3, <1>4, <1>5, <1>6, <1>7, <1>8

\* The print that is reported is the template the engine completed.
LEMMA ReportsPrintKeeps ==
  ASSUME IInv, ReportsPrint
  PROVE  IInv'
<1> USE OperationsAssumption DEF IInv, TypeOK, Phases, ReportsPrint, touch, request, engine, reply, Fail, Complete
<1>1. TypeOK'
  <2>1. /\ active' \in BOOLEAN
       /\ number' \in 0..MaxTouches
       /\ origin' \in 0..MaxTouches
    BY DEF Touches
  <2>2. report' \in Reports \union {"none", "delivered"}
    BY DEF Touches
  <2>3. /\ op' \in {"none", "enroll", "verify", "identify"}
       /\ phase' \in {"idle", "loading", "touch", "compare", "report"}
       /\ opened' \in 0..MaxTouches
       /\ gallery' \in 0..MaxGallery \union {1}
    BY DEF Touches
  <2>4. /\ retained' \in Seq(Touches)
       /\ templates' \in Seq(Prints \union {1})
       /\ print' \in Seq(Touches)
    <3>1. print' = <<>> \/ print' = retained
      BY DEF Credible
    <3>2. <<>> \in Seq(Touches)
      OBVIOUS
    <3> QED BY <3>1, <3>2 DEF Touches, Prints
  <2>5. /\ index' \in Nat
       /\ verdicts' \subseteq [print : Prints \union {1}, score : Scores]
       /\ best' \in [index : Nat, score : Int]
       /\ result' \in {"none", "retry", "progress", "complete", "match", "nomatch"}
    BY DEF Touches, Prints, NoMatch
  <2>6. /\ told' \in 0..Target
       /\ outcome' \in {"none", "refused", "failed", "print", "retry", "match", "nomatch"}
       /\ matched' \in 0..MaxGallery \union {1}
    BY DEF Touches, Credible
  <2> QED BY <2>1, <2>2, <2>3, <2>4, <2>5, <2>6 DEF Touches
<1>2. Phases'
  BY DEF Phases
<1>3. Enrolling'
  BY DEF Enrolling, Samples, Increasing, Credible
<1>4. Verifying'
  BY DEF Verifying, Matches
<1>5. Identifying'
  BY DEF Identifying, InOrder, NoMatch
<1>6. PrintIsWhole'
  <2>1. CASE Credible
    <3>1. result = "complete" /\ print' = retained /\ opened' = opened /\ number' = number
      BY <2>1
    <3>2. Len(retained) = Target /\ Samples(number)
      BY <3>1 DEF Enrolling
    <3> QED BY <3>1, <3>2 DEF PrintIsWhole, Samples, Increasing
  <2>2. CASE ~Credible
    BY <2>2 DEF PrintIsWhole
  <2> QED BY <2>1, <2>2
<1>7. MatchIsBest'
  BY DEF MatchIsBest
<1>8. DecisionsAreFresh'
  BY DEF DecisionsAreFresh
<1> QED BY <1>1, <1>2, <1>3, <1>4, <1>5, <1>6, <1>7, <1>8

\* The verification reports what its one score says.
LEMMA ReportsVerdictKeeps ==
  ASSUME IInv, ReportsVerdict
  PROVE  IInv'
<1> USE OperationsAssumption DEF IInv, TypeOK, Phases, ReportsVerdict, touch, request, engine, reply, Complete
<1>1. TypeOK'
  <2>1. /\ active' \in BOOLEAN
       /\ number' \in 0..MaxTouches
       /\ origin' \in 0..MaxTouches
    BY DEF Touches
  <2>2. report' \in Reports \union {"none", "delivered"}
    BY DEF Touches
  <2>3. /\ op' \in {"none", "enroll", "verify", "identify"}
       /\ phase' \in {"idle", "loading", "touch", "compare", "report"}
       /\ opened' \in 0..MaxTouches
       /\ gallery' \in 0..MaxGallery \union {1}
    BY DEF Touches
  <2>4. /\ retained' \in Seq(Touches)
       /\ templates' \in Seq(Prints \union {1})
       /\ print' \in Seq(Touches)
    BY DEF Touches, Prints
  <2>5. /\ index' \in Nat
       /\ verdicts' \subseteq [print : Prints \union {1}, score : Scores]
       /\ best' \in [index : Nat, score : Int]
       /\ result' \in {"none", "retry", "progress", "complete", "match", "nomatch"}
    BY DEF Touches, Prints, NoMatch
  <2>6. /\ told' \in 0..Target
       /\ outcome' \in {"none", "refused", "failed", "print", "retry", "match", "nomatch"}
       /\ matched' \in 0..MaxGallery \union {1}
    BY DEF Touches, Verifying
  <2> QED BY <2>1, <2>2, <2>3, <2>4, <2>5, <2>6 DEF Touches
<1>2. Phases'
  BY DEF Phases
<1>3. Enrolling'
  BY DEF Enrolling, Samples, Increasing, Credible
<1>4. Verifying'
  BY DEF Verifying, Matches
<1>5. Identifying'
  BY DEF Identifying, InOrder, NoMatch
<1>6. PrintIsWhole'
  BY DEF PrintIsWhole, Increasing
<1>7. MatchIsBest'
  <2>1. outcome' = result /\ matched' = (IF result = "match" THEN 1 ELSE 0)
        /\ verdicts' = verdicts /\ gallery' = gallery /\ gallery = 1
        /\ result \in {"retry", "match", "nomatch"}
    BY DEF Verifying
  <2>2. CASE result = "retry"
    BY <2>1, <2>2 DEF MatchIsBest
  <2>3. CASE result # "retry"
    <3>1. PICK s \in Scores : /\ verdicts = {[print |-> 1, score |-> s]}
                              /\ result = "match" <=> Matches(s)
      BY <2>3 DEF Verifying
    <3> DEFINE v == [print |-> 1, score |-> s]
    <3>2. v \in verdicts /\ (\A w \in verdicts : w = v) /\ v.print = 1 /\ v.score = s
      BY <3>1
    <3> HIDE DEF v
    <3> QED BY <2>1, <2>3, <3>1, <3>2 DEF MatchIsBest
  <2> QED BY <2>2, <2>3
<1>8. DecisionsAreFresh'
  <2>1. number' = opened' + 1 /\ print' = <<>>
    BY DEF Verifying
  <2>2. origin' = number'
    BY DEF Verifying
  <2> QED BY <2>1, <2>2 DEF DecisionsAreFresh
<1> QED BY <1>1, <1>2, <1>3, <1>4, <1>5, <1>6, <1>7, <1>8

\* The print the identification names is the best of the gallery.
LEMMA ReportsIdentityKeeps ==
  ASSUME IInv, ReportsIdentity
  PROVE  IInv'
<1> USE OperationsAssumption DEF IInv, TypeOK, Phases, ReportsIdentity, touch, request, engine, reply, Fail, Complete
<1>1. TypeOK'
  <2>1. /\ active' \in BOOLEAN
       /\ number' \in 0..MaxTouches
       /\ origin' \in 0..MaxTouches
    BY DEF Touches
  <2>2. report' \in Reports \union {"none", "delivered"}
    BY DEF Touches
  <2>3. /\ op' \in {"none", "enroll", "verify", "identify"}
       /\ phase' \in {"idle", "loading", "touch", "compare", "report"}
       /\ opened' \in 0..MaxTouches
       /\ gallery' \in 0..MaxGallery \union {1}
    BY DEF Touches
  <2>4. /\ retained' \in Seq(Touches)
       /\ templates' \in Seq(Prints \union {1})
       /\ print' \in Seq(Touches)
    <3>1. result # "retry" => origin \in Touches
      BY DEF Identifying, Touches
    <3>2. result # "retry" => <<origin>> \in Seq(Touches)
      BY <3>1
    <3>3. print' = <<>> \/ (result # "retry" /\ print' = <<origin>>)
      BY DEF Identifying
    <3>4. print' \in Seq(Touches)
      <4>1. <<>> \in Seq(Touches)
        OBVIOUS
      <4> HIDE DEF IInv, TypeOK, ReportsIdentity
      <4> QED BY <3>2, <3>3, <4>1
    <3> QED BY <3>4 DEF Touches, Prints
  <2>5. /\ index' \in Nat
       /\ verdicts' \subseteq [print : Prints \union {1}, score : Scores]
       /\ best' \in [index : Nat, score : Int]
       /\ result' \in {"none", "retry", "progress", "complete", "match", "nomatch"}
    BY DEF Touches, Prints, NoMatch
  <2>6. /\ told' \in 0..Target
       /\ outcome' \in {"none", "refused", "failed", "print", "retry", "match", "nomatch"}
       /\ matched' \in 0..MaxGallery \union {1}
    BY DEF Touches, Identifying
  <2> QED BY <2>1, <2>2, <2>3, <2>4, <2>5, <2>6 DEF Touches
<1>2. Phases'
  BY DEF Phases
<1>3. Enrolling'
  BY DEF Enrolling, Samples, Increasing, Credible
<1>4. Verifying'
  BY DEF Verifying, Matches
<1>5. Identifying'
  BY DEF Identifying, InOrder, NoMatch
<1>6. PrintIsWhole'
  BY DEF PrintIsWhole, Increasing
<1>7. MatchIsBest'
  <2>1. verdicts' = verdicts /\ gallery' = gallery /\ result \in {"retry", "match", "nomatch"}
    BY DEF Identifying
  <2>2. CASE result = "retry"
    BY <2>2 DEF MatchIsBest
  <2>3. CASE result # "retry"
    <3>1. /\ ScoredOnce(gallery) /\ BestSoFar /\ gallery \in Nat
          /\ result = "match" <=> best.index # 0
      BY <2>3 DEF Identifying, Prints
    <3>2. best.index # 0 => best.index \in 1..gallery
      BY <3>1 DEF ScoredOnce, BestSoFar
    <3>3. outcome' = result /\ matched' = best.index
      BY <2>1, <2>3, <3>1, <3>2
    <3>4. CASE best.index = 0
      <4>1. \A v \in verdicts : ~Matches(v.score)
        BY <3>1, <3>4 DEF ScoredOnce, BestSoFar
      <4> QED BY <2>1, <2>3, <3>1, <3>3, <3>4, <4>1 DEF MatchIsBest, ScoredOnce
    <3>5. CASE best.index # 0
      <4>1. \E v \in verdicts : /\ v.print = best.index /\ Matches(v.score)
                                /\ \A w \in verdicts \ {v} : Beats(v, w)
        BY <3>1, <3>5 DEF BestSoFar
      <4> QED BY <2>1, <2>3, <3>1, <3>3, <3>5, <4>1 DEF MatchIsBest, ScoredOnce, Beats
    <3> QED BY <3>4, <3>5
  <2> QED BY <2>2, <2>3
<1>8. DecisionsAreFresh'
  <2>1. number' = opened' + 1 /\ origin' = number' /\ origin = number'
    BY DEF Identifying
  <2>2. print' = <<>> \/ print' = <<origin>>
    OBVIOUS
  <2>3. \A i \in 1..Len(print') : print'[i] = number'
    BY <2>1, <2>2
  <2> QED BY <2>1, <2>3 DEF DecisionsAreFresh
<1> QED BY <1>1, <1>2, <1>3, <1>4, <1>5, <1>6, <1>7, <1>8

-----------------------------------------------------------------------------
(* The invariant of the specification. *)

\* Before the first operation there is nothing to be wrong about.
LEMMA InitHolds == Init => IInv
<1> SUFFICES ASSUME Init PROVE IInv
  OBVIOUS
<1> USE OperationsAssumption DEF Init, Touch!Init, NoMatch
<1>1. TypeOK
  <2>1. /\ active \in BOOLEAN
        /\ report \in Reports \union {"none", "delivered"}
        /\ op \in {"none", "enroll", "verify", "identify"}
        /\ phase \in {"idle", "loading", "touch", "compare", "report"}
    OBVIOUS
  <2>2. /\ number \in 0..MaxTouches /\ origin \in 0..MaxTouches
        /\ opened \in 0..MaxTouches /\ gallery \in 0..MaxGallery \union {1}
        /\ index \in Nat /\ told \in 0..Target /\ matched \in 0..MaxGallery \union {1}
    OBVIOUS
  <2>3. retained \in Seq(Touches) /\ templates \in Seq(Prints \union {1}) /\ print \in Seq(Touches)
    BY DEF Touches, Prints
  <2>4. /\ verdicts \subseteq [print : Prints \union {1}, score : Scores]
        /\ best \in [index : Nat, score : Int]
        /\ result \in {"none", "retry", "progress", "complete", "match", "nomatch"}
        /\ outcome \in {"none", "refused", "failed", "print", "retry", "match", "nomatch"}
    OBVIOUS
  <2> QED BY <2>1, <2>2, <2>3, <2>4 DEF TypeOK
<1>2. Phases /\ Enrolling /\ Verifying /\ Identifying
  BY DEF Phases, Enrolling, Verifying, Identifying
<1>3. PrintIsWhole /\ MatchIsBest /\ DecisionsAreFresh
  BY DEF PrintIsWhole, MatchIsBest, DecisionsAreFresh
<1> QED BY <1>1, <1>2, <1>3 DEF IInv

\* A step of the operations is one of the steps above.
LEMMA StepHolds == IInv /\ [Next]_vars => IInv'
<1> SUFFICES ASSUME IInv, [Next]_vars PROVE IInv'
  OBVIOUS
<1>1. CASE UNCHANGED vars
  BY <1>1 DEF vars, touch, request, engine, reply, IInv, TypeOK, Phases, Enrolling, Samples,
     Increasing, Verifying, Identifying, InOrder, ScoredOnce, BestSoFar, Beats, PrintIsWhole,
     MatchIsBest, DecisionsAreFresh
<1>2. CASE Start
  BY <1>2, RefuseKeeps, StartEnrollKeeps, StartVerifyKeeps, StartIdentifyKeeps DEF Start
<1>3. CASE LoadPrint \/ PrintInvalid \/ GalleryLoaded
  BY <1>3, LoadPrintKeeps, PrintInvalidKeeps, GalleryLoadedKeeps
<1>4. CASE TouchFails \/ FrameBreaks
  BY <1>4, TouchFailsKeeps, FrameBreaksKeeps
<1>5. ASSUME NEW frame \in Frames, Processes(frame) PROVE IInv'
  BY <1>5, RejectsKeeps, RetainsKeeps, ScansKeeps, VerifiesKeeps DEF Processes
<1>6. ASSUME NEW score \in Scores, Compare(score) PROVE IInv'
  BY <1>6, CompareKeeps
<1>7. CASE CompareBreaks \/ Concludes
  BY <1>7, CompareBreaksKeeps, ConcludesKeeps
<1>8. CASE NextTouch \/ NextTouchFails \/ ReportsPrint \/ ReportsVerdict \/ ReportsIdentity
  BY <1>8, NextTouchKeeps, NextTouchFailsKeeps, ReportsPrintKeeps, ReportsVerdictKeeps,
     ReportsIdentityKeeps
<1> QED BY <1>1, <1>2, <1>3, <1>4, <1>5, <1>6, <1>7, <1>8 DEF Next, Proceed

\* The inductive invariant holds of every behaviour of the operations.
THEOREM Inductive == Spec => []IInv
<1>1. Init => IInv
  BY InitHolds
<1>2. IInv /\ [Next]_vars => IInv'
  BY StepHolds
<1> QED BY <1>1, <1>2, PTL DEF Spec

-----------------------------------------------------------------------------
(* The properties, for every value of the constants. *)

\* Every variable of the operations keeps its type.
THEOREM OperationTypes == Spec => []TypeOK
<1>1. IInv => TypeOK
  BY DEF IInv
<1> QED BY <1>1, Inductive, PTL

\* A print returned by enrollment holds the target number of samples, each of its
\* own touch of this enrollment (goodix550a.c reports it once the engine is complete).
THEOREM WholePrints == Spec => []PrintIsWhole
<1>1. IInv => PrintIsWhole
  BY DEF IInv
<1> QED BY <1>1, Inductive, PTL

\* The progress libfprint has been told of is the template's whenever a touch is
\* awaited, and is short of the target.
THEOREM ProgressIsRetained == Spec => []ToldIsRetained
<1>1. IInv => ToldIsRetained
  BY DEF IInv, Enrolling, ToldIsRetained
<1> QED BY <1>1, Inductive, PTL

\* Identification asks for its touch with the whole gallery decoded, in the order
\* of libfprint's own.
THEOREM GalleryIsDecoded == Spec => []GalleryBeforeTouch
<1>1. IInv => GalleryBeforeTouch
  BY DEF IInv, Identifying, InOrder, GalleryBeforeTouch
<1> QED BY <1>1, Inductive, PTL

\* The print a match names has the best score of the gallery, and no match means
\* that no print matched: for every gallery and every scores of the matcher.
THEOREM BestIsNamed == Spec => []MatchIsBest
<1>1. IInv => MatchIsBest
  BY DEF IInv
<1> QED BY <1>1, Inductive, PTL

\* Verification and identification speak of the one touch made for them.
THEOREM FreshDecisions == Spec => []DecisionsAreFresh
<1>1. IInv => DecisionsAreFresh
  BY DEF IInv
<1> QED BY <1>1, Inductive, PTL
=============================================================================
