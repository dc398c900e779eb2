--------------------------- MODULE StandaloneProofs ---------------------------
(***************************************************************************)
(* What a standalone program captures and saves, proved for any number of  *)
(* samples, attempts, programs and packets.  The frame is its own because  *)
(* of its key; the touch is its own because the answers left by programs   *)
(* cut off lag behind by one command for each, and a stale finger-down has *)
(* to be let through by a stale version and a stale D2.                    *)
(***************************************************************************)
EXTENDS StandaloneSession, TLAPS

-----------------------------------------------------------------------------
(* Where a program can be, and the files. *)

Placed ==
  /\ program = "none" <=> step = "None"
  /\ program # "none" => ended = "none" /\ run > 0
  /\ step \in Saving => program = "enroll" /\ samples = Target
  /\ program = "enroll" /\ step \notin Saving => samples < Target
  /\ program = "verify" => samples = 0
  /\ step \in {"Judge", "None"} => part = "send"
  /\ step \in Saving => part \in {"send", "done"}
  /\ step \in Opening => attempts = 0
  /\ step = "TlsPovImage" /\ part = "send" => attempts < MaxAttempts
  /\ cuts =< run /\ (program # "none" => cuts < run)

Torn(f) == f.run > 0 /\ ~f.whole

FilesTrue ==
  /\ tgla.run =< raw.run /\ raw.run =< run
  /\ raw.run = run /\ run > 0 => samples = Target
  /\ program # "none" /\ step \notin Saving => raw.run < run
  /\ step = "Raw"  => tgla.run < run
  /\ step = "Raw" /\ part = "send" => raw.run < run
  /\ step = "Raw" /\ part = "done" => raw.run = run
  /\ step = "Tgla" => raw.run = run /\ raw.whole
  /\ step = "Tgla" /\ part = "send" => tgla.run < run
  /\ step = "Tgla" /\ part = "done" => tgla.run = run
  /\ \A f \in {raw, tgla} :
       Torn(f) => f.run < run \/ ended = "cut" \/ (step \in Saving /\ part = "done")
  /\ ended = "saved" => raw.whole /\ tgla.whole /\ raw.run = run /\ tgla.run = run

-----------------------------------------------------------------------------
(* Frames and the configuration. *)

\* Capturing with the configuration decided on.
Decided == \/ step \in {"FdtDown", "GetImage", "FdtUp", "Judge"}
           \/ step = "TlsPovImage" /\ part # "send"

Watched == steady /\ Decided

\* A key is never younger than the exposure it protects, and what key k of the
\* running capture protects, that capture exposed; n programs were cut off, w
\* tells whether the sensor is known to be configured.
KeyTrue(f, k, n, w) ==
  /\ f.key =< k
  /\ f.key = k => /\ f.shot = k
                  /\ f.down = k \/ n >= CutsForStaleTouch
                  /\ w => f = NoFrame \/ f.ready

KeysTrue ==
  /\ sensorKey =< capture
  /\ \A i \in 1..Len(queue) : KeyTrue(queue[i].frame, capture, cuts, Watched)
  /\ KeyTrue(image, capture, cuts, Watched)
  /\ step = "Judge" => frame = image /\ Decrypts(frame)

\* An acknowledgement that says the configuration is kept, or the verdict that
\* accepts one, speaks of c, the configuration now.
Honest(p, c) ==
  /\ p.kind = "ack" => p.data = "lost" \/ c = "kept"
  /\ p.cmd = "DownloadConfig" /\ p.kind = "completion" => p.data = "refused" \/ c = "kept"

ConfigTrue ==
  /\ \A i \in 1..Len(queue) : Honest(queue[i], config)
  /\ step = "GetVersion" /\ part = "done" /\ ~restore /\ steady => config = "kept"
  /\ (step \in Capturing \/ step = "Judge") /\ steady => config = "kept"

-----------------------------------------------------------------------------
(* How far the answers lag behind. *)

Done(p, c) == p.kind = "completion" /\ p.cmd = c

Has(q, a) == \E i \in 1..Len(q) : Done(q[i], a)
Then(q, a, b) == \E i, j \in 1..Len(q) : i < j /\ Done(q[i], a) /\ Done(q[j], b)
ThenThen(q, a, b, c) ==
  \E i, j, k \in 1..Len(q) :
     i < j /\ j < k /\ Done(q[i], a) /\ Done(q[j], b) /\ Done(q[k], c)

Marks == {"GetVersion", "TlsPovImage", "FdtDown"}

\* t shows nothing of what matters that q does not show.
NoMore(t, q) ==
  /\ \A a \in Marks : Has(t, a) => Has(q, a)
  /\ \A a, b \in Marks : Then(t, a, b) => Then(q, a, b)
  /\ \A a, b, c \in Marks : ThenThen(t, a, b, c) => ThenThen(q, a, b, c)

\* t shows more only by a completion of d at its end.
OneMore(t, q, d) ==
  /\ \A a \in Marks : Has(t, a) => Has(q, a) \/ a = d
  /\ \A a, b \in Marks : Then(t, a, b) => Then(q, a, b) \/ (Has(q, a) /\ b = d)
  /\ \A a, b, c \in Marks :
       ThenThen(t, a, b, c) => ThenThen(q, a, b, c) \/ (Then(q, a, b) /\ c = d)

Idle     == program = "none" \/ (step = "GetVersion" /\ part = "send")
Asking   == step = "GetVersion" /\ part # "send"
Opened   == step \in {"ReadOtp", "DownloadConfig"} \/ (step = "TlsPovImage" /\ part = "send")
Keying   == step = "TlsPovImage" /\ part # "send"
Sensing  == step = "FdtDown"
Touched  == step \in {"GetImage", "FdtUp", "Judge"} \union Saving
Armed    == armed = "down"
OwnFinger == touch = capture \/ cuts >= 3

LagIdle ==
  Idle =>
    /\ Has(queue, "GetVersion") => cuts >= 1
    /\ Then(queue, "GetVersion", "TlsPovImage") => cuts >= 2
    /\ ThenThen(queue, "GetVersion", "TlsPovImage", "FdtDown") => cuts >= 3
    /\ Armed => /\ cuts >= 1
                /\ Has(queue, "GetVersion") => cuts >= 2
                /\ Then(queue, "GetVersion", "TlsPovImage") => cuts >= 3

LagAsking ==
  Asking =>
    /\ Then(queue, "GetVersion", "GetVersion") => cuts >= 1
    /\ Then(queue, "GetVersion", "TlsPovImage") => cuts >= 2
    /\ ThenThen(queue, "GetVersion", "TlsPovImage", "FdtDown") => cuts >= 3
    /\ Armed => /\ cuts >= 1
                /\ Then(queue, "GetVersion", "GetVersion") => cuts >= 2
                /\ Then(queue, "GetVersion", "TlsPovImage") => cuts >= 3

LagOpened ==
  Opened =>
    /\ Has(queue, "GetVersion") => cuts >= 1
    /\ Has(queue, "TlsPovImage") => cuts >= 2
    /\ Then(queue, "TlsPovImage", "FdtDown") => cuts >= 3
    /\ Armed => /\ cuts >= 1
                /\ Has(queue, "GetVersion") => cuts >= 2
                /\ Has(queue, "TlsPovImage") => cuts >= 3

LagKeying ==
  Keying =>
    /\ Has(queue, "GetVersion") => cuts >= 1
    /\ Then(queue, "TlsPovImage", "TlsPovImage") => cuts >= 2
    /\ Then(queue, "TlsPovImage", "FdtDown") => OwnFinger
    /\ ThenThen(queue, "TlsPovImage", "FdtDown", "TlsPovImage") => cuts >= 3
    /\ ThenThen(queue, "GetVersion", "TlsPovImage", "FdtDown") => cuts >= 2
    /\ Armed => /\ cuts >= 1
                /\ Has(queue, "GetVersion") => cuts >= 2

LagSensing ==
  Sensing =>
    /\ Has(queue, "GetVersion") => cuts >= 1
    /\ Has(queue, "TlsPovImage") => cuts >= 2
    /\ Has(queue, "FdtDown") => OwnFinger
    /\ Then(queue, "FdtDown", "TlsPovImage") => cuts >= 3

LagTouched ==
  Touched =>
    /\ OwnFinger
    /\ Has(queue, "GetVersion") => cuts >= 1
    /\ Has(queue, "TlsPovImage") => cuts >= 2
    /\ Then(queue, "TlsPovImage", "FdtDown") => cuts >= 3
    /\ Armed => /\ step = "GetImage" \/ (step = "FdtUp" /\ part = "send")
                /\ Has(queue, "TlsPovImage") => cuts >= 3

Lag == LagIdle /\ LagAsking /\ LagOpened /\ LagKeying /\ LagSensing /\ LagTouched

IInv == TypeOK /\ Placed /\ FilesTrue /\ KeysTrue /\ ConfigTrue /\ Lag

-----------------------------------------------------------------------------
(* Types. *)

LEMMA FramesTyped ==
  ASSUME TypeOK
  PROVE  NoFrame \in Frame /\ Exposures \subseteq Frame
<1>1. NoFrame \in Frame
  BY StandaloneAssumption DEF NoFrame, Frame
<1>2. ASSUME NEW l \in BOOLEAN
      PROVE  [key |-> sensorKey, shot |-> capture, down |-> touch,
              ready |-> config = "kept", live |-> l] \in Frame
  <2>1. sensorKey \in 0..MaxCaptures /\ capture \in 0..MaxCaptures /\ touch \in 0..MaxCaptures
    BY DEF TypeOK
  <2>2. (config = "kept") \in BOOLEAN
    OBVIOUS
  <2> QED  BY <1>2, <2>1, <2>2, Zenon DEF Frame
<1> QED  BY <1>1, <1>2 DEF Exposures

LEMMA PacketsTyped ==
  ASSUME TypeOK, NEW c \in Commands
  PROVE  /\ AckOf(c) \in Packet
         /\ \A d \in {"kept", "refused"} : Completion(c, d) \in Packet
         /\ \A f \in Frame : ImagePacket(f) \in Packet
<1>1. NoFrame \in Frame /\ config \in {"kept", "lost", "refused"}
  BY FramesTyped DEF TypeOK
<1>2. "GetImage" \in Commands
  BY DEF Commands, Capturing
<1>3. AckOf(c) \in Packet
  BY <1>1, Zenon DEF Packet, AckOf
<1>4. ASSUME NEW d \in {"kept", "refused"}  PROVE Completion(c, d) \in Packet
  <2>1. d \in {"kept", "lost", "refused"}
    OBVIOUS
  <2> QED  BY <1>1, <2>1, Zenon DEF Packet, Completion
<1>5. ASSUME NEW f \in Frame  PROVE ImagePacket(f) \in Packet
  <2>1. "kept" \in {"kept", "lost", "refused"}
    OBVIOUS
  <2> QED  BY <1>2, <2>1, Zenon DEF Packet, ImagePacket
<1> QED  BY <1>3, <1>4, <1>5

\* What a command adds: its acknowledgement, and at most one completion of its own.
LEMMA RepliesTyped ==
  ASSUME TypeOK, NEW c \in Commands, NEW r \in Replies(c)
  PROVE  /\ r \in Seq(Packet)
         /\ Len(r) \in {1, 2} /\ (Len(r) = 1 <=> c \in {"FdtDown", "FdtUp"})
         /\ r[1] = AckOf(c)
         /\ Len(r) = 2 => /\ r[2].kind = "completion" /\ r[2].cmd = c
                          /\ r[2].data \in {"kept", "refused"}
                          /\ r[2].frame \in IF c = "GetImage" THEN Exposures ELSE {NoFrame}
<1>1. CASE c = "DownloadConfig"
  <2>1. PICK d \in {"kept", "refused"} : r = <<AckOf(c), Completion(c, d)>>
    BY <1>1 DEF Replies
  <2>2. AckOf(c) \in Packet /\ Completion(c, d) \in Packet
    BY PacketsTyped
  <2> QED  BY <1>1, <2>1, <2>2 DEF Completion
<1>2. CASE c = "GetImage"
  <2>1. PICK f \in Exposures : r = <<AckOf(c), ImagePacket(f)>>
    BY <1>2 DEF Replies
  <2>2. AckOf(c) \in Packet /\ ImagePacket(f) \in Packet
    BY PacketsTyped, FramesTyped
  <2> QED  BY <1>2, <2>1, <2>2 DEF ImagePacket
<1>3. CASE c \in {"FdtDown", "FdtUp"}
  <2>1. r = <<AckOf(c)>>
    BY <1>3 DEF Replies
  <2>2. AckOf(c) \in Packet
    BY PacketsTyped
  <2> QED  BY <1>3, <2>1, <2>2
<1>4. CASE c \notin {"DownloadConfig", "GetImage", "FdtDown", "FdtUp"}
  <2>1. r = <<AckOf(c), Completion(c, "kept")>>
    BY <1>4 DEF Replies
  <2>2. AckOf(c) \in Packet /\ Completion(c, "kept") \in Packet
    BY PacketsTyped
  <2> QED  BY <1>4, <2>1, <2>2 DEF Completion
<1> QED  BY <1>1, <1>2, <1>3, <1>4

\* What is left of the queue once its head is read.
LEMMA TailFacts ==
  ASSUME NEW q \in Seq(Packet), q # <<>>
  PROVE  /\ Tail(q) \in Seq(Packet) /\ Head(q) \in Packet /\ Head(q) = q[1]
         /\ Len(Tail(q)) = Len(q) - 1 /\ Len(q) >= 1
         /\ \A i \in 1..Len(Tail(q)) : Tail(q)[i] = q[i + 1] /\ i + 1 \in 1..Len(q)
  OBVIOUS

\* The variables of the program that Goto and End leave typed.
LEMMA MovesTyped ==
  ASSUME TypeOK, Placed
  PROVE  /\ \A s \in Steps : Goto(s) =>
              program' \in {"none", "enroll", "verify"} /\ run' \in 0..MaxPrograms
              /\ step' \in Steps /\ part' \in {"send", "ack", "done"}
              /\ ended' \in {"none", "saved", "done", "cut"} /\ cuts' \in 0..MaxPrograms
         /\ \A h \in {"saved", "done", "cut"} : End(h) /\ program # "none" =>
              program' \in {"none", "enroll", "verify"} /\ run' \in 0..MaxPrograms
              /\ step' \in Steps /\ part' \in {"send", "ack", "done"}
              /\ ended' \in {"none", "saved", "done", "cut"} /\ cuts' \in 0..MaxPrograms
  BY StandaloneAssumption DEF TypeOK, Placed, Goto, End, fate, Steps

LEMMA ReadTyped ==
  ASSUME TypeOK, Read
  PROVE  /\ queue' \in Seq(Packet) /\ Head(queue) \in Packet
         /\ Head(queue).frame \in Frame
         /\ raw' \in File /\ tgla' \in File /\ sensorKey' \in 0..MaxCaptures
         /\ armed' \in {"none", "down", "up"} /\ finger' \in BOOLEAN
         /\ touch' \in 0..MaxCaptures /\ config' \in {"kept", "lost"} /\ steady' \in BOOLEAN
<1>1. queue \in Seq(Packet) /\ queue # <<>> /\ queue' = Tail(queue)
  BY DEF TypeOK, Read
<1>2. queue' \in Seq(Packet) /\ Head(queue) \in Packet
  BY <1>1, TailFacts
<1>3. Head(queue).frame \in Frame
  BY <1>2, Zenon DEF Packet
<1> QED  BY <1>2, <1>3 DEF TypeOK, Read, files, detection

LEMMA TypeStep ==
  ASSUME TypeOK, Placed, [Next]_vars
  PROVE  TypeOK'
<1> USE StandaloneAssumption
<1>1. ASSUME NEW p \in {"enroll", "verify"}, Start(p)  PROVE TypeOK'
  <2>1. NoFrame \in Frame
    BY FramesTyped
  <2>2. /\ program' \in {"none", "enroll", "verify"} /\ run' \in 0..MaxPrograms
        /\ step' \in Steps /\ part' \in {"send", "ack", "done"}
    BY <1>1 DEF TypeOK, Start, Steps, Commands, Opening
  <2>6. restore' \in BOOLEAN
    BY <1>1, Zenon DEF Start
  <2>3. /\ attempts' \in 0..MaxAttempts /\ samples' \in 0..Target /\ capture' \in 0..MaxCaptures
        /\ ended' \in {"none", "saved", "done", "cut"} /\ cuts' \in 0..MaxPrograms
        /\ steady' \in BOOLEAN
    BY <1>1 DEF TypeOK, Start
  <2>4. image' \in Frame /\ frame' \in Frame
    BY <1>1, <2>1 DEF Start
  <2>5. UNCHANGED <<raw, tgla, queue, sensorKey, armed, finger, touch, config>>
    BY <1>1 DEF Start, files, sensor, detection
  <2> QED  BY <2>2, <2>3, <2>4, <2>5, <2>6 DEF TypeOK
<1>2. CASE Send
  <2>1. capture' \in 0..MaxCaptures /\ attempts' \in 0..MaxAttempts
    BY <1>2 DEF TypeOK, Placed, Send
  <2>2. PICK r \in Replies(step) : SensorReceives(step, capture')!(r)
    BY <1>2 DEF Send, SensorReceives
  <2>3. queue' \in Seq(Packet)
    BY <1>2, <2>2, RepliesTyped DEF TypeOK, Send
  <2>4. sensorKey' \in 0..MaxCaptures /\ armed' \in {"none", "down", "up"}
        /\ config' \in {"kept", "lost"} /\ finger' \in BOOLEAN /\ touch' \in 0..MaxCaptures
    BY <2>1, <2>2 DEF TypeOK
  <2> QED  BY <1>2, <2>1, <2>3, <2>4 DEF TypeOK, Send, fate, files
<1>3. CASE SkipUnrelated
  BY <1>3, ReadTyped DEF TypeOK, SkipUnrelated, place, enrollment, captured, fate
<1>4. CASE AnsweredTooEarly
  <2>1. program # "none"
    BY <1>4 DEF AnsweredTooEarly, Read, Placed, Commands, Opening, Capturing
  <2> QED  BY <1>4, <2>1, ReadTyped, MovesTyped
           DEF TypeOK, AnsweredTooEarly, enrollment, captured
<1>5. CASE TakeAck
  BY <1>5, ReadTyped DEF TypeOK, TakeAck, captured, fate
<1>6. CASE TakeCompletion
  <2>1. program # "none"
    BY <1>6 DEF TakeCompletion, Read, Placed, Commands, Opening, Capturing
  <2>2. After \in Steps
    BY DEF After, Steps, Commands, Opening, Capturing
  <2>3. image' \in Frame
    BY <1>6, ReadTyped DEF TypeOK, TakeCompletion
  <2> QED  BY <1>6, <2>1, <2>2, <2>3, ReadTyped, MovesTyped
           DEF TypeOK, TakeCompletion, enrollment
<1>7. CASE FinishCapture
  <2>1. program # "none"
    BY <1>7 DEF FinishCapture, Read, Placed, Commands, Opening, Capturing
  <2>2. "Judge" \in Steps
    BY DEF Steps
  <2> QED  BY <1>7, <2>1, <2>2, ReadTyped, MovesTyped DEF TypeOK, FinishCapture, enrollment
<1>8. CASE Judge
  <2>1. program # "none"
    BY <1>8 DEF Judge, Placed
  <2>2. "Raw" \in Steps /\ "TlsPovImage" \in Steps
    BY DEF Steps, Saving, Commands, Capturing
  <2>3. samples' \in 0..Target
    BY <1>8 DEF Judge, TypeOK, Placed, Saving
  <2> QED  BY <1>8, <2>1, <2>2, <2>3, MovesTyped
           DEF TypeOK, Judge, Again, captured, files, sensor, detection
<1>9. CASE Truncate \/ Fill
  <2>1. program # "none"
    BY <1>9 DEF Truncate, Fill, Placed, Saving
  <2>2. "Tgla" \in Steps
    BY DEF Steps, Saving
  <2>3. raw' \in File /\ tgla' \in File
    <3>1. [run |-> run, whole |-> FALSE] \in File
      BY DEF TypeOK, File
    <3>2. \A f \in File : [f EXCEPT !.whole = TRUE] \in File
      BY DEF File
    <3> QED  BY <1>9, <3>1, <3>2 DEF Truncate, Fill, TypeOK
  <2>4. CASE Truncate
    BY <2>3, <2>4 DEF TypeOK, Truncate, enrollment, captured, fate, sensor, detection
  <2>5. CASE Fill
    BY <2>1, <2>2, <2>3, <2>5, MovesTyped DEF TypeOK, Fill, enrollment, captured, sensor, detection
  <2> QED  BY <1>9, <2>4, <2>5
<1>10. CASE Cut
  <2>1. queue' \in Seq(Packet)
    BY <1>10 DEF Cut, TypeOK
  <2> QED  BY <1>10, <2>1, MovesTyped DEF TypeOK, Cut, enrollment, captured, files, detection
<1>11. CASE FingerDownEvent \/ FingerUpEvent
  <2>1. Completion("FdtDown", "kept") \in Packet /\ Completion("FdtUp", "kept") \in Packet
    BY PacketsTyped DEF Commands, Capturing
  <2>2. queue' \in Seq(Packet)
    BY <1>11, <2>1 DEF FingerDownEvent, FingerUpEvent, Detects, TypeOK
  <2>3. /\ armed' = "none" \/ armed' = armed
        /\ UNCHANGED <<place, enrollment, captured, fate, files>>
        /\ UNCHANGED <<sensorKey, finger, config, steady>>
        /\ touch' = touch \/ touch' = capture
    BY <1>11 DEF FingerDownEvent, FingerUpEvent, Detects
  <2>4. armed' \in {"none", "down", "up"}
    BY <2>3 DEF TypeOK
  <2>5. touch' \in 0..MaxCaptures
    BY <2>3 DEF TypeOK
  <2> QED  BY <2>2, <2>3, <2>4, <2>5 DEF TypeOK, place, enrollment, captured, fate, files
<1>12. CASE FingerMoves
  BY <1>12 DEF TypeOK, FingerMoves, place, enrollment, captured, fate, files
<1>13. CASE PowerLost
  <2>1. /\ queue' \in Seq(Packet) /\ sensorKey' \in 0..MaxCaptures
        /\ armed' \in {"none", "down", "up"} /\ config' \in {"kept", "lost"}
    BY <1>13 DEF PowerLost
  <2>3. steady' \in BOOLEAN
    BY <1>13, Zenon DEF PowerLost
  <2>2. UNCHANGED <<place, enrollment, captured, fate, files, finger, touch>>
    BY <1>13 DEF PowerLost
  <2> QED  BY <2>1, <2>2, <2>3 DEF TypeOK, place, enrollment, captured, fate, files
<1>14. CASE UNCHANGED vars
  BY <1>14 DEF TypeOK, vars, place, enrollment, captured, fate, files, sensor, detection
<1> QED  BY <1>1, <1>2, <1>3, <1>4, <1>5, <1>6, <1>7, <1>8, <1>9, <1>10, <1>11, <1>12,
            <1>13, <1>14 DEF Next

-----------------------------------------------------------------------------
(* Where a program can be. *)

LEMMA PlacedStep ==
  ASSUME TypeOK, Placed, [Next]_vars
  PROVE  Placed'
<1> USE StandaloneAssumption DEF Commands, Opening, Capturing, Saving, Steps
<1>1. ASSUME NEW p \in {"enroll", "verify"}, Start(p)  PROVE Placed'
  <2>1. /\ program' = p /\ run' = run + 1 /\ step' = "GetVersion" /\ part' = "send"
        /\ ended' = "none" /\ attempts' = 0 /\ samples' = 0 /\ cuts' = cuts
    BY <1>1 DEF Start
  <2>2. run \in Nat /\ cuts \in Nat /\ cuts =< run /\ Target > 0
    BY DEF TypeOK, Placed
  <2> QED  BY <1>1, <2>1, <2>2 DEF Placed
<1>2. CASE Send
  BY <1>2 DEF TypeOK, Placed, Send, fate
<1>3. CASE SkipUnrelated
  BY <1>3 DEF TypeOK, Placed, SkipUnrelated, place, enrollment, captured, fate
<1>4. CASE AnsweredTooEarly
  BY <1>4 DEF TypeOK, Placed, AnsweredTooEarly, Read, End, enrollment, captured
<1>5. CASE TakeAck
  BY <1>5 DEF TypeOK, Placed, TakeAck, Read, captured, fate
<1>6. CASE TakeCompletion
  <2>1. After \in Opening => step \in Opening
    BY DEF After
  <2>2. After = "TlsPovImage" => step \in Opening
    BY DEF After
  <2>3. After \in Commands
    BY DEF After
  <2>4. CASE End("cut")
    BY <1>6, <2>4 DEF TypeOK, Placed, TakeCompletion, Read, End, enrollment
  <2>5. CASE Goto(After)
    <3>1. /\ UNCHANGED <<program, run, ended, cuts, attempts, samples>>
          /\ step' = After /\ part' = "send" /\ step \in Commands
      BY <1>6, <2>5 DEF TakeCompletion, Read, Goto, enrollment, fate
    <3>2. step' \in Opening \/ step' = "TlsPovImage" => attempts = 0
      BY <2>1, <2>2, <3>1 DEF Placed
    <3>3. step' # "None" /\ step' # "Judge" /\ step' \notin Saving /\ step # "None"
          /\ step \notin Saving
      BY <2>3, <3>1
    <3> QED  BY <3>1, <3>2, <3>3 DEF Placed
  <2> QED  BY <1>6, <2>4, <2>5 DEF TakeCompletion
<1>7. CASE FinishCapture
  BY <1>7 DEF TypeOK, Placed, FinishCapture, Read, Goto, End, enrollment, fate
<1>8. CASE Judge
  <2>1. program # "none"
    BY <1>8 DEF Judge, Placed
  <2>2. CASE Goto("Raw")
    BY <1>8, <2>1, <2>2 DEF TypeOK, Placed, Judge, Goto, Again, End, Complete, captured, fate
  <2>3. CASE Goto("TlsPovImage") /\ attempts < MaxAttempts
    BY <1>8, <2>1, <2>3 DEF TypeOK, Placed, Judge, Goto, Again, End, Complete, captured, fate
  <2>4. CASE End("done")
    BY <1>8, <2>1, <2>4 DEF TypeOK, Placed, Judge, End, captured
  <2> QED  BY <1>8, <2>2, <2>3, <2>4 DEF Judge, Again
<1>9. CASE Truncate
  BY <1>9 DEF TypeOK, Placed, Truncate, enrollment, captured, fate
<1>10. CASE Fill
  BY <1>10 DEF TypeOK, Placed, Fill, Goto, End, enrollment, captured, fate
<1>11. CASE Cut
  BY <1>11 DEF TypeOK, Placed, Cut, End, enrollment, captured
<1>12. CASE UNCHANGED <<place, enrollment, fate>>
  BY <1>12 DEF Placed, place, enrollment, fate
<1>13. CASE FingerDownEvent \/ FingerUpEvent \/ FingerMoves \/ PowerLost \/ UNCHANGED vars
  BY <1>12, <1>13 DEF FingerDownEvent, FingerUpEvent, Detects, FingerMoves, PowerLost, vars
<1> QED  BY <1>1, <1>2, <1>3, <1>4, <1>5, <1>6, <1>7, <1>8, <1>9, <1>10, <1>11, <1>13 DEF Next

-----------------------------------------------------------------------------
(* The files. *)

LEMMA FilesStep ==
  ASSUME TypeOK, Placed, FilesTrue, [Next]_vars
  PROVE  FilesTrue'
<1> USE StandaloneAssumption DEF Commands, Opening, Capturing, Saving, Steps, Torn
<1>1. ASSUME NEW p \in {"enroll", "verify"}, Start(p)  PROVE FilesTrue'
  BY <1>1 DEF TypeOK, File, Placed, FilesTrue, Start, files
<1>2. CASE Send
  BY <1>2 DEF TypeOK, FilesTrue, Send, fate, files
<1>3. ASSUME UNCHANGED <<run, samples, files>>, step \notin Saving, step' \notin Saving,
             program' # "none" => program # "none",
             UNCHANGED ended \/ ended' \in {"cut", "done"}, program # "none"
      PROVE  FilesTrue'
  BY <1>3 DEF TypeOK, File, FilesTrue, files, Placed
<1>4. CASE SkipUnrelated
  BY <1>4 DEF FilesTrue, SkipUnrelated, Read, place, enrollment, fate, files
<1>5. CASE AnsweredTooEarly \/ TakeAck \/ TakeCompletion \/ FinishCapture
  <2>1. step \notin Saving /\ UNCHANGED <<run, files>> /\ program # "none"
    BY <1>5 DEF Placed, AnsweredTooEarly, TakeAck, TakeCompletion, FinishCapture, Read, End, Goto
  <2>2. UNCHANGED samples
    BY <1>5 DEF AnsweredTooEarly, TakeAck, TakeCompletion, FinishCapture, enrollment
  <2>3. step' \notin Saving
    BY <1>5, <2>1 DEF AnsweredTooEarly, TakeAck, TakeCompletion, FinishCapture, End, Goto, After
  <2>4. UNCHANGED ended \/ ended' \in {"cut", "done"}
    BY <1>5 DEF AnsweredTooEarly, TakeAck, TakeCompletion, FinishCapture, End, Goto, fate
  <2> QED  BY <1>3, <2>1, <2>2, <2>3, <2>4
<1>6. CASE Judge
  <2>1. program # "none" /\ raw.run < run /\ tgla.run < run /\ raw.run \in Nat /\ tgla.run \in Nat
        /\ run \in Nat
    BY <1>6 DEF Judge, Placed, FilesTrue, TypeOK, File
  <2>2. UNCHANGED <<run, raw, tgla>> /\ (step' = "Raw" => part' = "send") /\ step' # "Tgla"
    BY <1>6 DEF Judge, Again, Goto, End, files
  <2>3. ended' # "saved"
    BY <1>6, <2>1 DEF Judge, Again, Goto, End, Placed, fate
  <2> QED  BY <2>1, <2>2, <2>3 DEF FilesTrue
<1>7. CASE Truncate
  <2>1. run \in Nat \ {0} /\ program # "none" /\ ended = "none" /\ samples = Target
    BY <1>7 DEF Truncate, Placed, TypeOK
  <2>2. CASE step = "Raw"
    BY <1>7, <2>1, <2>2 DEF Truncate, FilesTrue, TypeOK, File, enrollment, fate
  <2>3. CASE step = "Tgla"
    BY <1>7, <2>1, <2>3 DEF Truncate, FilesTrue, TypeOK, File, enrollment, fate
  <2> QED  BY <1>7, <2>2, <2>3 DEF Truncate
<1>8. CASE Fill
  <2>1. run \in Nat \ {0} /\ program # "none" /\ ended = "none" /\ samples = Target
    BY <1>8 DEF Fill, Placed, TypeOK
  <2>2. CASE step = "Raw"
    BY <1>8, <2>1, <2>2 DEF Fill, FilesTrue, TypeOK, File, enrollment, fate, Goto
  <2>3. CASE step = "Tgla"
    BY <1>8, <2>1, <2>3 DEF Fill, FilesTrue, TypeOK, File, enrollment, fate, End
  <2> QED  BY <1>8, <2>2, <2>3 DEF Fill
<1>9. CASE Cut
  BY <1>9 DEF Cut, End, FilesTrue, TypeOK, File, Placed, enrollment, files
<1>10. CASE UNCHANGED <<place, enrollment, fate, files>>
  BY <1>10 DEF FilesTrue, place, enrollment, fate, files
<1>11. CASE FingerDownEvent \/ FingerUpEvent \/ FingerMoves \/ PowerLost \/ UNCHANGED vars
  BY <1>10, <1>11 DEF FingerDownEvent, FingerUpEvent, Detects, FingerMoves, PowerLost, vars
<1> QED  BY <1>1, <1>2, <1>4, <1>5, <1>6, <1>7, <1>8, <1>9, <1>11 DEF Next

-----------------------------------------------------------------------------
(* What a step does to the queue. *)

LEMMA ReadFacts ==
  ASSUME TypeOK, Read
  PROVE  /\ queue \in Seq(Packet) /\ queue' \in Seq(Packet) /\ Len(queue) >= 1
         /\ Head(queue) = queue[1] /\ Len(queue') = Len(queue) - 1
         /\ \A i \in 1..Len(queue') : queue'[i] = queue[i + 1] /\ i + 1 \in 1..Len(queue)
         /\ UNCHANGED <<raw, tgla, sensorKey, armed, finger, touch, config, steady>>
         /\ step \in Commands /\ part \in {"ack", "done"}
<1>1. queue \in Seq(Packet) /\ queue # <<>> /\ queue' = Tail(queue)
  BY DEF TypeOK, Read
<1> QED  BY <1>1, TailFacts DEF Read, files, detection

LEMMA SendFacts ==
  ASSUME TypeOK, Send
  PROVE  \E r \in Seq(Packet) :
           /\ queue \in Seq(Packet) /\ queue' \in Seq(Packet)
           /\ Len(r) \in {1, 2} /\ (Len(r) = 1 <=> step \in {"FdtDown", "FdtUp"})
           /\ Len(queue') = Len(queue) + Len(r)
           /\ \A i \in 1..Len(queue) : queue'[i] = queue[i]
           /\ \A i \in 1..Len(r) : queue'[Len(queue) + i] = r[i]
           /\ \A i \in 1..Len(queue') : \/ i \in 1..Len(queue) /\ queue'[i] = queue[i]
                                        \/ i = Len(queue) + 1 /\ queue'[i] = r[1]
                                        \/ i = Len(queue) + 2 /\ Len(r) = 2 /\ queue'[i] = r[2]
           /\ r[1] = AckOf(step)
           /\ Len(r) = 2 => /\ r[2].kind = "completion" /\ r[2].cmd = step
                            /\ r[2].data \in {"kept", "refused"}
                            /\ r[2].frame \in IF step = "GetImage" THEN Exposures ELSE {NoFrame}
           /\ sensorKey' = IF step = "TlsPovImage" THEN capture' ELSE sensorKey
           /\ armed' = CASE step = "FdtDown" -> "down"
                         [] step = "FdtUp"   -> "up"
                         [] OTHER            -> armed
           /\ config' = IF step = "DownloadConfig" /\ r[2].data = "kept" THEN "kept" ELSE config
<1>1. step \in Commands /\ SensorReceives(step, capture')
  BY DEF Send
<1>2. PICK r \in Replies(step) : SensorReceives(step, capture')!(r)
  BY <1>1 DEF SensorReceives
<1>3. /\ r \in Seq(Packet)
      /\ Len(r) \in {1, 2} /\ (Len(r) = 1 <=> step \in {"FdtDown", "FdtUp"})
      /\ r[1] = AckOf(step)
      /\ Len(r) = 2 => /\ r[2].kind = "completion" /\ r[2].cmd = step
                       /\ r[2].data \in {"kept", "refused"}
                       /\ r[2].frame \in IF step = "GetImage" THEN Exposures ELSE {NoFrame}
  BY <1>1, RepliesTyped
<1>4. /\ queue \in Seq(Packet) /\ queue' = queue \o r
  BY <1>2 DEF TypeOK
<1>5. /\ queue' \in Seq(Packet) /\ Len(queue') = Len(queue) + Len(r)
      /\ \A i \in 1..Len(queue) : queue'[i] = queue[i]
      /\ \A i \in 1..Len(r) : queue'[Len(queue) + i] = r[i]
  BY <1>3, <1>4
<1>6. ASSUME NEW i \in 1..Len(queue')
      PROVE  \/ i \in 1..Len(queue) /\ queue'[i] = queue[i]
             \/ i = Len(queue) + 1 /\ queue'[i] = r[1]
             \/ i = Len(queue) + 2 /\ Len(r) = 2 /\ queue'[i] = r[2]
  <2>1. CASE i \in 1..Len(queue)
    BY <1>5, <2>1
  <2>2. CASE i \notin 1..Len(queue)
    <3> DEFINE j == i - Len(queue)
    <3>1. j \in 1..Len(r) /\ i = Len(queue) + j
      BY <1>3, <1>4, <1>5, <2>2
    <3>3. queue'[Len(queue) + j] = r[j]
      BY <1>5, <3>1
    <3>4. j \in 1..Len(r) /\ Len(r) \in {1, 2}
      BY <1>3, <3>1
    <3> HIDE DEF j
    <3>5. j \in {1, 2} /\ (j = 2 => Len(r) = 2)
      <4>1. CASE Len(r) = 1
        BY <3>4, <4>1
      <4>2. CASE Len(r) = 2
        BY <3>4, <4>2
      <4> QED  BY <3>4, <4>1, <4>2, Zenon
    <3> USE DEF j
    <3>2. queue'[i] = r[j] /\ j \in {1, 2} /\ (j = 2 => Len(r) = 2)
      BY <3>1, <3>3, <3>5
    <3> QED  BY <3>1, <3>2
  <2> QED  BY <2>1, <2>2
<1> QED  BY <1>2, <1>3, <1>4, <1>5, <1>6

LEMMA DetectFacts ==
  ASSUME TypeOK, NEW c \in {"FdtDown", "FdtUp"},
         queue' = Append(queue, Completion(c, "kept"))
  PROVE  /\ queue \in Seq(Packet) /\ queue' \in Seq(Packet) /\ Len(queue') = Len(queue) + 1
         /\ \A i \in 1..Len(queue) : queue'[i] = queue[i]
         /\ queue'[Len(queue) + 1] = Completion(c, "kept")
         /\ \A i \in 1..Len(queue') : \/ i \in 1..Len(queue) /\ queue'[i] = queue[i]
                                      \/ i = Len(queue) + 1 /\ queue'[i] = Completion(c, "kept")
<1>1. Completion(c, "kept") \in Packet
  BY PacketsTyped DEF Commands, Capturing
<1> QED  BY <1>1 DEF TypeOK

LEMMA CutFacts ==
  ASSUME TypeOK, Cut
  PROVE  /\ queue \in Seq(Packet)
         /\ \/ queue' = queue
            \/ /\ Len(queue') = Len(queue) - 1 /\ Len(queue) >= 1 /\ queue' \in Seq(Packet)
               /\ \A i \in 1..Len(queue') : queue'[i] = queue[i + 1] /\ i + 1 \in 1..Len(queue)
<1>1. queue \in Seq(Packet)
  BY DEF TypeOK
<1>2. CASE queue' = queue
  BY <1>1, <1>2
<1>3. CASE queue # <<>> /\ queue' = Tail(queue)
  BY <1>1, <1>3, TailFacts
<1> QED  BY <1>2, <1>3 DEF Cut

-----------------------------------------------------------------------------
(* The configuration. *)

LEMMA ConfigStep ==
  ASSUME TypeOK, Placed, ConfigTrue, [Next]_vars
  PROVE  ConfigTrue'
<1>0. config \in {"kept", "lost"}
  BY DEF TypeOK
<1> USE DEF Commands, Opening, Capturing
<1>1. ASSUME NEW p \in {"enroll", "verify"}, Start(p)  PROVE ConfigTrue'
  BY <1>1 DEF Start, ConfigTrue, sensor
<1>2. CASE Send
  <2>1. PICK r \in Seq(Packet) :
           /\ queue \in Seq(Packet)
           /\ Len(r) \in {1, 2} /\ (Len(r) = 1 <=> step \in {"FdtDown", "FdtUp"})
           /\ Len(queue') = Len(queue) + Len(r)
           /\ \A i \in 1..Len(queue') : \/ i \in 1..Len(queue) /\ queue'[i] = queue[i]
                                        \/ queue'[i] = r[1]
                                        \/ Len(r) = 2 /\ queue'[i] = r[2]
           /\ r[1] = AckOf(step)
           /\ Len(r) = 2 => /\ r[2].kind = "completion" /\ r[2].cmd = step
                            /\ r[2].data \in {"kept", "refused"}
           /\ config' = IF step = "DownloadConfig" /\ r[2].data = "kept" THEN "kept" ELSE config
    BY <1>2, SendFacts
  <2>2. config = "kept" => config' = "kept"
    BY <2>1
  <2>4. Honest(r[1], config')
    BY <2>1, <2>2, <1>0 DEF AckOf, Honest
  <2>5. Len(r) = 2 => Honest(r[2], config')
    BY <2>1 DEF Honest
  <2>8. ASSUME NEW i \in 1..Len(queue')  PROVE Honest(queue'[i], config')
    <3>1. CASE i \in 1..Len(queue) /\ queue'[i] = queue[i]
      BY <2>2, <3>1 DEF ConfigTrue, Honest
    <3> QED  BY <2>1, <2>4, <2>5, <3>1
  <2> QED  BY <1>2, <2>2, <2>8 DEF ConfigTrue, Send
<1>3. ASSUME Read, step' \in Capturing \/ step' = "Judge" =>
               \/ step \in Capturing
               \/ step = "GetVersion" /\ part = "done" /\ ~restore
               \/ step = "DownloadConfig" /\ Head(queue).kind = "completion"
                  /\ Head(queue).cmd = "DownloadConfig" /\ Head(queue).data # "refused",
             step' = "GetVersion" /\ part' = "done" /\ ~restore' =>
               \/ step = "GetVersion" /\ part = "done" /\ ~restore
               \/ Head(queue).kind = "ack" /\ Head(queue).data # "lost"
      PROVE  ConfigTrue'
  <2>1. \A i \in 1..Len(queue') : Honest(queue'[i], config')
    BY <1>3, ReadFacts DEF ConfigTrue
  <2>2. Honest(Head(queue), config) /\ config' = config /\ steady' = steady
    BY <1>3, ReadFacts DEF ConfigTrue
  <2>3. (step' \in Capturing \/ step' = "Judge") /\ steady' => config' = "kept"
    BY <1>3, <2>2 DEF ConfigTrue, Honest
  <2>4. step' = "GetVersion" /\ part' = "done" /\ ~restore' /\ steady' => config' = "kept"
    BY <1>3, <2>2 DEF ConfigTrue, Honest
  <2> QED  BY <2>1, <2>3, <2>4 DEF ConfigTrue
<1>4. CASE SkipUnrelated
  BY <1>3, <1>4, ReadFacts DEF SkipUnrelated, place, enrollment
<1>5. CASE AnsweredTooEarly
  BY <1>3, <1>5, ReadFacts DEF AnsweredTooEarly, End
<1>6. CASE TakeAck
  BY <1>3, <1>6, ReadFacts DEF TakeAck, Wanted
<1>7. CASE TakeCompletion
  <2>1. Read /\ Wanted(Head(queue)) /\ part = "done" /\ part' = "send"
    BY <1>7 DEF TakeCompletion, End, Goto
  <2>2. Head(queue).cmd = step /\ Head(queue).kind = "completion"
    BY <2>1 DEF Wanted
  <2>3. step' \in Capturing \/ step' = "Judge" => Head(queue).data # "refused" /\ step' = After
    BY <1>7 DEF TakeCompletion, End, Goto
  <2> QED  BY <1>3, <2>1, <2>2, <2>3, ReadFacts DEF After
<1>8. CASE FinishCapture
  BY <1>3, <1>8, ReadFacts DEF FinishCapture, End, Goto
<1>9. CASE Judge
  BY <1>9 DEF Judge, Again, Goto, End, ConfigTrue, sensor, Saving
<1>10. CASE Truncate \/ Fill
  BY <1>10 DEF Truncate, Fill, Goto, End, ConfigTrue, sensor, Saving
<1>11. CASE Cut
  <2>1. \A i \in 1..Len(queue') : Honest(queue'[i], config')
    BY <1>11, CutFacts DEF Cut, ConfigTrue
  <2> QED  BY <1>11, <2>1 DEF Cut, End, ConfigTrue
<1>12. CASE FingerDownEvent \/ FingerUpEvent
  <2>1. PICK c \in {"FdtDown", "FdtUp"} : queue' = Append(queue, Completion(c, "kept"))
    BY <1>12 DEF FingerDownEvent, FingerUpEvent, Detects
  <2>2. UNCHANGED <<step, part, restore, config, steady>>
    BY <1>12 DEF FingerDownEvent, FingerUpEvent, Detects, place, enrollment
  <2>3. c # "DownloadConfig" /\ Honest(Completion(c, "kept"), config')
    BY DEF Completion, Honest
  <2>5. \A i \in 1..Len(queue') : Honest(queue'[i], config')
    BY <2>1, <2>2, <2>3, DetectFacts DEF ConfigTrue
  <2> QED  BY <2>2, <2>5 DEF ConfigTrue
<1>13. CASE PowerLost
  BY <1>13 DEF PowerLost, ConfigTrue
<1>14. CASE FingerMoves \/ UNCHANGED vars
  BY <1>14 DEF FingerMoves, vars, place, enrollment, sensor, ConfigTrue
<1> QED  BY <1>1, <1>2, <1>4, <1>5, <1>6, <1>7, <1>8, <1>9, <1>10, <1>11, <1>12, <1>13, <1>14
         DEF Next

-----------------------------------------------------------------------------
(* Frames and keys. *)

LEMMA KeyKept ==
  ASSUME NEW f, NEW k, NEW n \in Nat, NEW m \in Nat, m >= n, NEW w, NEW v, v => w,
         KeyTrue(f, k, n, w)
  PROVE  KeyTrue(f, k, m, v)
  BY DEF KeyTrue, CutsForStaleTouch

\* What an earlier key protects is nobody's frame once a new key is drawn.
LEMMA KeyOld ==
  ASSUME NEW f, NEW k \in Nat, NEW n, NEW w, NEW m, NEW v, f.key \in Nat, KeyTrue(f, k, n, w)
  PROVE  KeyTrue(f, k + 1, m, v)
  BY DEF KeyTrue

LEMMA KeyNone ==
  ASSUME NEW k \in Nat, NEW n, NEW w
  PROVE  KeyTrue(NoFrame, k, n, w)
  BY DEF KeyTrue, NoFrame

LEMMA KeysStep ==
  ASSUME TypeOK, Placed, KeysTrue, ConfigTrue, LagTouched, [Next]_vars
  PROVE  KeysTrue'
<1> USE DEF Commands, Opening, Capturing, Saving
<1>0. /\ capture \in Nat /\ cuts \in Nat /\ cuts' \in Nat /\ sensorKey \in Nat
      /\ \A i \in 1..Len(queue) : queue[i].frame \in Frame
      /\ image \in Frame
      /\ \A f \in Frame : f.key \in Nat
  <2>1. TypeOK'
    BY TypeStep
  <2>2. queue \in Seq(Packet) /\ \A p \in Packet : p.frame \in Frame
    BY Zenon DEF TypeOK, Packet
  <2>3. \A i \in 1..Len(queue) : queue[i] \in Packet
    BY <2>2
  <2>4. \A f \in Frame : f.key \in Nat
    BY StandaloneAssumption DEF Frame
  <2> QED  BY StandaloneAssumption, <2>1, <2>2, <2>3, <2>4 DEF TypeOK
<1>1. ASSUME UNCHANGED <<capture, sensorKey, image, frame>>, cuts' >= cuts,
             Watched' => Watched, step' = "Judge" => step = "Judge",
             \A i \in 1..Len(queue') :
                \/ \E j \in 1..Len(queue) : queue'[i] = queue[j]
                \/ queue'[i].frame = NoFrame
      PROVE  KeysTrue'
  <2>1. ASSUME NEW i \in 1..Len(queue')
        PROVE  KeyTrue(queue'[i].frame, capture', cuts', Watched')
    <3>1. CASE queue'[i].frame = NoFrame
      BY <1>0, <1>1, <3>1, KeyNone
    <3>2. ASSUME NEW j \in 1..Len(queue), queue'[i] = queue[j]
          PROVE  KeyTrue(queue'[i].frame, capture', cuts', Watched')
      <4>1. KeyTrue(queue[j].frame, capture, cuts, Watched)
        BY DEF KeysTrue
      <4>2. KeyTrue(queue[j].frame, capture, cuts', Watched')
        BY <1>0, <1>1, <4>1, KeyKept
      <4> QED  BY <1>1, <3>2, <4>2
    <3> QED  BY <1>1, <3>1, <3>2
  <2>2. KeyTrue(image, capture, cuts', Watched')
    BY <1>0, <1>1, KeyKept DEF KeysTrue
  <2> QED  BY <1>1, <2>1, <2>2 DEF KeysTrue, Decrypts
<1>2. ASSUME NEW p \in {"enroll", "verify"}, Start(p)  PROVE KeysTrue'
  <2>1. /\ UNCHANGED <<capture, sensorKey, queue, cuts>> /\ image' = NoFrame
        /\ step' = "GetVersion"
    BY <1>2 DEF Start, sensor
  <2>2. ~Watched'
    BY <2>1 DEF Watched, Decided
  <2>3. \A i \in 1..Len(queue) : KeyTrue(queue[i].frame, capture, cuts', Watched')
    BY <1>0, <2>1, <2>2, KeyKept DEF KeysTrue
  <2>4. KeyTrue(image', capture, cuts', Watched')
    BY <1>0, <2>1, KeyNone
  <2> QED  BY <2>1, <2>3, <2>4 DEF KeysTrue
<1>3. CASE Send
  <2>1. PICK r \in Seq(Packet) :
           /\ Len(r) \in {1, 2} /\ (Len(r) = 1 <=> step \in {"FdtDown", "FdtUp"})
           /\ \A i \in 1..Len(queue') : \/ i \in 1..Len(queue) /\ queue'[i] = queue[i]
                                        \/ queue'[i] = r[1]
                                        \/ Len(r) = 2 /\ queue'[i] = r[2]
           /\ r[1] = AckOf(step)
           /\ Len(r) = 2 => r[2].frame \in IF step = "GetImage" THEN Exposures ELSE {NoFrame}
           /\ sensorKey' = IF step = "TlsPovImage" THEN capture' ELSE sensorKey
    BY <1>3, SendFacts
  <2>2. r[1].frame = NoFrame
    BY <2>1 DEF AckOf
  <2>3. UNCHANGED <<step, image, frame, cuts, steady>> /\ step \in Commands
    BY <1>3 DEF Send, fate
  <2>4. CASE step = "TlsPovImage"
    <3>1. capture' = capture + 1 /\ sensorKey' = capture' /\ step' # "Judge"
      BY <1>3, <2>1, <2>3, <2>4 DEF Send
    <3>2. \A i \in 1..Len(queue) : KeyTrue(queue[i].frame, capture', cuts', Watched')
      BY <1>0, <3>1, KeyOld DEF KeysTrue
    <3>3. KeyTrue(image, capture', cuts', Watched')
      BY <1>0, <3>1, KeyOld DEF KeysTrue
    <3>4. KeyTrue(NoFrame, capture', cuts', Watched')
      BY <1>0, <3>1, KeyNone
    <3>5. \A i \in 1..Len(queue') : KeyTrue(queue'[i].frame, capture', cuts', Watched')
      BY <2>1, <2>2, <2>4, <3>2, <3>4
    <3> QED  BY <1>0, <2>3, <3>1, <3>3, <3>5 DEF KeysTrue
  <2>5. CASE step \notin {"TlsPovImage", "GetImage"}
    <3>1. UNCHANGED <<capture, sensorKey>>
      BY <1>3, <2>1, <2>5 DEF Send
    <3>2. Watched' => Watched
      BY <2>3, <2>5 DEF Watched, Decided
    <3>3. \A i \in 1..Len(queue') : \/ \E j \in 1..Len(queue) : queue'[i] = queue[j]
                                    \/ queue'[i].frame = NoFrame
      BY <2>1, <2>2, <2>5
    <3> QED  BY <1>0, <1>1, <2>3, <3>1, <3>2, <3>3
  <2>6. CASE step = "GetImage"
    <3>1. UNCHANGED <<capture, sensorKey>> /\ step' # "Judge" /\ Watched' = Watched
      BY <1>3, <2>1, <2>3, <2>6 DEF Send, Watched, Decided
    <3>2. ASSUME NEW f \in Exposures  PROVE KeyTrue(f, capture, cuts, Watched)
      <4>1. /\ f.key = sensorKey /\ f.shot = capture /\ f.down = touch
            /\ f.ready = (config = "kept")
        BY DEF Exposures
      <4>2. touch = capture \/ cuts >= 3
        BY <2>6 DEF LagTouched, Touched, OwnFinger
      <4>3. Watched => f.ready
        BY <2>6, <4>1 DEF Watched, ConfigTrue
      <4> QED  BY <4>1, <4>2, <4>3 DEF KeyTrue, KeysTrue, CutsForStaleTouch
    <3>3. KeyTrue(NoFrame, capture, cuts, Watched)
      BY <1>0, KeyNone
    <3>4. \A i \in 1..Len(queue') : KeyTrue(queue'[i].frame, capture, cuts, Watched)
      BY <2>1, <2>2, <2>6, <3>2, <3>3 DEF KeysTrue
    <3> QED  BY <2>3, <3>1, <3>4 DEF KeysTrue
  <2> QED  BY <2>4, <2>5, <2>6
<1>4. ASSUME Read
      PROVE  /\ UNCHANGED <<sensorKey, steady>>
             /\ \A i \in 1..Len(queue') : \E j \in 1..Len(queue) : queue'[i] = queue[j]
             /\ Head(queue) = queue[1] /\ 1 \in 1..Len(queue)
  BY <1>4, ReadFacts
<1>5. CASE SkipUnrelated
  BY <1>0, <1>1, <1>4, <1>5 DEF SkipUnrelated, place, captured, fate, Watched, Decided
<1>6. CASE AnsweredTooEarly
  <2>1. Read /\ step' = "None" /\ UNCHANGED captured /\ cuts' = cuts + 1
    BY <1>6 DEF AnsweredTooEarly, End
  <2>2. ~Watched'
    BY <2>1 DEF Watched, Decided
  <2> QED  BY <1>0, <1>1, <1>4, <2>1, <2>2 DEF captured
<1>7. CASE TakeAck
  <2>1. Read /\ UNCHANGED <<step, captured, fate>> /\ part = "ack"
    BY <1>7 DEF TakeAck
  <2>2. Watched' => Watched
    BY <1>4, <2>1 DEF Watched, Decided
  <2> QED  BY <1>0, <1>1, <1>4, <2>1, <2>2 DEF captured, fate
<1>8. CASE TakeCompletion
  <2>1. /\ Read /\ part = "done" /\ step \in Commands \ {"FdtUp"} /\ UNCHANGED <<capture, frame>>
        /\ cuts' \in {cuts, cuts + 1} /\ step' # "Judge"
        /\ step' \in {"None", After} /\ part' = "send"
    BY <1>8 DEF TakeCompletion, Read, End, Goto, After, fate
  <2>2. Watched' => Watched
    BY <1>4, <2>1 DEF Watched, Decided, After
  <2>3. \A i \in 1..Len(queue) : KeyTrue(queue[i].frame, capture, cuts', Watched')
    BY <1>0, <2>1, <2>2, KeyKept DEF KeysTrue
  <2>4. KeyTrue(image, capture, cuts', Watched')
    BY <1>0, <2>1, <2>2, KeyKept DEF KeysTrue
  <2>5. image' \in {image, queue[1].frame}
    BY <1>4, <1>8, <2>1 DEF TakeCompletion
  <2>6. KeyTrue(image', capture, cuts', Watched')
    BY <1>4, <2>1, <2>3, <2>4, <2>5
  <2>7. \A i \in 1..Len(queue') : KeyTrue(queue'[i].frame, capture, cuts', Watched')
    BY <1>4, <2>1, <2>3
  <2> QED  BY <1>4, <2>1, <2>6, <2>7 DEF KeysTrue
<1>9. CASE FinishCapture
  <2>1. /\ Read /\ step = "FdtUp" /\ UNCHANGED <<capture, image>> /\ cuts' \in {cuts, cuts + 1}
        /\ step' = "Judge" => frame' = image /\ Decrypts(image)
    BY <1>9 DEF FinishCapture, End, Goto, fate
  <2>2. Watched' => Watched
    BY <1>4, <2>1 DEF Watched, Decided
  <2>3. \A i \in 1..Len(queue) : KeyTrue(queue[i].frame, capture, cuts', Watched')
    BY <1>0, <2>1, <2>2, KeyKept DEF KeysTrue
  <2>4. KeyTrue(image, capture, cuts', Watched')
    BY <1>0, <2>1, <2>2, KeyKept DEF KeysTrue
  <2>5. \A i \in 1..Len(queue') : KeyTrue(queue'[i].frame, capture, cuts', Watched')
    BY <1>4, <2>1, <2>3
  <2> QED  BY <1>4, <2>1, <2>4, <2>5 DEF KeysTrue, Decrypts
<1>10. CASE Judge \/ Truncate \/ Fill
  <2>1. /\ UNCHANGED <<capture, sensorKey, image, frame, queue, steady>>
        /\ step' \in Saving \union {"TlsPovImage", "None"}
        /\ step' = "TlsPovImage" => part' = "send"
        /\ cuts' \in {cuts, cuts + 1}
    BY <1>10 DEF Judge, Again, Truncate, Fill, Goto, End, captured, sensor, fate
  <2>2. ~Watched'
    BY <2>1 DEF Watched, Decided
  <2> QED  BY <1>0, <1>1, <2>1, <2>2
<1>11. CASE Cut
  <2>1. step' = "None" /\ UNCHANGED <<capture, sensorKey, image, frame>> /\ cuts' = cuts + 1
    BY <1>11 DEF Cut, End, captured
  <2>2. ~Watched'
    BY <2>1 DEF Watched, Decided
  <2>3. \A i \in 1..Len(queue') : \E j \in 1..Len(queue) : queue'[i] = queue[j]
    BY <1>11, CutFacts
  <2> QED  BY <1>0, <1>1, <2>1, <2>2, <2>3
<1>12. CASE FingerDownEvent \/ FingerUpEvent
  <2>1. PICK c \in {"FdtDown", "FdtUp"} : queue' = Append(queue, Completion(c, "kept"))
    BY <1>12 DEF FingerDownEvent, FingerUpEvent, Detects
  <2>2. UNCHANGED <<place, captured, fate, sensorKey, steady>>
    BY <1>12 DEF FingerDownEvent, FingerUpEvent, Detects
  <2>3. \A i \in 1..Len(queue') : \/ \E j \in 1..Len(queue) : queue'[i] = queue[j]
                                  \/ queue'[i].frame = NoFrame
    BY <2>1, DetectFacts DEF Completion
  <2> QED  BY <1>0, <1>1, <2>2, <2>3 DEF place, captured, fate, Watched, Decided
<1>13. CASE PowerLost
  <2>1. /\ UNCHANGED <<captured, fate, step>> /\ Len(queue') = 0 /\ sensorKey' = 0 /\ ~steady'
    BY <1>13 DEF PowerLost, place
  <2>2. ~Watched' /\ cuts' = cuts
    BY <2>1 DEF Watched, fate
  <2>3. KeyTrue(image, capture, cuts', Watched')
    BY <1>0, <2>2, KeyKept DEF KeysTrue
  <2> QED  BY <1>0, <2>1, <2>3 DEF KeysTrue, captured, Decrypts
<1>14. CASE FingerMoves \/ UNCHANGED vars
  <2>1. UNCHANGED <<place, captured, fate, queue, sensorKey, steady>>
    BY <1>14 DEF FingerMoves, vars, sensor
  <2> QED  BY <1>0, <1>1, <2>1 DEF place, captured, fate, Watched, Decided
<1> QED  BY <1>2, <1>3, <1>5, <1>6, <1>7, <1>8, <1>9, <1>10, <1>11, <1>12, <1>13, <1>14 DEF Next

-----------------------------------------------------------------------------
(* Patterns of answers. *)

LEMMA PatternParts ==
  ASSUME NEW q, NEW a, NEW b
  PROVE  /\ Then(q, a, b) => Has(q, a) /\ Has(q, b)
         /\ \A c : ThenThen(q, a, b, c) => Then(q, a, b) /\ Then(q, b, c)
  BY DEF Has, Then, ThenThen

\* A head that completes a puts a before all the rest.
LEMMA PatternsOfTail ==
  ASSUME NEW q \in Seq(Packet), NEW t \in Seq(Packet), Len(q) >= 1, Len(t) = Len(q) - 1,
         \A i \in 1..Len(t) : t[i] = q[i + 1]
  PROVE  /\ NoMore(t, q)
         /\ \A a, b : Done(q[1], a) /\ Has(t, b) => Then(q, a, b)
         /\ \A a, b, c : Done(q[1], a) /\ Then(t, b, c) => ThenThen(q, a, b, c)
<1>1. \A i \in 1..Len(t) : i + 1 \in 1..Len(q) /\ t[i] = q[i + 1] /\ 1 < i + 1 /\ 1 \in 1..Len(q)
  OBVIOUS
<1>2. ASSUME NEW a, Has(t, a)  PROVE Has(q, a)
  BY <1>1, <1>2 DEF Has
<1>3. ASSUME NEW a, NEW b, Then(t, a, b)  PROVE Then(q, a, b)
  <2>1. PICK i, j \in 1..Len(t) : i < j /\ Done(t[i], a) /\ Done(t[j], b)
    BY <1>3 DEF Then
  <2>2. i + 1 < j + 1 /\ Done(q[i + 1], a) /\ Done(q[j + 1], b)
    BY <1>1, <2>1
  <2> QED  BY <1>1, <2>2 DEF Then
<1>4. ASSUME NEW a, NEW b, NEW c, ThenThen(t, a, b, c)  PROVE ThenThen(q, a, b, c)
  <2>1. PICK i, j, k \in 1..Len(t) :
           i < j /\ j < k /\ Done(t[i], a) /\ Done(t[j], b) /\ Done(t[k], c)
    BY <1>4 DEF ThenThen
  <2>2. i + 1 < j + 1 /\ j + 1 < k + 1 /\ Done(q[i + 1], a) /\ Done(q[j + 1], b) /\ Done(q[k + 1], c)
    BY <1>1, <2>1
  <2> QED  BY <1>1, <2>2 DEF ThenThen
<1>5. ASSUME NEW a, NEW b, Done(q[1], a), Has(t, b)  PROVE Then(q, a, b)
  BY <1>1, <1>5 DEF Has, Then
<1>6. ASSUME NEW a, NEW b, NEW c, Done(q[1], a), Then(t, b, c)  PROVE ThenThen(q, a, b, c)
  <2>1. PICK i, j \in 1..Len(t) : i < j /\ Done(t[i], b) /\ Done(t[j], c)
    BY <1>6 DEF Then
  <2>2. 1 < i + 1 /\ i + 1 < j + 1 /\ Done(q[i + 1], b) /\ Done(q[j + 1], c)
    BY <1>1, <2>1
  <2> QED  BY <1>1, <1>6, <2>2 DEF ThenThen
<1> QED  BY <1>2, <1>3, <1>4, <1>5, <1>6 DEF NoMore

LEMMA PatternsOfMore ==
  ASSUME NEW q \in Seq(Packet), NEW t \in Seq(Packet), NEW d, Len(t) > Len(q),
         \A i \in 1..Len(t) : \/ i \in 1..Len(q) /\ t[i] = q[i]
                              \/ t[i].kind = "ack"
                              \/ i = Len(t) /\ t[i].cmd = d
  PROVE  OneMore(t, q, d)
<1>1. ASSUME NEW i \in 1..Len(t), NEW a, Done(t[i], a)
      PROVE  \/ i \in 1..Len(q) /\ Done(q[i], a)
             \/ i = Len(t) /\ a = d
  BY <1>1 DEF Done
<1>2. ASSUME NEW a, Has(t, a)  PROVE Has(q, a) \/ a = d
  BY <1>1, <1>2 DEF Has
<1>3. ASSUME NEW a, NEW b, Then(t, a, b)  PROVE Then(q, a, b) \/ (Has(q, a) /\ b = d)
  <2>1. PICK i, j \in 1..Len(t) : i < j /\ Done(t[i], a) /\ Done(t[j], b)
    BY <1>3 DEF Then
  <2>4. i # Len(t)
    BY <2>1
  <2>2. i \in 1..Len(q) /\ Done(q[i], a)
    BY <1>1, <2>1, <2>4
  <2>3. (j \in 1..Len(q) /\ Done(q[j], b)) \/ b = d
    BY <1>1, <2>1
  <2> QED  BY <2>1, <2>2, <2>3 DEF Then, Has
<1>4. ASSUME NEW a, NEW b, NEW c, ThenThen(t, a, b, c)
      PROVE  ThenThen(q, a, b, c) \/ (Then(q, a, b) /\ c = d)
  <2>1. PICK i, j, k \in 1..Len(t) :
           i < j /\ j < k /\ Done(t[i], a) /\ Done(t[j], b) /\ Done(t[k], c)
    BY <1>4 DEF ThenThen
  <2>4. i # Len(t) /\ j # Len(t)
    BY <2>1
  <2>2. i \in 1..Len(q) /\ Done(q[i], a) /\ j \in 1..Len(q) /\ Done(q[j], b)
    BY <1>1, <2>1, <2>4
  <2>3. (k \in 1..Len(q) /\ Done(q[k], c)) \/ c = d
    BY <1>1, <2>1
  <2> QED  BY <2>1, <2>2, <2>3 DEF Then, ThenThen
<1> QED  BY <1>2, <1>3, <1>4 DEF OneMore

LEMMA OneMoreOfNone ==
  ASSUME NEW q, NEW t, NEW d, d \notin Marks, OneMore(t, q, d)
  PROVE  NoMore(t, q)
  BY DEF OneMore, NoMore

LEMMA ReadPatterns ==
  ASSUME TypeOK, Read
  PROVE  /\ NoMore(queue', queue)
         /\ \A a, b : Done(Head(queue), a) /\ Has(queue', b) => Then(queue, a, b)
         /\ \A a, b, c : Done(Head(queue), a) /\ Then(queue', b, c) => ThenThen(queue, a, b, c)
<1> DEFINE q == queue
           t == queue'
<1>1. /\ q \in Seq(Packet) /\ t \in Seq(Packet) /\ Len(q) >= 1 /\ Len(t) = Len(q) - 1
      /\ \A i \in 1..Len(t) : t[i] = q[i + 1]
      /\ Head(queue) = q[1]
  BY ReadFacts
<1> HIDE DEF q, t
<1>2. /\ NoMore(t, q)
      /\ \A a, b : Done(q[1], a) /\ Has(t, b) => Then(q, a, b)
      /\ \A a, b, c : Done(q[1], a) /\ Then(t, b, c) => ThenThen(q, a, b, c)
  BY <1>1, PatternsOfTail
<1> QED  BY <1>1, <1>2 DEF q, t

LEMMA SendPatterns ==
  ASSUME TypeOK, Send
  PROVE  /\ OneMore(queue', queue, step)
         /\ step = "FdtDown" => NoMore(queue', queue)
<1> DEFINE q == queue
           t == queue'
<1>1. PICK r \in Seq(Packet) :
           /\ queue \in Seq(Packet) /\ queue' \in Seq(Packet)
           /\ Len(r) \in {1, 2} /\ (Len(r) = 1 <=> step \in {"FdtDown", "FdtUp"})
           /\ Len(queue') = Len(queue) + Len(r)
           /\ \A i \in 1..Len(queue') : \/ i \in 1..Len(queue) /\ queue'[i] = queue[i]
                                        \/ i = Len(queue) + 1 /\ queue'[i] = r[1]
                                        \/ i = Len(queue) + 2 /\ Len(r) = 2 /\ queue'[i] = r[2]
           /\ r[1] = AckOf(step)
           /\ Len(r) = 2 => /\ r[2].kind = "completion" /\ r[2].cmd = step
  BY SendFacts
<1>2. r[1].kind = "ack"
  BY <1>1 DEF AckOf
<1>3. /\ q \in Seq(Packet) /\ t \in Seq(Packet) /\ Len(t) > Len(q)
      /\ \A i \in 1..Len(t) : \/ i \in 1..Len(q) /\ t[i] = q[i]
                              \/ t[i].kind = "ack"
                              \/ i = Len(t) /\ t[i].cmd = step
      /\ step = "FdtDown" =>
           \A i \in 1..Len(t) : \/ i \in 1..Len(q) /\ t[i] = q[i]
                                \/ t[i].kind = "ack"
                                \/ i = Len(t) /\ t[i].cmd = "None"
  BY <1>1, <1>2
<1> HIDE DEF q, t
<1>4. OneMore(t, q, step)
  BY <1>3, PatternsOfMore
<1>5. step = "FdtDown" => OneMore(t, q, "None")
  BY <1>3, PatternsOfMore
<1>6. step = "FdtDown" => NoMore(t, q)
  BY <1>5, OneMoreOfNone DEF Marks
<1> QED  BY <1>4, <1>6 DEF q, t

LEMMA DetectPatterns ==
  ASSUME TypeOK, NEW c \in {"FdtDown", "FdtUp"},
         queue' = Append(queue, Completion(c, "kept"))
  PROVE  OneMore(queue', queue, c)
<1> DEFINE q == queue
           t == queue'
<1>1. /\ q \in Seq(Packet) /\ t \in Seq(Packet) /\ Len(t) > Len(q)
      /\ \A i \in 1..Len(t) : \/ i \in 1..Len(q) /\ t[i] = q[i]
                              \/ t[i].kind = "ack"
                              \/ i = Len(t) /\ t[i].cmd = c
  BY DetectFacts DEF Completion
<1> HIDE DEF q, t
<1>2. OneMore(t, q, c)
  BY <1>1, PatternsOfMore
<1> QED  BY <1>2 DEF q, t

LEMMA CutPatterns ==
  ASSUME TypeOK, Cut
  PROVE  NoMore(queue', queue)
<1> DEFINE q == queue
           t == queue'
<1>1. q \in Seq(Packet) /\ \/ t = q
                           \/ /\ Len(t) = Len(q) - 1 /\ Len(q) >= 1 /\ t \in Seq(Packet)
                              /\ \A i \in 1..Len(t) : t[i] = q[i + 1]
  BY CutFacts
<1> HIDE DEF q, t
<1>2. NoMore(t, q)
  BY <1>1, PatternsOfTail DEF NoMore
<1> QED  BY <1>2 DEF q, t

-----------------------------------------------------------------------------
(* The lag, phase by phase. *)

\* What NoMore says of the answers the lag speaks of.
LEMMA NoMoreFacts ==
  ASSUME NEW t, NEW q, NoMore(t, q)
  PROVE  /\ Has(t, "GetVersion") => Has(q, "GetVersion")
         /\ Has(t, "TlsPovImage") => Has(q, "TlsPovImage")
         /\ Has(t, "FdtDown") => Has(q, "FdtDown")
         /\ Then(t, "GetVersion", "GetVersion") => Then(q, "GetVersion", "GetVersion")
         /\ Then(t, "GetVersion", "TlsPovImage") => Then(q, "GetVersion", "TlsPovImage")
         /\ Then(t, "TlsPovImage", "TlsPovImage") => Then(q, "TlsPovImage", "TlsPovImage")
         /\ Then(t, "TlsPovImage", "FdtDown") => Then(q, "TlsPovImage", "FdtDown")
         /\ Then(t, "FdtDown", "TlsPovImage") => Then(q, "FdtDown", "TlsPovImage")
         /\ ThenThen(t, "GetVersion", "TlsPovImage", "FdtDown") =>
              ThenThen(q, "GetVersion", "TlsPovImage", "FdtDown")
         /\ ThenThen(t, "TlsPovImage", "FdtDown", "TlsPovImage") =>
              ThenThen(q, "TlsPovImage", "FdtDown", "TlsPovImage")
<1>1. "GetVersion" \in Marks /\ "TlsPovImage" \in Marks /\ "FdtDown" \in Marks
  BY DEF Marks
<1> QED  BY <1>1 DEF NoMore

\* What every pattern holds in its parts.
LEMMA PartsFacts ==
  ASSUME NEW q
  PROVE  /\ Then(q, "GetVersion", "TlsPovImage") => Has(q, "GetVersion") /\ Has(q, "TlsPovImage")
         /\ Then(q, "GetVersion", "GetVersion") => Has(q, "GetVersion")
         /\ Then(q, "TlsPovImage", "TlsPovImage") => Has(q, "TlsPovImage")
         /\ Then(q, "TlsPovImage", "FdtDown") => Has(q, "TlsPovImage") /\ Has(q, "FdtDown")
         /\ Then(q, "FdtDown", "TlsPovImage") => Has(q, "TlsPovImage") /\ Has(q, "FdtDown")
         /\ ThenThen(q, "GetVersion", "TlsPovImage", "FdtDown") =>
              Then(q, "GetVersion", "TlsPovImage") /\ Then(q, "TlsPovImage", "FdtDown")
         /\ ThenThen(q, "TlsPovImage", "FdtDown", "TlsPovImage") =>
              Then(q, "TlsPovImage", "FdtDown") /\ Then(q, "FdtDown", "TlsPovImage")
  BY PatternParts

\* Nothing comes and the program stays where it is.
LEMMA LagQuiet ==
  ASSUME Lag, NoMore(queue', queue), UNCHANGED <<program, step, cuts, touch, capture>>,
         (part' = "send") <=> (part = "send"), armed' = "down" => armed = "down"
  PROVE  Lag'
<1> USE NoMoreFacts DEF Lag, Armed, OwnFinger
<1>1. LagIdle'
  BY DEF LagIdle, Idle
<1>2. LagAsking'
  BY DEF LagAsking, Asking
<1>3. LagOpened'
  BY DEF LagOpened, Opened
<1>4. LagKeying'
  BY DEF LagKeying, Keying
<1>5. LagSensing'
  BY DEF LagSensing, Sensing
<1>6. LagTouched'
  BY DEF LagTouched, Touched
<1> QED  BY <1>1, <1>2, <1>3, <1>4, <1>5, <1>6

\* A program is in one phase at a time, and in some phase.
LEMMA Phases ==
  ASSUME TypeOK, Placed
  PROVE  Idle \/ Asking \/ Opened \/ Keying \/ Sensing \/ Touched
  BY DEF TypeOK, Placed, Steps, Commands, Opening, Capturing, Saving, Idle, Asking, Opened, Keying,
         Sensing, Touched

\* With the program ended the other phases are out of reach.
LEMMA IdleOnly ==
  ASSUME step' = "None" \/ (step' = "GetVersion" /\ part' = "send"), LagIdle'
  PROVE  Lag'
  BY DEF Lag, LagAsking, LagOpened, LagKeying, LagSensing, LagTouched, Asking, Opened, Keying,
         Sensing, Touched, Saving

\* A program cut off, wherever it stands, pays for what it leaves behind.
LEMMA LagCutOff ==
  ASSUME TypeOK, Placed, Lag, NoMore(queue', queue), UNCHANGED armed,
         step' = "None", cuts' = cuts + 1
  PROVE  Lag'
<1> USE NoMoreFacts, PartsFacts DEF Lag, Armed
<1>0. cuts \in Nat
  BY DEF TypeOK
<1>1. ASSUME Idle  PROVE LagIdle'
  BY <1>0, <1>1 DEF LagIdle
<1>2. ASSUME Asking  PROVE LagIdle'
  BY <1>0, <1>2 DEF LagIdle, LagAsking
<1>3. ASSUME Opened  PROVE LagIdle'
  BY <1>0, <1>3 DEF LagIdle, LagOpened
<1>4. ASSUME Keying  PROVE LagIdle'
  BY <1>0, <1>4 DEF LagIdle, LagKeying
<1>5. ASSUME Sensing  PROVE LagIdle'
  BY <1>0, <1>5 DEF LagIdle, LagSensing
<1>6. ASSUME Touched  PROVE LagIdle'
  BY <1>0, <1>6 DEF LagIdle, LagTouched
<1>7. LagIdle'
  BY <1>1, <1>2, <1>3, <1>4, <1>5, <1>6, Phases
<1> QED  BY <1>7, IdleOnly

-----------------------------------------------------------------------------
(* The lag, step by step. *)

LEMMA LagStart ==
  ASSUME TypeOK, Placed, Lag, NEW p \in {"enroll", "verify"}, Start(p)
  PROVE  Lag'
<1>1. /\ Idle /\ step' = "GetVersion" /\ part' = "send"
      /\ UNCHANGED <<queue, armed, cuts>>
  BY DEF Start, Idle, sensor, detection
<1>2. LagIdle'
  BY <1>1 DEF Lag, LagIdle, Armed
<1> QED  BY <1>1, <1>2, IdleOnly

\* What OneMore says of the answers the lag speaks of.
LEMMA OneMoreFacts ==
  ASSUME NEW t, NEW q, NEW d, OneMore(t, q, d)
  PROVE  /\ d # "GetVersion" =>
              /\ Has(t, "GetVersion") => Has(q, "GetVersion")
              /\ Then(t, "GetVersion", "GetVersion") => Then(q, "GetVersion", "GetVersion")
         /\ d # "TlsPovImage" =>
              /\ Has(t, "TlsPovImage") => Has(q, "TlsPovImage")
              /\ Then(t, "GetVersion", "TlsPovImage") => Then(q, "GetVersion", "TlsPovImage")
              /\ Then(t, "TlsPovImage", "TlsPovImage") => Then(q, "TlsPovImage", "TlsPovImage")
              /\ Then(t, "FdtDown", "TlsPovImage") => Then(q, "FdtDown", "TlsPovImage")
              /\ ThenThen(t, "TlsPovImage", "FdtDown", "TlsPovImage") =>
                   ThenThen(q, "TlsPovImage", "FdtDown", "TlsPovImage")
         /\ d # "FdtDown" =>
              /\ Has(t, "FdtDown") => Has(q, "FdtDown")
              /\ Then(t, "TlsPovImage", "FdtDown") => Then(q, "TlsPovImage", "FdtDown")
              /\ ThenThen(t, "GetVersion", "TlsPovImage", "FdtDown") =>
                   ThenThen(q, "GetVersion", "TlsPovImage", "FdtDown")
         /\ Then(t, "GetVersion", "GetVersion") => Has(q, "GetVersion")
         /\ Then(t, "GetVersion", "TlsPovImage") => Has(q, "GetVersion")
         /\ Then(t, "TlsPovImage", "TlsPovImage") => Has(q, "TlsPovImage")
         /\ Then(t, "TlsPovImage", "FdtDown") => Has(q, "TlsPovImage")
         /\ Then(t, "FdtDown", "TlsPovImage") => Has(q, "FdtDown")
         /\ ThenThen(t, "GetVersion", "TlsPovImage", "FdtDown") =>
              Then(q, "GetVersion", "TlsPovImage")
         /\ ThenThen(t, "TlsPovImage", "FdtDown", "TlsPovImage") =>
              Then(q, "TlsPovImage", "FdtDown")
<1>1. "GetVersion" \in Marks /\ "TlsPovImage" \in Marks /\ "FdtDown" \in Marks
  BY DEF Marks
<1> QED  BY <1>1, PartsFacts DEF OneMore

\* In one phase the others say nothing.
LEMMA PhaseOnly ==
  ASSUME step' # "None", Placed'
  PROVE  /\ Asking' /\ LagAsking' => Lag'
         /\ Opened' /\ LagOpened' => Lag'
         /\ Keying' /\ LagKeying' => Lag'
         /\ Sensing' /\ LagSensing' => Lag'
         /\ Touched' /\ LagTouched' => Lag'
<1>1. program' # "none"
  BY DEF Placed
<1> USE DEF Lag, LagIdle, LagAsking, LagOpened, LagKeying, LagSensing, LagTouched,
            Idle, Asking, Opened, Keying, Sensing, Touched, Saving
<1>2. Asking' /\ LagAsking' => Lag'
  BY <1>1
<1>3. Opened' /\ LagOpened' => Lag'
  BY <1>1
<1>4. Keying' /\ LagKeying' => Lag'
  BY <1>1
<1>5. Sensing' /\ LagSensing' => Lag'
  BY <1>1
<1>6. Touched' /\ LagTouched' => Lag'
  BY <1>1
<1> QED  BY <1>2, <1>3, <1>4, <1>5, <1>6

LEMMA LagSend ==
  ASSUME TypeOK, Placed, Placed', Lag, Send
  PROVE  Lag'
<1> DEFINE q == queue
           t == queue'
<1>1. OneMore(t, q, step) /\ (step = "FdtDown" => NoMore(t, q))
  BY SendPatterns
<1>2. /\ step \in Commands /\ part = "send" /\ part' = "ack"
      /\ UNCHANGED <<program, step, cuts, touch>>
      /\ step # "TlsPovImage" => capture' = capture
      /\ armed' = CASE step = "FdtDown" -> "down"
                    [] step = "FdtUp"   -> "up"
                    [] OTHER            -> armed
  BY DEF Send, SensorReceives, fate
<1>3. step' # "None"
  BY <1>2 DEF Commands, Opening, Capturing
<1>4. cuts \in Nat
  BY DEF TypeOK
<1> USE OneMoreFacts, PartsFacts, NoMoreFacts DEF Armed, OwnFinger
<1>5. CASE step = "GetVersion"
  <2>1. Idle /\ Asking' /\ armed' = armed
    BY <1>2, <1>5 DEF Idle, Asking
  <2>2. LagAsking'
    BY <1>1, <1>2, <1>4, <1>5, <2>1 DEF Lag, LagIdle, LagAsking
  <2> QED  BY <1>3, <2>1, <2>2, PhaseOnly
<1>6. CASE step \in {"ReadOtp", "DownloadConfig"}
  <2>1. Opened /\ Opened' /\ armed' = armed
    BY <1>2, <1>6 DEF Opened
  <2>2. LagOpened'
    BY <1>1, <1>2, <1>4, <1>6, <2>1 DEF Lag, LagOpened
  <2> QED  BY <1>3, <2>1, <2>2, PhaseOnly
<1>7. CASE step = "TlsPovImage"
  <2>1. Opened /\ Keying' /\ armed' = armed
    BY <1>2, <1>7 DEF Opened, Keying
  <2>2. LagKeying'
    BY <1>1, <1>2, <1>4, <1>7, <2>1 DEF Lag, LagOpened, LagKeying
  <2> QED  BY <1>3, <2>1, <2>2, PhaseOnly
<1>8. CASE step = "FdtDown"
  <2>1. Sensing /\ Sensing'
    BY <1>2, <1>8 DEF Sensing
  <2>2. LagSensing'
    BY <1>1, <1>2, <1>4, <1>8, <2>1 DEF Lag, LagSensing
  <2> QED  BY <1>3, <2>1, <2>2, PhaseOnly
<1>9. CASE step \in {"GetImage", "FdtUp"}
  <2>1. Touched /\ Touched' /\ capture' = capture
    BY <1>2, <1>9 DEF Touched
  <2>2. armed' = "down" => step = "GetImage" /\ armed = "down"
    BY <1>2, <1>9
  <2>3. LagTouched'
    BY <1>1, <1>2, <1>4, <1>9, <2>1, <2>2 DEF Lag, LagTouched
  <2> QED  BY <1>3, <2>1, <2>3, PhaseOnly
<1> QED  BY <1>2, <1>5, <1>6, <1>7, <1>8, <1>9 DEF Commands, Opening, Capturing

LEMMA LagTakeCompletion ==
  ASSUME TypeOK, Placed, Placed', Lag, TakeCompletion
  PROVE  Lag'
<1> DEFINE q == queue
           t == queue'
           h == Head(queue)
<1>1. /\ NoMore(t, q)
      /\ \A a, b : Done(h, a) /\ Has(t, b) => Then(q, a, b)
      /\ \A a, b, c : Done(h, a) /\ Then(t, b, c) => ThenThen(q, a, b, c)
      /\ Has(q, step)
      /\ UNCHANGED <<armed, touch>>
  <2>1. Read
    BY DEF TakeCompletion
  <2>2. Done(h, step) /\ 1 \in 1..Len(q) /\ h = q[1]
    BY <2>1, ReadFacts DEF TakeCompletion, Wanted, Done
  <2> QED  BY <2>1, <2>2, ReadPatterns, ReadFacts DEF Has
<1>2. Done(h, step) /\ part = "done" /\ step \in Commands \ {"FdtUp"} /\ UNCHANGED capture
  BY DEF TakeCompletion, Wanted, Done, Read
<1>3. cuts \in Nat
  BY DEF TypeOK
<1>4. CASE End("cut")
  BY <1>1, <1>4, LagCutOff DEF End
<1>5. ASSUME Goto(After)  PROVE Lag'
  <2>1. step' = After /\ part' = "send" /\ UNCHANGED <<program, cuts>> /\ step' # "None"
    BY <1>5 DEF Goto, fate, After
  <2>2. Has(t, "GetVersion") => Then(q, step, "GetVersion")
    BY <1>1, <1>2
  <2>3. Has(t, "TlsPovImage") => Then(q, step, "TlsPovImage")
    BY <1>1, <1>2
  <2>4. Has(t, "FdtDown") => Then(q, step, "FdtDown")
    BY <1>1, <1>2
  <2>5. Then(t, "TlsPovImage", "FdtDown") => ThenThen(q, step, "TlsPovImage", "FdtDown")
    BY <1>1, <1>2
  <2>6. Then(t, "FdtDown", "TlsPovImage") => ThenThen(q, step, "FdtDown", "TlsPovImage")
    BY <1>1, <1>2
  <2> HIDE DEF q, t, h
  <2> USE PartsFacts, NoMoreFacts DEF Armed, OwnFinger
  <2>7. CASE step = "GetVersion"
    <3>1. Asking /\ Opened'
      BY <1>2, <2>1, <2>7 DEF Asking, Opened, After
    <3>2. LagOpened'
      BY <1>1, <1>3, <2>1, <2>2, <2>3, <2>5, <2>7, <3>1 DEF Lag, LagAsking, LagOpened, q, t
    <3> QED  BY <2>1, <3>1, <3>2, PhaseOnly
  <2>8. CASE step \in {"ReadOtp", "DownloadConfig"}
    <3>1. Opened /\ Opened'
      BY <1>2, <2>1, <2>8 DEF Opened, After
    <3>2. LagOpened'
      BY <1>1, <1>3, <2>1, <2>8, <3>1 DEF Lag, LagOpened, q, t
    <3> QED  BY <2>1, <3>1, <3>2, PhaseOnly
  <2>9. CASE step = "TlsPovImage"
    <3>1. Keying /\ Sensing'
      BY <1>2, <2>1, <2>9 DEF Keying, Sensing, After
    <3>2. LagSensing'
      BY <1>1, <1>2, <1>3, <2>1, <2>3, <2>4, <2>6, <2>9, <3>1 DEF Lag, LagKeying, LagSensing, q, t
    <3> QED  BY <2>1, <3>1, <3>2, PhaseOnly
  <2>10. CASE step = "FdtDown"
    <3>1. Sensing /\ Touched' /\ step' = "GetImage"
      BY <1>2, <2>1, <2>10 DEF Sensing, Touched, After
    <3>2. LagTouched'
      BY <1>1, <1>2, <1>3, <2>1, <2>3, <2>5, <2>10, <3>1 DEF Lag, LagSensing, LagTouched, q, t
    <3> QED  BY <2>1, <3>1, <3>2, PhaseOnly
  <2>11. CASE step = "GetImage"
    <3>1. Touched /\ Touched' /\ step' = "FdtUp"
      BY <1>2, <2>1, <2>11 DEF Touched, After
    <3>2. LagTouched'
      BY <1>1, <1>2, <1>3, <2>1, <2>11, <3>1 DEF Lag, LagTouched, q, t
    <3> QED  BY <2>1, <3>1, <3>2, PhaseOnly
  <2> QED  BY <1>2, <2>7, <2>8, <2>9, <2>10, <2>11 DEF Commands, Opening, Capturing
<1> QED  BY <1>4, <1>5 DEF TakeCompletion

\* A program that ends in its own time, or goes on after a frame, leaves nothing
\* armed.
LEMMA LagAfterTouch ==
  ASSUME TypeOK, Placed, Placed', Lag, NoMore(queue', queue),
         UNCHANGED <<cuts, touch, capture, armed>>, step \in {"FdtUp", "Judge"} \union Saving,
         step = "FdtUp" => part # "send",
         \/ step' \in {"FdtUp", "Judge"} \union Saving
         \/ step' = "TlsPovImage" /\ part' = "send"
         \/ step' = "None"
  PROVE  Lag'
<1> USE NoMoreFacts, PartsFacts DEF Armed, OwnFinger
<1>1. Touched /\ ~Armed /\ cuts \in Nat
  BY DEF Lag, LagTouched, Touched, Saving, TypeOK
<1>2. CASE step' \in {"FdtUp", "Judge"} \union Saving
  <2>1. Touched' /\ step' # "None"
    BY <1>2 DEF Touched, Saving
  <2>2. LagTouched'
    BY <1>1 DEF Lag, LagTouched
  <2> QED  BY <2>1, <2>2, PhaseOnly
<1>3. CASE step' = "TlsPovImage" /\ part' = "send"
  <2>1. Opened' /\ step' # "None"
    BY <1>3 DEF Opened
  <2>2. LagOpened'
    BY <1>1 DEF Lag, LagTouched, LagOpened
  <2> QED  BY <2>1, <2>2, PhaseOnly
<1>4. CASE step' = "None"
  <2>1. LagIdle'
    BY <1>1 DEF Lag, LagTouched, LagIdle
  <2> QED  BY <1>4, <2>1, IdleOnly
<1> QED  BY <1>2, <1>3, <1>4

LEMMA NoMoreSame ==
  ASSUME NEW q, NEW t, t = q
  PROVE  NoMore(t, q)
  BY DEF NoMore

\* The detection fires: by now its programs have been cut off, or it is this capture's.
LEMMA LagFingerDown ==
  ASSUME TypeOK, Lag, FingerDownEvent
  PROVE  Lag'
<1> DEFINE q == queue
           t == queue'
<1>1. /\ armed = "down" /\ armed' = "none" /\ touch' = capture
      /\ UNCHANGED <<program, step, part, capture, cuts>>
      /\ t = Append(q, Completion("FdtDown", "kept"))
  BY DEF FingerDownEvent, Detects, place, captured, fate
<1>2. OneMore(t, q, "FdtDown")
  BY <1>1, DetectPatterns
<1>3. cuts \in Nat
  BY DEF TypeOK
<1> HIDE DEF q, t
<1> USE OneMoreFacts, PartsFacts DEF Lag, Armed, OwnFinger
<1>4. LagIdle'
  BY <1>1, <1>2, <1>3 DEF LagIdle, Idle, q, t
<1>5. LagAsking'
  BY <1>1, <1>2, <1>3 DEF LagAsking, Asking, q, t
<1>6. LagOpened'
  BY <1>1, <1>2, <1>3 DEF LagOpened, Opened, q, t
<1>7. LagKeying'
  BY <1>1, <1>2, <1>3 DEF LagKeying, Keying, q, t
<1>8. LagSensing'
  BY <1>1, <1>2, <1>3 DEF LagSensing, Sensing, q, t
<1>9. LagTouched'
  BY <1>1, <1>2, <1>3 DEF LagTouched, Touched, q, t
<1> QED  BY <1>4, <1>5, <1>6, <1>7, <1>8, <1>9

LEMMA LagStep ==
  ASSUME TypeOK, Placed, Placed', Lag, [Next]_vars
  PROVE  Lag'
<1>1. CASE \E p \in {"enroll", "verify"} : Start(p)
  BY <1>1, LagStart
<1>2. CASE Send
  BY <1>2, LagSend
<1>3. CASE SkipUnrelated
  <2>1. NoMore(queue', queue) /\ UNCHANGED <<armed, touch>>
    BY <1>3, ReadPatterns, ReadFacts DEF SkipUnrelated
  <2>2. UNCHANGED <<program, step, part, cuts, capture>>
    BY <1>3 DEF SkipUnrelated, place, captured, fate
  <2> QED  BY <2>1, <2>2, LagQuiet
<1>4. CASE AnsweredTooEarly
  <2>1. NoMore(queue', queue) /\ UNCHANGED armed
    BY <1>4, ReadPatterns, ReadFacts DEF AnsweredTooEarly
  <2>2. step' = "None" /\ cuts' = cuts + 1
    BY <1>4 DEF AnsweredTooEarly, End
  <2> QED  BY <2>1, <2>2, LagCutOff
<1>5. CASE TakeAck
  <2>1. NoMore(queue', queue) /\ UNCHANGED <<armed, touch>>
    BY <1>5, ReadPatterns, ReadFacts DEF TakeAck
  <2>2. UNCHANGED <<program, step, cuts, capture>> /\ part # "send" /\ part' # "send"
    BY <1>5 DEF TakeAck, captured, fate
  <2> QED  BY <2>1, <2>2, LagQuiet
<1>6. CASE TakeCompletion
  BY <1>6, LagTakeCompletion
<1>7. CASE FinishCapture
  <2>1. NoMore(queue', queue) /\ UNCHANGED <<armed, touch>> /\ UNCHANGED capture
    BY <1>7, ReadPatterns, ReadFacts DEF FinishCapture
  <2>2. CASE End("cut")
    BY <2>1, <2>2, LagCutOff DEF End
  <2>3. CASE Goto("Judge")
    <3>1. step = "FdtUp" /\ part # "send" /\ step' = "Judge" /\ UNCHANGED cuts
      BY <1>7, <2>3 DEF FinishCapture, Goto, fate
    <3> QED  BY <2>1, <3>1, LagAfterTouch
  <2> QED  BY <1>7, <2>2, <2>3 DEF FinishCapture
<1>8. CASE Judge
  <2>1. UNCHANGED <<queue, armed, touch, capture>> /\ step = "Judge"
    BY <1>8 DEF Judge, captured, sensor, detection
  <2>2. /\ UNCHANGED cuts
        /\ \/ step' \in Saving
           \/ step' = "TlsPovImage" /\ part' = "send"
           \/ step' = "None"
    BY <1>8 DEF Judge, Again, Goto, End, fate, Saving
  <2> QED  BY <2>1, <2>2, NoMoreSame, LagAfterTouch
<1>9. CASE Truncate \/ Fill
  <2>1. UNCHANGED <<queue, armed, touch, capture>> /\ step \in Saving
    BY <1>9 DEF Truncate, Fill, captured, sensor, detection
  <2>2. CASE End("cut")
    BY <2>1, <2>2, NoMoreSame, LagCutOff DEF End
  <2>3. CASE ~End("cut")
    <3>1. UNCHANGED cuts /\ (step' \in Saving \/ step' = "None")
      BY <1>9, <2>3 DEF Truncate, Fill, Goto, End, fate, Saving
    <3>2. step # "FdtUp"
      BY <2>1 DEF Saving
    <3> QED  BY <2>1, <3>1, <3>2, NoMoreSame, LagAfterTouch
  <2> QED  BY <2>2, <2>3
<1>10. CASE Cut
  <2>1. NoMore(queue', queue)
    BY <1>10, CutPatterns
  <2>2. UNCHANGED armed /\ step' = "None" /\ cuts' = cuts + 1
    BY <1>10 DEF Cut, End, detection
  <2> QED  BY <2>1, <2>2, LagCutOff
<1>11. CASE FingerDownEvent
  BY <1>11, LagFingerDown
<1>12. CASE FingerUpEvent
  <2>1. /\ UNCHANGED <<program, step, part, cuts, touch, capture>> /\ armed' = "none"
        /\ queue' = Append(queue, Completion("FdtUp", "kept"))
    BY <1>12 DEF FingerUpEvent, Detects, place, captured, fate
  <2>2. OneMore(queue', queue, "FdtUp")
    BY <2>1, DetectPatterns
  <2>3. NoMore(queue', queue)
    BY <2>2, OneMoreOfNone DEF Marks
  <2> QED  BY <2>1, <2>3, LagQuiet
<1>13. CASE PowerLost
  <2>1. /\ UNCHANGED <<program, step, part, cuts, touch, capture>> /\ armed' = "none"
        /\ Len(queue') = 0
    BY <1>13 DEF PowerLost, place, captured, fate
  <2>2. NoMore(queue', queue)
    BY <2>1 DEF NoMore, Has, Then, ThenThen
  <2> QED  BY <2>1, <2>2, LagQuiet
<1>14. CASE FingerMoves \/ UNCHANGED vars
  <2>1. UNCHANGED <<program, step, part, cuts, touch, capture, armed, queue>>
    BY <1>14 DEF FingerMoves, vars, place, captured, fate, sensor, detection
  <2> QED  BY <2>1, NoMoreSame, LagQuiet
<1> QED  BY <1>1, <1>2, <1>3, <1>4, <1>5, <1>6, <1>7, <1>8, <1>9, <1>10, <1>11, <1>12, <1>13,
            <1>14 DEF Next

-----------------------------------------------------------------------------
(* The invariant and what follows from it. *)

LEMMA InitIInv ==
  ASSUME Init
  PROVE  IInv
<1>1. NoFrame \in Frame
  BY StandaloneAssumption DEF NoFrame, Frame
<1>2. NoFile \in File
  BY StandaloneAssumption DEF NoFile, File
<1>3. TypeOK
  <2>1. restore \in BOOLEAN /\ finger \in BOOLEAN /\ steady \in BOOLEAN
    BY Zenon DEF Init
  <2>2. config \in {"kept", "lost"} /\ queue \in Seq(Packet) /\ step \in Steps
    BY DEF Init, Steps
  <2> QED  BY <1>1, <1>2, <2>1, <2>2, StandaloneAssumption DEF Init, TypeOK
<1>4. Placed
  BY StandaloneAssumption DEF Init, Placed, Saving, Opening
<1>5. FilesTrue
  BY StandaloneAssumption DEF Init, FilesTrue, Torn, NoFile, Saving
<1>6. KeysTrue
  BY DEF Init, KeysTrue, KeyTrue, NoFrame
<1>7. ConfigTrue
  BY DEF Init, ConfigTrue, Capturing
<1>8. Lag
  <2>1. ~Has(queue, "GetVersion") /\ ~Armed
    BY DEF Init, Has, Armed
  <2>2. LagIdle
    BY <2>1, PartsFacts DEF LagIdle
  <2> QED  BY <2>2 DEF Init, Lag, LagAsking, LagOpened, LagKeying, LagSensing, LagTouched, Asking,
                Opened, Keying, Sensing, Touched, Saving
<1> QED  BY <1>3, <1>4, <1>5, <1>6, <1>7, <1>8 DEF IInv

\* Whatever the programs and the sensor do, the standing invariant of the
\* standalone path (types, files, keys, configuration, the lag of the answers)
\* holds.
THEOREM StandaloneInvariant == Spec => []IInv
<1>1. Init => IInv
  BY InitIInv
<1>2. IInv /\ [Next]_vars => IInv'
  <2> SUFFICES ASSUME IInv, [Next]_vars  PROVE IInv'
    OBVIOUS
  <2>1. TypeOK /\ Placed /\ FilesTrue /\ KeysTrue /\ ConfigTrue /\ Lag
    BY DEF IInv
  <2>2. TypeOK' /\ Placed'
    BY <2>1, TypeStep, PlacedStep
  <2>3. FilesTrue' /\ ConfigTrue' /\ Lag'
    BY <2>1, <2>2, FilesStep, ConfigStep, LagStep
  <2>4. KeysTrue'
    BY <2>1, KeysStep DEF Lag
  <2> QED  BY <2>2, <2>3, <2>4 DEF IInv
<1> QED  BY <1>1, <1>2, PTL DEF Spec

\* Every variable keeps its type.
THEOREM StandaloneTypes == Spec => []TypeOK
<1>1. IInv => TypeOK
  BY DEF IInv
<1> QED  BY <1>1, StandaloneInvariant, PTL

\* capture_frame returns a frame of its own exposure, taken by a configured
\* sensor, and of its own touch while fewer than three programs were cut off.
THEOREM FramesAreOwn == Spec => []FrameIsOwn
<1>1. IInv => FrameIsOwn
  <2> SUFFICES ASSUME IInv, step = "Judge"  PROVE OwnExposure /\ OwnTouch /\ Configured
    BY DEF FrameIsOwn
  <2>1. /\ frame = image /\ frame.live /\ frame.key = capture
        /\ KeyTrue(frame, capture, cuts, Watched) /\ cuts \in Nat
    BY DEF IInv, KeysTrue, Decrypts, TypeOK
  <2>2. frame.shot = capture /\ (frame.down = capture \/ cuts >= CutsForStaleTouch)
    BY <2>1 DEF KeyTrue
  <2>3. steady /\ frame # NoFrame => frame.ready
    BY <2>1 DEF KeyTrue, Watched, Decided
  <2> QED  BY <2>1, <2>2, <2>3 DEF OwnExposure, OwnTouch, Configured, CutsForStaleTouch
<1> QED  BY <1>1, StandaloneInvariant, PTL

\* The two files of an enrollment agree whatever cuts it off: no newer stored
\* template than raw one, no half-written file that a program not cut off left.
THEOREM FilesAreTrue == Spec => []FilesAgree
<1>1. IInv => FilesAgree
  BY DEF IInv, FilesTrue, FilesAgree, Torn
<1> QED  BY <1>1, StandaloneInvariant, PTL
=============================================================================
