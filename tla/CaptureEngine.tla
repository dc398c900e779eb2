---------------------------- MODULE CaptureEngine ----------------------------
(***************************************************************************)
(* One protected-image capture after another, as the libfprint path runs   *)
(* it: the callback-driven engine of src/src/libfprint_wire.rs             *)
(* (Gf3258LibfprintCaptureEngine) asks for one USB transfer at a time, the *)
(* C driver submits it with the cancellable of the current action, and the *)
(* answer is fed back into the engine.  Capture, verification and          *)
(* identification own one such engine; enrollment makes a new one for      *)
(* every touch.                                                            *)
(*                                                                         *)
(* The sensor is outside src/.  It answers a command by queueing packets   *)
(* on the bulk IN endpoint, and what nobody reads stays queued: the        *)
(* hardware probes of the repository drain such left-overs, the driver     *)
(* does not.  Every capture therefore starts on whatever the captures      *)
(* before it left unread.                                                  *)
(***************************************************************************)
EXTENDS Integers, Sequences

CONSTANTS MaxSessions,     \* bound on the captures ever started
          MaxQueue,        \* bound on the packets the sensor holds for the host
          ImageRemains     \* 64-byte pieces an image leaves behind a short read

ASSUME CaptureAssumption == /\ MaxSessions \in Nat
                            /\ MaxQueue \in Nat
                            /\ ImageRemains \in Nat \ {0}

VARIABLES stage,       \* stage of the live engine; "Idle" when there is none
          sess,        \* captures started so far: the number of the latest one
          key,         \* image key of the latest capture (ImageSession)
          protected,   \* protected_image
          result,      \* result
          outcome,     \* how the latest finished capture was reported
          failures,    \* captures failed since one was delivered (history)
          queue,       \* IN packets held by the sensor
          sensorKey,   \* key installed by the last D2 the sensor received
          armed,       \* detection the sensor was last asked for
          finger,      \* whether a finger is on the sensor
          touch,       \* capture in which the latest finger-down event arose
          lifted       \* a finger-up event arose since the latest exposure

engineVars == <<stage, sess, key, protected, result, outcome, failures>>
sensorVars == <<queue, sensorKey, armed, finger, touch, lifted>>
vars == <<engineVars, sensorVars>>

-----------------------------------------------------------------------------
(* Commands, stages and packets. *)

Commands == {"TlsPovImage", "FdtDown", "GetImage", "FdtUp"}

WriteStages      == {"D2Write", "FingerDownWrite", "GetImageWrite", "FingerUpWrite"}
AckStages        == {"D2Ack", "FingerDownAck", "GetImageAck", "FingerUpAck"}
CompletionStages == {"D2Completion", "FingerDownCompletion", "GetImageCompletion",
                     "FingerUpCompletion"}
ReadStages == AckStages \union CompletionStages
Stages     == WriteStages \union ReadStages \union {"Complete"}

\* The command each stage sends, or waits for the answer of.
CommandOf(s) ==
  CASE s \in {"D2Write", "D2Ack", "D2Completion"} -> "TlsPovImage"
    [] s \in {"FingerDownWrite", "FingerDownAck", "FingerDownCompletion"} -> "FdtDown"
    [] s \in {"GetImageWrite", "GetImageAck", "GetImageCompletion"} -> "GetImage"
    [] OTHER -> "FdtUp"

\* The stage complete_transfer moves to once a stage is satisfied.
After(s) ==
  CASE s = "D2Write" -> "D2Ack"
    [] s = "D2Ack" -> "D2Completion"
    [] s = "D2Completion" -> "FingerDownWrite"
    [] s = "FingerDownWrite" -> "FingerDownAck"
    [] s = "FingerDownAck" -> "FingerDownCompletion"
    [] s = "FingerDownCompletion" -> "GetImageWrite"
    [] s = "GetImageWrite" -> "GetImageAck"
    [] s = "GetImageAck" -> "GetImageCompletion"
    [] s = "GetImageCompletion" -> "FingerUpWrite"
    [] s = "FingerUpWrite" -> "FingerUpAck"
    [] s = "FingerUpAck" -> "FingerUpCompletion"
    [] OTHER -> "Complete"

\* A frame is known by the key that protects it, the capture during which it
\* was exposed, the capture during which the last finger-down event before it
\* arose, and whether it is a live image or the sensor's boot image.  Captures
\* and keys are numbered from 1.
Frame == [key : 0..MaxSessions, sess : 0..MaxSessions, down : 0..MaxSessions, live : BOOLEAN]
NoFrame == [key |-> 0, sess |-> 0, down |-> 0, live |-> FALSE]

Packet == [kind : {"ack", "completion", "fragment"}, cmd : Commands, frame : Frame]
AckOf(c)      == [kind |-> "ack", cmd |-> c, frame |-> NoFrame]
Completion(c) == [kind |-> "completion", cmd |-> c, frame |-> NoFrame]
Image(f)      == [kind |-> "completion", cmd |-> "GetImage", frame |-> f]
Fragment      == [kind |-> "fragment", cmd |-> "GetImage", frame |-> NoFrame]
IsImage(p)    == p.kind = "completion" /\ p.cmd = "GetImage"

-----------------------------------------------------------------------------
(* The sensor.  A command is answered as soon as it is received; whether the *)
(* host reads the answer in time is the host's affair.                       *)

Exposures == {[key |-> sensorKey, sess |-> sess, down |-> touch, live |-> l] :
                l \in BOOLEAN}

\* What a command adds to the queue: its acknowledgement, and the completion
\* unless that waits for the finger.
Answers(c) ==
  LET acked == Append(queue, AckOf(c))
  IN CASE c = "TlsPovImage" -> {Append(acked, Completion(c))}
       [] c = "GetImage"    -> {Append(acked, Image(f)) : f \in Exposures}
       [] OTHER             -> {acked}

SensorReceives(c) ==
  /\ queue' \in Answers(c)
  /\ Len(queue') =< MaxQueue
  /\ sensorKey' = IF c = "TlsPovImage" THEN key ELSE sensorKey
  /\ armed' = CASE c = "FdtDown" -> "down"
                [] c = "FdtUp"   -> "up"
                [] OTHER         -> armed
  /\ lifted' = (lifted /\ c # "GetImage")
  /\ UNCHANGED <<finger, touch>>

\* The armed detection fires once.
FingerDownEvent ==
  /\ armed = "down" /\ finger
  /\ Len(queue) < MaxQueue
  /\ queue' = Append(queue, Completion("FdtDown"))
  /\ armed' = "none"
  /\ touch' = sess
  /\ UNCHANGED <<engineVars, sensorKey, finger, lifted>>

FingerUpEvent ==
  /\ armed = "up" /\ ~finger
  /\ Len(queue) < MaxQueue
  /\ queue' = Append(queue, Completion("FdtUp"))
  /\ armed' = "none"
  /\ lifted' = TRUE
  /\ UNCHANGED <<engineVars, sensorKey, finger, touch>>

\* The person in front of the sensor.
FingerMoves ==
  /\ finger' = ~finger
  /\ UNCHANGED <<engineVars, queue, sensorKey, armed, touch, lifted>>

-----------------------------------------------------------------------------
(* The engine. *)

\* Slips a change to the driver could introduce; the specification uses none of
\* them.  Each is put in the place of the definition that follows it.
KeyReused == 1

FreshKey == sess + 1      \* ImageSession::generate draws a key never used before

StartCapture ==
  /\ stage = "Idle"
  /\ sess < MaxSessions
  /\ sess' = sess + 1
  /\ key' = FreshKey
  /\ stage' = "D2Write"
  /\ protected' = NoFrame
  /\ result' = NoFrame
  /\ outcome' = "none"
  /\ UNCHANGED <<failures, sensorVars>>

FailKeepsEngine(why) ==
  /\ stage' = "Idle"
  /\ outcome' = why
  /\ failures' = failures + 1
  /\ UNCHANGED <<sess, key, protected, result>>

\* The action completes with an error and the engine is freed (capture_clear),
\* whatever the sensor still holds.
Fail(why) ==
  /\ stage' = "Idle"
  /\ protected' = NoFrame
  /\ result' = NoFrame
  /\ outcome' = why
  /\ failures' = failures + 1
  /\ UNCHANGED <<sess, key>>

Write ==
  /\ stage \in WriteStages
  /\ SensorReceives(CommandOf(stage))
  /\ stage' = After(stage)
  /\ UNCHANGED <<sess, key, protected, result, outcome, failures>>

\* An OUT transfer that is cancelled, times out or comes out short: the sensor
\* may or may not have taken the command.
WriteFails ==
  /\ stage \in WriteStages
  /\ Fail("transfer")
  /\ SensorReceives(CommandOf(stage)) \/ UNCHANGED sensorVars

\* GetImageCompletion alone asks for a whole image packet; any other read is
\* 64 bytes long and cuts an image short.
CutShort(p)  == IsImage(p) /\ stage # "GetImageCompletion"
Malformed(p) == p.kind = "fragment" \/ CutShort(p)

AcceptsAnyCommand(p) == /\ ~Malformed(p)
                        /\ p.kind = IF stage \in AckStages THEN "ack" ELSE "completion"

\* matching_ack and matching_completion.
Accepts(p) == /\ ~Malformed(p)
              /\ p.cmd = CommandOf(stage)
              /\ p.kind = IF stage \in AckStages THEN "ack" ELSE "completion"
OutOfOrder(p) == /\ ~Malformed(p)
                 /\ stage \in AckStages
                 /\ p.kind = "completion"
                 /\ p.cmd = CommandOf(stage)
Rejects(p) == Malformed(p) \/ OutOfOrder(p)
Ignores(p) == ~Rejects(p) /\ ~Accepts(p)

\* One IN transfer takes the packet at the head of the queue.
Remains == [i \in 1..ImageRemains |-> Fragment]

Read ==
  /\ stage \in ReadStages
  /\ queue # <<>>
  /\ queue' = IF CutShort(Head(queue)) THEN Remains \o Tail(queue) ELSE Tail(queue)
  /\ UNCHANGED <<sensorKey, armed, finger, touch, lifted>>

ReadAccepted ==
  /\ Read
  /\ stage # "FingerUpCompletion"
  /\ Accepts(Head(queue))
  /\ protected' = IF stage = "GetImageCompletion" THEN Head(queue).frame ELSE protected
  /\ stage' = After(stage)
  /\ UNCHANGED <<sess, key, result, outcome, failures>>

\* An unrelated packet: the same IN transfer is submitted again.
ReadIgnored ==
  /\ Read
  /\ Ignores(Head(queue))
  /\ UNCHANGED engineVars

\* A malformed packet, or a completion before its acknowledgement.
ReadRejected ==
  /\ Read
  /\ Rejects(Head(queue))
  /\ Fail("protocol")

\* decrypt_image with the key of this capture, then the CRC over the plaintext:
\* a frame under another key does not survive it.
DecryptsAnyKey(f) == f.live

Decrypts(f) == f.live /\ f.key = key

FinishOnAck ==
  /\ Read
  /\ stage \in {"FingerUpAck", "FingerUpCompletion"}
  /\ Accepts(Head(queue))
  /\ Decrypts(protected)
  /\ result' = protected
  /\ stage' = "Complete"
  /\ UNCHANGED <<sess, key, protected, outcome, failures>>

FinishCapture ==
  /\ Read
  /\ stage = "FingerUpCompletion"
  /\ Accepts(Head(queue))
  /\ IF Decrypts(protected)
     THEN /\ result' = protected
          /\ stage' = After(stage)
          /\ UNCHANGED <<sess, key, protected, outcome, failures>>
     ELSE Fail("image")

\* An IN transfer that is cancelled or times out; a packet already on its way
\* may be lost with it.
ReadFails ==
  /\ stage \in ReadStages
  /\ Fail("transfer")
  /\ queue' \in {queue} \union (IF queue = <<>> THEN {} ELSE {Tail(queue)})
  /\ UNCHANGED <<sensorKey, armed, finger, touch, lifted>>

\* The driver takes the result and frees the engine; `result` stands for the
\* image it hands over from then on.
Deliver ==
  /\ stage = "Complete"
  /\ stage' = "Idle"
  /\ protected' = NoFrame
  /\ outcome' = "delivered"
  /\ failures' = 0
  /\ UNCHANGED <<sess, key, result, sensorVars>>

-----------------------------------------------------------------------------
Init ==
  /\ stage = "Idle"
  /\ sess = 0
  /\ key = 0
  /\ protected = NoFrame
  /\ result = NoFrame
  /\ outcome = "none"
  /\ failures = 0
  /\ queue = <<>>
  /\ sensorKey = 0
  /\ armed = "none"
  /\ finger = FALSE
  /\ touch = 0
  /\ lifted = FALSE

EngineStep == \/ Write \/ WriteFails
              \/ ReadAccepted \/ ReadIgnored \/ ReadRejected \/ ReadFails
              \/ FinishCapture \/ Deliver

Next == \/ StartCapture
        \/ EngineStep
        \/ FingerDownEvent \/ FingerUpEvent \/ FingerMoves

Spec == Init /\ [][Next]_vars

\* Every transfer carries a timeout, so the running capture always takes
\* another step: a packet, or the timeout itself.
FairSpec == Spec /\ WF_vars(EngineStep)

-----------------------------------------------------------------------------
(* Properties. *)

\* There is no protected image before GetImage has completed, and none is left when
\* the engine has been freed.
Holding == {"FingerUpWrite", "FingerUpAck", "FingerUpCompletion", "Complete"}
ImageHeld == protected # NoFrame => stage \in Holding

\* Every variable keeps its type, and the engine holds an image in its last stages
\* only, whichever way a capture ends (capture_clear).
TypeOK ==
  /\ stage \in Stages \union {"Idle"}
  /\ sess \in 0..MaxSessions
  /\ key \in 0..MaxSessions
  /\ protected \in Frame
  /\ ImageHeld
  /\ result \in Frame
  /\ outcome \in {"none", "delivered", "transfer", "protocol", "image"}
  /\ failures \in Nat
  /\ queue \in Seq(Packet)
  /\ sensorKey \in 0..MaxSessions
  /\ armed \in {"none", "down", "up"}
  /\ finger \in BOOLEAN
  /\ touch \in 0..MaxSessions
  /\ lifted \in BOOLEAN

\* A capture never yields a frame that an earlier capture exposed: whatever an
\* abandoned capture left in the endpoint, the frame that passes finish_capture
\* was exposed after this capture installed its own key.
ResultIsOwnFrame == result # NoFrame => result.sess = sess /\ result.live

\* No image before the finger has left the sensor: when the engine is complete,
\* a finger-up event arose after the exposure it returns, also when stale
\* finger-up events were queued (the engine waits for FDT-up before it decrypts).
FingerUpBeforeResult == stage = "Complete" => lifted

\* The exposure follows a finger-down event of the same capture, unless the two
\* captures before it failed.  One failed capture leaves answers of one kind:
\* finger-down answers, which the next one passes over, or D2 answers, which it may
\* take for its own.  If it does and fails in its turn, it may leave a finger-down
\* event behind D2 answers, and a third takes all of them for its own.
FailuresForStaleFinger == 2
FingerDownIsOwn ==
  stage = "Complete" /\ failures < FailuresForStaleFinger => result.down = sess

\* An unrelated packet never ends a capture: it is ignored and the read repeated.
Unrelated(p) == p.kind # "fragment" /\ p.cmd # CommandOf(stage)
UnrelatedPacketsIgnored ==
  [][Read /\ Unrelated(Head(queue)) => outcome' # "protocol"]_vars

\* The engine keeps the promise of one touch: one report per capture, a frame of
\* this capture or an error, and every capture ends, however many stale packets
\* it has to skip.
Contract == INSTANCE TouchContract WITH
  Reports <- {"transfer", "protocol", "image"},
  active  <- stage # "Idle",
  number  <- sess,
  report  <- outcome,
  origin  <- IF outcome = "delivered" THEN result.sess ELSE 0

ImplementsContract == Contract!FairSpec
=============================================================================
