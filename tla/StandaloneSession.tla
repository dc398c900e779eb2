-------------------------- MODULE StandaloneSession --------------------------
(***************************************************************************)
(* The standalone programs, one run after another: standalone_enroll and   *)
(* standalone_verify over the blocking path of the crate                   *)
(* (Gf3258DeviceSession of driver.rs, GoodixTransport of transport.rs) and *)
(* the two files an enrollment leaves (private_file.rs).                   *)
(*                                                                         *)
(* A program opens an APP sensor, restores its volatile configuration when *)
(* the opening acknowledgement says it is lost, and captures one frame     *)
(* after another.  Every transaction waits for the acknowledgement of its  *)
(* command, then for a completion of the same command, and skips all else. *)
(* Any error ends the program, and so does its operator; nothing drains    *)
(* the endpoint, so the next program starts on what the last one left.     *)
(* The sensor, outside src/, is that of CaptureEngine with the opening     *)
(* commands added.  A sensor still in IAP is the business of               *)
(* BootstrapEngine.                                                        *)
(***************************************************************************)
EXTENDS Integers, Sequences

CONSTANTS Target,        \* GF3258_ENROLLMENT_TARGET_SAMPLES: 12
          MaxAttempts,   \* max_attempts of an enrollment, attempts of a verification
          MaxPrograms,   \* bound on the programs ever started
          MaxCaptures,   \* bound on the captures ever started
          MaxQueue       \* bound on the packets the sensor holds for the host

ASSUME StandaloneAssumption == /\ Target \in Nat \ {0}
                               /\ MaxAttempts \in Nat \ {0}
                               /\ MaxPrograms \in Nat
                               /\ MaxCaptures \in Nat
                               /\ MaxQueue \in Nat

VARIABLES program,     \* "enroll" or "verify" while one runs, else "none"
          run,         \* programs started so far: the number of the latest one
          step,        \* what it is doing: a command, a file, or judging a frame
          part,        \* "send", "ack" or "done" of that step
          restore,     \* mcu_power_lost of the opening acknowledgement
          attempts,    \* attempted_touches
          samples,     \* sample_count of the EnrollmentTransaction
          capture,     \* captures started so far; also the image key of the latest
          image,       \* image_packet
          frame,       \* the latest frame capture_frame returned
          ended,       \* how the latest program ended
          cuts,        \* programs that ended before their end
          raw, tgla,   \* the two files of an enrollment
          queue,       \* IN packets held by the sensor
          sensorKey,   \* key installed by the last D2 the sensor received
          armed,       \* detection the sensor was last asked for
          finger,      \* whether a finger is on the sensor
          touch,       \* capture during which the latest finger-down event arose
          config,      \* the sensor's volatile configuration: "kept" or "lost"
          steady       \* the sensor has kept its power since the program started

place      == <<program, run, step, part>>
enrollment == <<restore, attempts, samples>>
captured   == <<capture, image, frame>>
fate       == <<ended, cuts>>
files      == <<raw, tgla>>
detection  == <<armed, finger, touch>>
sensor     == <<queue, sensorKey, detection, config>>
vars == <<place, enrollment, captured, fate, files, sensor, steady>>

-----------------------------------------------------------------------------
(* Commands, packets, frames and files. *)

Opening   == {"GetVersion", "ReadOtp", "DownloadConfig"}
Capturing == {"TlsPovImage", "FdtDown", "GetImage", "FdtUp"}
Commands  == Opening \union Capturing
Saving    == {"Raw", "Tgla"}
Steps     == Commands \union Saving \union {"Judge", "None"}

\* A frame is known by the key that protects it, the capture during which it was
\* exposed and the one during which the last finger-down event before it arose,
\* whether the sensor was configured, and whether it is a live image.
Frame   == [key : 0..MaxCaptures, shot : 0..MaxCaptures, down : 0..MaxCaptures,
            ready : BOOLEAN, live : BOOLEAN]
NoFrame == [key |-> 0, shot |-> 0, down |-> 0, ready |-> FALSE, live |-> FALSE]

\* What a packet tells: the configuration it found, the verdict on a
\* configuration sent, the image.
Packet == [kind : {"ack", "completion"}, cmd : Commands,
           data : {"kept", "lost", "refused"}, frame : Frame]
AckOf(c)         == [kind |-> "ack", cmd |-> c, data |-> config, frame |-> NoFrame]
Completion(c, d) == [kind |-> "completion", cmd |-> c, data |-> d, frame |-> NoFrame]
ImagePacket(f)   == [kind |-> "completion", cmd |-> "GetImage", data |-> "kept", frame |-> f]

\* A file: the program that last opened it, 0 for nobody, and whether the bytes
\* of a template are all in it.
File   == [run : 0..MaxPrograms, whole : BOOLEAN]
NoFile == [run |-> 0, whole |-> FALSE]

-----------------------------------------------------------------------------
(* The sensor. *)

Exposures == {[key |-> sensorKey, shot |-> capture, down |-> touch,
               ready |-> config = "kept", live |-> l] : l \in BOOLEAN}

\* What a command adds to the queue, the completion of a finger detection apart.
Replies(c) ==
  CASE c = "DownloadConfig" -> {<<AckOf(c), Completion(c, d)>> : d \in {"kept", "refused"}}
    [] c = "GetImage" -> {<<AckOf(c), ImagePacket(f)>> : f \in Exposures}
    [] c \in {"FdtDown", "FdtUp"} -> {<<AckOf(c)>>}
    [] OTHER -> {<<AckOf(c), Completion(c, "kept")>>}

\* k is the key a D2 carries.
SensorReceives(c, k) ==
  \E r \in Replies(c) :
    /\ Len(queue) + Len(r) =< MaxQueue
    /\ queue' = queue \o r
    /\ sensorKey' = IF c = "TlsPovImage" THEN k ELSE sensorKey
    /\ armed' = CASE c = "FdtDown" -> "down"
                  [] c = "FdtUp"   -> "up"
                  [] OTHER         -> armed
    /\ config' = IF c = "DownloadConfig" /\ r[2].data = "kept" THEN "kept" ELSE config
    /\ UNCHANGED <<finger, touch>>

\* The armed detection fires once.
Detects(d, c) ==
  /\ armed = d
  /\ Len(queue) < MaxQueue
  /\ queue' = Append(queue, Completion(c, "kept"))
  /\ armed' = "none"
  /\ UNCHANGED <<place, enrollment, captured, fate, files, sensorKey, finger,
                 config, steady>>

FingerDownEvent == finger /\ Detects("down", "FdtDown") /\ touch' = capture
FingerUpEvent   == ~finger /\ Detects("up", "FdtUp") /\ UNCHANGED touch

FingerMoves ==
  /\ finger' = ~finger
  /\ UNCHANGED <<place, enrollment, captured, fate, files, queue, sensorKey,
                 armed, touch, config, steady>>

\* All the sensor holds for the host, and the key, go with the configuration.
PowerLost ==
  /\ config = "kept"
  /\ config' = "lost"
  /\ queue' = <<>>
  /\ sensorKey' = 0
  /\ armed' = "none"
  /\ steady' = FALSE
  /\ UNCHANGED <<place, enrollment, captured, fate, files, finger, touch>>

-----------------------------------------------------------------------------
(* The program.  Slips a change could introduce stand before the definition  *)
(* they would take the place of; the specification uses none of them.        *)

Goto(s) ==
  /\ step' = s
  /\ part' = "send"
  /\ UNCHANGED <<program, run, fate>>

End(how) ==
  /\ program' = "none"
  /\ step' = "None"
  /\ part' = "send"
  /\ ended' = how
  /\ cuts' = IF how = "cut" THEN cuts + 1 ELSE cuts
  /\ UNCHANGED run

\* A verification decodes its template before it touches the sensor.
Start(p) ==
  /\ program = "none"
  /\ run < MaxPrograms
  /\ p = "verify" => tgla.whole
  /\ program' = p
  /\ run' = run + 1
  /\ step' = "GetVersion"
  /\ part' = "send"
  /\ ended' = "none"
  /\ restore' = FALSE
  /\ attempts' = 0
  /\ samples' = 0
  /\ image' = NoFrame
  /\ frame' = NoFrame
  /\ steady' = TRUE
  /\ UNCHANGED <<capture, cuts, files, sensor>>

\* send_command.  A D2 begins a capture with a key never used before.
Send ==
  /\ step \in Commands /\ part = "send"
  /\ part' = "ack"
  /\ IF step = "TlsPovImage"
     THEN /\ capture < MaxCaptures
          /\ capture' = capture + 1
          /\ attempts' = attempts + 1
     ELSE UNCHANGED <<capture, attempts>>
  /\ SensorReceives(step, capture')
  /\ UNCHANGED <<program, run, step, restore, samples, image, frame, fate, files, steady>>

\* wait_for_ack_until, then the loop of wait_for_completion_with_ack.
Wanted(p) == p.cmd = step /\ p.kind = IF part = "ack" THEN "ack" ELSE "completion"

BeforeItsAck(p) == part = "ack" /\ p.kind = "completion" /\ p.cmd = step

Read ==
  /\ step \in Commands /\ part \in {"ack", "done"}
  /\ queue # <<>>
  /\ queue' = Tail(queue)
  /\ UNCHANGED <<files, sensorKey, detection, config, steady>>

SkipUnrelated ==
  /\ Read
  /\ ~Wanted(Head(queue)) /\ ~BeforeItsAck(Head(queue))
  /\ UNCHANGED <<place, enrollment, captured, fate>>

\* ResponseBeforeAck.
AnsweredTooEarly ==
  /\ Read
  /\ BeforeItsAck(Head(queue))
  /\ End("cut")
  /\ UNCHANGED <<enrollment, captured>>

\* Only read_version looks at the flags of its acknowledgement.
TakeAck ==
  /\ Read
  /\ part = "ack" /\ Wanted(Head(queue))
  /\ part' = "done"
  /\ restore' = IF step = "GetVersion" THEN Head(queue).data = "lost" ELSE restore
  /\ UNCHANGED <<program, run, step, attempts, samples, captured, fate>>

\* read_version, chicago_h::initialize and capture_frame, a command at a time.
After ==
  CASE step = "GetVersion"     -> IF restore THEN "ReadOtp" ELSE "TlsPovImage"
    [] step = "ReadOtp"        -> "DownloadConfig"
    [] step = "DownloadConfig" -> "TlsPovImage"
    [] step = "TlsPovImage"    -> "FdtDown"
    [] step = "FdtDown"        -> "GetImage"
    [] OTHER                   -> "FdtUp"

TakeCompletion ==
  /\ Read
  /\ part = "done" /\ Wanted(Head(queue))
  /\ step # "FdtUp"
  /\ IF Head(queue).data = "refused" THEN End("cut") ELSE Goto(After)
  /\ image' = IF step = "GetImage" THEN Head(queue).frame ELSE image
  /\ UNCHANGED <<enrollment, capture, frame>>

\* The rest of capture_frame once the finger is up: the boot image is refused,
\* and what another key protects does not survive the CRC.
DecryptsAnyKey(f) == f.live

Decrypts(f) == f.live /\ f.key = capture

FinishCapture ==
  /\ Read
  /\ part = "done" /\ Wanted(Head(queue))
  /\ step = "FdtUp"
  /\ IF Decrypts(image)
     THEN Goto("Judge") /\ frame' = image
     ELSE End("cut") /\ UNCHANGED frame
  /\ UNCHANGED <<enrollment, capture, image>>

\* The loop of the program around one frame: an enrollment rejects or retains
\* it, a verification reports on it.  An enrollment saves what it has only when
\* it is complete.
AlmostComplete(n) == n + 1 >= Target

Complete(n) == n = Target

AgainOnceMore == IF attempts =< MaxAttempts THEN Goto("TlsPovImage") ELSE End("done")

Again == IF attempts < MaxAttempts THEN Goto("TlsPovImage") ELSE End("done")

Judge ==
  /\ step = "Judge"
  /\ \/ program = "verify" /\ samples' = samples /\ Again
     \/ program = "enroll" /\ samples' = samples /\ Again
     \/ /\ program = "enroll"
        /\ samples' = samples + 1
        /\ IF Complete(samples') THEN Goto("Raw") ELSE Again
  /\ UNCHANGED <<restore, attempts, captured, files, sensor, steady>>

\* write_private_file: the file is truncated, then written.
Truncate ==
  /\ step \in Saving /\ part = "send"
  /\ part' = "done"
  /\ raw'  = IF step = "Raw"  THEN [run |-> run, whole |-> FALSE] ELSE raw
  /\ tgla' = IF step = "Tgla" THEN [run |-> run, whole |-> FALSE] ELSE tgla
  /\ UNCHANGED <<program, run, step, enrollment, captured, fate, sensor, steady>>

\* The stored template is read back and validated at the end, which may fail.
Fill ==
  /\ step \in Saving /\ part = "done"
  /\ raw'  = IF step = "Raw"  THEN [raw EXCEPT !.whole = TRUE] ELSE raw
  /\ tgla' = IF step = "Tgla" THEN [tgla EXCEPT !.whole = TRUE] ELSE tgla
  /\ IF step = "Raw" THEN Goto("Tgla") ELSE \E how \in {"saved", "cut"} : End(how)
  /\ UNCHANGED <<enrollment, captured, sensor, steady>>

\* Interrupted by its operator, out of time, or out of luck with a transfer or a
\* file: wherever it stands, and a packet on its way may be lost with it.
Cut ==
  /\ program # "none"
  /\ End("cut")
  /\ queue' \in {queue} \union (IF queue = <<>> THEN {} ELSE {Tail(queue)})
  /\ UNCHANGED <<enrollment, captured, files, sensorKey, detection, config, steady>>

-----------------------------------------------------------------------------
Init ==
  /\ program = "none" /\ run = 0 /\ step = "None" /\ part = "send"
  /\ restore = FALSE /\ attempts = 0 /\ samples = 0
  /\ capture = 0 /\ image = NoFrame /\ frame = NoFrame
  /\ ended = "none" /\ cuts = 0
  /\ raw = NoFile /\ tgla = NoFile
  /\ queue = <<>> /\ sensorKey = 0
  /\ armed = "none" /\ finger = FALSE /\ touch = 0
  /\ config \in {"kept", "lost"}
  /\ steady = TRUE

Next == \/ \E p \in {"enroll", "verify"} : Start(p)
        \/ Send
        \/ SkipUnrelated \/ AnsweredTooEarly \/ TakeAck \/ TakeCompletion
        \/ FinishCapture \/ Judge \/ Truncate \/ Fill
        \/ Cut
        \/ FingerDownEvent \/ FingerUpEvent \/ FingerMoves \/ PowerLost

Spec == Init /\ [][Next]_vars

-----------------------------------------------------------------------------
(* Properties. *)

TypeOK ==
  /\ program \in {"none", "enroll", "verify"}
  /\ run \in 0..MaxPrograms
  /\ step \in Steps
  /\ part \in {"send", "ack", "done"}
  /\ restore \in BOOLEAN
  /\ attempts \in 0..MaxAttempts
  /\ samples \in 0..Target
  /\ capture \in 0..MaxCaptures
  /\ image \in Frame
  /\ frame \in Frame
  /\ ended \in {"none", "saved", "done", "cut"}
  /\ cuts \in 0..MaxPrograms
  /\ raw \in File
  /\ tgla \in File
  /\ queue \in Seq(Packet)
  /\ sensorKey \in 0..MaxCaptures
  /\ armed \in {"none", "down", "up"}
  /\ finger \in BOOLEAN
  /\ touch \in 0..MaxCaptures
  /\ config \in {"kept", "lost"}
  /\ steady \in BOOLEAN

\* The frame capture_frame returns was exposed in this capture, by a configured
\* sensor if that has kept its power; and the finger went down in this capture,
\* unless three programs were cut off: answers one command behind need one.
CutsForStaleTouch == 3

OwnExposure == frame # NoFrame => frame.shot = capture /\ frame.live
OwnTouch    == frame # NoFrame /\ cuts < CutsForStaleTouch => frame.down = capture
Configured  == frame # NoFrame /\ steady => frame.ready

FrameIsOwn == step = "Judge" => OwnExposure /\ OwnTouch /\ Configured

\* The two files of an enrollment: the stored template is never newer than the
\* raw one, a program touches neither before it has all its samples, only a
\* program cut off leaves a file half written, and one that says it has saved
\* its template has left both whole.
FilesAgree ==
  /\ tgla.run =< raw.run
  /\ raw.run = run /\ run > 0 => samples = Target
  /\ \A f \in {raw, tgla} :
       f.run > 0 /\ ~f.whole =>
         f.run < run \/ ended = "cut" \/ (step \in Saving /\ part = "done")
  /\ ended = "saved" => raw.whole /\ tgla.whole /\ raw.run = run /\ tgla.run = run
=============================================================================
