--------------------------- MODULE BootstrapEngine ---------------------------
(***************************************************************************)
(* The cold bootstrap of a sensor that runs IAP, attempt after attempt: the *)
(* version handshake of the probe (goodix550a.c), the engine that reads the *)
(* persisted PSK, writes the APP in chunks and has it checked               *)
(* (Gf3258LibfprintBootstrapEngine of src/src/libfprint_wire.rs), and the   *)
(* reset that starts what was written.                                      *)
(*                                                                          *)
(* Any transfer may fail, be cancelled or be the last one of the process.   *)
(* Nothing is resumed: the next probe starts again from the handshake, over *)
(* whatever the endpoint still holds and whatever the flash then contains.  *)
(* DriverLifecycle has all of this as one step of a probe.                  *)
(***************************************************************************)
EXTENDS Integers, Sequences

CONSTANTS SealedPieces,    \* pieces of the sealed PSK
          HashPieces,      \* pieces of the stored hash of the PSK
          ReplyPieces,     \* the most pieces the sensor puts into one reply
          Chunks,          \* F0 chunks of the package
          Blocks,          \* USB blocks of one F0 frame
          MaxFaults,       \* bound on what goes wrong
          MaxQueue         \* packets the sensor can hold for the host

ASSUME BootstrapAssumption ==
  /\ SealedPieces \in Nat \ {0} /\ HashPieces \in Nat \ {0} /\ ReplyPieces \in Nat \ {0}
  /\ Chunks \in Nat \ {0} /\ Blocks \in Nat \ {0}
  /\ MaxFaults \in Nat /\ MaxQueue \in Nat

VARIABLES
  step,            \* transfer under way in the probe; "Idle" between probes
  sealed, hash,    \* sealed_psk and psk_hash: the pieces received, in order
  authenticated,   \* the plan has its F4 tag
  chunk, block,    \* f0_chunk_index (and f0_chunks_sent), f0_block_index
  verdict,         \* whose firmware check the engine accepted
  queue,           \* IN packets held by the sensor
  image,           \* firmware the sensor runs
  flash,           \* what each chunk of its flash holds
  checked,         \* the sensor has found its present flash whole
  rebooting,       \* it has taken the reset
  halfFrame,       \* an OUT frame was left unfinished
  provisioned,     \* the PSK it holds is the one its stored hash is of
  resource,        \* the firmware file offered to the program
  faults           \* faults so far

engineVars == <<sealed, hash, authenticated, chunk, block, verdict>>
sensorVars == <<queue, image, flash, checked, rebooting, halfFrame>>
world      == <<provisioned, resource>>
vars == <<step, engineVars, sensorVars, world, faults>>

-----------------------------------------------------------------------------
(* Stages and packets. *)

HandshakeReads == {"VersionAck", "Version"}
SealedStages   == {"ReadSealedPskWrite", "ReadSealedPskAck", "ReadSealedPskCompletion"}
HashStages     == {"ReadPskHashWrite", "ReadPskHashAck", "ReadPskHashCompletion"}
WriteStages    == {"FirmwareWriteBlock", "FirmwareWriteAck", "FirmwareWriteCompletion"}
CheckStages    == {"FirmwareCheckWrite", "FirmwareCheckAck", "FirmwareCheckCompletion"}
ResetSteps     == {"BootResetWrite", "BootResetAck"}
EngineStages   == SealedStages \union HashStages \union WriteStages \union CheckStages

OutSteps == {"VersionWrite", "ReadSealedPskWrite", "ReadPskHashWrite",
             "FirmwareWriteBlock", "FirmwareCheckWrite", "BootResetWrite"}
AckSteps == {"VersionAck", "ReadSealedPskAck", "ReadPskHashAck", "FirmwareWriteAck",
             "FirmwareCheckAck", "BootResetAck"}
CompletionSteps == {"Version", "ReadSealedPskCompletion", "ReadPskHashCompletion",
                    "FirmwareWriteCompletion", "FirmwareCheckCompletion"}
InSteps == AckSteps \union CompletionSteps
Steps   == OutSteps \union InSteps \union {"Idle"}

Commands == {"GetVersion", "PskRead", "FirmwareWrite", "FirmwareCheck", "ResetChip"}
CommandOf(s) ==
  CASE s \in SealedStages \union HashStages -> "PskRead"
    [] s \in WriteStages -> "FirmwareWrite"
    [] s \in CheckStages -> "FirmwareCheck"
    [] s \in ResetSteps  -> "ResetChip"
    [] OTHER             -> "GetVersion"

\* Where a write leads, and where an acknowledgement leads.
After(s) ==
  CASE s = "VersionWrite"       -> "VersionAck"
    [] s = "VersionAck"         -> "Version"
    [] s = "ReadSealedPskWrite" -> "ReadSealedPskAck"
    [] s = "ReadSealedPskAck"   -> "ReadSealedPskCompletion"
    [] s = "ReadPskHashWrite"   -> "ReadPskHashAck"
    [] s = "ReadPskHashAck"     -> "ReadPskHashCompletion"
    [] s = "FirmwareWriteBlock" -> "FirmwareWriteAck"
    [] s = "FirmwareWriteAck"   -> "FirmwareWriteCompletion"
    [] s = "FirmwareCheckWrite" -> "FirmwareCheckAck"
    [] s = "FirmwareCheckAck"   -> "FirmwareCheckCompletion"
    [] OTHER                    -> "BootResetAck"

\* A reply names the firmware, the PSK object and its pieces, or a result.
\* "own" is no part of it: it tells a packet asked for by the present engine.
Words == {"none", "IAP", "APP", "sealed", "hash", "refused", "done", "whole", "zero"}
Packet == [kind : {"ack", "reply", "fragment"}, cmd : Commands, word : Words, pieces : Seq(Nat),
           own : BOOLEAN]
AckOf(c) == [kind |-> "ack", cmd |-> c, word |-> "none", pieces |-> <<>>, own |-> TRUE]
ReplyOf(c, w, p) == [kind |-> "reply", cmd |-> c, word |-> w, pieces |-> p, own |-> TRUE]

Fragment == [kind |-> "fragment", cmd |-> "PskRead", word |-> "none", pieces |-> <<>>,
             own |-> FALSE]

\* No process numbers its commands, so this is only a name for them.
Disown(q) == [i \in DOMAIN q |-> [q[i] EXCEPT !.own = FALSE]]

-----------------------------------------------------------------------------
(* The sensor: external, as the driver uses it. *)

Whole == \A c \in DOMAIN flash : flash[c] = "new"
Faults(n) == faults' = faults + n /\ faults' =< MaxFaults

\* The pieces from an offset on, as many as one reply takes.
Smaller(m, n) == IF m < n THEN m ELSE n
Pieces(offset, total) ==
  [i \in 1..Smaller(ReplyPieces, total - offset) |-> offset + i]

Reply(s) ==
  CASE s = "VersionWrite" -> ReplyOf("GetVersion", image, <<>>)
    [] s = "ReadSealedPskWrite" ->
         ReplyOf("PskRead", "sealed", Pieces(Len(sealed), SealedPieces))
    [] s = "ReadPskHashWrite" -> ReplyOf("PskRead", "hash", Pieces(Len(hash), HashPieces))
    [] s = "FirmwareWriteBlock" -> ReplyOf("FirmwareWrite", "done", <<>>)
    [] OTHER -> ReplyOf("FirmwareCheck", IF Whole THEN "whole" ELSE "zero", <<>>)

\* What the host does not fetch stays; what finds no room is lost.
Queued(q) == IF Len(queue) + Len(q) =< MaxQueue THEN queue \o q ELSE queue

\* A command is taken: it is acknowledged and answered.  A chunk is written, or,
\* for a fault, torn without a word.  The reset is acknowledged before it happens.
Answered ==
  /\ ~rebooting
  /\ queue' = Queued(IF step = "BootResetWrite"
                     THEN <<AckOf(CommandOf(step))>>
                     ELSE <<AckOf(CommandOf(step)), Reply(step)>>)
  /\ rebooting' = (step = "BootResetWrite")
  /\ halfFrame' = FALSE
  /\ UNCHANGED image

TakesCommand ==
  /\ step # "FirmwareWriteBlock"
  /\ Answered
  /\ checked' = IF step = "FirmwareCheckWrite" THEN Whole ELSE checked
  /\ UNCHANGED flash

TakesChunk(state) ==
  /\ step = "FirmwareWriteBlock"
  /\ Answered
  /\ flash' = [flash EXCEPT ![chunk] = state]
  /\ checked' = FALSE

\* A PSK read is refused: the status is not OK, or nothing is returned.
Refuses ==
  /\ step \in {"ReadSealedPskWrite", "ReadPskHashWrite"}
  /\ ~rebooting
  /\ queue' = Queued(<<AckOf("PskRead"), ReplyOf("PskRead", "refused", <<>>)>>)
  /\ halfFrame' = FALSE
  /\ UNCHANGED <<image, flash, checked, rebooting>>

\* A rebooting sensor hears nothing, and a command that follows an unfinished
\* frame may be taken for the rest of it.
LosesCommand ==
  /\ rebooting \/ halfFrame
  /\ halfFrame' = FALSE
  /\ UNCHANGED <<queue, image, flash, checked, rebooting>>

Takes(n) == \/ n = 0 /\ (TakesCommand \/ TakesChunk("new") \/ LosesCommand)
            \/ n = 1 /\ (Refuses \/ TakesChunk("torn"))

Reboot ==
  /\ rebooting
  /\ rebooting' = FALSE
  /\ image' = IF checked THEN "APP" ELSE "IAP"
  /\ queue' = <<>>
  /\ halfFrame' = FALSE
  /\ UNCHANGED <<step, engineVars, flash, checked, world, faults>>

-----------------------------------------------------------------------------
(* The host.  Some definitions below are used by no action: slips a change of  *)
(* the code could introduce, each before the one it would take the place of.  *)

StartProbe ==
  /\ step = "Idle"
  /\ step' = "VersionWrite"
  /\ UNCHANGED <<engineVars, sensorVars, world, faults>>

\* The probe ends and frees the engine, with an error unless the sensor runs APP.
EndProbe ==
  /\ step' = "Idle"
  /\ sealed' = <<>> /\ hash' = <<>>
  /\ authenticated' = FALSE
  /\ chunk' = 0 /\ block' = 0
  /\ verdict' = "none"

OneBlockMore == step = "FirmwareWriteBlock" => block = Blocks
LastBlock == step = "FirmwareWriteBlock" => block + 1 = Blocks

\* An OUT transfer completes.  A frame of several blocks reaches the sensor as a
\* whole with its last one.
Write ==
  /\ step \in OutSteps
  /\ LastBlock
  /\ \E n \in 0..1 : Faults(n) /\ Takes(n)
  /\ step' = After(step)
  /\ block' = 0
  /\ UNCHANGED <<sealed, hash, authenticated, chunk, verdict, world>>

WriteBlock ==
  /\ step = "FirmwareWriteBlock"
  /\ ~LastBlock
  /\ block' = block + 1
  /\ UNCHANGED <<step, sealed, hash, authenticated, chunk, verdict, sensorVars,
                 world, faults>>

\* An OUT transfer fails, or the process ends in it: the sensor has it, or not.
WriteFails ==
  /\ step \in OutSteps
  /\ EndProbe
  /\ Faults(1)
  /\ UNCHANGED world
  /\ \/ LastBlock /\ Takes(0)
     \/ /\ halfFrame' \in {halfFrame, step = "FirmwareWriteBlock"}
        /\ UNCHANGED <<queue, image, flash, checked, rebooting>>

\* The handshake and the reset read 64 bytes, the engine 128: a reply that carries
\* a piece of the sealed PSK is longer than the first and leaves a fragment behind.
Strict == step \notin EngineStages
CutShort(p) == Strict /\ p.word = "sealed"

\* One IN transfer takes the packet at the head of the queue.
Read ==
  /\ step \in InSteps
  /\ queue # <<>>
  /\ queue' = IF CutShort(Head(queue)) THEN <<Fragment>> \o Tail(queue) ELSE Tail(queue)
  /\ UNCHANGED <<image, flash, checked, rebooting, halfFrame, world, faults>>

\* matching_bootstrap_ack and matching_completion.
Expected(p) == /\ p.cmd = CommandOf(step)
               /\ p.kind = IF step \in AckSteps THEN "ack" ELSE "reply"
BeforeAck(p) == step \in AckSteps /\ p.cmd = CommandOf(step) /\ p.kind = "reply"

\* Inside the engine an unrelated packet is ignored and the read repeated; in the
\* handshake and after the reset it is an error, as is everywhere one that does not
\* decode.
Ignores(p) == ~Strict /\ p.kind # "fragment" /\ ~Expected(p) /\ ~BeforeAck(p)

ReadIgnored ==
  /\ Read
  /\ Ignores(Head(queue))
  /\ UNCHANGED <<step, engineVars>>

\* append_psk_read: an answer about the object asked for, not longer than what is
\* still missing.
Appends(p, got, object, total) ==
  p.word = object /\ Len(p.pieces) =< total - Len(got)

\* unseal_psk and verify_psk_hash: they hold of the two objects of a provisioned
\* sensor, and of nothing that was put together in another order.
Unchecked(s, h) == TRUE
Authentic(s, h) == /\ provisioned
                   /\ s = [i \in 1..SealedPieces |-> i]
                   /\ h = [i \in 1..HashPieces |-> i]

\* The result of a firmware check must not be zero.
AnyResult(p) == p.word \in {"whole", "zero"}
Passes(p) == p.word = "whole"

\* What ends the probe at once: an unrelated packet where none is allowed, and an
\* answer the engine or the driver cannot go on with.
Rejects(p) ==
  \/ ~Expected(p) /\ ~Ignores(p)
  \/ /\ Expected(p)
     /\ \/ step = "Version" /\ p.word = "IAP" /\ resource # "exact"
        \/ step = "ReadSealedPskCompletion" /\ ~Appends(p, sealed, "sealed", SealedPieces)
        \/ step = "ReadPskHashCompletion"
           /\ \/ ~Appends(p, hash, "hash", HashPieces)
              \/ /\ Len(hash \o p.pieces) = HashPieces
                 /\ ~Authentic(sealed, hash \o p.pieces)
        \/ step = "FirmwareCheckCompletion" /\ ~Passes(p)

ReadRejected ==
  /\ Read
  /\ Rejects(Head(queue))
  /\ EndProbe

\* The sensor runs APP: nothing is left to do here.
FindsApp ==
  /\ Read
  /\ step = "Version"
  /\ Expected(Head(queue)) /\ Head(queue).word = "APP"
  /\ EndProbe

\* bootstrap_begin_iap: the version is IAP and the resource is the exact APP.
ResumesAtCheck == IF Whole THEN "FirmwareCheckWrite" ELSE "ReadSealedPskWrite"
FirstStage == "ReadSealedPskWrite"

Begin ==
  /\ step = "Version"
  /\ queue # <<>>
  /\ Expected(Head(queue)) /\ Head(queue).word = "IAP"
  /\ resource = "exact"
  /\ queue' = Disown(Tail(queue))
  /\ step' = FirstStage
  /\ UNCHANGED <<engineVars, image, flash, checked, rebooting, halfFrame, world, faults>>

\* An acknowledgement, or the reply to a chunk, which is not looked at.
ReadAck ==
  /\ Read
  /\ step \in AckSteps \ {"BootResetAck"}
  /\ Expected(Head(queue))
  /\ step' = After(step)
  /\ UNCHANGED engineVars

ReadSealed ==
  /\ Read
  /\ step = "ReadSealedPskCompletion"
  /\ Expected(Head(queue)) /\ ~Rejects(Head(queue))
  /\ sealed' = sealed \o Head(queue).pieces
  /\ step' = IF Len(sealed') = SealedPieces THEN "ReadPskHashWrite"
                                             ELSE "ReadSealedPskWrite"
  /\ UNCHANGED <<hash, authenticated, chunk, block, verdict>>

ReadHash ==
  /\ Read
  /\ step = "ReadPskHashCompletion"
  /\ Expected(Head(queue)) /\ ~Rejects(Head(queue))
  /\ LET got == hash \o Head(queue).pieces
     IN IF Len(got) = HashPieces
        THEN /\ sealed' = <<>> /\ hash' = <<>>
             /\ authenticated' = TRUE
             /\ step' = "FirmwareWriteBlock"
        ELSE /\ hash' = got
             /\ step' = "ReadPskHashWrite"
             /\ UNCHANGED <<sealed, authenticated>>
  /\ UNCHANGED <<chunk, block, verdict>>

LastChunkMissed(n) == n + 1 < Chunks
MoreChunks(n) == n < Chunks

ChunkDone ==
  /\ Read
  /\ step = "FirmwareWriteCompletion"
  /\ Expected(Head(queue))
  /\ chunk' = chunk + 1
  /\ step' = IF MoreChunks(chunk') THEN "FirmwareWriteBlock" ELSE "FirmwareCheckWrite"
  /\ UNCHANGED <<sealed, hash, authenticated, block, verdict>>

CheckPassed ==
  /\ Read
  /\ step = "FirmwareCheckCompletion"
  /\ Expected(Head(queue)) /\ Passes(Head(queue))
  /\ verdict' = IF Head(queue).own THEN "own" ELSE "stale"
  /\ step' = "BootResetWrite"
  /\ UNCHANGED <<sealed, hash, authenticated, chunk, block>>

\* The reset is acknowledged: the probe ends, and another one finds the APP.
ResetDone ==
  /\ Read
  /\ step = "BootResetAck"
  /\ Expected(Head(queue))
  /\ EndProbe

\* An IN transfer fails, or the process ends in it: a fault, unless the sensor
\* really has nothing to send.
ReadFails ==
  /\ step \in InSteps
  /\ EndProbe
  /\ UNCHANGED <<image, flash, checked, rebooting, halfFrame, world>>
  /\ \/ queue = <<>> /\ UNCHANGED <<queue, faults>>
     \/ Faults(1) /\ queue' \in {queue, IF queue = <<>> THEN queue ELSE Tail(queue)}

-----------------------------------------------------------------------------
Init ==
  /\ step = "Idle"
  /\ sealed = <<>> /\ hash = <<>>
  /\ authenticated = FALSE
  /\ chunk = 0 /\ block = 0
  /\ verdict = "none"
  /\ queue = <<>>
  /\ image = "IAP"
  /\ flash = [c \in 0..(Chunks - 1) |-> "old"]
  /\ checked = FALSE
  /\ rebooting = FALSE
  /\ halfFrame = FALSE
  /\ provisioned \in BOOLEAN
  /\ resource \in {"exact", "other"}
  /\ faults = 0

Reading == \/ ReadIgnored \/ ReadRejected \/ FindsApp \/ Begin \/ ReadAck \/ ReadSealed
           \/ ReadHash \/ ChunkDone \/ CheckPassed \/ ResetDone \/ ReadFails

HostStep == StartProbe \/ Write \/ WriteBlock \/ WriteFails \/ Reading

Next == HostStep \/ Reboot

Spec == Init /\ [][Next]_vars

\* Every transfer carries a time-out, the sensor reboots once it has taken the
\* reset, and somebody starts another probe when one has ended.
FairSpec == Spec /\ WF_vars(HostStep) /\ WF_vars(Reboot)

-----------------------------------------------------------------------------
(* Properties. *)

TypeOK ==
  /\ step \in Steps
  /\ sealed \in Seq(Nat) /\ hash \in Seq(Nat)
  /\ authenticated \in BOOLEAN
  /\ chunk \in 0..Chunks /\ block \in 0..(Blocks - 1)
  /\ verdict \in {"none", "own", "stale"}
  /\ queue \in Seq(Packet)
  /\ image \in {"IAP", "APP"}
  /\ flash \in [0..(Chunks - 1) -> {"old", "new", "torn"}]
  /\ checked \in BOOLEAN
  /\ rebooting \in BOOLEAN
  /\ halfFrame \in BOOLEAN
  /\ provisioned \in BOOLEAN
  /\ resource \in {"exact", "other"}
  /\ faults \in 0..MaxFaults

\* The flash of a sensor is touched only when its persisted PSK has been read and
\* matches the hash it stores, and only with the one firmware the driver knows:
\* through all retries and over all stale packets, a sensor of another owner, or
\* a program given another file, leaves every chunk as it was and IAP running.
OnlyProvisionedWritten ==
  (\E c \in DOMAIN flash : flash[c] # "old") \/ image = "APP"
     => provisioned /\ resource = "exact"

\* The engine looks at no reply to a chunk.  It is the firmware check that finds
\* a chunk that was not written: a reset on the strength of the check of this
\* attempt starts a flash in which every chunk is the new one.
CheckedImageWhole == step \in ResetSteps /\ verdict = "own" => Whole

\* The check the engine accepts is the one it asked for: the completion of an
\* earlier attempt, which looks the same, was skipped or read before.  So it is
\* until more probes were cut off than one attempt has commands: each cut may
\* put the answers one command further behind the questions.
Reads(n) == (n + ReplyPieces - 1) \div ReplyPieces
AttemptCommands == Reads(SealedPieces) + Reads(HashPieces) + Chunks + 1
CheckIsOwn == step \in ResetSteps /\ faults =< AttemptCommands => verdict = "own"

\* However often an attempt is cut off, and wherever, a provisioned sensor runs
\* APP in the end if somebody keeps probing it.
EventuallyBoots == provisioned /\ resource = "exact" ~> image = "APP"
=============================================================================
