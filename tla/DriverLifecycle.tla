---------------------------- MODULE DriverLifecycle ----------------------------
(***************************************************************************)
(* The life of one sensor under the libfprint driver of                    *)
(* src/libfprint-overlay/goodix550a.c: probe (with the cold bootstrap of   *)
(* an IAP sensor and the qualification of the APP it turns into), open     *)
(* (with the recovery of the volatile configuration), the interactive      *)
(* operations and close.  Each libfprint action is a state machine that    *)
(* submits one USB transfer at a time; a transfer may fail, be cancelled   *)
(* or time out at any step, the process that hosts libfprint may go away,  *)
(* and the sensor may lose power.                                          *)
(*                                                                         *)
(* What the sensor queued for the host and nobody read stays queued, also  *)
(* across a restart of the process; a reboot of the sensor drops it.  The  *)
(* steps inside the bootstrap engine and inside an operation belong to     *)
(* other modules: here each is one step that leaves packets behind.        *)
(***************************************************************************)
EXTENDS Integers, Sequences, FiniteSets

CONSTANTS MaxFaults,       \* bound on failed transfers, restarts and power cycles
          MaxQueue         \* bound on the packets the sensor holds for the host

ASSUME LifecycleAssumption == MaxFaults \in Nat /\ MaxQueue \in Nat

VARIABLES
  \* The driver instance (_FpiDeviceGoodix550a) and what libfprint knows of it.
  phase,            \* where the instance is in its life
  step,             \* state of the probe or open SSM, or of the engine under it
  engines,          \* the bridge engines that exist (non-NULL handles)
  claimed,          \* claimed
  powerLost,        \* mcu_power_lost: "lost" when set, "kept" when not
  firmware,         \* firmware
  takenHandoff,     \* post_bootstrap_handoff
  oldUsbInvalid,    \* bootstrap_old_usb_invalid
  report,           \* how the latest action completed
  \* The process.
  handoff,          \* bootstrap_handoff is armed for the port of this sensor
  \* The sensor.
  image,            \* firmware it runs
  config,           \* "kept" or "lost": its volatile configuration
  rebooting,        \* it has taken the reset that ends a bootstrap
  queue,            \* IN packets it holds for the host
  faults            \* faults so far

instance == <<phase, step, engines, claimed, powerLost, firmware, takenHandoff,
              oldUsbInvalid, report>>
sensor   == <<image, config, rebooting, queue>>
vars     == <<instance, handoff, sensor, faults>>

-----------------------------------------------------------------------------
(* Steps and packets. *)

VersionSteps  == {"VersionWrite", "VersionAck", "Version"}
RecoverySteps == {"OtpWrite", "OtpAck", "Otp", "ConfigWrite", "ConfigAck", "Config"}
Operations    == {"capture", "enrollment", "verification", "identification"}

WriteSteps == {"VersionWrite", "ResetWrite", "ChipIdWrite", "BootResetWrite",
               "OtpWrite", "ConfigWrite"}
AckSteps   == {"VersionAck", "ResetAck", "ChipIdAck", "BootResetAck", "OtpAck", "ConfigAck"}
ReplySteps == {"Version", "Reset", "ChipId", "Otp", "Config"}
Steps      == WriteSteps \union AckSteps \union ReplySteps \union {"Bootstrap"} \union Operations

Commands == {"GetVersion", "ResetChip", "ReadRegister", "ReadOtp", "DownloadConfig"}
CommandOf(s) ==
  CASE s \in VersionSteps -> "GetVersion"
    [] s \in {"ChipIdWrite", "ChipIdAck", "ChipId"} -> "ReadRegister"
    [] s \in {"OtpWrite", "OtpAck", "Otp"} -> "ReadOtp"
    [] s \in {"ConfigWrite", "ConfigAck", "Config"} -> "DownloadConfig"
    [] OTHER -> "ResetChip"

\* The next state of the SSM, or of the recovery engine, when a step succeeds.
After(s) ==
  CASE s = "VersionWrite" -> "VersionAck"
    [] s = "VersionAck" -> "Version"
    [] s = "ResetWrite" -> "ResetAck"
    [] s = "ResetAck" -> "Reset"
    [] s = "Reset" -> "ChipIdWrite"
    [] s = "ChipIdWrite" -> "ChipIdAck"
    [] s = "ChipIdAck" -> "ChipId"
    [] s = "BootResetWrite" -> "BootResetAck"
    [] s = "OtpWrite" -> "OtpAck"
    [] s = "OtpAck" -> "Otp"
    [] s = "Otp" -> "ConfigWrite"
    [] s = "ConfigWrite" -> "ConfigAck"
    [] OTHER -> "Config"

Images == {"IAP", "APP", "Unknown"}

\* A packet is an acknowledgement or a reply; "stray" stands for what an
\* operation leaves behind and "broken" for a packet that cannot be decoded.
Packet == [kind : {"ack"}, cmd : Commands, data : {"kept", "lost"}]
          \union [kind : {"reply"}, cmd : Commands, data : Images \union {"good", "bad"}]
          \union [kind : {"stray", "broken"}, cmd : {"none"}, data : {"none"}]
Ack(c)      == [kind |-> "ack", cmd |-> c, data |-> config]
Reply(c, d) == [kind |-> "reply", cmd |-> c, data |-> d]
Stray       == [kind |-> "stray", cmd |-> "none", data |-> "none"]
Broken      == [kind |-> "broken", cmd |-> "none", data |-> "none"]

\* What an abandoned engine may leave in the endpoint: packets of its own, and
\* before them those it has not come to read.
Leftovers == {<<>>, <<Stray>>, <<Broken>>, <<Stray, Broken>>}
Abandoned == Leftovers \union {queue \o l : l \in Leftovers}

-----------------------------------------------------------------------------
(* The sensor. *)

\* n faults happen in this step.
Faults(n) == faults' = faults + n /\ faults' =< MaxFaults

\* The reset that ends a bootstrap is only acknowledged: the reboot follows.
Answers(s) ==
  LET c == CommandOf(s)
  IN CASE s = "BootResetWrite" -> {<<Ack(c)>>}
       [] s = "VersionWrite"   -> {<<Ack(c), Reply(c, image)>>}
       [] OTHER                -> {<<Ack(c), Reply(c, d)>> : d \in {"good", "bad"}}

\* The sensor takes a command while n faults happen; a reply that says it is not
\* well is one more.
SensorReceives(s, n) ==
  \E a \in Answers(s) :
    LET verdict == a[Len(a)].data
    IN /\ Len(queue) + Len(a) =< MaxQueue
       /\ queue' = queue \o a
       /\ Faults(IF verdict = "bad" THEN n + 1 ELSE n)
       /\ config' \in CASE s = "ResetWrite" -> {config, "lost"}
                        [] s = "ConfigWrite" /\ verdict = "good" -> {"kept"}
                        [] OTHER -> {config}
       /\ rebooting' = (rebooting \/ s = "BootResetWrite")
       /\ UNCHANGED image

\* The sensor takes no notice of it.
SensorMisses == Faults(1) /\ UNCHANGED sensor

-----------------------------------------------------------------------------
(* Slips a change to the driver could introduce; the specification uses none of *)
(* them.  Each stands before the definition it is put in the place of.          *)

-----------------------------------------------------------------------------
(* How an action ends.  Each of these is the tail of the callback that ends it, *)
(* up to the call that completes the libfprint action.                          *)

\* probe_done without an error: libfprint offers the sensor to its users.
ProbeCompletes ==
  /\ phase' = "Ready"
  /\ step' = "none"
  /\ engines' = engines \ {"bootstrap"}
  /\ claimed' = FALSE
  /\ report' = "ok"

\* fpi_ssm_mark_failed, then probe_done: libfprint drops the instance.
ProbeFails ==
  /\ phase' = "Failed"
  /\ step' = "none"
  /\ engines' = engines \ {"bootstrap"}
  /\ claimed' = FALSE
  /\ report' = "error"

\* open_done without and with an error.
OpenCompletes ==
  /\ phase' = "Open"
  /\ step' = "none"
  /\ engines' = engines \ {"recovery"}
  /\ report' = "ok"
  /\ UNCHANGED claimed

OpenFailsClaimed ==
  /\ phase' = "Ready"
  /\ step' = "none"
  /\ engines' = engines \ {"recovery"}
  /\ report' = "error"
  /\ UNCHANGED claimed

OpenFailsEngaged ==
  /\ phase' = "Ready"
  /\ step' = "none"
  /\ claimed' = FALSE
  /\ report' = "error"
  /\ UNCHANGED engines

OpenFails ==
  /\ phase' = "Ready"
  /\ step' = "none"
  /\ engines' = engines \ {"recovery"}
  /\ claimed' = FALSE
  /\ report' = "error"

\* capture_fail, enrollment_fail, verification_fail, identification_fail and
\* their *_finish_success counterparts.
OperationCompletes(r) ==
  /\ phase' = "Open"
  /\ step' = "none"
  /\ engines' = engines \ {step}
  /\ report' = r
  /\ UNCHANGED claimed

ActionFails == \/ phase = "Probing" /\ ProbeFails
               \/ phase = "Opening" /\ OpenFails
               \/ phase = "Busy" /\ OperationCompletes("error")

\* The next transfer of the running action.
Goto(s) ==
  /\ step' = s
  /\ UNCHANGED <<phase, engines, claimed, report>>

\* The driver starts an engine, whose first transfer comes next.
Engage(e, s) ==
  /\ step' = s
  /\ engines' = engines \union {e}
  /\ UNCHANGED <<phase, claimed, report>>

-----------------------------------------------------------------------------
(* Transfers of the probe and open state machines. *)

Flags == <<powerLost, firmware, takenHandoff, oldUsbInvalid, handoff>>

Write ==
  /\ step \in WriteSteps
  /\ SensorReceives(step, 0) \/ SensorMisses
  /\ Goto(After(step))
  /\ UNCHANGED Flags

\* Cancelled, timed out or short: the sensor may have taken the command.
WriteFails ==
  /\ step \in WriteSteps
  /\ ActionFails
  /\ SensorReceives(step, 1) \/ SensorMisses
  /\ UNCHANGED Flags

\* An IN transfer takes the packet at the head of the queue.
Read ==
  /\ step \in AckSteps \union ReplySteps
  /\ queue # <<>>
  /\ queue' = Tail(queue)
  /\ UNCHANGED <<image, config, rebooting, faults>>

ReadRetries ==
  /\ step \in AckSteps \union ReplySteps
  /\ queue = <<>>
  /\ UNCHANGED vars

\* Cancelled or timed out; a packet on its way may be lost with it.
ReadFails ==
  /\ step \in AckSteps \union ReplySteps
  /\ ActionFails
  /\ Faults(IF queue = <<>> THEN 0 ELSE 1)
  /\ queue' \in {queue} \union (IF queue = <<>> THEN {} ELSE {Tail(queue)})
  /\ UNCHANGED <<Flags, image, config, rebooting>>

IsAck(p)   == p.kind = "ack" /\ p.cmd = CommandOf(step)
IsReply(p) == p.kind = "reply" /\ p.cmd = CommandOf(step)

\* Outside the recovery engine a packet is the expected one or an error.
Expected(p) == IF step \in AckSteps THEN IsAck(p) ELSE IsReply(p)

LeavesUnexpected ==
  /\ step \in (AckSteps \union ReplySteps) \ RecoverySteps
  /\ queue # <<>>
  /\ ~Expected(Head(queue))
  /\ ActionFails
  /\ UNCHANGED <<Flags, sensor, faults>>

ReadUnexpected ==
  /\ Read
  /\ step \notin RecoverySteps
  /\ ~Expected(Head(queue))
  /\ ActionFails
  /\ UNCHANGED Flags

VersionAckedBlindly ==
  /\ Read
  /\ step = "VersionAck"
  /\ IsAck(Head(queue))
  /\ Goto("Version")
  /\ UNCHANGED Flags

\* open_ack_cb: bit 0x02 of the flags says the volatile configuration is lost.
VersionAcked ==
  /\ Read
  /\ step = "VersionAck"
  /\ IsAck(Head(queue))
  /\ powerLost' = Head(queue).data
  /\ Goto("Version")
  /\ UNCHANGED <<firmware, takenHandoff, oldUsbInvalid, handoff>>

\* probe_version_cb on an IAP sensor: with an acceptable APP resource the probe
\* goes on as a bootstrap (bootstrap_begin_iap).
ProbeFindsIap(resource) ==
  /\ Read
  /\ phase = "Probing" /\ step = "Version"
  /\ IsReply(Head(queue)) /\ Head(queue).data = "IAP"
  /\ firmware' = "IAP"
  /\ IF resource = "exact" THEN Engage("bootstrap", "Bootstrap") ELSE ProbeFails
  /\ UNCHANGED <<powerLost, takenHandoff, oldUsbInvalid, handoff>>

ProbeBootstrapsApp ==
  /\ Read
  /\ phase = "Probing" /\ step = "Version"
  /\ IsReply(Head(queue)) /\ Head(queue).data = "APP"
  /\ firmware' = "APP"
  /\ IF powerLost = "lost" THEN Engage("bootstrap", "Bootstrap") ELSE ProbeCompletes
  /\ UNCHANGED <<powerLost, takenHandoff, oldUsbInvalid, handoff>>

\* probe_version_cb on an APP sensor: the handoff left by a bootstrap is taken,
\* and the sensor qualified, by the first probe that gets here.
ProbeFindsApp ==
  /\ Read
  /\ phase = "Probing" /\ step = "Version"
  /\ IsReply(Head(queue)) /\ Head(queue).data = "APP"
  /\ firmware' = "APP"
  /\ takenHandoff' = handoff
  /\ handoff' = FALSE
  /\ IF handoff THEN Goto("ResetWrite") ELSE ProbeCompletes
  /\ UNCHANGED <<powerLost, oldUsbInvalid>>

\* open_version_cb: an APP sensor is open, or open once its configuration is back.
OpenFindsApp ==
  /\ Read
  /\ phase = "Opening" /\ step = "Version"
  /\ IsReply(Head(queue)) /\ Head(queue).data = "APP"
  /\ firmware' = "APP"
  /\ IF powerLost = "lost" THEN Engage("recovery", "OtpWrite") ELSE OpenCompletes
  /\ UNCHANGED <<powerLost, takenHandoff, oldUsbInvalid, handoff>>

\* Any other version ends the action; only a known one is remembered.
FindsNoApp ==
  /\ Read
  /\ step = "Version"
  /\ IsReply(Head(queue))
  /\ Head(queue).data = "Unknown" \/ (Head(queue).data = "IAP" /\ phase = "Opening")
  /\ firmware' = IF Head(queue).data = "IAP" THEN "IAP" ELSE firmware
  /\ ActionFails
  /\ UNCHANGED <<powerLost, takenHandoff, oldUsbInvalid, handoff>>

\* The qualification: McuResetFingerPrint, then the chip ID.
PostbootRead ==
  /\ Read
  /\ step \in {"ResetAck", "Reset", "ChipIdAck"}
  /\ Expected(Head(queue))
  /\ Goto(After(step))
  /\ UNCHANGED Flags

ChipIdRead ==
  /\ Read
  /\ step = "ChipId"
  /\ IsReply(Head(queue))
  /\ IF Head(queue).data = "good" THEN ProbeCompletes ELSE ProbeFails
  /\ UNCHANGED Flags

-----------------------------------------------------------------------------
(* The bootstrap, as the probe sees it. *)

\* bootstrap_finish_success: F4 was accepted and the reset comes next.
BootstrapSucceeds ==
  /\ step = "Bootstrap"
  /\ step' = "BootResetWrite"
  /\ engines' = engines \ {"bootstrap"}
  /\ queue' \in {<<>>, <<Stray>>}
  /\ UNCHANGED <<phase, claimed, report, Flags, image, config, rebooting,
                 faults>>

\* bootstrap_fail: the engine gave up, or a transfer did.
BootstrapFails ==
  /\ step = "Bootstrap"
  /\ ProbeFails
  /\ queue' \in Abandoned
  /\ Len(queue') =< MaxQueue
  /\ UNCHANGED <<Flags, image, config, rebooting, faults>>

BootResetGoesOn ==
  /\ Read
  /\ step = "BootResetAck"
  /\ IsAck(Head(queue))
  /\ oldUsbInvalid' = TRUE
  /\ Goto("ResetWrite")
  /\ UNCHANGED <<powerLost, firmware, takenHandoff, handoff>>

\* bootstrap_reset_ack_cb: arm the handoff, let go of the old USB instance and
\* end the probe with an error whatever happened.
BootResetAcked ==
  /\ Read
  /\ step = "BootResetAck"
  /\ IsAck(Head(queue))
  /\ handoff' = TRUE
  /\ oldUsbInvalid' = TRUE
  /\ ProbeFails
  /\ UNCHANGED <<powerLost, firmware, takenHandoff>>

-----------------------------------------------------------------------------
(* The recovery engine: A6 GetOtp, then 0x90 DownloadConfig.  It skips what is *)
(* not for it.                                                                *)

Rejects(p) == p.kind = "broken" \/ (step \in AckSteps /\ IsReply(p))

RecoveryAdvances ==
  /\ Read
  /\ step \in {"OtpAck", "Otp", "ConfigAck"}
  /\ Expected(Head(queue))
  /\ Head(queue).data # "bad"
  /\ Goto(After(step))
  /\ UNCHANGED Flags

RecoveryIgnores ==
  /\ Read
  /\ step \in RecoverySteps
  /\ ~Expected(Head(queue)) /\ ~Rejects(Head(queue))
  /\ UNCHANGED <<instance, handoff>>

\* A packet out of order, an OTP that does not validate, a refused configuration.
RecoveryRejects ==
  /\ Read
  /\ step \in RecoverySteps
  /\ Rejects(Head(queue)) \/ (IsReply(Head(queue)) /\ Head(queue).data = "bad")
  /\ ActionFails
  /\ UNCHANGED Flags

RecoveryKeepsReply ==
  /\ Read
  /\ step = "Config"
  /\ IsReply(Head(queue)) /\ Head(queue).data = "good"
  /\ powerLost' = Head(queue).data
  /\ OpenCompletes
  /\ UNCHANGED <<firmware, takenHandoff, oldUsbInvalid, handoff>>

RecoverySucceeds ==
  /\ Read
  /\ step = "Config"
  /\ IsReply(Head(queue)) /\ Head(queue).data = "good"
  /\ powerLost' = "kept"
  /\ OpenCompletes
  /\ UNCHANGED <<firmware, takenHandoff, oldUsbInvalid, handoff>>

-----------------------------------------------------------------------------
(* What libfprint asks of the driver. *)

StartProbe ==
  /\ phase = "Detached"
  /\ phase' = "Probing"
  /\ step' = "VersionWrite"
  /\ claimed' = TRUE
  /\ powerLost' = "kept"
  /\ firmware' = "Unknown"
  /\ oldUsbInvalid' = FALSE
  /\ takenHandoff' = FALSE
  /\ report' = "none"
  /\ UNCHANGED <<engines, handoff, sensor, faults>>

StartOpen ==
  /\ phase = "Ready"
  /\ phase' = "Opening"
  /\ step' = "VersionWrite"
  /\ claimed' = TRUE
  /\ powerLost' = "kept"
  /\ firmware' = "Unknown"
  /\ oldUsbInvalid' = FALSE
  /\ report' = "none"
  /\ UNCHANGED <<engines, takenHandoff, handoff, sensor, faults>>

\* The interface cannot be opened or claimed.
CannotClaim ==
  /\ phase \in {"Detached", "Ready"}
  /\ Faults(1)
  /\ phase' = IF phase = "Ready" THEN "Ready" ELSE "Failed"
  /\ report' = "error"
  /\ UNCHANGED <<step, engines, claimed, Flags, sensor>>

Permitted == firmware = "APP" /\ powerLost = "kept" /\ engines \intersect Operations = {}

\* dev_capture, dev_enroll, dev_verify, dev_identify; "request" says whether the
\* arguments libfprint passes (print, gallery, wait for finger) are acceptable.
StartOperation(k, request) ==
  /\ phase = "Open"
  /\ IF Permitted /\ request = "valid"
     THEN /\ phase' = "Busy"
          /\ report' = "none"
          /\ step' = k
          /\ engines' = engines \union {k}
     ELSE /\ report' = "error"
          /\ UNCHANGED <<phase, step, engines>>
  /\ UNCHANGED <<claimed, Flags, sensor, faults>>

\* A completed operation has consumed the packets it waited for, but may have
\* taken stale ones for its own.
OperationSucceeds ==
  /\ phase = "Busy"
  /\ OperationCompletes("ok")
  /\ queue' \in {<<>>, <<Stray>>}
  /\ UNCHANGED <<Flags, image, config, rebooting, faults>>

\* Refused by the biometric workflow, or broken off with packets still to come.
OperationFails ==
  /\ phase = "Busy"
  /\ OperationCompletes("error")
  /\ \/ queue' = <<>> /\ UNCHANGED faults
     \/ queue' \in Abandoned /\ Len(queue') =< MaxQueue /\ Faults(1)
  /\ UNCHANGED <<Flags, image, config, rebooting>>

Close ==
  /\ phase = "Open"
  /\ phase' = "Ready"
  /\ engines' = {}
  /\ claimed' = FALSE
  /\ report' = "ok"
  /\ UNCHANGED <<step, Flags, sensor, faults>>

-----------------------------------------------------------------------------
(* What happens to the process and to the sensor. *)

\* The instance is gone; an action it had running ends with an error.
InstanceGone ==
  /\ phase' = "Detached"
  /\ step' = "none"
  /\ engines' = {}
  /\ claimed' = FALSE
  /\ powerLost' = "kept"
  /\ firmware' = "Unknown"
  /\ takenHandoff' = FALSE
  /\ oldUsbInvalid' = FALSE
  /\ report' = "none"

\* The handoff is good for ten seconds.
HandoffExpires ==
  /\ handoff
  /\ handoff' = FALSE
  /\ UNCHANGED <<instance, sensor, faults>>

\* The process exits or dies and another one takes over: the sensor keeps what
\* it has queued.
Restart ==
  /\ Faults(1)
  /\ InstanceGone
  /\ handoff' = FALSE
  /\ UNCHANGED <<image, config, rebooting, queue>>

\* The sensor comes back with nothing queued and nothing configured.
Reboots(i) ==
  /\ InstanceGone
  /\ image' = i
  /\ config' = "lost"
  /\ rebooting' = FALSE
  /\ queue' = <<>>
  /\ UNCHANGED handoff

\* After the reset that ends a bootstrap.
Reenumerates ==
  /\ rebooting
  /\ Reboots("APP")
  /\ UNCHANGED faults

PowerCycle(i) ==
  /\ Faults(1)
  /\ Reboots(i)

-----------------------------------------------------------------------------
Init ==
  /\ phase = "Detached"
  /\ step = "none"
  /\ engines = {}
  /\ claimed = FALSE
  /\ powerLost = "kept"
  /\ firmware = "Unknown"
  /\ takenHandoff = FALSE
  /\ oldUsbInvalid = FALSE
  /\ report = "none"
  /\ handoff = FALSE
  /\ image \in Images
  /\ config \in {"kept", "lost"}
  /\ rebooting = FALSE
  /\ queue \in Leftovers
  /\ faults = 0

Step ==
  \/ Write \/ WriteFails \/ ReadFails \/ ReadUnexpected
  \/ VersionAcked \/ (\E r \in {"exact", "unusable"} : ProbeFindsIap(r)) \/ ProbeFindsApp
  \/ OpenFindsApp \/ FindsNoApp \/ PostbootRead \/ ChipIdRead
  \/ BootstrapSucceeds \/ BootstrapFails \/ BootResetAcked
  \/ RecoveryAdvances \/ RecoveryIgnores \/ RecoveryRejects \/ RecoverySucceeds
  \/ OperationSucceeds \/ OperationFails

Next ==
  \/ Step
  \/ StartProbe \/ StartOpen \/ CannotClaim \/ Close
  \/ \E k \in Operations, r \in {"valid", "invalid"} : StartOperation(k, r)
  \/ HandoffExpires \/ Restart \/ Reenumerates
  \/ \E i \in Images : PowerCycle(i)

Spec == Init /\ [][Next]_vars

\* Every transfer carries a timeout, so a running action takes another step; a
\* sensor told to reboot does.
FairSpec == Spec /\ WF_vars(Step) /\ WF_vars(Reenumerates)

-----------------------------------------------------------------------------
(* Properties. *)

TypeOK ==
  /\ phase \in {"Detached", "Probing", "Failed", "Ready", "Opening", "Open", "Busy"}
  /\ step \in Steps \union {"none"}
  /\ engines \subseteq {"bootstrap", "recovery"} \union Operations
  /\ claimed \in BOOLEAN
  /\ powerLost \in {"kept", "lost"}
  /\ firmware \in Images
  /\ takenHandoff \in BOOLEAN
  /\ oldUsbInvalid \in BOOLEAN
  /\ report \in {"none", "ok", "error"}
  /\ handoff \in BOOLEAN
  /\ image \in Images
  /\ config \in {"kept", "lost"}
  /\ rebooting \in BOOLEAN
  /\ queue \in Seq(Packet)
  /\ faults \in 0..MaxFaults

\* However the actions before it ended, no engine outlives the action it was made
\* for, and at most one engine exists.
EngineOwned ==
  /\ engines \intersect Operations # {} => phase = "Busy" /\ engines = {step}
  /\ "recovery" \in engines <=> step \in RecoverySteps
  /\ "bootstrap" \in engines <=> step = "Bootstrap"

\* The interface is claimed exactly while an action or an open device needs it:
\* no failed probe or open keeps it from the next user of the sensor.
ClaimHeldByUse == claimed <=> phase \in {"Probing", "Opening", "Open", "Busy"}

\* An interactive operation runs only on a sensor whose APP firmware runs and
\* whose volatile configuration is in place, whatever acknowledgements of the
\* sensor's past were still queued when the driver asked.
OperatesConfigured == phase = "Busy" => image = "APP" /\ config = "kept"

\* The bootstrap engine writes firmware only into a sensor that runs IAP.
BootstrapsOnlyIap == step = "Bootstrap" => image = "IAP"

\* Once the old USB instance is given up nothing more is sent over it.
OldUsbUntouched == [][oldUsbInvalid /\ oldUsbInvalid' => UNCHANGED queue]_vars

\* Every probe, open and operation comes to its end.
ActionsEnd == phase \in {"Probing", "Opening", "Busy"} ~> phase \notin {"Probing", "Opening", "Busy"}

\* A program that keeps asking gets its sensor opened: each failing open consumes
\* a packet of the past, so stale packets cannot refuse it for ever.
OpensRecover == WF_vars(StartOpen) => (phase = "Ready" ~> phase \in {"Open", "Detached"})
=============================================================================
