------------------------------ MODULE DriverProofs ------------------------------
(***************************************************************************)
(* What holds of a sensor under the driver for any number of failed        *)
(* transfers, restarts and power cycles and for any queue length: an       *)
(* operation runs only on an APP sensor whose volatile configuration is in *)
(* place, and only an IAP sensor is bootstrapped.                          *)
(*                                                                         *)
(* Neither is inductive, because the driver decides on packets that may    *)
(* have been queued long before it asks.  IInv adds that no queued packet  *)
(* promises more than is true now: an acknowledgement that does not report *)
(* lost power, or an accepted configuration, is queued only while the      *)
(* configuration is in place, and a version reply names the firmware that  *)
(* runs.  That survives the fingerprint reset of the qualification, which  *)
(* loses the configuration, only because a sensor is qualified before it   *)
(* was ever configured: the handoff is armed while the configuration is    *)
(* lost, or belongs to an instance that can no longer probe.               *)
(***************************************************************************)
EXTENDS DriverLifecycle, SequenceTheorems, TLAPS

QualifySteps   == {"ResetWrite", "ResetAck", "Reset", "ChipIdWrite", "ChipIdAck", "ChipId"}
BootstrapSteps == {"Bootstrap", "BootResetWrite", "BootResetAck"}
InUse          == {"Ready", "Opening", "Open", "Busy"}

\* Where each action of libfprint can be.
StepFits ==
  /\ phase = "Probing" => step \in VersionSteps \union QualifySteps \union BootstrapSteps
  /\ phase = "Opening" => step \in VersionSteps \union RecoverySteps
  /\ phase = "Busy" => step \in Operations
  /\ phase \notin {"Probing", "Opening", "Busy"} => step = "none"
  /\ oldUsbInvalid => phase = "Failed"

\* A packet that promises nothing that is not so of a sensor that runs firmware i
\* and whose configuration is c.
Honest(p, c, i) ==
  /\ p.kind = "ack" /\ p.cmd = "GetVersion" /\ p.data = "kept" => c = "kept"
  /\ p.kind = "reply" /\ p.cmd = "GetVersion" => p.data = i
  /\ p.kind = "reply" /\ p.cmd = "DownloadConfig" /\ p.data = "good" => c = "kept"

AllHonest(q, c, i) == \A k \in 1..Len(q) : Honest(q[k], c, i)

QueueHonest == AllHonest(queue, config, image)

\* The handoff is armed for a sensor that has not been configured since.
HandoffUnconfigured ==
  /\ handoff => phase = "Failed" \/ config = "lost"
  /\ phase \in InUse \/ step \in QualifySteps => ~handoff
  /\ step = "ResetWrite" => config = "lost"

\* What the driver has learned of the sensor is still so.
LearnedTrue ==
  /\ phase \in InUse \/ step \in QualifySteps => image = "APP"
  /\ step = "Bootstrap" => image = "IAP"
  /\ (step = "Version" \/ phase \in {"Open", "Busy"}) /\ powerLost = "kept" => config = "kept"
  /\ phase = "Busy" => powerLost = "kept"

IInv == /\ TypeOK
        /\ EngineOwned
        /\ ClaimHeldByUse
        /\ StepFits
        /\ QueueHonest
        /\ HandoffUnconfigured
        /\ LearnedTrue

-----------------------------------------------------------------------------
(* The queue. *)

\* Reading keeps what is left of a queue honest, and what is read is.
LEMMA TailHonest ==
  ASSUME NEW q \in Seq(Packet), q # <<>>, NEW c, NEW i, AllHonest(q, c, i)
  PROVE  /\ Tail(q) \in Seq(Packet) /\ AllHonest(Tail(q), c, i)
         /\ Head(q) \in Packet /\ Honest(Head(q), c, i)
  <1>1. /\ Head(q) \in Packet /\ Head(q) = q[1]
        /\ Tail(q) \in Seq(Packet)
        /\ Len(Tail(q)) = Len(q) - 1
        /\ \A k \in 1..Len(Tail(q)) : Tail(q)[k] = q[k + 1]
    BY HeadTailProperties
  <1>2. Len(q) \in Nat /\ Len(q) >= 1
    BY LenProperties, EmptySeq
  <1>3. \A k \in 1..Len(Tail(q)) : k + 1 \in 1..Len(q)
    BY <1>1, <1>2
  <1> QED BY <1>1, <1>2, <1>3 DEF AllHonest

\* Two honest queues make an honest one.
LEMMA ConcatHonest ==
  ASSUME NEW q \in Seq(Packet), NEW r \in Seq(Packet), NEW c, NEW i,
         AllHonest(q, c, i), AllHonest(r, c, i)
  PROVE  q \o r \in Seq(Packet) /\ AllHonest(q \o r, c, i)
  <1>1. /\ q \o r \in Seq(Packet)
        /\ Len(q \o r) = Len(q) + Len(r)
        /\ \A k \in 1..Len(q) + Len(r) :
              (q \o r)[k] = IF k <= Len(q) THEN q[k] ELSE r[k - Len(q)]
    BY ConcatProperties
  <1>2. Len(q) \in Nat /\ Len(r) \in Nat
    BY LenProperties
  <1>3. ASSUME NEW k \in 1..Len(q) + Len(r) PROVE Honest((q \o r)[k], c, i)
    <2>1. CASE k <= Len(q)
      BY <2>1, <1>1, <1>2 DEF AllHonest
    <2>2. CASE ~(k <= Len(q))
      <3>1. k - Len(q) \in 1..Len(r) BY <2>2, <1>2
      <3> QED BY <2>2, <3>1, <1>1 DEF AllHonest
    <2> QED BY <2>1, <2>2
  <1> QED BY <1>1, <1>3 DEF AllHonest

\* What an abandoned engine leaves promises nothing.
LEMMA LeftoversHonest ==
  ASSUME NEW l \in Leftovers, NEW c, NEW i
  PROVE  l \in Seq(Packet) /\ AllHonest(l, c, i)
  <1>1. Stray \in Packet /\ Broken \in Packet BY DEF Stray, Broken, Packet
  <1>2. Honest(Stray, c, i) /\ Honest(Broken, c, i) BY DEF Honest, Stray, Broken
  <1>3. l \in Seq(Packet)
    <2>1. <<>> \in Seq(Packet) BY EmptySeq
    <2>2. <<Stray>> \in Seq(Packet) /\ <<Broken>> \in Seq(Packet) BY <1>1
    <2>3. <<Stray, Broken>> \in Seq(Packet) BY <1>1
    <2> QED BY <2>1, <2>2, <2>3 DEF Leftovers
  <1>4. \A k \in 1..Len(l) : l[k] \in {Stray, Broken} BY DEF Leftovers
  <1> QED BY <1>2, <1>3, <1>4 DEF AllHonest

\* What an abandoned engine leaves behind promises nothing: the queue stays honest.
LEMMA AbandonedHonest ==
  ASSUME NEW q \in Abandoned, queue \in Seq(Packet), NEW c, NEW i, AllHonest(queue, c, i)
  PROVE  q \in Seq(Packet) /\ AllHonest(q, c, i)
  <1>1. CASE q \in Leftovers
    BY <1>1, LeftoversHonest
  <1>2. ASSUME NEW l \in Leftovers, q = queue \o l
        PROVE  q \in Seq(Packet) /\ AllHonest(q, c, i)
    <2>1. l \in Seq(Packet) /\ AllHonest(l, c, i)
      BY LeftoversHonest
    <2> QED BY <1>2, <2>1, ConcatHonest
  <1> QED BY <1>1, <1>2 DEF Abandoned

\* A read takes the honest head of an honest queue.
LEMMA ReadHonest ==
  ASSUME IInv, Read
  PROVE  /\ queue' \in Seq(Packet)
         /\ QueueHonest'
         /\ Head(queue) \in Packet
         /\ Honest(Head(queue), config, image)
  BY TailHonest DEF IInv, TypeOK, Read, QueueHonest

\* A sensor answers truthfully, and a configuration that it accepts is in place
\* with the answer; the reset of the qualification finds nothing to lose.
LEMMA ReceivesHonest ==
  ASSUME IInv, step \in WriteSteps, NEW n, SensorReceives(step, n)
  PROVE  /\ queue' \in Seq(Packet)
         /\ QueueHonest'
         /\ config' \in {"kept", "lost"}
         /\ config' = config \/ (step = "ConfigWrite" /\ config' = "kept")
  <1>1. PICK a \in Answers(step) :
          /\ queue' = queue \o a
          /\ config' \in CASE step = "ResetWrite" -> {config, "lost"}
                        [] step = "ConfigWrite" /\ a[Len(a)].data = "good" -> {"kept"}
                        [] OTHER -> {config}
          /\ image' = image
    BY DEF SensorReceives
  <1>2. config \in {"kept", "lost"} /\ image \in Images /\ queue \in Seq(Packet)
    BY DEF IInv, TypeOK
  <1>3. step = "ResetWrite" => config = "lost"
    BY DEF IInv, HandoffUnconfigured
  <1>4. /\ config' \in {"kept", "lost"}
        /\ config' = config \/ (step = "ConfigWrite" /\ config' = "kept")
    BY <1>1, <1>2, <1>3
  <1>5. AllHonest(queue, config', image)
    BY <1>4 DEF IInv, QueueHonest, AllHonest, Honest
  <1>6. a \in Seq(Packet) /\ AllHonest(a, config', image)
    <2>1. CommandOf(step) \in Commands
      BY DEF WriteSteps, CommandOf, Commands, VersionSteps
    <2>2. Ack(CommandOf(step)) \in Packet /\ Honest(Ack(CommandOf(step)), config', image)
      BY <2>1, <1>2, <1>4 DEF Ack, Packet, Honest
    <2>3. CASE step = "BootResetWrite"
      <3>1. a = <<Ack(CommandOf(step))>>
        BY <2>3, <1>1 DEF Answers
      <3>2. Len(a) = 1 /\ a[1] = Ack(CommandOf(step))
        BY <3>1
      <3> QED BY <3>1, <3>2, <2>2 DEF AllHonest
    <2>4. CASE step # "BootResetWrite"
      <3>1. PICK d \in Images \union {"good", "bad"} :
              /\ a = <<Ack(CommandOf(step)), Reply(CommandOf(step), d)>>
              /\ step = "VersionWrite" => d = image
              /\ step # "VersionWrite" => d \in {"good", "bad"}
        BY <2>4, <1>1, <1>2 DEF Answers
      <3>2. Len(a) = 2 /\ a[1] = Ack(CommandOf(step)) /\ a[2] = Reply(CommandOf(step), d)
        BY <3>1
      <3>3. Reply(CommandOf(step), d) \in Packet
        BY <2>1 DEF Reply, Packet
      <3>4. CommandOf(step) = "GetVersion" => step = "VersionWrite"
        BY DEF CommandOf, VersionSteps, WriteSteps
      <3>5. CommandOf(step) = "DownloadConfig" => step = "ConfigWrite"
        BY DEF CommandOf, VersionSteps, WriteSteps
      <3>6. step = "ConfigWrite" /\ d = "good" => config' = "kept"
        BY <1>1, <3>2 DEF Reply
      <3>7. Honest(Reply(CommandOf(step), d), config', image)
        BY <3>1, <3>4, <3>5, <3>6 DEF Reply, Honest
      <3> QED BY <3>1, <3>2, <3>3, <3>7, <2>2 DEF AllHonest
    <2> QED BY <2>3, <2>4
  <1> QED BY <1>1, <1>2, <1>4, <1>5, <1>6, ConcatHonest DEF QueueHonest

-----------------------------------------------------------------------------
(* Every step keeps the invariant: first what an action of the driver does when *)
(* it ends, then the steps one by one.                                          *)

\* The type invariant but for the queue and the sensor.
DriverType ==
  /\ phase \in {"Detached", "Probing", "Failed", "Ready", "Opening", "Open", "Busy"}
  /\ step \in Steps \union {"none"}
  /\ engines \subseteq {"bootstrap", "recovery"} \union Operations
  /\ claimed \in BOOLEAN
  /\ powerLost \in {"kept", "lost"}
  /\ firmware \in Images
  /\ takenHandoff \in BOOLEAN
  /\ oldUsbInvalid \in BOOLEAN
  /\ report \in {"none", "ok", "error"}
  /\ handoff \in BOOLEAN

\* However an action fails (ProbeFails, OpenFails, an operation's error), its engine
\* and its claim go with it and nothing learned becomes untrue.
LEMMA FailKeeps ==
  ASSUME IInv, ActionFails, powerLost' = powerLost, takenHandoff' = takenHandoff,
         oldUsbInvalid' = oldUsbInvalid, handoff' = handoff, firmware' \in Images,
         image' = image, config' = config \/ (config' = "kept" /\ ~handoff)
  PROVE  /\ DriverType' /\ EngineOwned' /\ ClaimHeldByUse' /\ StepFits'
         /\ HandoffUnconfigured' /\ LearnedTrue'
  <1> USE DEF VersionSteps, RecoverySteps, QualifySteps, BootstrapSteps, InUse, Operations,
              WriteSteps, AckSteps, ReplySteps, Steps, Images
  <1>1. CASE phase = "Probing" /\ ProbeFails
    <2>1. DriverType'
      BY <1>1 DEF IInv, TypeOK, DriverType, ProbeFails
    <2>2. (EngineOwned /\ ClaimHeldByUse /\ StepFits)'
      BY <1>1 DEF IInv, EngineOwned, ClaimHeldByUse, StepFits, ProbeFails
    <2>3. (HandoffUnconfigured /\ LearnedTrue)'
      BY <1>1 DEF IInv, TypeOK, HandoffUnconfigured, LearnedTrue, ProbeFails
    <2> QED BY <2>1, <2>2, <2>3
  <1>2. CASE phase = "Opening" /\ OpenFails
    <2>1. DriverType'
      BY <1>2 DEF IInv, TypeOK, DriverType, OpenFails
    <2>2. (EngineOwned /\ ClaimHeldByUse /\ StepFits)'
      BY <1>2 DEF IInv, EngineOwned, ClaimHeldByUse, StepFits, OpenFails
    <2>3. (HandoffUnconfigured /\ LearnedTrue)'
      BY <1>2 DEF IInv, TypeOK, HandoffUnconfigured, LearnedTrue, OpenFails
    <2> QED BY <2>1, <2>2, <2>3
  <1>3. CASE phase = "Busy" /\ OperationCompletes("error")
    <2>1. DriverType'
      BY <1>3 DEF IInv, TypeOK, DriverType, OperationCompletes
    <2>2. (EngineOwned /\ ClaimHeldByUse /\ StepFits)'
      BY <1>3 DEF IInv, EngineOwned, ClaimHeldByUse, StepFits, OperationCompletes
    <2>3. (HandoffUnconfigured /\ LearnedTrue)'
      BY <1>3 DEF IInv, TypeOK, HandoffUnconfigured, LearnedTrue, OperationCompletes
    <2> QED BY <2>1, <2>2, <2>3
  <1> QED BY <1>1, <1>2, <1>3 DEF ActionFails

\* The steps that read a packet: the packet is honest, and so is the rest.
LEMMA ReadsKeep ==
  ASSUME IInv, Read,
         \/ ReadUnexpected \/ VersionAcked \/ (\E r \in {"exact", "unusable"} : ProbeFindsIap(r))
         \/ ProbeFindsApp \/ OpenFindsApp \/ FindsNoApp \/ PostbootRead \/ ChipIdRead
         \/ BootResetAcked \/ RecoveryAdvances \/ RecoveryIgnores \/ RecoveryRejects
         \/ RecoverySucceeds
  PROVE  IInv'
  <1> USE DEF VersionSteps, RecoverySteps, QualifySteps, BootstrapSteps, InUse, Operations,
              WriteSteps, AckSteps, ReplySteps, Steps, Images
  <1>1. /\ queue' \in Seq(Packet) /\ QueueHonest'
        /\ Head(queue) \in Packet /\ Honest(Head(queue), config, image)
    BY ReadHonest
  <1>2. /\ image' = image /\ config' = config /\ rebooting' = rebooting /\ faults' = faults
    BY DEF Read
  <1>3. CASE ReadUnexpected
    <2>1. /\ DriverType' /\ EngineOwned' /\ ClaimHeldByUse' /\ StepFits'
          /\ HandoffUnconfigured' /\ LearnedTrue'
      BY <1>1, <1>2, <1>3, FailKeeps DEF IInv, TypeOK, ReadUnexpected, Flags
    <2> QED BY <1>1, <1>2, <2>1 DEF IInv, TypeOK, DriverType
  <1>4. CASE VersionAcked
    <2>1. DriverType'
      BY <1>1, <1>2, <1>4 DEF IInv, TypeOK, DriverType, VersionAcked, Goto, IsAck, Packet
    <2>2. (EngineOwned /\ ClaimHeldByUse /\ StepFits)'
      BY <1>1, <1>2, <1>4 DEF IInv, TypeOK, EngineOwned, ClaimHeldByUse, StepFits,
         VersionAcked, Goto
    <2>3. (HandoffUnconfigured /\ LearnedTrue)'
      BY <1>1, <1>2, <1>4 DEF IInv, TypeOK, StepFits, HandoffUnconfigured, LearnedTrue,
         VersionAcked, Goto, IsAck, CommandOf, Honest
    <2> QED BY <1>1, <1>2, <2>1, <2>2, <2>3 DEF IInv, TypeOK, DriverType
  <1>5. CASE ProbeFindsApp
    <2>1. DriverType'
      BY <1>1, <1>2, <1>5 DEF IInv, TypeOK, DriverType, ProbeFindsApp, Goto, ProbeCompletes
    <2>2. (EngineOwned /\ ClaimHeldByUse /\ StepFits)'
      BY <1>1, <1>2, <1>5 DEF IInv, TypeOK, EngineOwned, ClaimHeldByUse, StepFits,
         ProbeFindsApp, Goto, ProbeCompletes
    <2>3. (HandoffUnconfigured /\ LearnedTrue)'
      BY <1>1, <1>2, <1>5 DEF IInv, TypeOK, StepFits, HandoffUnconfigured, LearnedTrue,
         ProbeFindsApp, Goto, ProbeCompletes, IsReply, CommandOf, Honest
    <2> QED BY <1>1, <1>2, <2>1, <2>2, <2>3 DEF IInv, TypeOK, DriverType
  <1>6. CASE FindsNoApp
    <2>1. /\ DriverType' /\ EngineOwned' /\ ClaimHeldByUse' /\ StepFits'
          /\ HandoffUnconfigured' /\ LearnedTrue'
      BY <1>1, <1>2, <1>6, FailKeeps DEF IInv, TypeOK, FindsNoApp
    <2> QED BY <1>1, <1>2, <2>1 DEF IInv, TypeOK, DriverType
  <1>7. CASE PostbootRead
    <2>1. DriverType'
      BY <1>1, <1>2, <1>7 DEF IInv, TypeOK, DriverType, PostbootRead, Goto, Flags, After
    <2>2. (EngineOwned /\ ClaimHeldByUse /\ StepFits)'
      BY <1>1, <1>2, <1>7 DEF IInv, TypeOK, EngineOwned, ClaimHeldByUse, StepFits,
         PostbootRead, Goto, Flags, After
    <2>3. (HandoffUnconfigured /\ LearnedTrue)'
      BY <1>1, <1>2, <1>7 DEF IInv, TypeOK, StepFits, HandoffUnconfigured, LearnedTrue,
         PostbootRead, Goto, Flags, After
    <2> QED BY <1>1, <1>2, <2>1, <2>2, <2>3 DEF IInv, TypeOK, DriverType
  <1>8. CASE ChipIdRead
    <2>1. DriverType'
      BY <1>1, <1>2, <1>8 DEF IInv, TypeOK, DriverType, ChipIdRead, ProbeCompletes,
         ProbeFails, Flags
    <2>2. (EngineOwned /\ ClaimHeldByUse /\ StepFits)'
      BY <1>1, <1>2, <1>8 DEF IInv, TypeOK, EngineOwned, ClaimHeldByUse, StepFits,
         ChipIdRead, ProbeCompletes, ProbeFails, Flags
    <2>3. (HandoffUnconfigured /\ LearnedTrue)'
      BY <1>1, <1>2, <1>8 DEF IInv, TypeOK, StepFits, HandoffUnconfigured, LearnedTrue,
         ChipIdRead, ProbeCompletes, ProbeFails, Flags
    <2> QED BY <1>1, <1>2, <2>1, <2>2, <2>3 DEF IInv, TypeOK, DriverType
  <1>9. CASE BootResetAcked
    <2>1. DriverType'
      BY <1>1, <1>2, <1>9 DEF IInv, TypeOK, DriverType, BootResetAcked, ProbeFails
    <2>2. (EngineOwned /\ ClaimHeldByUse /\ StepFits)'
      BY <1>1, <1>2, <1>9 DEF IInv, TypeOK, EngineOwned, ClaimHeldByUse, StepFits,
         BootResetAcked, ProbeFails
    <2>3. (HandoffUnconfigured /\ LearnedTrue)'
      BY <1>1, <1>2, <1>9 DEF IInv, TypeOK, StepFits, HandoffUnconfigured, LearnedTrue,
         BootResetAcked, ProbeFails
    <2> QED BY <1>1, <1>2, <2>1, <2>2, <2>3 DEF IInv, TypeOK, DriverType
  <1>10. CASE RecoveryAdvances
    <2>1. DriverType'
      BY <1>1, <1>2, <1>10 DEF IInv, TypeOK, DriverType, RecoveryAdvances, Goto, Flags,
         After
    <2>2. (EngineOwned /\ ClaimHeldByUse /\ StepFits)'
      BY <1>1, <1>2, <1>10 DEF IInv, TypeOK, EngineOwned, ClaimHeldByUse, StepFits,
         RecoveryAdvances, Goto, Flags, After
    <2>3. (HandoffUnconfigured /\ LearnedTrue)'
      BY <1>1, <1>2, <1>10 DEF IInv, TypeOK, StepFits, HandoffUnconfigured, LearnedTrue,
         RecoveryAdvances, Goto, Flags, After
    <2> QED BY <1>1, <1>2, <2>1, <2>2, <2>3 DEF IInv, TypeOK, DriverType
  <1>11. CASE RecoveryIgnores
    <2>1. DriverType'
      BY <1>1, <1>2, <1>11 DEF IInv, TypeOK, DriverType, RecoveryIgnores, instance
    <2>2. (EngineOwned /\ ClaimHeldByUse /\ StepFits)'
      BY <1>1, <1>2, <1>11 DEF IInv, TypeOK, EngineOwned, ClaimHeldByUse, StepFits,
         RecoveryIgnores, instance
    <2>3. (HandoffUnconfigured /\ LearnedTrue)'
      BY <1>1, <1>2, <1>11 DEF IInv, TypeOK, StepFits, HandoffUnconfigured, LearnedTrue,
         RecoveryIgnores, instance
    <2> QED BY <1>1, <1>2, <2>1, <2>2, <2>3 DEF IInv, TypeOK, DriverType
  <1>12. CASE RecoveryRejects
    <2>1. /\ DriverType' /\ EngineOwned' /\ ClaimHeldByUse' /\ StepFits'
          /\ HandoffUnconfigured' /\ LearnedTrue'
      BY <1>1, <1>2, <1>12, FailKeeps DEF IInv, TypeOK, RecoveryRejects, Flags
    <2> QED BY <1>1, <1>2, <2>1 DEF IInv, TypeOK, DriverType
  <1>13. CASE RecoverySucceeds
    <2>1. DriverType'
      BY <1>1, <1>2, <1>13 DEF IInv, TypeOK, DriverType, RecoverySucceeds, OpenCompletes
    <2>2. (EngineOwned /\ ClaimHeldByUse /\ StepFits)'
      BY <1>1, <1>2, <1>13 DEF IInv, TypeOK, EngineOwned, ClaimHeldByUse, StepFits,
         RecoverySucceeds, OpenCompletes
    <2>3. (HandoffUnconfigured /\ LearnedTrue)'
      BY <1>1, <1>2, <1>13 DEF IInv, TypeOK, StepFits, HandoffUnconfigured, LearnedTrue,
         RecoverySucceeds, OpenCompletes, IsReply, CommandOf, Honest
    <2> QED BY <1>1, <1>2, <2>1, <2>2, <2>3 DEF IInv, TypeOK, DriverType
  <1>14. CASE OpenFindsApp
    <2>1. /\ handoff' = handoff /\ takenHandoff' = takenHandoff /\ powerLost' = powerLost
          /\ oldUsbInvalid' = oldUsbInvalid /\ firmware' = "APP"
          /\ phase = "Opening" /\ step = "Version"
      BY <1>14 DEF OpenFindsApp
    <2>2. CASE powerLost = "lost"
      <3>1. Engage("recovery", "OtpWrite")
        BY <1>14, <2>2 DEF OpenFindsApp
      <3>2. DriverType'
        BY <2>1, <3>1 DEF IInv, TypeOK, DriverType, Engage
      <3>3. (EngineOwned /\ ClaimHeldByUse /\ StepFits)'
        BY <2>1, <3>1 DEF IInv, EngineOwned, ClaimHeldByUse, StepFits, Engage
      <3>4. (HandoffUnconfigured /\ LearnedTrue)'
        BY <1>2, <2>1, <3>1 DEF IInv, HandoffUnconfigured, LearnedTrue, Engage
      <3> QED BY <1>1, <1>2, <3>2, <3>3, <3>4 DEF IInv, TypeOK, DriverType
    <2>3. CASE powerLost # "lost"
      <3>1. OpenCompletes
        BY <1>14, <2>3 DEF OpenFindsApp
      <3>2. DriverType'
        BY <2>1, <3>1 DEF IInv, TypeOK, DriverType, OpenCompletes
      <3>3. (EngineOwned /\ ClaimHeldByUse /\ StepFits)'
        BY <2>1, <3>1 DEF IInv, EngineOwned, ClaimHeldByUse, StepFits, OpenCompletes
      <3>4. (HandoffUnconfigured /\ LearnedTrue)'
        BY <1>2, <2>1, <3>1 DEF IInv, HandoffUnconfigured, LearnedTrue, OpenCompletes
      <3> QED BY <1>1, <1>2, <3>2, <3>3, <3>4 DEF IInv, TypeOK, DriverType
    <2> QED BY <2>2, <2>3
  <1>15. ASSUME NEW r \in {"exact", "unusable"}, ProbeFindsIap(r) PROVE IInv'
    <2>1. DriverType'
      BY <1>1, <1>2, <1>15 DEF IInv, TypeOK, DriverType, ProbeFindsIap, Engage, ProbeFails
    <2>2. (EngineOwned /\ ClaimHeldByUse /\ StepFits)'
      BY <1>1, <1>2, <1>15 DEF IInv, TypeOK, EngineOwned, ClaimHeldByUse, StepFits,
         ProbeFindsIap, Engage, ProbeFails
    <2>3. (HandoffUnconfigured /\ LearnedTrue)'
      BY <1>1, <1>2, <1>15 DEF IInv, TypeOK, StepFits, HandoffUnconfigured, LearnedTrue,
         ProbeFindsIap, Engage, ProbeFails, IsReply, CommandOf, Honest
    <2> QED BY <1>1, <1>2, <2>1, <2>2, <2>3 DEF IInv, TypeOK, DriverType
  <1> QED BY <1>3, <1>4, <1>5, <1>6, <1>7, <1>8, <1>9, <1>10, <1>11, <1>12, <1>13, <1>14, <1>15

\* A sensor that does not answer keeps everything as it is.
LEMMA MissesHonest ==
  ASSUME IInv, SensorMisses
  PROVE  /\ queue' \in Seq(Packet) /\ QueueHonest'
         /\ image' = image /\ config' = config /\ rebooting' = rebooting
         /\ faults' \in 0..MaxFaults
  BY LifecycleAssumption DEF IInv, TypeOK, SensorMisses, Faults, sensor, QueueHonest

\* Faults stay within their bound.
LEMMA ReceivesType ==
  ASSUME IInv, step \in WriteSteps, NEW n \in {0, 1}, SensorReceives(step, n)
  PROVE  /\ image' = image /\ rebooting' \in BOOLEAN /\ faults' \in 0..MaxFaults
  <1>1. /\ image' = image
        /\ rebooting' = (rebooting \/ step = "BootResetWrite")
        /\ \E m \in {n, n + 1} : faults' = faults + m /\ faults' =< MaxFaults
    BY DEF SensorReceives, Faults
  <1>2. rebooting' \in BOOLEAN
    BY <1>1
  <1>3. faults' \in 0..MaxFaults
    BY <1>1, LifecycleAssumption DEF IInv, TypeOK
  <1> QED BY <1>1, <1>2, <1>3

\* The steps that send a command, and the transfers that fail.
LEMMA TransfersKeep ==
  ASSUME IInv, Write \/ WriteFails \/ ReadFails
  PROVE  IInv'
  <1> USE DEF VersionSteps, RecoverySteps, QualifySteps, BootstrapSteps, InUse, Operations,
              WriteSteps, AckSteps, ReplySteps, Steps, Images
  <1>1. ASSUME step \in WriteSteps, NEW n \in {0, 1}, SensorReceives(step, n) \/ SensorMisses
        PROVE  /\ queue' \in Seq(Packet) /\ QueueHonest'
               /\ image' = image /\ rebooting' \in BOOLEAN /\ faults' \in 0..MaxFaults
               /\ config' \in {"kept", "lost"}
               /\ config' = config \/ (step = "ConfigWrite" /\ config' = "kept")
    <2>1. CASE SensorReceives(step, n)
      BY <1>1, <2>1, ReceivesHonest, ReceivesType
    <2>2. CASE SensorMisses
      BY <2>2, MissesHonest DEF IInv, TypeOK
    <2> QED BY <1>1, <2>1, <2>2
  <1>2. step = "ConfigWrite" => phase = "Opening" /\ ~handoff
    BY DEF IInv, StepFits, HandoffUnconfigured
  <1>3. CASE Write
    <2>1. /\ queue' \in Seq(Packet) /\ QueueHonest'
          /\ image' = image /\ rebooting' \in BOOLEAN /\ faults' \in 0..MaxFaults
          /\ config' \in {"kept", "lost"}
          /\ config' = config \/ (step = "ConfigWrite" /\ config' = "kept")
      BY <1>1, <1>3 DEF Write
    <2>2. DriverType'
      BY <1>3 DEF IInv, TypeOK, DriverType, Write, Goto, Flags, After
    <2>3. (EngineOwned /\ ClaimHeldByUse /\ StepFits)'
      BY <1>3 DEF IInv, TypeOK, EngineOwned, ClaimHeldByUse, StepFits, Write, Goto, Flags, After
    <2>4. (HandoffUnconfigured /\ LearnedTrue)'
      BY <1>2, <1>3, <2>1 DEF IInv, TypeOK, StepFits, HandoffUnconfigured, LearnedTrue, Write,
         Goto, Flags, After
    <2> QED BY <2>1, <2>2, <2>3, <2>4 DEF IInv, TypeOK, DriverType
  <1>4. CASE WriteFails
    <2>1. /\ queue' \in Seq(Packet) /\ QueueHonest'
          /\ image' = image /\ rebooting' \in BOOLEAN /\ faults' \in 0..MaxFaults
          /\ config' \in {"kept", "lost"}
          /\ config' = config \/ (step = "ConfigWrite" /\ config' = "kept")
      BY <1>1, <1>4 DEF WriteFails
    <2>2. /\ DriverType' /\ EngineOwned' /\ ClaimHeldByUse' /\ StepFits'
          /\ HandoffUnconfigured' /\ LearnedTrue'
      BY <1>2, <1>4, <2>1, FailKeeps DEF IInv, TypeOK, WriteFails, Flags
    <2> QED BY <2>1, <2>2 DEF IInv, TypeOK, DriverType
  <1>5. CASE ReadFails
    <2>1. queue' = queue \/ (queue # <<>> /\ queue' = Tail(queue))
      BY <1>5 DEF ReadFails
    <2>2. image' = image /\ config' = config /\ rebooting' = rebooting
      BY <1>5 DEF ReadFails
    <2>3. queue' \in Seq(Packet) /\ QueueHonest'
      BY <2>1, <2>2, TailHonest DEF IInv, TypeOK, QueueHonest
    <2>4. faults' \in 0..MaxFaults
      BY <1>5, LifecycleAssumption DEF IInv, TypeOK, ReadFails, Faults
    <2>5. /\ DriverType' /\ EngineOwned' /\ ClaimHeldByUse' /\ StepFits'
          /\ HandoffUnconfigured' /\ LearnedTrue'
      BY <1>5, <2>2, FailKeeps DEF IInv, TypeOK, ReadFails, Flags
    <2> QED BY <2>2, <2>3, <2>4, <2>5 DEF IInv, TypeOK, DriverType
  <1> QED BY <1>3, <1>4, <1>5

\* The steps that stand for a bootstrap engine or an operation.
LEMMA EnginesKeep ==
  ASSUME IInv, BootstrapSucceeds \/ BootstrapFails \/ OperationSucceeds \/ OperationFails
  PROVE  IInv'
  <1> USE DEF VersionSteps, RecoverySteps, QualifySteps, BootstrapSteps, InUse, Operations,
              WriteSteps, AckSteps, ReplySteps, Steps, Images
  <1>1. CASE BootstrapSucceeds
    <2>1. image' = image /\ config' = config /\ rebooting' = rebooting
      BY <1>1 DEF BootstrapSucceeds
    <2>2. queue' \in Seq(Packet) /\ QueueHonest' /\ faults' \in 0..MaxFaults
      <3>1. queue' \in Leftovers /\ faults' = faults
        BY <1>1 DEF BootstrapSucceeds, Leftovers
      <3> QED BY <2>1, <3>1, LeftoversHonest DEF IInv, TypeOK, QueueHonest
    <2>3. DriverType'
      BY <1>1 DEF IInv, TypeOK, DriverType, BootstrapSucceeds, Flags
    <2>4. (EngineOwned /\ ClaimHeldByUse /\ StepFits)'
      BY <1>1 DEF IInv, TypeOK, EngineOwned, ClaimHeldByUse, StepFits, BootstrapSucceeds,
         Flags
    <2>5. (HandoffUnconfigured /\ LearnedTrue)'
      BY <1>1, <2>1 DEF IInv, TypeOK, StepFits, HandoffUnconfigured, LearnedTrue,
         BootstrapSucceeds, Flags
    <2> QED BY <2>1, <2>2, <2>3, <2>4, <2>5 DEF IInv, TypeOK, DriverType
  <1>2. CASE BootstrapFails
    <2>1. image' = image /\ config' = config /\ rebooting' = rebooting
      BY <1>2 DEF BootstrapFails
    <2>2. queue' \in Seq(Packet) /\ QueueHonest' /\ faults' \in 0..MaxFaults
      <3>1. queue' \in Abandoned /\ faults' = faults
        BY <1>2 DEF BootstrapFails
      <3> QED BY <2>1, <3>1, AbandonedHonest DEF IInv, TypeOK, QueueHonest
    <2>3. DriverType'
      BY <1>2 DEF IInv, TypeOK, DriverType, BootstrapFails, ProbeFails, Flags
    <2>4. (EngineOwned /\ ClaimHeldByUse /\ StepFits)'
      BY <1>2 DEF IInv, TypeOK, EngineOwned, ClaimHeldByUse, StepFits, BootstrapFails,
         ProbeFails, Flags
    <2>5. (HandoffUnconfigured /\ LearnedTrue)'
      BY <1>2, <2>1 DEF IInv, TypeOK, StepFits, HandoffUnconfigured, LearnedTrue,
         BootstrapFails, ProbeFails, Flags
    <2> QED BY <2>1, <2>2, <2>3, <2>4, <2>5 DEF IInv, TypeOK, DriverType
  <1>3. CASE OperationSucceeds
    <2>1. image' = image /\ config' = config /\ rebooting' = rebooting
      BY <1>3 DEF OperationSucceeds
    <2>2. queue' \in Seq(Packet) /\ QueueHonest' /\ faults' \in 0..MaxFaults
      <3>1. queue' \in Leftovers /\ faults' = faults
        BY <1>3 DEF OperationSucceeds, Leftovers
      <3> QED BY <2>1, <3>1, LeftoversHonest DEF IInv, TypeOK, QueueHonest
    <2>3. DriverType'
      BY <1>3 DEF IInv, TypeOK, DriverType, OperationSucceeds, OperationCompletes, Flags
    <2>4. (EngineOwned /\ ClaimHeldByUse /\ StepFits)'
      BY <1>3 DEF IInv, TypeOK, EngineOwned, ClaimHeldByUse, StepFits, OperationSucceeds,
         OperationCompletes, Flags
    <2>5. (HandoffUnconfigured /\ LearnedTrue)'
      BY <1>3, <2>1 DEF IInv, TypeOK, StepFits, HandoffUnconfigured, LearnedTrue,
         OperationSucceeds, OperationCompletes, Flags
    <2> QED BY <2>1, <2>2, <2>3, <2>4, <2>5 DEF IInv, TypeOK, DriverType
  <1>4. CASE OperationFails
    <2>1. image' = image /\ config' = config /\ rebooting' = rebooting
      BY <1>4 DEF OperationFails
    <2>2. queue' \in Seq(Packet) /\ QueueHonest' /\ faults' \in 0..MaxFaults
      <3>1. queue' \in Abandoned
        BY <1>4 DEF OperationFails, Abandoned, Leftovers
      <3>2. faults' \in 0..MaxFaults
        BY <1>4, LifecycleAssumption DEF IInv, TypeOK, OperationFails, Faults
      <3> QED BY <2>1, <3>1, <3>2, AbandonedHonest DEF IInv, TypeOK, QueueHonest
    <2>3. DriverType'
      BY <1>4 DEF IInv, TypeOK, DriverType, OperationFails, OperationCompletes, Flags
    <2>4. (EngineOwned /\ ClaimHeldByUse /\ StepFits)'
      BY <1>4 DEF IInv, TypeOK, EngineOwned, ClaimHeldByUse, StepFits, OperationFails,
         OperationCompletes, Flags
    <2>5. (HandoffUnconfigured /\ LearnedTrue)'
      BY <1>4, <2>1 DEF IInv, TypeOK, StepFits, HandoffUnconfigured, LearnedTrue,
         OperationFails, OperationCompletes, Flags
    <2> QED BY <2>1, <2>2, <2>3, <2>4, <2>5 DEF IInv, TypeOK, DriverType
  <1> QED BY <1>1, <1>2, <1>3, <1>4

\* What libfprint asks, and the handoff that expires.
LEMMA RequestsKeep ==
  ASSUME IInv,
         \/ StartProbe \/ StartOpen \/ CannotClaim \/ Close \/ HandoffExpires
         \/ \E o \in Operations, r \in {"valid", "invalid"} : StartOperation(o, r)
  PROVE  IInv'
  <1> USE DEF VersionSteps, RecoverySteps, QualifySteps, BootstrapSteps, InUse, Operations,
              WriteSteps, AckSteps, ReplySteps, Steps, Images
  <1>1. CASE StartProbe
    <2>1. /\ queue' = queue /\ image' = image /\ config' = config /\ rebooting' = rebooting
          /\ faults' \in 0..MaxFaults
      BY <1>1, LifecycleAssumption DEF IInv, TypeOK, StartProbe, sensor, Faults
    <2>2. queue' \in Seq(Packet) /\ QueueHonest'
      BY <2>1 DEF IInv, TypeOK, QueueHonest
    <2>3. DriverType'
      BY <1>1 DEF IInv, TypeOK, DriverType, StartProbe
    <2>4. (EngineOwned /\ ClaimHeldByUse /\ StepFits)'
      BY <1>1 DEF IInv, TypeOK, EngineOwned, ClaimHeldByUse, StepFits, StartProbe
    <2>5. (HandoffUnconfigured /\ LearnedTrue)'
      BY <1>1, <2>1 DEF IInv, TypeOK, StepFits, HandoffUnconfigured, LearnedTrue, StartProbe
    <2> QED BY <2>1, <2>2, <2>3, <2>4, <2>5 DEF IInv, TypeOK, DriverType
  <1>2. CASE StartOpen
    <2>1. /\ queue' = queue /\ image' = image /\ config' = config /\ rebooting' = rebooting
          /\ faults' \in 0..MaxFaults
      BY <1>2, LifecycleAssumption DEF IInv, TypeOK, StartOpen, sensor, Faults
    <2>2. queue' \in Seq(Packet) /\ QueueHonest'
      BY <2>1 DEF IInv, TypeOK, QueueHonest
    <2>3. DriverType'
      BY <1>2 DEF IInv, TypeOK, DriverType, StartOpen
    <2>4. (EngineOwned /\ ClaimHeldByUse /\ StepFits)'
      BY <1>2 DEF IInv, TypeOK, EngineOwned, ClaimHeldByUse, StepFits, StartOpen
    <2>5. (HandoffUnconfigured /\ LearnedTrue)'
      BY <1>2, <2>1 DEF IInv, TypeOK, StepFits, HandoffUnconfigured, LearnedTrue, StartOpen
    <2> QED BY <2>1, <2>2, <2>3, <2>4, <2>5 DEF IInv, TypeOK, DriverType
  <1>3. CASE CannotClaim
    <2>1. /\ queue' = queue /\ image' = image /\ config' = config /\ rebooting' = rebooting
          /\ faults' \in 0..MaxFaults
      BY <1>3, LifecycleAssumption DEF IInv, TypeOK, CannotClaim, sensor, Faults
    <2>2. queue' \in Seq(Packet) /\ QueueHonest'
      BY <2>1 DEF IInv, TypeOK, QueueHonest
    <2>3. DriverType'
      BY <1>3 DEF IInv, TypeOK, DriverType, CannotClaim, Flags
    <2>4. (EngineOwned /\ ClaimHeldByUse /\ StepFits)'
      BY <1>3 DEF IInv, TypeOK, EngineOwned, ClaimHeldByUse, StepFits, CannotClaim, Flags
    <2>5. (HandoffUnconfigured /\ LearnedTrue)'
      BY <1>3, <2>1 DEF IInv, TypeOK, StepFits, HandoffUnconfigured, LearnedTrue,
         CannotClaim, Flags
    <2> QED BY <2>1, <2>2, <2>3, <2>4, <2>5 DEF IInv, TypeOK, DriverType
  <1>4. CASE Close
    <2>1. /\ queue' = queue /\ image' = image /\ config' = config /\ rebooting' = rebooting
          /\ faults' \in 0..MaxFaults
      BY <1>4, LifecycleAssumption DEF IInv, TypeOK, Close, sensor, Faults
    <2>2. queue' \in Seq(Packet) /\ QueueHonest'
      BY <2>1 DEF IInv, TypeOK, QueueHonest
    <2>3. DriverType'
      <3>1. DriverType
        BY DEF IInv, TypeOK, DriverType
      <3>2. phase' = "Ready" /\ engines' = {} /\ claimed' = FALSE /\ report' = "ok" /\ step' = step
        BY <1>4 DEF Close
      <3>3. UNCHANGED Flags
        BY <1>4 DEF Close
      <3> QED BY <3>1, <3>2, <3>3 DEF DriverType, Flags
    <2>4. (EngineOwned /\ ClaimHeldByUse /\ StepFits)'
      BY <1>4 DEF IInv, TypeOK, EngineOwned, ClaimHeldByUse, StepFits, Close, Flags
    <2>5. (HandoffUnconfigured /\ LearnedTrue)'
      BY <1>4, <2>1 DEF IInv, TypeOK, StepFits, HandoffUnconfigured, LearnedTrue, Close,
         Flags
    <2> QED BY <2>1, <2>2, <2>3, <2>4, <2>5 DEF IInv, TypeOK, DriverType
  <1>5. CASE HandoffExpires
    <2>1. /\ queue' = queue /\ image' = image /\ config' = config /\ rebooting' = rebooting
          /\ faults' \in 0..MaxFaults
      BY <1>5, LifecycleAssumption DEF IInv, TypeOK, HandoffExpires, sensor, Faults
    <2>2. queue' \in Seq(Packet) /\ QueueHonest'
      BY <2>1 DEF IInv, TypeOK, QueueHonest
    <2>3. DriverType'
      <3>1. handoff' \in BOOLEAN BY <1>5 DEF HandoffExpires
      <3> QED BY <1>5, <3>1 DEF IInv, TypeOK, DriverType, HandoffExpires, instance
    <2>4. (EngineOwned /\ ClaimHeldByUse /\ StepFits)'
      BY <1>5 DEF IInv, TypeOK, EngineOwned, ClaimHeldByUse, StepFits, HandoffExpires,
         instance
    <2>5. (HandoffUnconfigured /\ LearnedTrue)'
      BY <1>5, <2>1 DEF IInv, TypeOK, StepFits, HandoffUnconfigured, LearnedTrue,
         HandoffExpires, instance
    <2> QED BY <2>1, <2>2, <2>3, <2>4, <2>5 DEF IInv, TypeOK, DriverType
  <1>6. ASSUME NEW o \in Operations, NEW r \in {"valid", "invalid"}, StartOperation(o, r)
        PROVE  IInv'
    <2>1. /\ queue' = queue /\ image' = image /\ config' = config /\ rebooting' = rebooting
          /\ faults' \in 0..MaxFaults
      BY <1>6, LifecycleAssumption DEF IInv, TypeOK, StartOperation, sensor, Faults
    <2>2. queue' \in Seq(Packet) /\ QueueHonest'
      BY <2>1 DEF IInv, TypeOK, QueueHonest
    <2>3. DriverType'
      <3>1. /\ claimed' = claimed /\ powerLost' = powerLost /\ firmware' = firmware
            /\ takenHandoff' = takenHandoff /\ oldUsbInvalid' = oldUsbInvalid
            /\ handoff' = handoff
        BY <1>6 DEF StartOperation, Flags
      <3>2. /\ phase' \in {phase, "Busy"} /\ step' \in {step, o} /\ report' \in {"none", "error"}
            /\ engines' \in {engines, engines \union {o}}
        BY <1>6 DEF StartOperation
      <3>3. /\ phase' \in {"Detached", "Probing", "Failed", "Ready", "Opening", "Open", "Busy"}
            /\ step' \in Steps \union {"none"} /\ report' \in {"none", "ok", "error"}
        BY <1>6, <3>2 DEF IInv, TypeOK
      <3>4. engines' \subseteq {"bootstrap", "recovery"} \union Operations
        BY <1>6, <3>2 DEF IInv, TypeOK
      <3>5. /\ claimed' \in BOOLEAN /\ takenHandoff' \in BOOLEAN /\ oldUsbInvalid' \in BOOLEAN
            /\ handoff' \in BOOLEAN
        BY <3>1, Zenon DEF IInv, TypeOK
      <3>6. powerLost' \in {"kept", "lost"} /\ firmware' \in Images
        BY <3>1 DEF IInv, TypeOK
      <3> QED BY <3>3, <3>4, <3>5, <3>6 DEF DriverType
    <2>4. (EngineOwned /\ ClaimHeldByUse /\ StepFits)'
      <3>1. phase = "Open" /\ step = "none" /\ claimed' = claimed /\ oldUsbInvalid' = oldUsbInvalid
        BY <1>6 DEF IInv, StepFits, StartOperation, Flags
      <3>2. "recovery" \notin engines /\ "bootstrap" \notin engines
        BY <3>1 DEF IInv, EngineOwned
      <3>3. CASE Permitted /\ r = "valid"
        <4>1. engines = {}
          BY <3>2, <3>3 DEF IInv, TypeOK, Permitted
        <4>2. engines' = {o} /\ phase' = "Busy" /\ step' = o
          BY <1>6, <3>3, <4>1 DEF StartOperation
        <4> QED BY <3>1, <4>2 DEF IInv, EngineOwned, ClaimHeldByUse, StepFits
      <3>4. CASE ~(Permitted /\ r = "valid")
        BY <1>6, <3>1, <3>4 DEF IInv, EngineOwned, ClaimHeldByUse, StepFits, StartOperation
      <3> QED BY <3>3, <3>4
    <2>5. (HandoffUnconfigured /\ LearnedTrue)'
      BY <1>6, <2>1 DEF IInv, TypeOK, StepFits, HandoffUnconfigured, LearnedTrue,
         StartOperation, Permitted, Flags
    <2> QED BY <2>1, <2>2, <2>3, <2>4, <2>5 DEF IInv, TypeOK, DriverType
  <1> QED BY <1>1, <1>2, <1>3, <1>4, <1>5, <1>6

\* The process and the sensor start again.
LEMMA WorldKeeps ==
  ASSUME IInv, Restart \/ Reenumerates \/ (\E i \in Images : PowerCycle(i))
  PROVE  IInv'
  <1> USE DEF VersionSteps, RecoverySteps, QualifySteps, BootstrapSteps, InUse, Operations,
              WriteSteps, AckSteps, ReplySteps, Steps, Images
  <1>1. ASSUME InstanceGone, handoff' = FALSE \/ (handoff' = handoff /\ config' = "lost")
        PROVE  /\ DriverType' /\ EngineOwned' /\ ClaimHeldByUse' /\ StepFits'
               /\ HandoffUnconfigured' /\ LearnedTrue'
    <2>1. DriverType'
      BY <1>1 DEF IInv, TypeOK, DriverType, InstanceGone
    <2>2. (EngineOwned /\ ClaimHeldByUse /\ StepFits)'
      BY <1>1 DEF EngineOwned, ClaimHeldByUse, StepFits, InstanceGone
    <2>3. (HandoffUnconfigured /\ LearnedTrue)'
      BY <1>1 DEF HandoffUnconfigured, LearnedTrue, InstanceGone
    <2> QED BY <2>1, <2>2, <2>3
  <1>2. CASE Restart
    <2>1. faults' \in 0..MaxFaults
      BY <1>2, LifecycleAssumption DEF IInv, TypeOK, Restart, Faults
    <2> QED BY <1>1, <1>2, <2>1 DEF IInv, TypeOK, DriverType, Restart, QueueHonest
  <1>3. ASSUME NEW i \in Images, Reboots(i), faults' \in 0..MaxFaults PROVE IInv'
    <2>1. queue' = <<>> /\ queue' \in Seq(Packet)
      BY <1>3, EmptySeq DEF Reboots
    <2>2. QueueHonest'
      BY <2>1 DEF QueueHonest, AllHonest
    <2> QED BY <1>1, <1>3, <2>1, <2>2 DEF IInv, TypeOK, DriverType, Reboots
  <1>4. CASE Reenumerates
    BY <1>3, <1>4 DEF IInv, TypeOK, Reenumerates
  <1>5. ASSUME NEW i \in Images, PowerCycle(i) PROVE IInv'
    <2>1. faults' \in 0..MaxFaults
      BY <1>5, LifecycleAssumption DEF IInv, TypeOK, PowerCycle, Faults
    <2> QED BY <1>3, <1>5, <2>1 DEF PowerCycle
  <1> QED BY <1>2, <1>4, <1>5

-----------------------------------------------------------------------------
(* The theorems. *)

\* The driver starts detached, before any packet that promises something.
THEOREM LifecycleInit == Init => IInv
  <1> SUFFICES ASSUME Init PROVE IInv
    OBVIOUS
  <1> USE DEF VersionSteps, RecoverySteps, QualifySteps, BootstrapSteps, InUse, Operations,
              WriteSteps, AckSteps, ReplySteps, Steps, Images
  <1>1. queue \in Seq(Packet) /\ QueueHonest
    BY LeftoversHonest DEF Init, QueueHonest
  <1>2. TypeOK
    <2>1. /\ claimed \in BOOLEAN /\ takenHandoff \in BOOLEAN /\ oldUsbInvalid \in BOOLEAN
          /\ handoff \in BOOLEAN /\ rebooting \in BOOLEAN
      BY DEF Init
    <2>2. /\ phase = "Detached" /\ step = "none" /\ engines = {} /\ powerLost = "kept"
          /\ firmware = "Unknown" /\ report = "none" /\ image \in Images
          /\ config \in {"kept", "lost"} /\ faults = 0
      BY DEF Init
    <2> QED BY <1>1, <2>1, <2>2, LifecycleAssumption DEF TypeOK
  <1>3. EngineOwned /\ ClaimHeldByUse /\ StepFits
    BY DEF Init, EngineOwned, ClaimHeldByUse, StepFits
  <1>4. HandoffUnconfigured /\ LearnedTrue
    BY DEF Init, HandoffUnconfigured, LearnedTrue
  <1> QED BY <1>1, <1>2, <1>3, <1>4 DEF IInv

\* No step of the driver, the process or the sensor breaks the invariant.
THEOREM LifecycleNext == IInv /\ [Next]_vars => IInv'
  <1> SUFFICES ASSUME IInv, [Next]_vars PROVE IInv'
    OBVIOUS
  <1>1. ASSUME Step PROVE IInv'
    <2>1. CASE Write \/ WriteFails \/ ReadFails
      BY <2>1, TransfersKeep
    <2>2. CASE BootstrapSucceeds \/ BootstrapFails \/ OperationSucceeds \/ OperationFails
      BY <2>2, EnginesKeep
    <2>3. CASE \/ ReadUnexpected \/ VersionAcked
               \/ (\E r \in {"exact", "unusable"} : ProbeFindsIap(r))
               \/ ProbeFindsApp \/ OpenFindsApp \/ FindsNoApp \/ PostbootRead \/ ChipIdRead
               \/ BootResetAcked \/ RecoveryAdvances \/ RecoveryIgnores \/ RecoveryRejects
               \/ RecoverySucceeds
      <3>1. Read
        BY <2>3 DEF ReadUnexpected, VersionAcked, ProbeFindsIap, ProbeFindsApp, OpenFindsApp,
           FindsNoApp, PostbootRead, ChipIdRead, BootResetAcked, RecoveryAdvances,
           RecoveryIgnores, RecoveryRejects, RecoverySucceeds
      <3> QED BY <2>3, <3>1, ReadsKeep
    <2> QED BY <1>1, <2>1, <2>2, <2>3 DEF Step
  <1>2. CASE \/ StartProbe \/ StartOpen \/ CannotClaim \/ Close \/ HandoffExpires
             \/ \E o \in Operations, r \in {"valid", "invalid"} : StartOperation(o, r)
    BY <1>2, RequestsKeep
  <1>3. CASE Restart \/ Reenumerates \/ (\E i \in Images : PowerCycle(i))
    BY <1>3, WorldKeeps
  <1>4. CASE UNCHANGED vars
    BY <1>4 DEF vars, instance, sensor, IInv, TypeOK, EngineOwned, ClaimHeldByUse, StepFits,
       QueueHonest, HandoffUnconfigured, LearnedTrue
  <1> QED BY <1>1, <1>2, <1>3, <1>4 DEF Next

\* The invariant holds throughout every run of the driver.
THEOREM LifecycleInvariance == Spec => []IInv
  BY LifecycleInit, LifecycleNext, PTL DEF Spec

\* The variables keep their types, for any number of faults and packets.
THEOREM LifecycleTypes == Spec => []TypeOK
  <1>1. IInv => TypeOK BY DEF IInv
  <1> QED BY <1>1, LifecycleInvariance, PTL

\* No engine outlives its action (goodix550a.c frees it on every way out).
THEOREM EnginesAreOwned == Spec => []EngineOwned
  <1>1. IInv => EngineOwned BY DEF IInv
  <1> QED BY <1>1, LifecycleInvariance, PTL

\* The USB interface is claimed exactly while the driver uses it.
THEOREM ClaimFollowsUse == Spec => []ClaimHeldByUse
  <1>1. IInv => ClaimHeldByUse BY DEF IInv
  <1> QED BY <1>1, LifecycleInvariance, PTL

\* An operation only runs on a configured APP sensor, whatever was queued.
THEOREM OperationsAreSafe == Spec => []OperatesConfigured
  <1>1. IInv => OperatesConfigured
    BY DEF IInv, LearnedTrue, OperatesConfigured, InUse
  <1> QED BY <1>1, LifecycleInvariance, PTL

\* Firmware is only written into an IAP sensor.
THEOREM OnlyIapIsBootstrapped == Spec => []BootstrapsOnlyIap
  <1>1. IInv => BootstrapsOnlyIap
    BY DEF IInv, LearnedTrue, BootstrapsOnlyIap
  <1> QED BY <1>1, LifecycleInvariance, PTL

\* The instance that asked for the reboot sends nothing more.
THEOREM OldUsbIsUntouched == Spec => OldUsbUntouched
  <1>1. IInv /\ [Next]_vars => [oldUsbInvalid /\ oldUsbInvalid' => UNCHANGED queue]_vars
    <2> SUFFICES ASSUME IInv, Next, oldUsbInvalid, oldUsbInvalid' PROVE queue' = queue
      BY DEF vars
    <2>1. phase = "Failed" /\ step = "none"
      BY DEF IInv, StepFits
    <2>2. CASE Step
      BY <2>1, <2>2 DEF Step, Write, WriteFails, ReadFails, ReadUnexpected, VersionAcked,
         ProbeFindsIap, ProbeFindsApp, OpenFindsApp, FindsNoApp, PostbootRead, ChipIdRead,
         BootstrapSucceeds, BootstrapFails, BootResetAcked, RecoveryAdvances, RecoveryIgnores,
         RecoveryRejects, RecoverySucceeds, OperationSucceeds, OperationFails, Read,
         WriteSteps, AckSteps, ReplySteps
    <2>3. CASE HandoffExpires
      BY <2>3 DEF HandoffExpires, sensor
    <2>4. ASSUME InstanceGone PROVE FALSE
      BY <2>4 DEF InstanceGone
    <2>5. CASE Restart \/ Reenumerates \/ (\E i \in Images : PowerCycle(i))
      BY <2>4, <2>5 DEF Restart, Reenumerates, PowerCycle, Reboots
    <2> QED
      BY <2>1, <2>2, <2>3, <2>5 DEF Next, StartProbe, StartOpen, CannotClaim, Close, StartOperation
  <1> QED BY <1>1, LifecycleInvariance, PTL DEF Spec, OldUsbUntouched
-----------------------------------------------------------------------------
(* A running action comes to its end: the part of ActionsEnd that is no matter of *)
(* fairness.  The skips of the recovery engine repeat a step and a command adds   *)
(* packets, so neither the steps nor the queue alone get fewer.                   *)

Running == phase \in {"Probing", "Opening", "Busy"}

\* Transfers that a probe or an open still has before it at most.
StepsLeft(s) ==
  CASE s = "VersionWrite" -> 9
    [] s = "VersionAck" -> 8
    [] s = "Version" -> 7
    [] s \in {"ResetWrite", "OtpWrite"} -> 6
    [] s \in {"ResetAck", "OtpAck"} -> 5
    [] s \in {"Reset", "Otp", "Bootstrap"} -> 4
    [] s \in {"ChipIdWrite", "ConfigWrite", "BootResetWrite"} -> 3
    [] s \in {"ChipIdAck", "ConfigAck", "BootResetAck"} -> 2
    [] s \in {"ChipId", "Config"} \union Operations -> 1
    [] OTHER -> 0

\* A command adds two packets, and so weighs three.
Patience == 3 * StepsLeft(step) + Len(queue)

\* Each step of a running action ends it or takes from its patience, and nothing
\* that happens beside it gives any back.
PatienceFalls ==
  [][Running /\ Running' => /\ Patience' =< Patience
                            /\ Step => Patience' < Patience]_vars

\* A reply that names no firmware is good or bad.
RepliesPlain ==
  \A k \in 1..Len(queue) :
    queue[k].kind = "reply" /\ queue[k].cmd # "GetVersion" => queue[k].data \in {"good", "bad"}

\* A packet has a branch of the driver to go to: the guards of the steps that read.
Handled(p) ==
  \/ step \notin RecoverySteps /\ ~Expected(p)
  \/ step \in {"VersionAck", "ResetAck", "Reset", "ChipIdAck", "ChipId", "BootResetAck"} /\ Expected(p)
  \/ /\ step = "Version" /\ Expected(p)
     /\ p.data = "APP" \/ p.data = "Unknown" \/ (p.data = "IAP" /\ phase \in {"Probing", "Opening"})
  \/ step \in {"OtpAck", "Otp", "ConfigAck"} /\ Expected(p) /\ p.data # "bad"
  \/ step \in RecoverySteps /\ ~Expected(p) /\ ~Rejects(p)
  \/ step \in RecoverySteps /\ (Rejects(p) \/ (IsReply(p) /\ p.data = "bad"))
  \/ step = "Config" /\ IsReply(p) /\ p.data = "good"

\* The running action is at a transfer of its own, and whatever an IN transfer
\* brings there is handled.
AlwaysHandled ==
  Running =>
    \/ step \in WriteSteps \union {"Bootstrap"} \union Operations
    \/ step \in AckSteps \union ReplySteps /\ (queue = <<>> \/ Handled(Head(queue)))

Plain(p) == p.kind = "reply" /\ p.cmd # "GetVersion" => p.data \in {"good", "bad"}
AllPlain(q) == \A k \in 1..Len(q) : Plain(q[k])

\* What a step does to the queue: nothing, or it takes the head, adds what an engine
\* leaves behind, or adds the answers to a command.
LEMMA QueueMoves ==
  ASSUME IInv, [Next]_vars
  PROVE  \/ queue' = queue
         \/ queue # <<>> /\ queue' = Tail(queue)
         \/ \E l \in Leftovers : queue' = l \/ queue' = queue \o l
         \/ step \in WriteSteps /\ \E a \in Answers(step) : queue' = queue \o a
  <1>1. CASE UNCHANGED vars
    BY <1>1 DEF vars, sensor
  <1>2. ASSUME SensorMisses PROVE queue' = queue
    BY <1>2 DEF SensorMisses, sensor
  <1>3. CASE Write \/ WriteFails
    <2>1. step \in WriteSteps /\ ((\E n \in {0, 1} : SensorReceives(step, n)) \/ SensorMisses)
      BY <1>3 DEF Write, WriteFails
    <2> QED BY <2>1, <1>2 DEF SensorReceives
  <1>4. ASSUME Read PROVE queue # <<>> /\ queue' = Tail(queue)
    BY <1>4 DEF Read
  <1>5. CASE ReadFails
    BY <1>5 DEF ReadFails
  <1>6. <<>> \in Leftovers /\ <<Stray>> \in Leftovers
    BY DEF Leftovers
  <1>7. CASE BootstrapSucceeds \/ BootstrapFails \/ OperationSucceeds \/ OperationFails
    <2>1. queue' \in {<<>>, <<Stray>>} \/ queue' \in Abandoned
      BY <1>7 DEF BootstrapSucceeds, BootstrapFails, OperationSucceeds, OperationFails
    <2> QED BY <2>1, <1>6 DEF Abandoned
  <1>8. CASE \/ ReadUnexpected \/ VersionAcked
             \/ (\E r \in {"exact", "unusable"} : ProbeFindsIap(r))
             \/ ProbeFindsApp \/ OpenFindsApp \/ FindsNoApp \/ PostbootRead \/ ChipIdRead
             \/ BootResetAcked \/ RecoveryAdvances \/ RecoveryIgnores \/ RecoveryRejects
             \/ RecoverySucceeds
    BY <1>4, <1>8 DEF ReadUnexpected, VersionAcked, ProbeFindsIap, ProbeFindsApp, OpenFindsApp,
       FindsNoApp, PostbootRead, ChipIdRead, BootResetAcked, RecoveryAdvances,
       RecoveryIgnores, RecoveryRejects, RecoverySucceeds
  <1>9. CASE \/ StartProbe \/ StartOpen \/ CannotClaim \/ Close \/ HandoffExpires
             \/ \E o \in Operations, r \in {"valid", "invalid"} : StartOperation(o, r)
    BY <1>9 DEF StartProbe, StartOpen, CannotClaim, Close, HandoffExpires, StartOperation, sensor
  <1>10. CASE Restart \/ Reenumerates \/ (\E i \in Images : PowerCycle(i))
    <2>1. queue' = queue \/ queue' = <<>>
      BY <1>10 DEF Restart, Reenumerates, PowerCycle, Reboots
    <2> QED BY <2>1, <1>6
  <1> QED BY <1>1, <1>3, <1>5, <1>7, <1>8, <1>9, <1>10 DEF Next, Step

\* What is added to plain replies is plain.
LEMMA ConcatPlain ==
  ASSUME NEW q \in Seq(Packet), NEW r \in Seq(Packet), AllPlain(q), AllPlain(r)
  PROVE  AllPlain(q \o r)
  <1>1. /\ Len(q \o r) = Len(q) + Len(r)
        /\ \A k \in 1..Len(q) + Len(r) :
              (q \o r)[k] = IF k <= Len(q) THEN q[k] ELSE r[k - Len(q)]
    BY ConcatProperties
  <1>2. Len(q) \in Nat /\ Len(r) \in Nat
    BY LenProperties
  <1>3. ASSUME NEW k \in 1..Len(q) + Len(r) PROVE Plain((q \o r)[k])
    <2>1. CASE k <= Len(q)
      BY <2>1, <1>1, <1>2 DEF AllPlain
    <2>2. CASE ~(k <= Len(q))
      <3>1. k - Len(q) \in 1..Len(r) BY <2>2, <1>2
      <3> QED BY <2>2, <3>1, <1>1 DEF AllPlain
    <2> QED BY <2>1, <2>2
  <1> QED BY <1>1, <1>3 DEF AllPlain

\* What an abandoned engine leaves: at most two packets, and no replies.
LEMMA LeftoversPlain ==
  ASSUME NEW l \in Leftovers
  PROVE  l \in Seq(Packet) /\ AllPlain(l) /\ Len(l) \in 0..2
  <1>1. l \in Seq(Packet)
    BY LeftoversHonest
  <1>2. Plain(Stray) /\ Plain(Broken)
    BY DEF Plain, Stray, Broken
  <1>3. \A k \in 1..Len(l) : l[k] \in {Stray, Broken}
    BY DEF Leftovers
  <1>4. Len(l) \in 0..2
    BY DEF Leftovers
  <1> QED BY <1>1, <1>2, <1>3, <1>4 DEF AllPlain

\* The answers to a command: an acknowledgement, and but for the last reset a reply,
\* which is good or bad unless it names the firmware.
LEMMA AnswersPlain ==
  ASSUME IInv, step \in WriteSteps, NEW a \in Answers(step)
  PROVE  a \in Seq(Packet) /\ AllPlain(a) /\ Len(a) \in 1..2
  <1>1. CommandOf(step) \in Commands /\ image \in Images /\ config \in {"kept", "lost"}
    BY DEF IInv, TypeOK, WriteSteps, CommandOf, Commands, VersionSteps
  <1>2. Ack(CommandOf(step)) \in Packet /\ Plain(Ack(CommandOf(step)))
    BY <1>1 DEF Ack, Packet, Plain
  <1>3. CASE step = "BootResetWrite"
    <2>1. a = <<Ack(CommandOf(step))>>
      BY <1>3 DEF Answers
    <2>2. Len(a) = 1 /\ a[1] = Ack(CommandOf(step))
      BY <2>1
    <2> QED BY <2>1, <2>2, <1>2 DEF AllPlain
  <1>4. CASE step # "BootResetWrite"
    <2>1. PICK d \in Images \union {"good", "bad"} :
            /\ a = <<Ack(CommandOf(step)), Reply(CommandOf(step), d)>>
            /\ step # "VersionWrite" => d \in {"good", "bad"}
      BY <1>1, <1>4 DEF Answers
    <2>2. Len(a) = 2 /\ a[1] = Ack(CommandOf(step)) /\ a[2] = Reply(CommandOf(step), d)
      BY <2>1
    <2>3. step = "VersionWrite" => CommandOf(step) = "GetVersion"
      BY DEF CommandOf, VersionSteps
    <2>4. Reply(CommandOf(step), d) \in Packet /\ Plain(Reply(CommandOf(step), d))
      BY <1>1, <2>1, <2>3 DEF Reply, Packet, Plain
    <2> QED BY <2>1, <2>2, <2>4, <1>2 DEF AllPlain
  <1> QED BY <1>3, <1>4

\* Replies stay plain, whatever a step adds to the queue or takes from it.
LEMMA PlainStep == IInv /\ RepliesPlain /\ [Next]_vars => RepliesPlain'
  <1> SUFFICES ASSUME IInv, AllPlain(queue), [Next]_vars PROVE AllPlain(queue')
    BY DEF RepliesPlain, AllPlain, Plain
  <1>1. queue \in Seq(Packet)
    BY DEF IInv, TypeOK
  <1>2. CASE queue # <<>> /\ queue' = Tail(queue)
    <2>1. /\ Len(Tail(queue)) = Len(queue) - 1
          /\ \A k \in 1..Len(Tail(queue)) : Tail(queue)[k] = queue[k + 1]
      BY <1>1, <1>2, HeadTailProperties
    <2>2. Len(queue) \in Nat
      BY <1>1, LenProperties
    <2>3. \A k \in 1..Len(Tail(queue)) : k + 1 \in 1..Len(queue)
      BY <2>1, <2>2
    <2> QED BY <1>2, <2>1, <2>3 DEF AllPlain
  <1>3. ASSUME NEW l \in Leftovers, queue' = l \/ queue' = queue \o l PROVE AllPlain(queue')
    BY <1>1, <1>3, LeftoversPlain, ConcatPlain
  <1>4. ASSUME step \in WriteSteps, NEW a \in Answers(step), queue' = queue \o a
        PROVE  AllPlain(queue')
    BY <1>1, <1>4, AnswersPlain, ConcatPlain
  <1> QED BY <1>2, <1>3, <1>4, QueueMoves

\* A packet whose reply is plain, or names a firmware, has a branch to go to.
LEMMA EachKindHandled ==
  ASSUME IInv, Running, step \in AckSteps \union ReplySteps, NEW p \in Packet, Plain(p),
         p.kind = "reply" /\ p.cmd = "GetVersion" => p.data \in Images
  PROVE  Handled(p)
  <1>5. CASE step \notin RecoverySteps
    <2>1. CASE ~Expected(p)
      BY <1>5, <2>1 DEF Handled
    <2>2. CASE Expected(p) /\ step = "Version"
      <3>1. p.data \in Images
        BY <2>2 DEF Expected, IsReply, CommandOf, VersionSteps, AckSteps
      <3>2. phase \in {"Probing", "Opening"}
        BY <2>2 DEF Running, IInv, StepFits, Operations
      <3> QED BY <2>2, <3>1, <3>2 DEF Handled, Images
    <2>3. CASE Expected(p) /\ step # "Version"
      BY <1>5, <2>3 DEF Handled, AckSteps, ReplySteps, RecoverySteps
    <2> QED BY <2>1, <2>2, <2>3
  <1>6. CASE step \in RecoverySteps
    <2>1. CASE ~Expected(p)
      BY <1>6, <2>1 DEF Handled
    <2>2. CASE Expected(p) /\ step = "Config"
      <3>1. IsReply(p) /\ p.data \in {"good", "bad"}
        BY <2>2 DEF Expected, IsReply, CommandOf, AckSteps, VersionSteps, Plain
      <3> QED BY <1>6, <2>2, <3>1 DEF Handled
    <2>3. CASE Expected(p) /\ step # "Config" /\ p.data # "bad"
      BY <1>6, <2>3 DEF Handled, AckSteps, ReplySteps, RecoverySteps
    <2>4. CASE Expected(p) /\ step # "Config" /\ p.data = "bad"
      <3>1. p.kind # "ack"
        BY <2>4 DEF Packet
      <3>2. IsReply(p)
        BY <2>4, <3>1 DEF Expected, IsAck
      <3> QED BY <1>6, <2>4, <3>2 DEF Handled
    <2> QED BY <2>1, <2>2, <2>3, <2>4
  <1> QED BY <1>5, <1>6

\* With plain and honest replies whatever comes next is handled.
LEMMA EveryPacketHandled == IInv /\ RepliesPlain => AlwaysHandled
  <1> SUFFICES ASSUME IInv, RepliesPlain, Running, step \notin WriteSteps,
                      step # "Bootstrap", step \notin Operations
               PROVE  /\ step \in AckSteps \union ReplySteps
                      /\ queue # <<>> => Handled(Head(queue))
    BY DEF AlwaysHandled
  <1>1. step \in AckSteps \union ReplySteps
    BY DEF Running, IInv, StepFits, VersionSteps, RecoverySteps, QualifySteps,
       BootstrapSteps, WriteSteps, AckSteps, ReplySteps
  <1>2. ASSUME queue # <<>> PROVE Handled(Head(queue))
    <2>1. /\ Head(queue) \in Packet /\ Honest(Head(queue), config, image)
          /\ image \in Images
      BY <1>2, TailHonest DEF IInv, TypeOK, QueueHonest
    <2>2. Plain(Head(queue))
      <3>1. Head(queue) = queue[1] /\ 1 \in 1..Len(queue)
        BY <1>2, HeadTailProperties, LenProperties, EmptySeq DEF IInv, TypeOK
      <3> QED BY <3>1 DEF RepliesPlain, Plain
    <2> QED BY <1>1, <2>1, <2>2, EachKindHandled DEF Honest
  <1> QED BY <1>1, <1>2

\* The transfers of an action are counted down.
LEMMA StepsGoDown ==
  /\ \A s : StepsLeft(s) \in Nat
  /\ \A s \in WriteSteps \union {"VersionAck", "ResetAck", "Reset", "ChipIdAck", "OtpAck", "Otp",
                                 "ConfigAck"} :
       StepsLeft(After(s)) = StepsLeft(s) - 1
  <1>1. \A s : StepsLeft(s) \in Nat
    BY DEF StepsLeft
  <1>2. ASSUME NEW s \in WriteSteps \union {"VersionAck", "ResetAck", "Reset", "ChipIdAck",
                                            "OtpAck", "Otp", "ConfigAck"}
        PROVE  StepsLeft(After(s)) = StepsLeft(s) - 1
    <2>1. /\ After("VersionWrite") = "VersionAck" /\ After("VersionAck") = "Version"
          /\ After("ResetWrite") = "ResetAck" /\ After("ResetAck") = "Reset"
          /\ After("Reset") = "ChipIdWrite" /\ After("ChipIdWrite") = "ChipIdAck"
          /\ After("ChipIdAck") = "ChipId" /\ After("BootResetWrite") = "BootResetAck"
          /\ After("OtpWrite") = "OtpAck" /\ After("OtpAck") = "Otp"
          /\ After("Otp") = "ConfigWrite" /\ After("ConfigWrite") = "ConfigAck"
          /\ After("ConfigAck") = "Config"
      BY DEF After
    <2>2. /\ StepsLeft("VersionWrite") = 9 /\ StepsLeft("VersionAck") = 8
          /\ StepsLeft("Version") = 7 /\ StepsLeft("ResetWrite") = 6
          /\ StepsLeft("OtpWrite") = 6 /\ StepsLeft("ResetAck") = 5
          /\ StepsLeft("OtpAck") = 5 /\ StepsLeft("Reset") = 4
          /\ StepsLeft("Otp") = 4 /\ StepsLeft("ChipIdWrite") = 3
          /\ StepsLeft("ConfigWrite") = 3 /\ StepsLeft("BootResetWrite") = 3
          /\ StepsLeft("ChipIdAck") = 2 /\ StepsLeft("ConfigAck") = 2
          /\ StepsLeft("BootResetAck") = 2 /\ StepsLeft("ChipId") = 1
          /\ StepsLeft("Config") = 1
      BY DEF StepsLeft, Operations
    <2> QED BY <1>2, <2>1, <2>2 DEF WriteSteps
  <1> QED BY <1>1, <1>2

\* One transfer less outweighs the two packets it may add.
LEMMA OneLess ==
  ASSUME NEW s \in Nat, NEW t \in Nat, NEW n \in Nat, NEW m \in Nat, t = s - 1, m =< n + 2
  PROVE  3 * t + m < 3 * s + n
  OBVIOUS

\* A step that leaves its action running leaves it less.
LEMMA StepFalls == IInv /\ Step /\ Running' => Patience' < Patience
  <1> SUFFICES ASSUME IInv, Step, Running' PROVE Patience' < Patience
    OBVIOUS
  <1>1. ~ActionFails /\ ~ProbeCompletes /\ ~ProbeFails /\ ~OpenCompletes /\ ~OperationCompletes("ok")
        /\ ~OperationCompletes("error")
    BY DEF Running, ActionFails, ProbeFails, OpenFails, OperationCompletes, ProbeCompletes,
       OpenCompletes
  <1>2. Len(queue) \in Nat /\ queue \in Seq(Packet)
    BY LenProperties DEF IInv, TypeOK
  <1>3. StepsLeft(step) \in Nat /\ StepsLeft(step') \in Nat
    BY StepsGoDown
  <1>4. CASE Write
    <2>1. StepsLeft(step') = StepsLeft(step) - 1
      BY <1>4, StepsGoDown DEF Write, Goto
    <2>2. Len(queue') \in Nat /\ Len(queue') =< Len(queue) + 2
      <3>1. CASE SensorMisses
        BY <1>2, <3>1 DEF SensorMisses, sensor
      <3>2. CASE SensorReceives(step, 0)
        <4>1. PICK a \in Answers(step) : queue' = queue \o a
          BY <3>2 DEF SensorReceives
        <4>2. a \in Seq(Packet) /\ Len(a) \in 1..2
          BY <1>4, AnswersPlain DEF Write
        <4>3. Len(queue') = Len(queue) + Len(a)
          BY <1>2, <4>1, <4>2, ConcatProperties
        <4>4. \A n \in Nat, m \in 1..2 : n + m \in Nat /\ n + m =< n + 2
          OBVIOUS
        <4> QED BY <1>2, <4>2, <4>3, <4>4, Zenon
      <3> QED BY <1>4, <3>1, <3>2 DEF Write
    <2> QED BY <1>2, <1>3, <2>1, <2>2, OneLess DEF Patience
  <1>5. ASSUME Read PROVE Len(queue') = Len(queue) - 1 /\ Len(queue) >= 1
    BY <1>2, <1>5, HeadTailProperties, EmptySeq DEF Read
  <1>6. ASSUME Read, StepsLeft(step') =< StepsLeft(step) PROVE Patience' < Patience
    BY <1>2, <1>3, <1>5, <1>6 DEF Patience
  <1>7. CASE VersionAcked \/ PostbootRead \/ RecoveryAdvances
    <2>1. Read /\ step' = After(step)
      BY <1>7 DEF VersionAcked, PostbootRead, RecoveryAdvances, Goto, After
    <2>2. step \in {"VersionAck", "ResetAck", "Reset", "ChipIdAck", "OtpAck", "Otp", "ConfigAck"}
      BY <1>7 DEF VersionAcked, PostbootRead, RecoveryAdvances
    <2>3. StepsLeft(step') = StepsLeft(step) - 1
      BY <2>1, <2>2, StepsGoDown
    <2> QED BY <1>3, <1>6, <2>1, <2>3
  <1>8. CASE (\E r \in {"exact", "unusable"} : ProbeFindsIap(r)) \/ ProbeFindsApp \/ OpenFindsApp
    <2>1. Read /\ step = "Version" /\ step' \in {"Bootstrap", "ResetWrite", "OtpWrite"}
      BY <1>1, <1>8 DEF ProbeFindsIap, ProbeFindsApp, OpenFindsApp, Engage, Goto
    <2>2. StepsLeft(step') =< StepsLeft(step)
      BY <2>1 DEF StepsLeft, Operations
    <2> QED BY <1>6, <2>1, <2>2
  <1>9. CASE RecoveryIgnores
    <2>1. Read /\ step' = step
      BY <1>9 DEF RecoveryIgnores, instance
    <2> QED BY <1>3, <1>6, <2>1
  <1>10. CASE BootstrapSucceeds
    <2>1. StepsLeft(step') = StepsLeft(step) - 1
      BY <1>10 DEF BootstrapSucceeds, StepsLeft, Operations
    <2>2. Len(queue') \in 0..1
      BY <1>10 DEF BootstrapSucceeds
    <2>3. Len(queue') \in Nat /\ Len(queue') =< Len(queue) + 2
      <3>1. \A n \in Nat, m \in 0..1 : m \in Nat /\ m =< n + 2
        OBVIOUS
      <3> QED BY <1>2, <2>2, <3>1, Zenon
    <2> QED BY <1>2, <1>3, <2>1, <2>3, OneLess DEF Patience
  <1>11. ~(\/ WriteFails \/ ReadFails \/ ReadUnexpected \/ FindsNoApp \/ ChipIdRead
           \/ BootstrapFails \/ BootResetAcked \/ RecoveryRejects \/ RecoverySucceeds
           \/ OperationSucceeds \/ OperationFails)
    BY <1>1 DEF WriteFails, ReadFails, ReadUnexpected, FindsNoApp, ChipIdRead, BootstrapFails,
       BootResetAcked, RecoveryRejects, RecoverySucceeds, OperationSucceeds, OperationFails
  <1> QED BY <1>4, <1>7, <1>8, <1>9, <1>10, <1>11 DEF Step

\* Every probe, open and operation of goodix550a.c takes a bounded number of its own
\* steps, 27 and one for each packet it finds queued, in every interleaving with faults,
\* restarts and the handoff's expiry; and it is never without a branch for what a
\* transfer brings.  Of ActionsEnd only the fairness of the steps remains.
THEOREM ActionsAreBounded == Spec => PatienceFalls /\ []AlwaysHandled
  <1>1. Init => RepliesPlain
    BY LeftoversPlain DEF Init, RepliesPlain, AllPlain, Plain
  <1>2. IInv /\ RepliesPlain /\ [Next]_vars => RepliesPlain'
    BY PlainStep
  <1>3. IInv /\ RepliesPlain => AlwaysHandled
    BY EveryPacketHandled
  <1>4. IInv /\ [Next]_vars =>
          [Running /\ Running' => Patience' =< Patience /\ (Step => Patience' < Patience)]_vars
    <2> SUFFICES ASSUME IInv, Next, Running, Running'
                 PROVE  Patience' =< Patience /\ (Step => Patience' < Patience)
      OBVIOUS
    <2>1. Patience \in Int /\ Patience' \in Int
      <3>1. queue \in Seq(Packet) /\ queue' \in Seq(Packet)
        BY LifecycleNext DEF IInv, TypeOK
      <3>2. StepsLeft(step) \in Nat /\ StepsLeft(step') \in Nat
        BY StepsGoDown
      <3> QED BY <3>1, <3>2, LenProperties DEF Patience
    <2>2. CASE Step
      BY <2>1, <2>2, StepFalls
    <2>3. CASE ~Step
      <3>1. ASSUME InstanceGone PROVE FALSE
        BY <3>1 DEF InstanceGone, Running
      <3>2. HandoffExpires
        BY <2>3, <3>1 DEF Next, StartProbe, StartOpen, CannotClaim, Close, StartOperation, Restart,
           Reenumerates, PowerCycle, Reboots, Running
      <3>3. Patience' = Patience
        BY <3>2 DEF HandoffExpires, instance, sensor, Patience
      <3> QED BY <2>1, <2>3, <3>3
    <2> QED BY <2>2, <2>3
  <1> QED BY <1>1, <1>2, <1>3, <1>4, LifecycleInvariance, PTL DEF Spec, PatienceFalls
=============================================================================
