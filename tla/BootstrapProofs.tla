--------------------------- MODULE BootstrapProofs ---------------------------
(***************************************************************************)
(* What holds of every series of bootstraps, for any number of chunks,     *)
(* blocks and faults and any PSK: type correctness, that only an           *)
(* authenticated sensor is written, that a reset on the strength of the    *)
(* check of this attempt starts a flash that is wholly new, and that the   *)
(* check the engine accepts is that of this attempt, until more probes     *)
(* were cut off than an attempt has commands.  Then that every probe comes *)
(* to its end, and that nothing is refused before something went wrong.    *)
(*                                                                         *)
(* None is inductive.  The second needs that every stage from the first    *)
(* chunk on is behind the authentication (Gated).  The third needs to know *)
(* what the queue holds: a good verdict of this attempt is queued only     *)
(* after its last chunk (NoVerdictYet), so nothing is written between the  *)
(* verdict and the reset, and the verdict stays true (VerdictsTrue).  The  *)
(* fourth counts the answers that earlier attempts left behind (LagInv).   *)
(* The end is a measure (Patience), the last an invariant of the runs in   *)
(* which nothing went wrong yet (Faultless).                               *)
(***************************************************************************)
EXTENDS BootstrapEngine, FiniteSets, Functions, SequenceTheorems, FiniteSetTheorems,
        FunctionTheorems, TLAPS

Authorised == provisioned /\ resource = "exact"

\* Where the flash has not been looked at yet by this attempt.
BeforeCheck == SealedStages \union HashStages \union WriteStages
               \union {"FirmwareCheckWrite"}
Past == WriteStages \union CheckStages \union ResetSteps

Verdict(p) == p.own /\ p.word = "whole"

Gated == step \in Past => authenticated
Exact == step \in EngineStages => resource = "exact"
Marks == /\ authenticated => Authorised
         /\ checked => Authorised
         /\ image = "APP" => Authorised
         /\ (\E c \in DOMAIN flash : flash[c] # "old") => Authorised
ChunksLeft == /\ step \notin Past => chunk = 0
              /\ step \in WriteStages => chunk < Chunks
VerdictsTrue == \A i \in 1..Len(queue) : Verdict(queue[i]) => Whole
NoVerdictYet == step \in BeforeCheck => \A i \in 1..Len(queue) : ~Verdict(queue[i])

IInv == /\ TypeOK
        /\ Gated /\ Exact /\ Marks
        /\ ChunksLeft
        /\ VerdictsTrue /\ NoVerdictYet
        /\ CheckedImageWhole

-----------------------------------------------------------------------------
(* Stages and packets. *)

\* The stages of the probe, for the obligations that split on them.
LEMMA StageSets ==
  /\ EngineStages \subseteq Steps /\ Past \subseteq Steps
  /\ OutSteps \subseteq Steps /\ InSteps \subseteq Steps
  /\ "Idle" \notin EngineStages \union Past \union BeforeCheck
  BY DEF EngineStages, Past, BeforeCheck, OutSteps, InSteps, AckSteps, CompletionSteps,
         Steps, SealedStages, HashStages, WriteStages, CheckStages, ResetSteps

\* Every transfer belongs to one of the commands.
LEMMA CommandType == \A s : CommandOf(s) \in Commands
  BY DEF CommandOf, Commands

\* A function over a range of numbers is a sequence, also when there are none.
LEMMA RangeSeq ==
  ASSUME NEW k \in Int, NEW f \in [1..k -> Nat]
  PROVE  f \in Seq(Nat)
  <1>1. CASE k >= 0 BY <1>1
  <1>2. CASE k < 0
    <2>1. 1..k = 1..0 BY <1>2
    <2> QED BY <2>1
  <1> QED BY <1>1, <1>2

\* The pieces of a reply are numbers.
LEMMA PiecesType ==
  ASSUME NEW o \in Nat, NEW t \in Nat
  PROVE  Pieces(o, t) \in Seq(Nat)
  <1>1. Smaller(ReplyPieces, t - o) \in Int BY BootstrapAssumption DEF Smaller
  <1>2. Pieces(o, t) \in [1..Smaller(ReplyPieces, t - o) -> Nat] BY <1>1 DEF Pieces
  <1> QED BY <1>1, <1>2, RangeSeq

\* What the sensor sends are packets, and a good verdict among them is about a
\* flash that is whole, asked for by the check.
LEMMA ReplyType ==
  ASSUME TypeOK
  PROVE  /\ AckOf(CommandOf(step)) \in Packet /\ AckOf(CommandOf(step)).word = "none"
         /\ Reply(step) \in Packet
         /\ step \in OutSteps /\ Reply(step).word = "whole" =>
               step \in {"FirmwareCheckWrite", "BootResetWrite"} /\ Whole
  <1> DEFINE s == Pieces(Len(sealed), SealedPieces)
             h == Pieces(Len(hash), HashPieces)
  <1>1. s \in Seq(Nat) /\ h \in Seq(Nat) /\ <<>> \in Seq(Nat)
    <2>1. Len(sealed) \in Nat /\ Len(hash) \in Nat BY LenProperties DEF TypeOK
    <2>2. s \in Seq(Nat) BY <2>1, PiecesType, BootstrapAssumption
    <2>3. h \in Seq(Nat) BY <2>1, PiecesType, BootstrapAssumption
    <2> QED BY <2>2, <2>3, EmptySeq
  <1>2. AckOf(CommandOf(step)) \in Packet /\ AckOf(CommandOf(step)).word = "none"
    BY <1>1, CommandType DEF AckOf, Packet, Words
  <1>3. /\ Reply(step) \in Packet
        /\ step \in OutSteps /\ Reply(step).word = "whole" =>
             step \in {"FirmwareCheckWrite", "BootResetWrite"} /\ Whole
    <2> HIDE DEF s, h
    <2>1. Reply(step) = CASE step = "VersionWrite" -> ReplyOf("GetVersion", image, <<>>)
             [] step = "ReadSealedPskWrite" -> ReplyOf("PskRead", "sealed", s)
             [] step = "ReadPskHashWrite" -> ReplyOf("PskRead", "hash", h)
             [] step = "FirmwareWriteBlock" -> ReplyOf("FirmwareWrite", "done", <<>>)
             [] OTHER -> ReplyOf("FirmwareCheck", IF Whole THEN "whole" ELSE "zero", <<>>)
      BY DEF Reply, s, h
    <2>2. image \in {"IAP", "APP"} BY DEF TypeOK
    <2> QED BY <2>1, <2>2, <1>1 DEF ReplyOf, Packet, Commands, Words, OutSteps
  <1> QED BY <1>2, <1>3

-----------------------------------------------------------------------------
(* What one step can do to the queue. *)

\* Each packet of the queue was there, or is one of the two new ones.
LEMMA QueueGrows ==
  ASSUME TypeOK, NEW q \in Seq(Packet), queue' = Queued(q)
  PROVE  /\ queue' \in Seq(Packet)
         /\ \A i \in 1..Len(queue') : \/ \E j \in 1..Len(queue) : queue'[i] = queue[j]
                                      \/ \E j \in 1..Len(q) : queue'[i] = q[j]
  <1>1. queue \in Seq(Packet) /\ Len(queue) \in Nat /\ Len(q) \in Nat
    BY LenProperties DEF TypeOK
  <1>2. CASE queue' = queue BY <1>1, <1>2
  <1>3. CASE queue' = queue \o q
    <2>1. /\ queue \o q \in Seq(Packet)
          /\ Len(queue \o q) = Len(queue) + Len(q)
          /\ \A i \in 1..Len(queue) + Len(q) :
                (queue \o q)[i] = IF i <= Len(queue) THEN queue[i] ELSE q[i - Len(queue)]
      BY <1>1, ConcatProperties
    <2>2. ASSUME NEW i \in 1..Len(queue')
          PROVE  \/ \E j \in 1..Len(queue) : queue'[i] = queue[j]
                 \/ \E j \in 1..Len(q) : queue'[i] = q[j]
      <3>1. CASE i <= Len(queue)
        <4>1. i \in 1..Len(queue) /\ queue'[i] = queue[i] BY <3>1, <2>1, <1>3, <1>1
        <4> QED BY <4>1
      <3>2. CASE ~(i <= Len(queue))
        <4>1. i - Len(queue) \in 1..Len(q) /\ queue'[i] = q[i - Len(queue)]
          BY <3>2, <2>1, <1>3, <1>1
        <4> QED BY <4>1
      <3> QED BY <3>1, <3>2
    <2> QED BY <1>3, <2>1, <2>2
  <1> QED BY <1>2, <1>3 DEF Queued

\* Reading takes the head away and keeps the rest, in order.
LEMMA TailKeeps ==
  ASSUME TypeOK, queue # <<>>
  PROVE  /\ Tail(queue) \in Seq(Packet)
         /\ Head(queue) \in Packet /\ 1 \in 1..Len(queue) /\ Head(queue) = queue[1]
         /\ \A i \in 1..Len(Tail(queue)) :
               \E j \in 1..Len(queue) : Tail(queue)[i] = queue[j]
  <1>1. queue \in Seq(Packet) BY DEF TypeOK
  <1>2. /\ Head(queue) \in Packet /\ Head(queue) = queue[1]
        /\ Tail(queue) \in Seq(Packet)
        /\ Len(Tail(queue)) = Len(queue) - 1
        /\ \A i \in 1..Len(Tail(queue)) : Tail(queue)[i] = queue[i + 1]
    BY <1>1, HeadTailProperties
  <1>3. Len(queue) \in Nat /\ Len(queue) >= 1 BY <1>1, LenProperties, EmptySeq
  <1>4. \A i \in 1..Len(Tail(queue)) :
           i + 1 \in 1..Len(queue) /\ Tail(queue)[i] = queue[i + 1]
    BY <1>2, <1>3
  <1> QED BY <1>2, <1>3, <1>4

\* The fragment a short read leaves is no verdict.
LEMMA FragmentFirst ==
  ASSUME NEW q \in Seq(Packet)
  PROVE  /\ <<Fragment>> \o q \in Seq(Packet)
         /\ \A i \in 1..Len(<<Fragment>> \o q) :
               \/ \E j \in 1..Len(q) : (<<Fragment>> \o q)[i] = q[j]
               \/ ~Verdict((<<Fragment>> \o q)[i])
  <1> DEFINE f == <<Fragment>>
  <1>1. Fragment \in Packet /\ ~Verdict(Fragment)
    <2>1. <<>> \in Seq(Nat) BY EmptySeq
    <2> QED BY <2>1 DEF Fragment, Packet, Commands, Words, Verdict
  <1>2. f \in Seq(Packet) /\ Len(f) = 1 /\ f[1] = Fragment BY <1>1
  <1> HIDE DEF f
  <1>3. /\ f \o q \in Seq(Packet)
        /\ Len(f \o q) = 1 + Len(q) /\ Len(q) \in Nat
        /\ \A i \in 1..(1 + Len(q)) : (f \o q)[i] = IF i <= 1 THEN f[i] ELSE q[i - 1]
    <2>1. /\ f \o q \in Seq(Packet)
          /\ Len(f \o q) = Len(f) + Len(q)
          /\ \A i \in 1..(Len(f) + Len(q)) :
                (f \o q)[i] = IF i <= Len(f) THEN f[i] ELSE q[i - Len(f)]
      BY <1>2, ConcatProperties, Zenon
    <2>2. Len(q) \in Nat BY LenProperties
    <2> QED BY <1>2, <2>1, <2>2
  <1>4. ASSUME NEW i \in 1..Len(f \o q)
        PROVE  (\E j \in 1..Len(q) : (f \o q)[i] = q[j]) \/ ~Verdict((f \o q)[i])
    <2>1. CASE i = 1
      <3>1. 1 \in 1..(1 + Len(q)) BY <1>3
      <3>2. (f \o q)[1] = f[1] BY <3>1, <1>3
      <3> QED BY <2>1, <3>2, <1>1, <1>2, Zenon
    <2>2. CASE i # 1
      <3>1. i - 1 \in 1..Len(q) /\ (f \o q)[i] = q[i - 1] BY <2>2, <1>3
      <3> QED BY <3>1
    <2> QED BY <2>1, <2>2
  <1> QED BY <1>3, <1>4 DEF f

\* Disown changes no packet but for its owner: no verdict is left.
LEMMA DisownKeeps ==
  ASSUME NEW q \in Seq(Packet)
  PROVE  /\ Disown(q) \in Seq(Packet)
         /\ \A i \in 1..Len(Disown(q)) : ~Verdict(Disown(q)[i])
  <1>1. Len(q) \in Nat /\ DOMAIN q = 1..Len(q) /\ \A i \in 1..Len(q) : q[i] \in Packet
    BY LenProperties, ElementOfSeq
  <1>2. ASSUME NEW i \in 1..Len(q)
        PROVE  [q[i] EXCEPT !.own = FALSE] \in Packet /\ ~[q[i] EXCEPT !.own = FALSE].own
    BY <1>1 DEF Packet
  <1>3. Disown(q) \in [1..Len(q) -> Packet] BY <1>1, <1>2 DEF Disown
  <1>4. Disown(q) \in Seq(Packet) /\ Len(Disown(q)) = Len(q) BY <1>1, <1>3
  <1> QED BY <1>1, <1>2, <1>4 DEF Disown, Verdict

-----------------------------------------------------------------------------
(* The parts of a step. *)

\* The invariant, but for what depends on where the probe is.
SensorOK == /\ queue \in Seq(Packet)
            /\ image \in {"IAP", "APP"}
            /\ flash \in [0..(Chunks - 1) -> {"old", "new", "torn"}]
            /\ checked \in BOOLEAN /\ rebooting \in BOOLEAN /\ halfFrame \in BOOLEAN
            /\ checked => Authorised
            /\ image = "APP" => Authorised
            /\ (\E c \in DOMAIN flash : flash[c] # "old") => Authorised
            /\ VerdictsTrue
NoVerdicts == \A i \in 1..Len(queue) : ~Verdict(queue[i])

\* The invariant contains what it says of the sensor.
LEMMA SensorPart == IInv => SensorOK
  BY DEF IInv, SensorOK, TypeOK, Marks

\* Taking a command keeps what is known of the sensor.  The one verdict it can add
\* is that of the check, over a flash that is whole; a chunk is written only while
\* there is no verdict.
LEMMA TakesKeeps ==
  ASSUME IInv, step \in OutSteps, NEW n \in 0..1, Takes(n), UNCHANGED world
  PROVE  /\ SensorOK'
         /\ step \in BeforeCheck \ {"FirmwareCheckWrite"} => NoVerdicts'
         /\ step # "FirmwareWriteBlock" => Whole' = Whole
  <1> USE DEF IInv
  <1> DEFINE ack == AckOf(CommandOf(step))
             FlashTypes == flash' \in [0..(Chunks - 1) -> {"old", "new", "torn"}]
             Rest == /\ image' = image /\ rebooting' \in BOOLEAN /\ halfFrame' \in BOOLEAN
                     /\ flash' = flash \/ step = "FirmwareWriteBlock"
                     /\ FlashTypes
                     /\ checked' \in BOOLEAN
                     /\ checked' => checked \/ step = "FirmwareCheckWrite"
             Known(p) == \/ \E j \in 1..Len(queue) : p = queue[j]
                         \/ Verdict(p) => step = "FirmwareCheckWrite" /\ Whole
             Grown == queue' \in Seq(Packet) /\ \A i \in 1..Len(queue') : Known(queue'[i])
  <1>0. /\ flash \in [0..(Chunks - 1) -> {"old", "new", "torn"}]
        /\ checked \in BOOLEAN /\ rebooting \in BOOLEAN
        /\ queue \in Seq(Packet)
    BY DEF TypeOK
  <1>1. /\ ack \in Packet /\ ack.word = "none"
        /\ Reply(step) \in Packet
        /\ Reply(step).word = "whole" => step \in {"FirmwareCheckWrite", "BootResetWrite"} /\ Whole
    BY ReplyType
  <1>2. Rest
    <2>1. CASE TakesCommand
      <3>1. Whole \in BOOLEAN BY DEF Whole
      <3> QED BY <1>0, <2>1, <3>1 DEF TakesCommand, Answered
    <2>2. ASSUME NEW s \in {"new", "torn"}, TakesChunk(s)
          PROVE  Rest
      <3>1. flash' = [flash EXCEPT ![chunk] = s] /\ checked' = FALSE BY <2>2 DEF TakesChunk
      <3>2. FlashTypes BY <3>1, <1>0
      <3> QED BY <3>1, <3>2, <1>0, <2>2 DEF TakesChunk, Answered
    <2>3. CASE Refuses BY <1>0, <2>3 DEF Refuses
    <2>4. CASE LosesCommand BY <1>0, <2>4 DEF LosesCommand
    <2> QED BY <2>1, <2>2, <2>3, <2>4 DEF Takes
  <1>3. Grown
    <2> HIDE DEF ack
    <2>1. ASSUME Answered PROVE Grown
      <3>1. CASE step = "BootResetWrite"
        <4> DEFINE q == <<ack>>
        <4>1. q \in Seq(Packet) /\ Len(q) = 1 /\ q[1] = ack BY <1>1
        <4>2. queue' = Queued(q) BY <2>1, <3>1 DEF Answered, ack
        <4> HIDE DEF q
        <4>3. \A j \in 1..Len(q) : ~Verdict(q[j]) BY <4>1, <1>1 DEF Verdict
        <4> QED BY <4>1, <4>2, <4>3, QueueGrows
      <3>2. CASE step # "BootResetWrite"
        <4> DEFINE q == <<ack, Reply(step)>>
        <4>1. q \in Seq(Packet) /\ Len(q) = 2 /\ q[1] = ack /\ q[2] = Reply(step) BY <1>1
        <4>2. queue' = Queued(q) BY <2>1, <3>2 DEF Answered, ack
        <4> HIDE DEF q
        <4>3. \A j \in 1..Len(q) : Verdict(q[j]) => step = "FirmwareCheckWrite" /\ Whole
          BY <4>1, <1>1, <3>2 DEF Verdict
        <4> QED BY <4>1, <4>2, <4>3, QueueGrows
      <3> QED BY <3>1, <3>2
    <2>2. CASE Refuses
      <3> DEFINE no == ReplyOf("PskRead", "refused", <<>>)
                 q == <<AckOf("PskRead"), no>>
      <3>1. CommandOf(step) = "PskRead"
        BY <2>2 DEF Refuses, CommandOf, SealedStages, HashStages, WriteStages, CheckStages,
                        ResetSteps
      <3>2. no \in Packet /\ no.word = "refused"
        <4>1. <<>> \in Seq(Nat) BY EmptySeq
        <4> QED BY <4>1 DEF ReplyOf, Packet, Commands, Words
      <3>3. AckOf("PskRead") \in Packet /\ AckOf("PskRead").word = "none"
        BY <1>1, <3>1 DEF ack
      <3> HIDE DEF no
      <3>4. q \in Seq(Packet) /\ Len(q) = 2 /\ q[1] = AckOf("PskRead") /\ q[2] = no
        BY <3>2, <3>3
      <3>5. queue' = Queued(q) BY <2>2 DEF Refuses, no
      <3> HIDE DEF q
      <3>6. \A j \in 1..Len(q) : ~Verdict(q[j]) BY <3>2, <3>3, <3>4 DEF Verdict
      <3> QED BY <3>4, <3>5, <3>6, QueueGrows
    <2>3. CASE LosesCommand BY <1>0, <2>3 DEF LosesCommand
    <2> QED BY <2>1, <2>2, <2>3 DEF Takes, TakesCommand, TakesChunk
  <1> HIDE DEF ack, FlashTypes
  <1>4. step # "FirmwareWriteBlock" => Whole' = Whole
    BY <1>2 DEF Whole
  <1>5. step \in BeforeCheck \ {"FirmwareCheckWrite"} => NoVerdicts'
    BY <1>3 DEF NoVerdictYet, NoVerdicts
  <1>6. VerdictsTrue'
    <2>1. CASE step = "FirmwareWriteBlock"
      <3>1. step \in BeforeCheck \ {"FirmwareCheckWrite"}
        BY <2>1 DEF BeforeCheck, WriteStages
      <3> QED BY <3>1, <1>5 DEF NoVerdicts, VerdictsTrue
    <2>2. CASE step # "FirmwareWriteBlock"
      BY <2>2, <1>3, <1>4 DEF VerdictsTrue
    <2> QED BY <2>1, <2>2
  <1>7. /\ checked' => Authorised'
        /\ image' = "APP" => Authorised'
        /\ (\E c \in DOMAIN flash' : flash'[c] # "old") => Authorised'
    <2>1. Authorised' = Authorised BY DEF Authorised, world
    <2>2. step \in {"FirmwareCheckWrite", "FirmwareWriteBlock"} => Authorised
      BY DEF Gated, Marks, Past, WriteStages, CheckStages
    <2> QED BY <2>1, <2>2, <1>2 DEF Marks
  <1>8. image \in {"IAP", "APP"} BY DEF TypeOK
  <1> QED BY <1>2, <1>3, <1>4, <1>5, <1>6, <1>7, <1>8 DEF SensorOK, FlashTypes

\* A read takes a packet and leaves the sensor's memory alone.
LEMMA ReadKeeps ==
  ASSUME IInv, Read
  PROVE  SensorOK' /\ (NoVerdicts => NoVerdicts') /\ Whole' = Whole
  <1> USE DEF IInv
  <1>1. queue # <<>> /\ UNCHANGED <<image, flash, checked, rebooting, halfFrame, world>>
    BY DEF Read
  <1>2. /\ queue' \in Seq(Packet)
        /\ \A i \in 1..Len(queue') : \/ \E j \in 1..Len(queue) : queue'[i] = queue[j]
                                     \/ ~Verdict(queue'[i])
    <2>1. /\ Tail(queue) \in Seq(Packet)
          /\ \A i \in 1..Len(Tail(queue)) :
                \E j \in 1..Len(queue) : Tail(queue)[i] = queue[j]
      BY <1>1, TailKeeps
    <2>2. CASE queue' = Tail(queue) BY <2>1, <2>2
    <2>3. CASE queue' = <<Fragment>> \o Tail(queue)
      BY <2>1, <2>3, FragmentFirst
    <2> QED BY <2>2, <2>3 DEF Read
  <1>3. Whole' = Whole /\ Authorised' = Authorised BY <1>1 DEF Whole, Authorised, world
  <1>4. VerdictsTrue' BY <1>2, <1>3 DEF VerdictsTrue
  <1> QED BY <1>1, <1>2, <1>3, <1>4 DEF SensorOK, NoVerdicts, TypeOK, Marks

\* Ending the probe asks for nothing but that.
LEMMA EndKeeps ==
  ASSUME IInv, EndProbe, SensorOK', UNCHANGED world, faults' \in 0..MaxFaults
  PROVE  IInv'
  <1> USE DEF IInv
  <1>1. /\ step' = "Idle" /\ sealed' = <<>> /\ hash' = <<>> /\ authenticated' = FALSE
        /\ chunk' = 0 /\ block' = 0 /\ verdict' = "none"
    BY DEF EndProbe
  <1>2. TypeOK'
    <2>1. <<>> \in Seq(Nat) BY EmptySeq
    <2>2. provisioned' \in BOOLEAN /\ resource' \in {"exact", "other"} BY DEF TypeOK, world
    <2>3. 0 \in 0..Chunks /\ 0 \in 0..(Blocks - 1) BY BootstrapAssumption
    <2> QED BY <1>1, <2>1, <2>2, <2>3 DEF TypeOK, SensorOK, Steps
  <1>3. step' \notin EngineStages \union Past \union BeforeCheck BY <1>1, StageSets
  <1>4. step' \notin ResetSteps BY <1>3 DEF Past
  <1>5. step' \notin WriteStages BY <1>3 DEF Past
  <1> QED BY <1>1, <1>2, <1>3, <1>4, <1>5
         DEF Gated, Exact, Marks, ChunksLeft, NoVerdictYet, CheckedImageWhole, SensorOK

-----------------------------------------------------------------------------
(* The actions. *)

\* Where a write or an acknowledgement leads: to the next step of the same
\* transaction, except that no engine stage and no reset is entered or left.
LEMMA AfterKeeps ==
  ASSUME step \in OutSteps \union (AckSteps \ {"BootResetAck"})
  PROVE  /\ After(step) \in Steps
         /\ After(step) \in Past <=> step \in Past
         /\ After(step) \in EngineStages <=> step \in EngineStages
         /\ After(step) \in WriteStages <=> step \in WriteStages
         /\ After(step) \in ResetSteps <=> step \in ResetSteps
         /\ After(step) \in BeforeCheck => step \in BeforeCheck \ {"FirmwareCheckWrite"}
  BY DEF After, OutSteps, AckSteps, Steps, InSteps, CompletionSteps, Past, EngineStages,
         BeforeCheck, SealedStages, HashStages, WriteStages, CheckStages, ResetSteps

\* An OUT transfer that completes.
LEMMA WriteStep == IInv /\ Write => IInv'
  <1> SUFFICES ASSUME IInv, Write PROVE IInv' OBVIOUS
  <1> USE DEF IInv
  <1>1. PICK n \in 0..1 : Faults(n) /\ Takes(n) BY DEF Write
  <1>2. /\ step \in OutSteps /\ step' = After(step) /\ block' = 0
        /\ UNCHANGED <<sealed, hash, authenticated, chunk, verdict, world>>
    BY DEF Write
  <1>3. /\ SensorOK'
        /\ step \in BeforeCheck \ {"FirmwareCheckWrite"} => NoVerdicts'
        /\ step # "FirmwareWriteBlock" => Whole' = Whole
    BY <1>1, <1>2, TakesKeeps
  <1>4. /\ step' \in Steps /\ (step' \in Past <=> step \in Past)
        /\ (step' \in EngineStages <=> step \in EngineStages)
        /\ (step' \in WriteStages <=> step \in WriteStages)
        /\ (step' \in ResetSteps <=> step \in ResetSteps)
        /\ step' \in BeforeCheck => step \in BeforeCheck \ {"FirmwareCheckWrite"}
    BY <1>2, AfterKeeps
  <1>5. faults' \in 0..MaxFaults BY <1>1, BootstrapAssumption DEF TypeOK, Faults
  <1>6. TypeOK'
    <2>1. 0 \in 0..(Blocks - 1) BY BootstrapAssumption
    <2> QED BY <1>2, <1>3, <1>4, <1>5, <2>1 DEF TypeOK, SensorOK, world
  <1>7. Authorised' = Authorised BY <1>2 DEF Authorised, world
  <1>8. Gated' /\ Exact' /\ Marks' /\ ChunksLeft' /\ VerdictsTrue' /\ NoVerdictYet'
    BY <1>2, <1>3, <1>4, <1>7
       DEF Gated, Exact, Marks, ChunksLeft, NoVerdictYet, NoVerdicts, SensorOK, world
  <1>9. CheckedImageWhole'
    <2>1. step \in ResetSteps => step # "FirmwareWriteBlock" BY DEF ResetSteps
    <2> QED BY <1>2, <1>3, <1>4, <2>1 DEF CheckedImageWhole
  <1> QED BY <1>6, <1>8, <1>9

\* A block of a frame that has more of them.
LEMMA BlockStep == IInv /\ WriteBlock => IInv'
  <1> SUFFICES ASSUME IInv, WriteBlock PROVE IInv' OBVIOUS
  <1> USE DEF IInv
  <1>1. /\ UNCHANGED <<step, sealed, hash, authenticated, chunk, verdict, sensorVars, world,
                       faults>>
        /\ block' = block + 1 /\ block + 1 # Blocks
    BY DEF WriteBlock, LastBlock
  <1>2. block' \in 0..(Blocks - 1) BY <1>1, BootstrapAssumption DEF TypeOK
  <1>3. Whole' = Whole /\ Authorised' = Authorised
    BY <1>1 DEF Whole, Authorised, sensorVars, world
  <1> QED BY <1>1, <1>2, <1>3
     DEF TypeOK, Gated, Exact, Marks, ChunksLeft, VerdictsTrue, NoVerdictYet,
         CheckedImageWhole, sensorVars, world

\* An OUT transfer that fails, with the command taken or not.
LEMMA WriteFailsStep == IInv /\ WriteFails => IInv'
  <1> SUFFICES ASSUME IInv, WriteFails PROVE IInv' OBVIOUS
  <1>1. step \in OutSteps /\ EndProbe /\ Faults(1) /\ UNCHANGED world BY DEF WriteFails
  <1>2. faults' \in 0..MaxFaults BY <1>1, BootstrapAssumption DEF IInv, TypeOK, Faults
  <1>3. SensorOK'
    <2>1. CASE Takes(0) BY <2>1, <1>1, TakesKeeps
    <2>2. CASE /\ halfFrame' \in {halfFrame, step = "FirmwareWriteBlock"}
               /\ UNCHANGED <<queue, image, flash, checked, rebooting>>
      <3>1. Whole' = Whole /\ Authorised' = Authorised
        BY <1>1, <2>2 DEF Whole, Authorised, world
      <3>2. VerdictsTrue' BY <3>1, <2>2 DEF VerdictsTrue, IInv
      <3> QED BY <2>2, <3>1, <3>2 DEF SensorOK, IInv, TypeOK, Marks
    <2> QED BY <2>1, <2>2 DEF WriteFails
  <1> QED BY <1>1, <1>2, <1>3, EndKeeps

\* The reads that end the probe.
LEMMA EndingRead == IInv /\ Read /\ EndProbe => IInv'
  <1> SUFFICES ASSUME IInv, Read, EndProbe PROVE IInv' OBVIOUS
  <1>1. UNCHANGED world /\ faults' = faults BY DEF Read
  <1>2. faults' \in 0..MaxFaults BY <1>1 DEF IInv, TypeOK
  <1> QED BY <1>1, <1>2, ReadKeeps, EndKeeps

\* An IN transfer that fails.
LEMMA ReadFailsStep == IInv /\ ReadFails => IInv'
  <1> SUFFICES ASSUME IInv, ReadFails PROVE IInv' OBVIOUS
  <1>1. EndProbe /\ UNCHANGED <<image, flash, checked, rebooting, halfFrame, world>>
    BY DEF ReadFails
  <1>2. faults' \in 0..MaxFaults
    BY BootstrapAssumption DEF ReadFails, Faults, IInv, TypeOK
  <1>3. queue' = queue \/ (queue # <<>> /\ queue' = Tail(queue)) BY DEF ReadFails
  <1>4. /\ queue' \in Seq(Packet)
        /\ \A i \in 1..Len(queue') : \E j \in 1..Len(queue) : queue'[i] = queue[j]
    BY <1>3, TailKeeps DEF IInv, TypeOK
  <1>5. Whole' = Whole /\ Authorised' = Authorised BY <1>1 DEF Whole, Authorised, world
  <1>6. VerdictsTrue' BY <1>4, <1>5 DEF VerdictsTrue, IInv
  <1>7. SensorOK' BY <1>1, <1>4, <1>5, <1>6 DEF SensorOK, IInv, TypeOK, Marks
  <1> QED BY <1>1, <1>2, <1>7, EndKeeps

\* Begin: the packets left over stop being of this attempt.
LEMMA BeginStep == IInv /\ Begin => IInv'
  <1> SUFFICES ASSUME IInv, Begin PROVE IInv' OBVIOUS
  <1> USE DEF IInv
  <1>1. /\ step = "Version" /\ queue # <<>> /\ queue' = Disown(Tail(queue))
        /\ step' = "ReadSealedPskWrite" /\ resource = "exact"
        /\ UNCHANGED <<engineVars, image, flash, checked, rebooting, halfFrame, world, faults>>
    BY DEF Begin, FirstStage
  <1>2. queue' \in Seq(Packet) /\ NoVerdicts'
    <2>1. Tail(queue) \in Seq(Packet) BY <1>1, TailKeeps
    <2> QED BY <1>1, <2>1, DisownKeeps DEF NoVerdicts
  <1>3. TypeOK' BY <1>1, <1>2 DEF TypeOK, engineVars, world, Steps, OutSteps
  <1>4. step \notin Past /\ step' \notin Past /\ step' \notin ResetSteps
    BY <1>1 DEF Past, WriteStages, CheckStages, ResetSteps
  <1>5. VerdictsTrue' /\ NoVerdictYet' BY <1>2 DEF NoVerdicts, VerdictsTrue, NoVerdictYet
  <1>6. Authorised' = Authorised BY <1>1 DEF Authorised, world
  <1>7. Gated' /\ Exact' /\ Marks' /\ ChunksLeft' /\ CheckedImageWhole'
    BY <1>1, <1>4, <1>6 DEF Gated, Exact, Marks, ChunksLeft, CheckedImageWhole, engineVars,
                            world, Past
  <1> QED BY <1>3, <1>5, <1>7

\* The reads that go on, by what they leave alone: the step they lead to is
\* covered by the step they come from.
LEMMA GoingRead ==
  ASSUME IInv, Read, step' \in Steps,
         sealed' \in Seq(Nat), hash' \in Seq(Nat), authenticated' \in BOOLEAN,
         block' = block, verdict' \in {"none", "own", "stale"},
         authenticated' => authenticated \/ Authorised,
         step' \in Past => authenticated',
         step' \in EngineStages => step \in EngineStages,
         step' \in BeforeCheck => step \in BeforeCheck,
         chunk' \in 0..Chunks, step' \notin Past => chunk' = 0,
         step' \in WriteStages => chunk' < Chunks,
         step' \in ResetSteps /\ verdict' = "own" => Whole
  PROVE  IInv'
  <1> USE DEF IInv
  <1>1. SensorOK' /\ (NoVerdicts => NoVerdicts') /\ Whole' = Whole BY ReadKeeps
  <1>2. UNCHANGED world /\ faults' = faults BY DEF Read
  <1>3. Authorised' = Authorised BY <1>2 DEF Authorised, world
  <1>4. TypeOK' BY <1>1, <1>2 DEF TypeOK, SensorOK, world
  <1>5. Gated' /\ Exact' /\ ChunksLeft' /\ CheckedImageWhole'
    BY <1>1, <1>2 DEF Gated, Exact, ChunksLeft, CheckedImageWhole, world
  <1>6. Marks' /\ VerdictsTrue' BY <1>1, <1>3 DEF Marks, SensorOK
  <1>7. NoVerdictYet' BY <1>1 DEF NoVerdictYet, NoVerdicts
  <1> QED BY <1>4, <1>5, <1>6, <1>7

\* An unrelated packet.
LEMMA IgnoredStep == IInv /\ ReadIgnored => IInv'
  <1> SUFFICES ASSUME IInv, ReadIgnored PROVE IInv' OBVIOUS
  <1>1. Read /\ UNCHANGED <<step, engineVars>> BY DEF ReadIgnored
  <1> QED BY <1>1, GoingRead
     DEF IInv, TypeOK, Gated, Marks, ChunksLeft, CheckedImageWhole, engineVars

\* An acknowledgement.
LEMMA AckStep == IInv /\ ReadAck => IInv'
  <1> SUFFICES ASSUME IInv, ReadAck PROVE IInv' OBVIOUS
  <1>1. Read /\ step' = After(step) /\ UNCHANGED engineVars
        /\ step \in AckSteps \ {"BootResetAck"}
    BY DEF ReadAck
  <1>2. /\ step' \in Steps /\ (step' \in Past <=> step \in Past)
        /\ (step' \in EngineStages <=> step \in EngineStages)
        /\ (step' \in WriteStages <=> step \in WriteStages)
        /\ (step' \in ResetSteps <=> step \in ResetSteps)
        /\ step' \in BeforeCheck => step \in BeforeCheck
    BY <1>1, AfterKeeps
  <1> QED BY <1>1, <1>2, GoingRead
     DEF IInv, TypeOK, Gated, Marks, ChunksLeft, CheckedImageWhole, engineVars

\* A reply about the sealed PSK.
LEMMA SealedStep == IInv /\ ReadSealed => IInv'
  <1> SUFFICES ASSUME IInv, ReadSealed PROVE IInv' OBVIOUS
  <1>1. /\ Read /\ step = "ReadSealedPskCompletion"
        /\ sealed' = sealed \o Head(queue).pieces
        /\ step' \in {"ReadPskHashWrite", "ReadSealedPskWrite"}
        /\ UNCHANGED <<hash, authenticated, chunk, block, verdict>>
    BY DEF ReadSealed
  <1>2. Head(queue).pieces \in Seq(Nat)
    BY <1>1, TailKeeps DEF IInv, Read, Packet
  <1>3. sealed' \in Seq(Nat) BY <1>1, <1>2 DEF IInv, TypeOK
  <1>4. /\ step \notin Past /\ step \in EngineStages /\ step \in BeforeCheck
        /\ step' \in Steps /\ step' \notin Past
        /\ step' \notin WriteStages /\ step' \notin ResetSteps
    BY <1>1 DEF Past, EngineStages, BeforeCheck, Steps, OutSteps, SealedStages, HashStages,
                WriteStages, CheckStages, ResetSteps
  <1> QED BY <1>1, <1>3, <1>4, GoingRead DEF IInv, TypeOK, ChunksLeft

\* A reply about the hash; the last one is where the PSK is authenticated.
LEMMA HashStep == IInv /\ ReadHash => IInv'
  <1> SUFFICES ASSUME IInv, ReadHash PROVE IInv' OBVIOUS
  <1> DEFINE got == hash \o Head(queue).pieces
  <1>1. /\ Read /\ step = "ReadPskHashCompletion" /\ Expected(Head(queue))
        /\ ~Rejects(Head(queue))
        /\ UNCHANGED <<chunk, block, verdict>>
    BY DEF ReadHash
  <1>2. Head(queue).pieces \in Seq(Nat)
    BY <1>1, TailKeeps DEF IInv, Read, Packet
  <1>3. got \in Seq(Nat) /\ <<>> \in Seq(Nat)
    <2>1. <<>> \in Seq(Nat) BY EmptySeq
    <2> QED BY <1>2, <2>1 DEF IInv, TypeOK
  <1>4. /\ step \notin Past /\ step \in EngineStages /\ step \in BeforeCheck
        /\ "FirmwareWriteBlock" \in Steps /\ "ReadPskHashWrite" \in Steps
        /\ "ReadPskHashWrite" \notin Past /\ "FirmwareWriteBlock" \in Past
        /\ "FirmwareWriteBlock" \notin ResetSteps
    BY <1>1 DEF Past, EngineStages, BeforeCheck, Steps, OutSteps, SealedStages, HashStages,
                WriteStages, CheckStages, ResetSteps
  <1>5. CASE Len(got) = HashPieces
    <2>1. /\ sealed' = <<>> /\ hash' = <<>> /\ authenticated' = TRUE
          /\ step' = "FirmwareWriteBlock"
      BY <1>5 DEF ReadHash
    <2>2. Authentic(sealed, got) BY <1>1, <1>5 DEF Rejects
    <2>3. Authorised BY <2>2, <1>4 DEF Authentic, Authorised, IInv, Exact
    <2>4. chunk' = 0 /\ 0 < Chunks /\ 0 \in 0..Chunks
      BY <1>1, <1>4, BootstrapAssumption DEF IInv, ChunksLeft
    <2> QED BY <1>1, <1>3, <1>4, <2>1, <2>3, <2>4, GoingRead DEF IInv, TypeOK
  <1>6. CASE Len(got) # HashPieces
    <2>1. /\ hash' = got /\ step' = "ReadPskHashWrite" /\ UNCHANGED <<sealed, authenticated>>
      BY <1>6 DEF ReadHash
    <2>2. step' \notin WriteStages /\ step' \notin ResetSteps BY <1>4, <2>1 DEF Past
    <2> QED BY <1>1, <1>3, <1>4, <2>1, <2>2, GoingRead DEF IInv, TypeOK, ChunksLeft
  <1> QED BY <1>5, <1>6

\* The reply to a chunk.
LEMMA ChunkStep == IInv /\ ChunkDone => IInv'
  <1> SUFFICES ASSUME IInv, ChunkDone PROVE IInv' OBVIOUS
  <1>1. /\ Read /\ step = "FirmwareWriteCompletion" /\ chunk' = chunk + 1
        /\ step' = IF chunk' < Chunks THEN "FirmwareWriteBlock" ELSE "FirmwareCheckWrite"
        /\ UNCHANGED <<sealed, hash, authenticated, block, verdict>>
    BY DEF ChunkDone, MoreChunks
  <1>2. /\ step \in Past /\ step \in EngineStages /\ step \in BeforeCheck
        /\ step \in WriteStages /\ step' \in Past /\ step' \notin ResetSteps
        /\ step' \in Steps /\ "FirmwareCheckWrite" \notin WriteStages
    BY <1>1 DEF Past, EngineStages, BeforeCheck, Steps, OutSteps, SealedStages, HashStages,
                WriteStages, CheckStages, ResetSteps
  <1>3. chunk' \in 0..Chunks /\ (step' \in WriteStages => chunk' < Chunks)
    BY <1>1, <1>2, BootstrapAssumption DEF IInv, TypeOK, ChunksLeft
  <1> QED BY <1>1, <1>2, <1>3, GoingRead DEF IInv, TypeOK, Gated

\* The verdict of the check.
LEMMA CheckStep == IInv /\ CheckPassed => IInv'
  <1> SUFFICES ASSUME IInv, CheckPassed PROVE IInv' OBVIOUS
  <1>1. /\ Read /\ step = "FirmwareCheckCompletion" /\ step' = "BootResetWrite"
        /\ verdict' = IF Head(queue).own THEN "own" ELSE "stale"
        /\ Head(queue).word = "whole"
        /\ UNCHANGED <<sealed, hash, authenticated, chunk, block>>
    BY DEF CheckPassed, Passes
  <1>2. /\ step \in Past /\ step' \in Past /\ step' \in Steps
        /\ step' \notin WriteStages /\ step' \notin EngineStages
        /\ step' \notin BeforeCheck
    BY <1>1 DEF Past, EngineStages, BeforeCheck, Steps, OutSteps, SealedStages, HashStages,
                WriteStages, CheckStages, ResetSteps
  <1>3. Head(queue).own => Whole
    BY <1>1, TailKeeps DEF IInv, Read, VerdictsTrue, Verdict
  <1> QED BY <1>1, <1>2, <1>3, GoingRead DEF IInv, TypeOK, Gated

\* A probe starts.
LEMMA StartStep == IInv /\ StartProbe => IInv'
  <1> SUFFICES ASSUME IInv, StartProbe PROVE IInv' OBVIOUS
  <1>1. /\ step = "Idle" /\ step' = "VersionWrite"
        /\ UNCHANGED <<engineVars, sensorVars, world, faults>>
    BY DEF StartProbe
  <1>2. /\ step \notin Past /\ step' \notin Past /\ step' \in Steps
        /\ step' \notin EngineStages /\ step' \notin BeforeCheck
    BY <1>1 DEF Past, EngineStages, BeforeCheck, Steps, OutSteps, SealedStages, HashStages,
                WriteStages, CheckStages, ResetSteps
  <1>3. Whole' = Whole /\ Authorised' = Authorised
    BY <1>1 DEF Whole, Authorised, sensorVars, world
  <1> QED BY <1>1, <1>2, <1>3
     DEF IInv, TypeOK, Gated, Exact, Marks, ChunksLeft, VerdictsTrue, NoVerdictYet,
         CheckedImageWhole, Past, engineVars, sensorVars, world

\* The sensor reboots: into the APP only if it has found its flash whole, which
\* only an authenticated attempt can have had it do.
LEMMA RebootStep == IInv /\ Reboot => IInv'
  <1> SUFFICES ASSUME IInv, Reboot PROVE IInv' OBVIOUS
  <1>1. /\ rebooting' = FALSE /\ image' = (IF checked THEN "APP" ELSE "IAP")
        /\ queue' = <<>> /\ halfFrame' = FALSE
        /\ UNCHANGED <<step, engineVars, flash, checked, world, faults>>
    BY DEF Reboot
  <1>2. queue' \in Seq(Packet) /\ Len(queue') = 0 BY <1>1, EmptySeq
  <1>3. Whole' = Whole /\ Authorised' = Authorised BY <1>1 DEF Whole, Authorised, world
  <1>4. VerdictsTrue' /\ NoVerdictYet' BY <1>2 DEF VerdictsTrue, NoVerdictYet
  <1> QED BY <1>1, <1>2, <1>3, <1>4
     DEF IInv, TypeOK, Gated, Exact, Marks, ChunksLeft, CheckedImageWhole, engineVars, world

-----------------------------------------------------------------------------
(* The theorems. *)

\* The initial states satisfy the invariant.
LEMMA InitInv == Init => IInv
  <1> SUFFICES ASSUME Init PROVE IInv OBVIOUS
  <1>1. <<>> \in Seq(Nat) /\ <<>> \in Seq(Packet) /\ Len(<<>>) = 0
    <2>1. <<>> \in Seq(Nat) BY EmptySeq
    <2>2. <<>> \in Seq(Packet) /\ Len(<<>>) = 0 BY EmptySeq
    <2> QED BY <2>1, <2>2
  <1>2. TypeOK BY <1>1, BootstrapAssumption DEF Init, TypeOK, Steps
  <1>3. step \notin EngineStages \union Past \union BeforeCheck BY StageSets DEF Init
  <1>4. VerdictsTrue /\ NoVerdictYet BY <1>1 DEF Init, VerdictsTrue, NoVerdictYet
  <1>5. Gated /\ Exact /\ ChunksLeft /\ CheckedImageWhole
    BY <1>3 DEF Init, Gated, Exact, ChunksLeft, CheckedImageWhole, Past
  <1>6. Marks BY DEF Init, Marks
  <1> QED BY <1>2, <1>4, <1>5, <1>6 DEF IInv

\* Every step of the host, of the sensor, and every stutter keeps it.
LEMMA NextInv == IInv /\ [Next]_vars => IInv'
  <1> SUFFICES ASSUME IInv, [Next]_vars PROVE IInv' OBVIOUS
  <1>1. CASE StartProbe BY <1>1, StartStep
  <1>2. CASE Write BY <1>2, WriteStep
  <1>3. CASE WriteBlock BY <1>3, BlockStep
  <1>4. CASE WriteFails BY <1>4, WriteFailsStep
  <1>5. CASE Reading
    <2>1. CASE ReadIgnored BY <2>1, IgnoredStep
    <2>2. CASE ReadRejected \/ FindsApp \/ ResetDone
      <3>1. Read /\ EndProbe BY <2>2 DEF ReadRejected, FindsApp, ResetDone
      <3> QED BY <3>1, EndingRead
    <2>3. CASE Begin BY <2>3, BeginStep
    <2>4. CASE ReadAck BY <2>4, AckStep
    <2>5. CASE ReadSealed BY <2>5, SealedStep
    <2>6. CASE ReadHash BY <2>6, HashStep
    <2>7. CASE ChunkDone BY <2>7, ChunkStep
    <2>8. CASE CheckPassed BY <2>8, CheckStep
    <2>9. CASE ReadFails BY <2>9, ReadFailsStep
    <2> QED BY <1>5, <2>1, <2>2, <2>3, <2>4, <2>5, <2>6, <2>7, <2>8, <2>9 DEF Reading
  <1>6. CASE Reboot BY <1>6, RebootStep
  <1>7. CASE UNCHANGED vars
    <2>1. Whole' = Whole /\ Authorised' = Authorised
      BY <1>7 DEF Whole, Authorised, vars, sensorVars, world
    <2> QED BY <1>7, <2>1
       DEF IInv, TypeOK, Gated, Exact, Marks, ChunksLeft, VerdictsTrue, NoVerdictYet,
           CheckedImageWhole, vars, engineVars, sensorVars, world
  <1> QED BY <1>1, <1>2, <1>3, <1>4, <1>5, <1>6, <1>7 DEF Next, HostStep

\* The invariant holds of every bootstrap.
THEOREM BootstrapInvariant == Spec => []IInv
  BY InitInv, NextInv, PTL DEF Spec

\* Every variable keeps its type: the engine never points past the last chunk.
THEOREM BootstrapTypes == Spec => []TypeOK
  <1>1. IInv => TypeOK BY DEF IInv
  <1> QED BY <1>1, BootstrapInvariant, PTL

\* Only an authenticated sensor is written, and only with the exact firmware, for
\* any number of attempts and whatever they leave in the endpoint.
THEOREM WritesAreAuthorised == Spec => []OnlyProvisionedWritten
  <1>1. IInv => OnlyProvisionedWritten
    BY DEF IInv, Marks, OnlyProvisionedWritten, Authorised
  <1> QED BY <1>1, BootstrapInvariant, PTL

\* A reset on the strength of this attempt's check starts a wholly new flash, for
\* any number of chunks and whatever writes failed without a word.
THEOREM ChecksAreTrue == Spec => []CheckedImageWhole
  <1>1. IInv => CheckedImageWhole BY DEF IInv
  <1> QED BY <1>1, BootstrapInvariant, PTL

-----------------------------------------------------------------------------
(* Whose check it is.  An attempt finds an old check in place of its own only if *)
(* the answers to all its commands lie in the queue before it asks.  Of those,   *)
(* no more are left over than probes were cut off (EngineLag): a completed or    *)
(* rejected command takes an answer for the one it asked for.  What a handshake  *)
(* lets an engine see lies behind an old version answer, which cost a cut of its *)
(* own (OutsideLag).  So with the commands it has had answered an attempt uses   *)
(* up its old answers (StaleLag).                                                *)

VReply(p)  == p.kind = "reply" /\ p.cmd = "GetVersion"
Counted(p) == p.kind = "reply" /\ p.cmd # "GetVersion"

\* The answers in a queue, those a handshake can uncover, and those of earlier attempts.
Owed(q)   == {i \in 1..Len(q) : Counted(q[i])}
Behind(q) == {i \in Owed(q) : \E j \in 1..(i - 1) : VReply(q[j])}
Stale(q)  == {i \in Owed(q) : ~q[i].own}
HasVersion(q) == \E i \in 1..Len(q) : VReply(q[i])

\* The answer the engine is waiting for, and how many it has had.
Debt == IF step \in EngineStages /\ step \in InSteps THEN 1 ELSE 0
Progress == IF authenticated
            THEN Reads(SealedPieces) + Reads(HashPieces) + chunk
            ELSE Reads(Len(sealed)) + Reads(Len(hash))

Outside == {"Idle", "VersionWrite", "VersionAck", "Version"}

WellFormed(p) == /\ p.word = "sealed" => Counted(p)
                 /\ Len(p.pieces) =< ReplyPieces
Packets == \A i \in 1..Len(queue) :
              /\ WellFormed(queue[i])
              /\ queue[i].kind = "fragment"
                   => i = 1 /\ step \in {"Idle", "VersionWrite", "VersionAck"}

\* Without a fault the queue is what the present transfer is about to read.
Answer(p, kind) == p.kind = kind /\ p.cmd = CommandOf(step)
Clean == faults = 0 =>
  \/ queue = <<>>
  \/ step \in CompletionSteps /\ Len(queue) = 1 /\ Answer(queue[1], "reply")
  \/ step = "BootResetAck" /\ Len(queue) = 1 /\ Answer(queue[1], "ack")
  \/ /\ step \in AckSteps \ {"BootResetAck"}
     /\ Len(queue) = 2 /\ Answer(queue[1], "ack") /\ Answer(queue[2], "reply")

OutsideLag == step \in Outside =>
  Behind(queue) = {} \/ Cardinality(Behind(queue)) + 1 =< faults
EngineLag == step \in EngineStages \union ResetSteps =>
  /\ Cardinality(Owed(queue)) =< faults + Debt
  /\ HasVersion(queue) => Cardinality(Owed(queue)) + 1 =< faults + Debt
OldFirst == step \in EngineStages =>
  \A j \in 1..Len(queue) : \A i \in 1..j : queue[i].own => queue[j].own
StaleLag == step \in EngineStages =>
  Stale(queue) = {} \/ Progress + Cardinality(Stale(queue)) + 1 =< faults
Received ==
  /\ step \in Outside => sealed = <<>> /\ hash = <<>> /\ ~authenticated /\ chunk = 0
  /\ step \in SealedStages => hash = <<>> /\ ~authenticated
  /\ step \in HashStages => Len(sealed) = SealedPieces /\ ~authenticated
  /\ step \in CheckStages => chunk = Chunks
VerdictLag == step \in ResetSteps => verdict = "own" \/ faults > AttemptCommands

LagInv == /\ Packets /\ Clean
          /\ OutsideLag /\ EngineLag /\ OldFirst /\ StaleLag
          /\ Received /\ VerdictLag

-----------------------------------------------------------------------------
(* Counting answers. *)

\* How many replies an object of so many pieces takes: none for nothing, and at
\* most one more for the pieces of one more reply.
LEMMA ReadsGrow ==
  ASSUME NEW m \in Nat, NEW k \in Nat, k =< ReplyPieces
  PROVE  /\ Reads(m) \in Nat /\ Reads(m + k) \in Nat
         /\ Reads(m + k) =< Reads(m) + 1
         /\ Reads(0) = 0
  <1> DEFINE r == ReplyPieces
             a == m + r - 1
             b == m + k + r - 1
             p == a \div r
             q == b \div r
  <1>1. r \in Nat \ {0} /\ a \in Nat /\ b \in Nat /\ b =< a + r BY BootstrapAssumption
  <1>2. Reads(m) = p /\ Reads(m + k) = q BY DEF Reads
  <1>0. Reads(0) = (0 + r - 1) \div r BY DEF Reads
  <1> HIDE DEF a, b, r
  <1>3. p \in Int /\ r * p =< a /\ a < r * p + r BY <1>1
  <1>4. q \in Int /\ r * q =< b /\ b < r * q + r BY <1>1
  <1>5. (0 + r - 1) \div r = 0 BY <1>1
  <1> HIDE DEF p, q
  <1>6. p >= 0 /\ q >= 0
    <2>1. ASSUME NEW x \in Int, r * x + r > 0 PROVE x >= 0
      <3> SUFFICES ASSUME x + 1 =< 0 PROVE FALSE OBVIOUS
      <3>1. r * (x + 1) =< 0 BY <1>1
      <3> QED BY <3>1, <2>1, <1>1
    <2> QED BY <2>1, <1>1, <1>3, <1>4
  <1>7. q =< p + 1
    <2> SUFFICES ASSUME p + 2 =< q PROVE FALSE BY <1>3, <1>4
    <2>1. r * (p + 2) =< r * q BY <1>1, <1>3, <1>4
    <2>2. r * (p + 2) = r * p + 2 * r BY <1>1, <1>3
    <2> QED BY <2>1, <2>2, <1>1, <1>3, <1>4
  <1> QED BY <1>0, <1>2, <1>3, <1>4, <1>5, <1>6, <1>7

\* The number of replies is a number.
LEMMA ReadsType == \A m \in Nat : Reads(m) \in Nat
  <1> SUFFICES ASSUME NEW m \in Nat PROVE Reads(m) \in Nat OBVIOUS
  <1>1. 0 \in Nat /\ 0 =< ReplyPieces BY BootstrapAssumption
  <1> QED BY <1>1, ReadsGrow

\* The progress of an attempt is a number.
LEMMA ProgressType == TypeOK => Progress \in Nat
  <1> SUFFICES ASSUME TypeOK PROVE Progress \in Nat OBVIOUS
  <1>1. Len(sealed) \in Nat /\ Len(hash) \in Nat /\ chunk \in Nat
    BY LenProperties DEF TypeOK
  <1>2. /\ Reads(Len(sealed)) \in Nat /\ Reads(Len(hash)) \in Nat
        /\ Reads(SealedPieces) \in Nat /\ Reads(HashPieces) \in Nat
    BY <1>1, ReadsType, BootstrapAssumption
  <1> QED BY <1>1, <1>2 DEF Progress

\* The answers of a queue can be counted.
LEMMA Countable ==
  ASSUME NEW q \in Seq(Packet)
  PROVE  /\ IsFiniteSet(Owed(q)) /\ IsFiniteSet(Behind(q)) /\ IsFiniteSet(Stale(q))
         /\ Cardinality(Owed(q)) \in Nat /\ Cardinality(Behind(q)) \in Nat
         /\ Cardinality(Stale(q)) \in Nat
  <1>1. Len(q) \in Nat BY LenProperties
  <1>2. IsFiniteSet(1..Len(q)) BY <1>1, FS_Interval
  <1>3. /\ Owed(q) \in SUBSET (1..Len(q)) /\ Behind(q) \in SUBSET (1..Len(q))
        /\ Stale(q) \in SUBSET (1..Len(q))
    BY DEF Owed, Behind, Stale
  <1>4. IsFiniteSet(Owed(q)) /\ IsFiniteSet(Behind(q)) /\ IsFiniteSet(Stale(q))
    BY <1>2, <1>3, FS_Subset
  <1> QED BY <1>4, FS_CardinalityType

\* A set of positions that moves up by one into another is no larger.
LEMMA MovesUp ==
  ASSUME NEW A \in SUBSET Nat, NEW C, IsFiniteSet(C), \A i \in A : i + 1 \in C
  PROVE  IsFiniteSet(A) /\ Cardinality(A) =< Cardinality(C)
  <1> DEFINE f == [i \in A |-> i + 1]
  <1>1. f \in [A -> C] OBVIOUS
  <1>2. ASSUME NEW i \in A, NEW j \in A, f[i] = f[j] PROVE i = j
    <2>1. i + 1 = j + 1 BY <1>2
    <2> QED BY <2>1
  <1>3. f \in Injection(A, C) BY <1>1, <1>2 DEF Injection, IsInjective
  <1> HIDE DEF f
  <1> QED BY <1>3, FS_Injection

\* The head of a queue goes.  No count grows; an answer at the head is one less; a
\* version answer at the head stood before all the answers that are left.
LEMMA HeadGoes ==
  ASSUME NEW q \in Seq(Packet), NEW r \in Seq(Packet), q # <<>>, Len(r) + 1 = Len(q),
         \A i \in 1..Len(r) : r[i].kind = q[i + 1].kind /\ r[i].cmd = q[i + 1].cmd
  PROVE  /\ Cardinality(Owed(r)) =< Cardinality(Owed(q))
         /\ Cardinality(Behind(r)) =< Cardinality(Behind(q))
         /\ Counted(q[1]) => Cardinality(Owed(r)) + 1 =< Cardinality(Owed(q))
         /\ VReply(q[1]) => Cardinality(Owed(r)) =< Cardinality(Behind(q))
         /\ HasVersion(r) => HasVersion(q)
         /\ Behind(q) = {} => Behind(r) = {}
         /\ VReply(q[1]) /\ Behind(q) = {} => Owed(r) = {}
  <1>1. Len(r) \in Nat /\ Len(q) \in Nat BY LenProperties
  <1>2. \A i \in 1..Len(r) : /\ i + 1 \in 1..Len(q)
                             /\ Counted(r[i]) <=> Counted(q[i + 1])
                             /\ VReply(r[i]) <=> VReply(q[i + 1])
    BY <1>1 DEF Counted, VReply
  <1>3. Owed(r) \in SUBSET Nat /\ Behind(r) \in SUBSET Nat BY <1>1 DEF Owed, Behind
  <1>4. \A i \in Owed(r) : i + 1 \in Owed(q) /\ i + 1 # 1 BY <1>1, <1>2 DEF Owed
  <1>5. ASSUME NEW i \in Behind(r) PROVE i + 1 \in Behind(q)
    <2>1. PICK j \in 1..(i - 1) : VReply(r[j]) BY DEF Behind
    <2>2. i \in Owed(r) /\ i \in 1..Len(r) BY DEF Behind, Owed
    <2>3. j \in 1..Len(r) BY <2>1, <2>2, <1>1
    <2>4. j + 1 \in 1..((i + 1) - 1) /\ VReply(q[j + 1]) BY <2>1, <2>2, <2>3, <1>1, <1>2
    <2> QED BY <2>2, <2>4, <1>4 DEF Behind
  <1>6. ASSUME VReply(q[1]), NEW i \in Owed(r) PROVE i + 1 \in Behind(q)
    <2>1. i \in 1..Len(r) BY DEF Owed
    <2>2. 1 \in 1..((i + 1) - 1) BY <2>1, <1>1
    <2> QED BY <2>2, <1>4, <1>6 DEF Behind
  <1>7. Cardinality(Owed(r)) =< Cardinality(Owed(q)) BY <1>3, <1>4, Countable, MovesUp
  <1>8. Cardinality(Behind(r)) =< Cardinality(Behind(q)) BY <1>3, <1>5, Countable, MovesUp
  <1>9. ASSUME Counted(q[1]) PROVE Cardinality(Owed(r)) + 1 =< Cardinality(Owed(q))
    <2>1. 1 \in Owed(q)
      <3>1. Len(q) >= 1 BY EmptySeq
      <3> QED BY <3>1, <1>1, <1>9 DEF Owed
    <2>2. /\ IsFiniteSet(Owed(q) \ {1})
          /\ Cardinality(Owed(q) \ {1}) = Cardinality(Owed(q)) - 1
      BY <2>1, Countable, FS_RemoveElement
    <2>3. \A i \in Owed(r) : i + 1 \in Owed(q) \ {1} BY <1>4
    <2>4. Cardinality(Owed(r)) =< Cardinality(Owed(q) \ {1}) BY <2>2, <2>3, <1>3, MovesUp
    <2> QED BY <2>2, <2>4, Countable
  <1>10. VReply(q[1]) => Cardinality(Owed(r)) =< Cardinality(Behind(q))
    BY <1>3, <1>6, Countable, MovesUp
  <1>11. HasVersion(r) => HasVersion(q) BY <1>2 DEF HasVersion
  <1> QED BY <1>5, <1>6, <1>7, <1>8, <1>9, <1>10, <1>11

\* The same of the answers of earlier attempts, when the rest is unchanged.
LEMMA StaleGoes ==
  ASSUME NEW q \in Seq(Packet), q # <<>>
  PROVE  /\ Cardinality(Stale(Tail(q))) =< Cardinality(Stale(q))
         /\ Stale(q) = {} => Stale(Tail(q)) = {}
         /\ Counted(q[1]) /\ ~q[1].own
              => Cardinality(Stale(Tail(q))) + 1 =< Cardinality(Stale(q)) /\ Stale(q) # {}
  <1> DEFINE r == Tail(q)
  <1>1. /\ r \in Seq(Packet) /\ Len(r) = Len(q) - 1 /\ Len(q) \in Nat /\ Len(q) >= 1
        /\ \A i \in 1..Len(r) : r[i] = q[i + 1]
    BY HeadTailProperties, LenProperties, EmptySeq
  <1> HIDE DEF r
  <1>2. Stale(r) \in SUBSET Nat BY <1>1 DEF Stale, Owed
  <1>3. \A i \in Stale(r) : i + 1 \in Stale(q) \ {1}
    BY <1>1 DEF Stale, Owed
  <1>4. \A i \in Stale(r) : i + 1 \in Stale(q) BY <1>3
  <1>5. Cardinality(Stale(r)) =< Cardinality(Stale(q)) BY <1>2, <1>4, Countable, MovesUp
  <1>6. ASSUME Counted(q[1]), ~q[1].own
        PROVE  Cardinality(Stale(r)) + 1 =< Cardinality(Stale(q)) /\ Stale(q) # {}
    <2>1. 1 \in Stale(q) BY <1>1, <1>6 DEF Stale, Owed
    <2>2. /\ IsFiniteSet(Stale(q) \ {1})
          /\ Cardinality(Stale(q) \ {1}) = Cardinality(Stale(q)) - 1
      BY <2>1, Countable, FS_RemoveElement
    <2>3. Cardinality(Stale(r)) =< Cardinality(Stale(q) \ {1})
      BY <2>2, <1>2, <1>3, MovesUp
    <2>4. Cardinality(Stale(r)) \in Nat /\ Cardinality(Stale(q)) \in Nat
      BY <1>1, Countable
    <2> QED BY <2>1, <2>2, <2>3, <2>4
  <1>7. r = Tail(q) BY DEF r
  <1> QED BY <1>4, <1>5, <1>6, <1>7

\* Packets are added at the end, the last of them perhaps an answer.
LEMMA TailGrows ==
  ASSUME NEW q \in Seq(Packet), NEW r \in Seq(Packet), NEW n \in Nat, NEW d \in {1, 2},
         n = Len(q), Len(r) = n + d, \A i \in 1..n : r[i] = q[i],
         d = 2 => r[n + 1].kind = "ack"
  PROVE  /\ Cardinality(Owed(r)) =< Cardinality(Owed(q)) + 1
         /\ ~Counted(r[n + d]) => Owed(r) = Owed(q) /\ Behind(r) = Behind(q)
         /\ r[n + d].own => Stale(r) = Stale(q)
         /\ HasVersion(r) => HasVersion(q) \/ VReply(r[n + d])
  <1>1. /\ n \in Nat /\ n + d \in 1..Len(r)
        /\ \A i \in 1..Len(r) : i \in 1..n \/ i = n + d \/ (d = 2 /\ i = n + 1)
        /\ \A i \in 1..n : i \in 1..Len(q) /\ i \in 1..Len(r)
    OBVIOUS
  <1>2. \A i \in 1..Len(r) : i \in 1..n \/ i = n + d \/ (~Counted(r[i]) /\ ~VReply(r[i]))
    BY <1>1 DEF Counted, VReply
  <1>3. Owed(q) = {i \in 1..n : Counted(r[i])} BY DEF Owed
  <1>4. Owed(r) = Owed(q) \/ Owed(r) = Owed(q) \union {n + d}
    <2>1. Owed(q) \subseteq Owed(r) BY <1>1, <1>3 DEF Owed
    <2>2. \A i \in Owed(r) : i \in Owed(q) \/ i = n + d BY <1>2, <1>3 DEF Owed
    <2> QED BY <2>1, <2>2
  <1>5. Cardinality(Owed(r)) =< Cardinality(Owed(q)) + 1
    <2>1. IsFiniteSet(Owed(q)) /\ Cardinality(Owed(q)) \in Nat BY Countable
    <2>2. Cardinality(Owed(q) \union {n + d})
             = IF n + d \in Owed(q) THEN Cardinality(Owed(q)) ELSE Cardinality(Owed(q)) + 1
      BY <2>1, FS_AddElement, Zenon
    <2>3. CASE Owed(r) = Owed(q) BY <2>1, <2>3
    <2>4. CASE Owed(r) = Owed(q) \union {n + d} BY <2>1, <2>2, <2>4
    <2> QED BY <1>4, <2>3, <2>4
  <1>6. n + d \notin Owed(q) BY <1>3
  <1>7. ASSUME ~Counted(r[n + d]) PROVE Owed(r) = Owed(q) /\ Behind(r) = Behind(q)
    <2>1. Owed(r) = Owed(q) BY <1>4, <1>7 DEF Owed
    <2>2. \A i \in Owed(q) : \A j \in 1..(i - 1) : r[j] = q[j]
      BY <1>3
    <2> QED BY <2>1, <2>2 DEF Behind
  <1>8. ASSUME r[n + d].own PROVE Stale(r) = Stale(q)
    <2>1. \A i \in Owed(q) : r[i] = q[i] BY <1>3
    <2> QED BY <2>1, <1>4, <1>8 DEF Stale
  <1>9. HasVersion(r) => HasVersion(q) \/ VReply(r[n + d])
    BY <1>2 DEF HasVersion
  <1> QED BY <1>5, <1>7, <1>8, <1>9

-----------------------------------------------------------------------------
(* What a write and a read do to the queue. *)

\* A reply carries no more pieces than fit.
LEMMA PiecesFit ==
  ASSUME NEW o \in Nat, NEW t \in Nat
  PROVE  Len(Pieces(o, t)) =< ReplyPieces
  <1> DEFINE k == Smaller(ReplyPieces, t - o)
  <1>1. k \in Int /\ k =< ReplyPieces /\ ReplyPieces \in Nat
    BY BootstrapAssumption DEF Smaller
  <1>2. Pieces(o, t) \in Seq(Nat) /\ DOMAIN Pieces(o, t) = 1..k BY PiecesType DEF Pieces
  <1> HIDE DEF k
  <1>3. Len(Pieces(o, t)) \in Nat /\ 1..Len(Pieces(o, t)) = 1..k BY <1>2, LenProperties
  <1>4. Len(Pieces(o, t)) # 0 => Len(Pieces(o, t)) \in 1..k
    <2>1. ASSUME NEW m \in Nat, m # 0 PROVE m \in 1..m BY <2>1
    <2> QED BY <2>1, <1>3
  <1> QED BY <1>1, <1>3, <1>4

\* Every reply answers the command in hand, and is well formed.
LEMMA ReplyAnswers ==
  ASSUME TypeOK, step \in OutSteps, step # "BootResetWrite"
  PROVE  Answer(Reply(step), "reply") /\ Reply(step).own /\ WellFormed(Reply(step))
  <1> DEFINE s == Pieces(Len(sealed), SealedPieces)
             h == Pieces(Len(hash), HashPieces)
  <1>1. Len(s) =< ReplyPieces /\ Len(h) =< ReplyPieces
    <2>1. Len(sealed) \in Nat /\ Len(hash) \in Nat BY LenProperties DEF TypeOK
    <2>2. Len(s) =< ReplyPieces BY <2>1, PiecesFit, BootstrapAssumption
    <2>3. Len(h) =< ReplyPieces BY <2>1, PiecesFit, BootstrapAssumption
    <2> QED BY <2>2, <2>3
  <1>2. Reply(step) = CASE step = "VersionWrite" -> ReplyOf("GetVersion", image, <<>>)
           [] step = "ReadSealedPskWrite" -> ReplyOf("PskRead", "sealed", s)
           [] step = "ReadPskHashWrite" -> ReplyOf("PskRead", "hash", h)
           [] step = "FirmwareWriteBlock" -> ReplyOf("FirmwareWrite", "done", <<>>)
           [] OTHER -> ReplyOf("FirmwareCheck", IF Whole THEN "whole" ELSE "zero", <<>>)
    BY DEF Reply
  <1> HIDE DEF s, h
  <1>3. image \in {"IAP", "APP"} /\ Len(<<>>) = 0 /\ 0 =< ReplyPieces
    BY BootstrapAssumption DEF TypeOK
  <1>4. /\ step = "VersionWrite" => CommandOf(step) = "GetVersion"
        /\ step \in {"ReadSealedPskWrite", "ReadPskHashWrite"} => CommandOf(step) = "PskRead"
        /\ step = "FirmwareWriteBlock" => CommandOf(step) = "FirmwareWrite"
        /\ step = "FirmwareCheckWrite" => CommandOf(step) = "FirmwareCheck"
        /\ step \in {"VersionWrite", "ReadSealedPskWrite", "ReadPskHashWrite",
                     "FirmwareWriteBlock", "FirmwareCheckWrite"}
    BY DEF CommandOf, OutSteps, SealedStages, HashStages, WriteStages, CheckStages, ResetSteps
  <1>5. CASE step = "VersionWrite"
    BY <1>1, <1>2, <1>3, <1>4, <1>5 DEF ReplyOf, Answer, WellFormed, Counted
  <1>6. CASE step = "ReadSealedPskWrite"
    BY <1>1, <1>2, <1>3, <1>4, <1>6 DEF ReplyOf, Answer, WellFormed, Counted
  <1>7. CASE step = "ReadPskHashWrite"
    BY <1>1, <1>2, <1>3, <1>4, <1>7 DEF ReplyOf, Answer, WellFormed, Counted
  <1>8. CASE step = "FirmwareWriteBlock"
    BY <1>1, <1>2, <1>3, <1>4, <1>8 DEF ReplyOf, Answer, WellFormed, Counted
  <1>9. CASE step = "FirmwareCheckWrite"
    BY <1>1, <1>2, <1>3, <1>4, <1>9 DEF ReplyOf, Answer, WellFormed, Counted
  <1> QED BY <1>4, <1>5, <1>6, <1>7, <1>8, <1>9

\* What two packets at the end of a queue are.
LEMMA TwoMore ==
  ASSUME NEW q \in Seq(Packet), NEW a \in Packet, NEW p \in Packet
  PROVE  /\ q \o <<a, p>> \in Seq(Packet) /\ Len(q \o <<a, p>>) = Len(q) + 2
         /\ \A i \in 1..Len(q) : (q \o <<a, p>>)[i] = q[i]
         /\ (q \o <<a, p>>)[Len(q) + 1] = a /\ (q \o <<a, p>>)[Len(q) + 2] = p
  <1> DEFINE t == <<a, p>>
  <1>1. t \in Seq(Packet) /\ Len(t) = 2 /\ t[1] = a /\ t[2] = p OBVIOUS
  <1>2. Len(q) \in Nat BY LenProperties
  <1> HIDE DEF t
  <1>3. /\ q \o t \in Seq(Packet) /\ Len(q \o t) = Len(q) + 2
        /\ \A i \in 1..Len(q) + 2 : (q \o t)[i] = IF i <= Len(q) THEN q[i] ELSE t[i - Len(q)]
    <2>1. /\ q \o t \in Seq(Packet) /\ Len(q \o t) = Len(q) + Len(t)
          /\ \A i \in 1..Len(q) + Len(t) :
                (q \o t)[i] = IF i <= Len(q) THEN q[i] ELSE t[i - Len(q)]
      BY <1>1, ConcatProperties, Zenon
    <2> QED BY <2>1, <1>1
  <1>4. \A i \in 1..Len(q) : (q \o t)[i] = q[i] BY <1>2, <1>3
  <1>5. (q \o t)[Len(q) + 1] = t[1] BY <1>2, <1>3
  <1>6. (q \o t)[Len(q) + 2] = t[2] BY <1>2, <1>3
  <1> QED BY <1>1, <1>3, <1>4, <1>5, <1>6 DEF t

\* The same of one packet.
LEMMA OneMore ==
  ASSUME NEW q \in Seq(Packet), NEW a \in Packet
  PROVE  /\ q \o <<a>> \in Seq(Packet) /\ Len(q \o <<a>>) = Len(q) + 1
         /\ \A i \in 1..Len(q) : (q \o <<a>>)[i] = q[i]
         /\ (q \o <<a>>)[Len(q) + 1] = a
  <1> DEFINE t == <<a>>
  <1>1. t \in Seq(Packet) /\ Len(t) = 1 /\ t[1] = a OBVIOUS
  <1>2. Len(q) \in Nat BY LenProperties
  <1> HIDE DEF t
  <1>3. /\ q \o t \in Seq(Packet) /\ Len(q \o t) = Len(q) + 1
        /\ \A i \in 1..Len(q) + 1 : (q \o t)[i] = IF i <= Len(q) THEN q[i] ELSE t[i - Len(q)]
    <2>1. /\ q \o t \in Seq(Packet) /\ Len(q \o t) = Len(q) + Len(t)
          /\ \A i \in 1..Len(q) + Len(t) :
                (q \o t)[i] = IF i <= Len(q) THEN q[i] ELSE t[i - Len(q)]
      BY <1>1, ConcatProperties, Zenon
    <2> QED BY <2>1, <1>1
  <1>4. \A i \in 1..Len(q) : (q \o t)[i] = q[i] BY <1>2, <1>3
  <1>5. (q \o t)[Len(q) + 1] = t[1] BY <1>2, <1>3
  <1> QED BY <1>1, <1>3, <1>4, <1>5 DEF t

\* A command adds nothing, or its acknowledgement and, but for the reset, an answer.
Added(d) == /\ Len(queue') = Len(queue) + d
            /\ \A i \in 1..Len(queue) : queue'[i] = queue[i]
            /\ Answer(queue'[Len(queue) + 1], "ack")
            /\ \A i \in Len(queue) + 1..Len(queue) + d :
                  queue'[i].own /\ WellFormed(queue'[i])
            /\ d = 1 <=> step = "BootResetWrite"
            /\ d = 2 => Answer(queue'[Len(queue) + 2], "reply")
LEMMA TakesAdds ==
  ASSUME TypeOK, step \in OutSteps, NEW n \in 0..1, Takes(n)
  PROVE  queue' \in Seq(Packet) /\ (queue' = queue \/ \E d \in {1, 2} : Added(d))
  <1> DEFINE a == AckOf(CommandOf(step))
  <1>1. queue \in Seq(Packet) /\ Len(queue) \in Nat BY LenProperties DEF TypeOK
  <1>2. a \in Packet /\ Answer(a, "ack") /\ a.own /\ WellFormed(a)
    <2>1. a \in Packet /\ a.word = "none" BY ReplyType
    <2>2. Len(<<>>) = 0 /\ 0 =< ReplyPieces BY BootstrapAssumption
    <2> QED BY <2>1, <2>2 DEF AckOf, Answer, WellFormed
  <1> HIDE DEF a
  <1>3. ASSUME NEW p \in Packet, Answer(p, "reply"), p.own, WellFormed(p),
               step # "BootResetWrite", queue' = Queued(<<a, p>>)
        PROVE  queue' \in Seq(Packet) /\ (queue' = queue \/ Added(2))
    <2>1. CASE queue' = queue BY <2>1, <1>1
    <2>2. CASE queue' = queue \o <<a, p>>
      <3>1. /\ queue' \in Seq(Packet) /\ Len(queue') = Len(queue) + 2
            /\ \A i \in 1..Len(queue) : queue'[i] = queue[i]
            /\ queue'[Len(queue) + 1] = a /\ queue'[Len(queue) + 2] = p
        BY <2>2, <1>1, <1>2, TwoMore
      <3>2. \A i \in Len(queue) + 1..Len(queue) + 2 : i = Len(queue) + 1 \/ i = Len(queue) + 2
        BY <1>1
      <3>3. \A i \in Len(queue) + 1..Len(queue) + 2 : queue'[i] = a \/ queue'[i] = p
        BY <3>1, <3>2
      <3>4. \A i \in Len(queue) + 1..Len(queue) + 2 : queue'[i].own /\ WellFormed(queue'[i])
        BY <3>3, <1>2, <1>3
      <3>5. Answer(queue'[Len(queue) + 1], "ack") /\ Answer(queue'[Len(queue) + 2], "reply")
        BY <3>1, <1>2, <1>3
      <3>6. Added(2)
        <4>1. 2 = 1 <=> step = "BootResetWrite" BY <1>3
        <4> QED BY <3>1, <3>4, <3>5, <4>1, Zenon DEF Added
      <3> QED BY <3>1, <3>6
    <2> QED BY <2>1, <2>2, <1>3 DEF Queued
  <1>4. ASSUME Answered
        PROVE  queue' \in Seq(Packet) /\ (queue' = queue \/ \E d \in {1, 2} : Added(d))
    <2>1. CASE step = "BootResetWrite"
      <3>1. queue' = Queued(<<a>>) BY <1>4, <2>1 DEF Answered, a
      <3>2. CASE queue' = queue BY <3>2, <1>1
      <3>3. CASE queue' = queue \o <<a>>
        <4>1. /\ queue' \in Seq(Packet) /\ Len(queue') = Len(queue) + 1
              /\ \A i \in 1..Len(queue) : queue'[i] = queue[i]
              /\ queue'[Len(queue) + 1] = a
          BY <3>3, <1>1, <1>2, OneMore
        <4>2. \A i \in Len(queue) + 1..Len(queue) + 1 : i = Len(queue) + 1 BY <1>1
        <4>4. \A i \in Len(queue) + 1..Len(queue) + 1 : queue'[i] = a BY <4>1, <4>2
        <4>5. \A i \in Len(queue) + 1..Len(queue) + 1 : queue'[i].own /\ WellFormed(queue'[i])
          BY <4>4, <1>2
        <4>6. Answer(queue'[Len(queue) + 1], "ack") BY <4>1, <1>2
        <4>3. Added(1) BY <4>1, <4>5, <4>6, <2>1 DEF Added
        <4> QED BY <4>1, <4>3
      <3> QED BY <3>1, <3>2, <3>3 DEF Queued
    <2>2. CASE step # "BootResetWrite"
      <3>1. queue' = Queued(<<a, Reply(step)>>) BY <1>4, <2>2 DEF Answered, a
      <3>2. Reply(step) \in Packet BY ReplyType
      <3> QED BY <3>1, <3>2, <2>2, <1>3, ReplyAnswers
    <2> QED BY <2>1, <2>2
  <1>5. CASE Refuses
    <2> DEFINE no == ReplyOf("PskRead", "refused", <<>>)
    <2>1. CommandOf(step) = "PskRead" /\ step # "BootResetWrite"
      BY <1>5 DEF Refuses, CommandOf, SealedStages, HashStages, WriteStages, CheckStages,
                      ResetSteps
    <2>2. no \in Packet
      <3>1. <<>> \in Seq(Nat) BY EmptySeq
      <3> QED BY <3>1 DEF ReplyOf, Packet, Commands, Words
    <2>3. Answer(no, "reply") /\ no.own /\ WellFormed(no)
      <3>1. Len(<<>>) = 0 /\ 0 =< ReplyPieces BY BootstrapAssumption
      <3> QED BY <2>1, <3>1 DEF ReplyOf, Answer, WellFormed
    <2>4. queue' = Queued(<<a, no>>) BY <1>5, <2>1 DEF Refuses, a
    <2> HIDE DEF no
    <2> QED BY <2>1, <2>2, <2>3, <2>4, <1>3
  <1>6. CASE LosesCommand BY <1>1, <1>6 DEF LosesCommand
  <1> QED BY <1>4, <1>5, <1>6 DEF Takes, TakesCommand, TakesChunk

\* A read takes the head; where it is cut short, a fragment stays in its place, and
\* what is cut short is an answer.
LEMMA ReadTakes ==
  ASSUME TypeOK, Packets, Read
  PROVE  /\ queue # <<>> /\ Head(queue) = queue[1] /\ Head(queue) \in Packet
         /\ 1 \in 1..Len(queue) /\ queue' \in Seq(Packet)
         /\ CutShort(queue[1]) => Counted(queue[1]) /\ queue' = <<Fragment>> \o Tail(queue)
         /\ ~CutShort(queue[1]) => queue' = Tail(queue)
  <1>1. queue # <<>> BY DEF Read
  <1>2. /\ Tail(queue) \in Seq(Packet) /\ Head(queue) \in Packet
        /\ 1 \in 1..Len(queue) /\ Head(queue) = queue[1]
    BY <1>1, TailKeeps
  <1>3. CutShort(queue[1]) => Counted(queue[1]) BY <1>2 DEF Packets, WellFormed, CutShort
  <1>4. <<Fragment>> \o Tail(queue) \in Seq(Packet) BY <1>2, FragmentFirst
  <1> QED BY <1>1, <1>2, <1>3, <1>4 DEF Read

\* A queue of which the first packet was cut short.
LEMMA CutShortCounts ==
  ASSUME NEW q \in Seq(Packet), q # <<>>, Counted(q[1])
  PROVE  LET r == <<Fragment>> \o Tail(q)
         IN  /\ r \in Seq(Packet) /\ Len(r) = Len(q)
             /\ r[1] = Fragment /\ \A i \in 2..Len(r) : r[i] = q[i]
             /\ Behind(r) \subseteq Behind(q)
             /\ Cardinality(Behind(r)) =< Cardinality(Behind(q))
  <1> DEFINE f == <<Fragment>>
             r == f \o Tail(q)
  <1>1. /\ Tail(q) \in Seq(Packet) /\ Len(Tail(q)) = Len(q) - 1 /\ Len(q) \in Nat
        /\ Len(q) >= 1 /\ \A i \in 1..Len(Tail(q)) : Tail(q)[i] = q[i + 1]
    BY HeadTailProperties, LenProperties, EmptySeq
  <1>2. f \in Seq(Packet) /\ Len(f) = 1 /\ f[1] = Fragment
    <2>1. Fragment \in Packet
      <3>1. <<>> \in Seq(Nat) BY EmptySeq
      <3> QED BY <3>1 DEF Fragment, Packet, Commands, Words
    <2> QED BY <2>1
  <1> HIDE DEF f
  <1>3. /\ r \in Seq(Packet) /\ Len(r) = Len(q)
        /\ \A i \in 1..Len(q) : r[i] = IF i <= 1 THEN f[i] ELSE Tail(q)[i - 1]
    <2>1. /\ f \o Tail(q) \in Seq(Packet) /\ Len(f \o Tail(q)) = 1 + Len(Tail(q))
          /\ \A i \in 1..(1 + Len(Tail(q))) :
                (f \o Tail(q))[i] = IF i <= 1 THEN f[i] ELSE Tail(q)[i - 1]
      BY <1>1, <1>2, ConcatProperties
    <2>2. 1 + Len(Tail(q)) = Len(q) BY <1>1
    <2> QED BY <2>1, <2>2
  <1> HIDE DEF r
  <1>4. r[1] = Fragment BY <1>1, <1>2, <1>3
  <1>5. \A i \in 2..Len(r) : r[i] = q[i]
    <2> SUFFICES ASSUME NEW i \in 2..Len(q) PROVE r[i] = q[i] BY <1>3
    <2>1. i \in 1..Len(q) /\ ~(i <= 1) /\ i - 1 \in 1..Len(Tail(q)) BY <1>1
    <2>2. r[i] = Tail(q)[i - 1] BY <2>1, <1>3
    <2>3. Tail(q)[i - 1] = q[(i - 1) + 1] BY <2>1, <1>1
    <2> QED BY <2>2, <2>3
  <1>6. ~Counted(r[1]) /\ ~VReply(r[1]) BY <1>4 DEF Fragment, Counted, VReply
  <1>7. Behind(r) \subseteq Behind(q)
    <2> SUFFICES ASSUME NEW i \in Behind(r) PROVE i \in Behind(q) OBVIOUS
    <2>1. i \in 1..Len(r) /\ Counted(r[i]) BY DEF Behind, Owed
    <2>2. PICK j \in 1..(i - 1) : VReply(r[j]) BY DEF Behind
    <2>3. i \in 2..Len(r) /\ j \in 2..Len(r)
      <3>1. i # 1 /\ j # 1 BY <2>1, <2>2, <1>6
      <3> QED BY <3>1, <2>1, <2>2, <1>1, <1>3
    <2>4. r[i] = q[i] /\ r[j] = q[j] BY <2>3, <1>5
    <2> QED BY <2>1, <2>2, <2>4, <1>3 DEF Behind, Owed
  <1>8. Cardinality(Behind(r)) =< Cardinality(Behind(q)) BY <1>7, Countable, FS_Subset
  <1>9. r = <<Fragment>> \o Tail(q) BY DEF r, f
  <1> QED BY <1>3, <1>4, <1>5, <1>7, <1>8, <1>9

-----------------------------------------------------------------------------
(* The lag, step by step. *)

\* The steps of a probe, for the obligations that split on them.
LEMMA StepKinds ==
  /\ Outside \intersect (EngineStages \union ResetSteps) = {}
  /\ Steps = Outside \union EngineStages \union ResetSteps
  /\ EngineStages = SealedStages \union HashStages \union WriteStages \union CheckStages
  /\ OutSteps \intersect InSteps = {} /\ InSteps = AckSteps \union CompletionSteps
  /\ AckSteps \intersect CompletionSteps = {} /\ "Idle" \notin InSteps \union OutSteps
  /\ "BootResetAck" \notin EngineStages /\ "BootResetWrite" \notin EngineStages
  /\ ResetSteps \intersect CompletionSteps = {}
  /\ \A s \in EngineStages : CommandOf(s) # "GetVersion"
  /\ \A s \in InSteps \ EngineStages : s \in {"VersionAck", "Version", "BootResetAck"}
  /\ \A s \in OutSteps \ EngineStages : s \in {"VersionWrite", "BootResetWrite"}
  /\ CommandOf("Version") = "GetVersion" /\ CommandOf("VersionAck") = "GetVersion"
  /\ CommandOf("VersionWrite") = "GetVersion"
  BY DEF Outside, EngineStages, ResetSteps, Steps, OutSteps, InSteps, AckSteps, CompletionSteps,
         SealedStages, HashStages, WriteStages, CheckStages, CommandOf

\* What a handshake can uncover is owed, and stands behind a version answer.
LEMMA BehindOwed ==
  ASSUME NEW q \in Seq(Packet)
  PROVE  /\ Cardinality(Behind(q)) =< Cardinality(Owed(q))
         /\ Behind(q) # {} => HasVersion(q)
  <1>1. Behind(q) \subseteq Owed(q) BY DEF Behind
  <1>2. Cardinality(Behind(q)) =< Cardinality(Owed(q)) BY <1>1, Countable, FS_Subset
  <1>3. ASSUME NEW i \in Behind(q) PROVE HasVersion(q)
    <2>1. i \in 1..Len(q) BY DEF Behind, Owed
    <2>2. PICK j \in 1..(i - 1) : VReply(q[j]) BY DEF Behind
    <2>3. j \in 1..Len(q)
      <3>1. Len(q) \in Nat BY LenProperties
      <3> QED BY <3>1, <2>1, <2>2
    <2> QED BY <2>2, <2>3 DEF HasVersion
  <1> QED BY <1>2, <1>3

\* A queue that lost its head, as HeadGoes has it.
LEMMA TailGoes ==
  ASSUME NEW q \in Seq(Packet), q # <<>>
  PROVE  LET r == Tail(q)
         IN  /\ r \in Seq(Packet) /\ Len(r) + 1 = Len(q)
             /\ \A i \in 1..Len(r) : r[i] = q[i + 1] /\ i + 1 \in 1..Len(q)
             /\ Cardinality(Owed(r)) =< Cardinality(Owed(q))
             /\ Cardinality(Behind(r)) =< Cardinality(Behind(q))
             /\ Counted(q[1]) => Cardinality(Owed(r)) + 1 =< Cardinality(Owed(q))
             /\ HasVersion(r) => HasVersion(q)
             /\ Behind(q) = {} => Behind(r) = {}
  <1> DEFINE r == Tail(q)
  <1>1. /\ r \in Seq(Packet) /\ Len(r) = Len(q) - 1 /\ Len(q) \in Nat /\ Len(q) >= 1
        /\ \A i \in 1..Len(r) : r[i] = q[i + 1]
    BY HeadTailProperties, LenProperties, EmptySeq
  <1> HIDE DEF r
  <1>2. Len(r) + 1 = Len(q) /\ \A i \in 1..Len(r) : i + 1 \in 1..Len(q) BY <1>1
  <1>3. \A i \in 1..Len(r) : r[i].kind = q[i + 1].kind /\ r[i].cmd = q[i + 1].cmd
    BY <1>1
  <1>4. /\ Cardinality(Owed(r)) =< Cardinality(Owed(q))
        /\ Cardinality(Behind(r)) =< Cardinality(Behind(q))
        /\ Counted(q[1]) => Cardinality(Owed(r)) + 1 =< Cardinality(Owed(q))
        /\ HasVersion(r) => HasVersion(q)
        /\ Behind(q) = {} => Behind(r) = {}
    BY <1>1, <1>2, <1>3, HeadGoes
  <1> QED BY <1>1, <1>2, <1>4 DEF r

\* An empty queue owes nothing.
LEMMA NothingOwed ==
  /\ Owed(<<>>) = {} /\ Behind(<<>>) = {} /\ Stale(<<>>) = {} /\ ~HasVersion(<<>>)
  /\ Cardinality({}) = 0
  <1>1. Len(<<>>) = 0 OBVIOUS
  <1>2. Owed(<<>>) = {} /\ ~HasVersion(<<>>) BY <1>1 DEF Owed, HasVersion
  <1> QED BY <1>2, FS_EmptySet DEF Behind, Stale

\* Between probes only the answers a handshake can uncover matter.
LEMMA EndLag ==
  ASSUME EndProbe, Packets', Clean',
         Behind(queue') = {} \/ Cardinality(Behind(queue')) + 1 =< faults'
  PROVE  LagInv'
  <1>1. /\ step' = "Idle" /\ sealed' = <<>> /\ hash' = <<>> /\ authenticated' = FALSE
        /\ chunk' = 0
    BY DEF EndProbe
  <1>2. step' \notin EngineStages \union ResetSteps BY <1>1, StepKinds DEF Outside
  <1>3. step' \notin EngineStages /\ step' \notin ResetSteps /\ step' \notin SealedStages
        /\ step' \notin HashStages /\ step' \notin CheckStages
    BY <1>2, StepKinds
  <1>4. OutsideLag' /\ EngineLag' /\ OldFirst' /\ StaleLag'
    BY <1>3 DEF OutsideLag, EngineLag, OldFirst, StaleLag
  <1>5. Received' /\ VerdictLag' BY <1>1, <1>3 DEF Received, VerdictLag
  <1> QED BY <1>4, <1>5 DEF LagInv

\* A queue without a fault in its past holds what is expected, and is used up.
LEMMA CleanRead ==
  ASSUME TypeOK, Packets, Clean, Read, faults = 0
  PROVE  /\ Expected(Head(queue)) /\ queue' = Tail(queue)
         /\ step \in CompletionSteps \union {"BootResetAck"} => queue' = <<>>
         /\ step \in AckSteps \ {"BootResetAck"} =>
              Len(queue') = 1 /\ Answer(queue'[1], "reply")
  <1>1. /\ queue # <<>> /\ Head(queue) = queue[1] /\ queue \in Seq(Packet)
        /\ CutShort(queue[1]) => Counted(queue[1])
        /\ ~CutShort(queue[1]) => queue' = Tail(queue)
    BY ReadTakes DEF TypeOK
  <1>2. /\ Tail(queue) \in Seq(Packet) /\ Len(Tail(queue)) + 1 = Len(queue)
        /\ \A i \in 1..Len(Tail(queue)) : Tail(queue)[i] = queue[i + 1]
    BY <1>1, TailGoes
  <1>3. Len(Tail(queue)) \in Nat /\ (Len(Tail(queue)) = 0 => Tail(queue) = <<>>)
    BY <1>2, LenProperties, EmptySeq
  <1>4. Len(queue) = 1 => Tail(queue) = <<>> BY <1>2, <1>3
  <1>5. step \in InSteps BY DEF Read
  <1>6. CASE step \in CompletionSteps
    <2>1. Len(queue) = 1 /\ Answer(queue[1], "reply")
      <3>1. step # "BootResetAck" /\ step \notin AckSteps
        BY <1>6 DEF CompletionSteps, AckSteps
      <3> QED BY <3>1, <1>1 DEF Clean
    <2>2. Expected(queue[1]) BY <2>1, <1>6, StepKinds DEF Expected, Answer
    <2>3. ~CutShort(queue[1])
      <3>1. ASSUME step \notin EngineStages PROVE ~Counted(queue[1])
        <4>1. step = "Version"
          BY <1>6, <3>1 DEF CompletionSteps, EngineStages, SealedStages, HashStages,
                            WriteStages, CheckStages
        <4> QED BY <4>1, <2>1, StepKinds DEF Answer, Counted
      <3> QED BY <3>1, <1>1 DEF CutShort, Strict
    <2> QED BY <1>1, <1>4, <1>6, <2>1, <2>2, <2>3, StepKinds
  <1>7. CASE step = "BootResetAck"
    <2>1. Len(queue) = 1 /\ Answer(queue[1], "ack")
      BY <1>1, <1>7 DEF Clean, CompletionSteps
    <2>2. Expected(queue[1]) BY <2>1, <1>7 DEF Expected, Answer, AckSteps
    <2>3. ~CutShort(queue[1]) BY <2>1, <1>1 DEF Answer, Counted
    <2> QED BY <1>1, <1>4, <1>7, <2>1, <2>2, <2>3 DEF CompletionSteps
  <1>8. CASE step \in AckSteps \ {"BootResetAck"}
    <2>1. Len(queue) = 2 /\ Answer(queue[1], "ack") /\ Answer(queue[2], "reply")
      BY <1>1, <1>8, StepKinds DEF Clean
    <2>2. Expected(queue[1]) BY <2>1, <1>8 DEF Expected, Answer
    <2>3. ~CutShort(queue[1]) BY <2>1, <1>1 DEF Answer, Counted
    <2>4. Len(Tail(queue)) = 1 /\ Tail(queue)[1] = queue[2]
      <3>1. Len(Tail(queue)) = 1 BY <2>1, <1>2, <1>3
      <3>2. 1 \in 1..Len(Tail(queue)) /\ 1 + 1 = 2 BY <3>1
      <3> QED BY <3>1, <3>2, <1>2
    <2> QED BY <1>1, <1>8, <2>1, <2>2, <2>3, <2>4, StepKinds
  <1> QED BY <1>5, <1>6, <1>7, <1>8, StepKinds

\* In the engine a rejected packet is an answer: of another command they are
\* ignored, and the fragments have gone with the handshakes.
LEMMA RejectedCounts ==
  ASSUME TypeOK, Packets, Read, step \in EngineStages, Rejects(Head(queue))
  PROVE  Counted(queue[1])
  <1>1. Head(queue) = queue[1] /\ 1 \in 1..Len(queue) /\ step \in InSteps
    BY ReadTakes DEF Read
  <1>2. CommandOf(step) # "GetVersion" BY StepKinds
  <1>3. step \notin {"Idle", "VersionWrite", "VersionAck"}
    BY StepKinds DEF Outside
  <1>4. queue[1].kind # "fragment" BY <1>1, <1>3 DEF Packets
  <1>5. CASE ~Expected(queue[1]) /\ ~Ignores(queue[1])
    <2>1. BeforeAck(queue[1]) BY <1>4, <1>5 DEF Ignores, Strict
    <2> QED BY <2>1, <1>2 DEF BeforeAck, Counted
  <1>6. CASE /\ Expected(queue[1])
             /\ step \in {"Version", "ReadSealedPskCompletion", "ReadPskHashCompletion",
                          "FirmwareCheckCompletion"}
    <2>1. step \notin AckSteps BY <1>6 DEF AckSteps
    <2> QED BY <2>1, <1>2, <1>6 DEF Expected, Counted
  <1> QED BY <1>1, <1>5, <1>6 DEF Rejects

\* A read that ends the probe.
LEMMA RejectLag ==
  ASSUME TypeOK, LagInv, ReadRejected \/ FindsApp \/ ResetDone
  PROVE  LagInv'
  <1> USE DEF LagInv
  <1>1. Read /\ EndProbe /\ faults' = faults /\ step' = "Idle"
    BY DEF ReadRejected, FindsApp, ResetDone, Read, EndProbe
  <1>2. /\ queue # <<>> /\ Head(queue) = queue[1] /\ queue \in Seq(Packet)
        /\ queue' \in Seq(Packet) /\ 1 \in 1..Len(queue)
        /\ CutShort(queue[1]) => Counted(queue[1]) /\ queue' = <<Fragment>> \o Tail(queue)
        /\ ~CutShort(queue[1]) => queue' = Tail(queue)
    BY <1>1, ReadTakes DEF TypeOK
  <1>3. step \in InSteps /\ step \in Steps /\ faults \in Nat BY <1>1 DEF Read, TypeOK
  <1>4. Clean'
    <2> SUFFICES ASSUME faults = 0 PROVE queue' = <<>> BY <1>1 DEF Clean
    <2>1. Expected(Head(queue)) BY <1>1, CleanRead
    <2>2. step \notin AckSteps \ {"BootResetAck"}
      <3>1. CASE ReadRejected
        <4>1. step \in {"Version", "ReadSealedPskCompletion", "ReadPskHashCompletion",
                        "FirmwareCheckCompletion"}
          BY <3>1, <2>1 DEF ReadRejected, Rejects
        <4> QED BY <4>1 DEF AckSteps
      <3>2. CASE FindsApp BY <3>2 DEF FindsApp, AckSteps
      <3>3. CASE ResetDone BY <3>3 DEF ResetDone
      <3> QED BY <3>1, <3>2, <3>3
    <2>3. step \in CompletionSteps \union {"BootResetAck"} BY <2>2, <1>3 DEF InSteps
    <2> QED BY <2>3, <1>1, CleanRead
  <1>5. CASE CutShort(queue[1])
    <2> DEFINE r == <<Fragment>> \o Tail(queue)
    <2>1. /\ queue' = r /\ Len(r) = Len(queue) /\ r[1] = Fragment
          /\ \A i \in 2..Len(r) : r[i] = queue[i]
          /\ Behind(r) \subseteq Behind(queue)
          /\ Cardinality(Behind(r)) =< Cardinality(Behind(queue))
      BY <1>2, <1>5, CutShortCounts
    <2> HIDE DEF r
    <2>2. Packets'
      <3> SUFFICES ASSUME NEW i \in 1..Len(r)
                   PROVE  WellFormed(r[i]) /\ (r[i].kind = "fragment" => i = 1)
        BY <1>1, <2>1 DEF Packets
      <3>1. CASE i = 1
        <4>1. Len(<<>>) = 0 /\ 0 =< ReplyPieces BY BootstrapAssumption
        <4> QED BY <4>1, <3>1, <2>1 DEF Fragment, WellFormed
      <3>2. CASE i # 1
        <4>1. i \in 2..Len(r) /\ i \in 1..Len(queue) BY <3>2, <2>1
        <4> QED BY <4>1, <2>1 DEF Packets
      <3> QED BY <3>1, <3>2
    <2>3. step \notin EngineStages BY <1>5 DEF CutShort, Strict
    <2>4. Behind(r) = {} \/ Cardinality(Behind(r)) + 1 =< faults
      <3>1. CASE step \in Outside
        <4>1. Behind(queue) = {} \/ Cardinality(Behind(queue)) + 1 =< faults
          BY <3>1 DEF OutsideLag
        <4> QED BY <4>1, <2>1, <1>2, <1>3, Countable
      <3>2. CASE step \in ResetSteps
        <4>1. Debt = 0 BY <2>3 DEF Debt
        <4>2. HasVersion(queue) => Cardinality(Owed(queue)) + 1 =< faults
          BY <4>1, <3>2, <1>3 DEF EngineLag
        <4>3. Behind(r) # {} => HasVersion(queue) BY <2>1, <1>2, BehindOwed
        <4>4. Cardinality(Behind(queue)) =< Cardinality(Owed(queue)) BY <1>2, BehindOwed
        <4> QED BY <4>2, <4>3, <4>4, <2>1, <1>2, <1>3, Countable
      <3> QED BY <3>1, <3>2, <2>3, <1>3, StepKinds
    <2> QED BY <1>1, <1>4, <2>1, <2>2, <2>4, EndLag
  <1>6. CASE ~CutShort(queue[1])
    <2> DEFINE r == Tail(queue)
    <2>1. /\ queue' = r /\ r \in Seq(Packet)
          /\ \A i \in 1..Len(r) : r[i] = queue[i + 1] /\ i + 1 \in 1..Len(queue)
          /\ Cardinality(Owed(r)) =< Cardinality(Owed(queue))
          /\ Cardinality(Behind(r)) =< Cardinality(Behind(queue))
          /\ Counted(queue[1]) => Cardinality(Owed(r)) + 1 =< Cardinality(Owed(queue))
          /\ HasVersion(r) => HasVersion(queue)
          /\ Behind(queue) = {} => Behind(r) = {}
      BY <1>2, <1>6, TailGoes
    <2> HIDE DEF r
    <2>2. Packets'
      <3> SUFFICES ASSUME NEW i \in 1..Len(r)
                   PROVE  WellFormed(r[i]) /\ r[i].kind # "fragment"
        BY <1>1, <2>1 DEF Packets
      <3>1. Len(r) \in Nat BY <2>1, LenProperties
      <3>2. i + 1 \in 1..Len(queue) /\ i + 1 # 1 /\ r[i] = queue[i + 1] BY <3>1, <2>1
      <3> QED BY <3>2 DEF Packets
    <2>3. /\ Cardinality(Owed(r)) \in Nat /\ Cardinality(Owed(queue)) \in Nat
          /\ Cardinality(Behind(r)) \in Nat /\ Cardinality(Behind(queue)) \in Nat
          /\ Cardinality(Behind(r)) =< Cardinality(Owed(r))
          /\ Behind(r) # {} => HasVersion(r)
      BY <1>2, <2>1, Countable, BehindOwed
    <2>4. Behind(r) = {} \/ Cardinality(Behind(r)) + 1 =< faults
      <3>1. CASE step \in Outside
        <4>1. Behind(queue) = {} \/ Cardinality(Behind(queue)) + 1 =< faults
          BY <3>1 DEF OutsideLag
        <4> QED BY <4>1, <2>1, <2>3, <1>3
      <3>2. CASE step \in ResetSteps
        <4>1. step \notin EngineStages BY <3>2, <1>3 DEF InSteps, AckSteps, CompletionSteps,
              EngineStages, SealedStages, HashStages, WriteStages, CheckStages, ResetSteps
        <4>2. Debt = 0 BY <4>1 DEF Debt
        <4>3. HasVersion(queue) => Cardinality(Owed(queue)) + 1 =< faults
          BY <4>2, <3>2, <1>3 DEF EngineLag
        <4> QED BY <4>3, <2>1, <2>3, <1>3
      <3>3. CASE step \in EngineStages
        <4>1. ReadRejected
          <5>1. step # "Version" /\ step # "BootResetAck"
            BY <3>3, StepKinds DEF Outside
          <5> QED BY <5>1 DEF FindsApp, ResetDone
        <4>2. Counted(queue[1]) BY <4>1, <3>3, <1>1, RejectedCounts DEF ReadRejected
        <4>3. Debt = 1 BY <3>3, <1>3 DEF Debt
        <4>4. HasVersion(queue) => Cardinality(Owed(queue)) =< faults
          BY <4>3, <3>3, <1>3, <2>3 DEF EngineLag
        <4> QED BY <4>2, <4>4, <2>1, <2>3, <1>3
      <3> QED BY <3>1, <3>2, <3>3, <1>3, StepKinds
    <2> QED BY <1>1, <1>4, <2>1, <2>2, <2>4, EndLag
  <1> QED BY <1>5, <1>6

\* A read that fails pays for what it leaves, or leaves nothing.
LEMMA ReadFailsLag ==
  ASSUME TypeOK, LagInv, ReadFails
  PROVE  LagInv'
  <1> USE DEF LagInv
  <1>1. EndProbe /\ step' = "Idle" /\ step \in InSteps /\ step \in Steps
    BY DEF ReadFails, EndProbe, TypeOK
  <1>2. faults \in Nat /\ queue \in Seq(Packet) BY DEF TypeOK
  <1>3. CASE queue' = <<>>
    <2>1. Packets' /\ Clean' /\ Behind(queue') = {}
      <3>1. Len(<<>>) = 0 OBVIOUS
      <3> QED BY <3>1, <1>3, NothingOwed DEF Packets, Clean
    <2> QED BY <2>1, <1>1, EndLag
  <1>4. CASE faults' = faults + 1 /\ (queue' = queue \/ (queue # <<>> /\ queue' = Tail(queue)))
    <2>1. Clean' BY <1>4, <1>2 DEF Clean
    <2>2. Packets' /\ queue' \in Seq(Packet)
          /\ Cardinality(Behind(queue')) =< Cardinality(Behind(queue))
          /\ (Behind(queue) = {} => Behind(queue') = {})
      <3>1. CASE queue' = queue
        <4>1. Cardinality(Behind(queue)) \in Nat BY <1>2, Countable
        <4> QED BY <3>1, <4>1, <1>1, <1>2 DEF Packets
      <3>2. CASE queue # <<>> /\ queue' = Tail(queue)
        <4> DEFINE r == Tail(queue)
        <4>1. /\ r \in Seq(Packet)
              /\ \A i \in 1..Len(r) : r[i] = queue[i + 1] /\ i + 1 \in 1..Len(queue)
              /\ Cardinality(Behind(r)) =< Cardinality(Behind(queue))
              /\ Behind(queue) = {} => Behind(r) = {}
          BY <1>2, <3>2, TailGoes
        <4>2. queue' = r BY <3>2
        <4> HIDE DEF r
        <4>3. ASSUME NEW i \in 1..Len(r) PROVE WellFormed(r[i]) /\ r[i].kind # "fragment"
          <5>1. Len(r) \in Nat BY <4>1, LenProperties
          <5>2. i + 1 \in 1..Len(queue) /\ i + 1 # 1 /\ r[i] = queue[i + 1] BY <5>1, <4>1
          <5> QED BY <5>2 DEF Packets
        <4>4. Packets' BY <4>2, <4>3 DEF Packets
        <4> QED BY <4>1, <4>2, <4>4
      <3> QED BY <1>4, <3>1, <3>2
    <2>3. /\ Cardinality(Owed(queue)) \in Nat /\ Cardinality(Behind(queue)) \in Nat
          /\ Cardinality(Behind(queue')) \in Nat
          /\ Cardinality(Behind(queue)) =< Cardinality(Owed(queue))
          /\ Behind(queue) # {} => HasVersion(queue)
      BY <1>2, <2>2, Countable, BehindOwed
    <2>4. Behind(queue') = {} \/ Cardinality(Behind(queue')) + 1 =< faults'
      <3>1. CASE step \in Outside
        <4>1. Behind(queue) = {} \/ Cardinality(Behind(queue)) + 1 =< faults
          BY <3>1 DEF OutsideLag
        <4> QED BY <4>1, <2>2, <2>3, <1>2, <1>4
      <3>2. CASE step \in EngineStages \union ResetSteps
        <4>1. Debt \in 0..1 BY DEF Debt
        <4>2. HasVersion(queue) => Cardinality(Owed(queue)) + 1 =< faults + Debt
          BY <3>2 DEF EngineLag
        <4> QED BY <4>1, <4>2, <2>2, <2>3, <1>2, <1>4
      <3> QED BY <3>1, <3>2, <1>1, StepKinds
    <2> QED BY <1>1, <2>1, <2>2, <2>4, EndLag
  <1> QED BY <1>2, <1>3, <1>4 DEF ReadFails, Faults

\* What a command adds to the counts.
LEMMA AddedCounts ==
  ASSUME TypeOK, Packets, step \in OutSteps, NEW n \in 0..1, Takes(n)
  PROVE  /\ queue' \in Seq(Packet)
         /\ \A i \in 1..Len(queue') :
               /\ WellFormed(queue'[i])
               /\ queue'[i].kind = "fragment" => i \in 1..Len(queue) /\ queue'[i] = queue[i]
         /\ \A j \in 1..Len(queue') :
               (j \in 1..Len(queue) /\ \A i \in 1..j : queue'[i] = queue[i]) \/ queue'[j].own
         /\ Stale(queue') = Stale(queue)
         /\ Cardinality(Owed(queue')) =< Cardinality(Owed(queue)) + 1
         /\ step \notin EngineStages =>
               Owed(queue') = Owed(queue) /\ Behind(queue') = Behind(queue)
         /\ step # "VersionWrite" => (HasVersion(queue') => HasVersion(queue))
         /\ queue = <<>> => \/ queue' = <<>>
                            \/ /\ step = "BootResetWrite" /\ Len(queue') = 1
                               /\ Answer(queue'[1], "ack")
                            \/ /\ step # "BootResetWrite" /\ Len(queue') = 2
                               /\ Answer(queue'[1], "ack") /\ Answer(queue'[2], "reply")
  <1>1. /\ queue \in Seq(Packet) /\ Len(queue) \in Nat /\ queue' \in Seq(Packet)
        /\ Cardinality(Owed(queue)) \in Nat
        /\ queue = <<>> => Len(queue) = 0
    BY TakesAdds, LenProperties, Countable, EmptySeq DEF TypeOK
  <1>2. CASE queue' = queue BY <1>1, <1>2 DEF Packets
  <1>3. ASSUME NEW d \in {1, 2}, Added(d)
        PROVE  /\ \A i \in 1..Len(queue') :
                     /\ WellFormed(queue'[i])
                     /\ queue'[i].kind = "fragment" => i \in 1..Len(queue) /\ queue'[i] = queue[i]
               /\ \A j \in 1..Len(queue') :
                     \/ j \in 1..Len(queue) /\ \A i \in 1..j : queue'[i] = queue[i]
                     \/ queue'[j].own
               /\ Stale(queue') = Stale(queue)
               /\ Cardinality(Owed(queue')) =< Cardinality(Owed(queue)) + 1
               /\ step \notin EngineStages =>
                     Owed(queue') = Owed(queue) /\ Behind(queue') = Behind(queue)
               /\ step # "VersionWrite" => (HasVersion(queue') => HasVersion(queue))
               /\ queue = <<>> => \/ /\ step = "BootResetWrite" /\ Len(queue') = 1
                                     /\ Answer(queue'[1], "ack")
                                  \/ /\ step # "BootResetWrite" /\ Len(queue') = 2
                                     /\ Answer(queue'[1], "ack") /\ Answer(queue'[2], "reply")
    <2> DEFINE m == Len(queue)
    <2>1. /\ Len(queue') = m + d /\ \A i \in 1..m : queue'[i] = queue[i]
          /\ Answer(queue'[m + 1], "ack")
          /\ \A i \in m + 1..m + d : queue'[i].own /\ WellFormed(queue'[i])
          /\ d = 1 <=> step = "BootResetWrite"
          /\ d = 2 => Answer(queue'[m + 2], "reply")
      BY <1>3 DEF Added
    <2>2. m \in Nat /\ m = Len(queue) BY <1>1
    <2> HIDE DEF m
    <2>3. \A i \in 1..Len(queue') : i \in 1..m \/ i \in m + 1..m + d BY <2>1, <2>2
    <2>4. \A i \in m + 1..m + d : i = m + 1 \/ (d = 2 /\ i = m + 2) BY <2>2
    <2>5. \A i \in m + 1..m + d : queue'[i].kind # "fragment"
      BY <2>1, <2>4 DEF Answer
    <2>6. m + d \in m + 1..m + d BY <2>2
    <2>7. /\ Cardinality(Owed(queue')) =< Cardinality(Owed(queue)) + 1
          /\ ~Counted(queue'[m + d]) =>
                Owed(queue') = Owed(queue) /\ Behind(queue') = Behind(queue)
          /\ queue'[m + d].own => Stale(queue') = Stale(queue)
          /\ HasVersion(queue') => HasVersion(queue) \/ VReply(queue'[m + d])
      <3>1. d = 2 => queue'[m + 1].kind = "ack" BY <2>1 DEF Answer
      <3> QED BY <1>1, <2>1, <2>2, <3>1, TailGrows
    <2>8. queue'[m + d].own BY <2>1, <2>6
    <2>9. step \notin EngineStages => ~Counted(queue'[m + d])
      <3>1. CASE d = 1 BY <2>1, <3>1 DEF Answer, Counted
      <3>2. CASE d = 2 /\ step \notin EngineStages
        <4>1. step = "VersionWrite" BY <3>2, <2>1, StepKinds
        <4> QED BY <4>1, <3>2, <2>1, StepKinds DEF Answer, Counted
      <3> QED BY <3>1, <3>2
    <2>10. step # "VersionWrite" => ~VReply(queue'[m + d])
      <3>1. CASE d = 1 BY <2>1, <3>1 DEF Answer, VReply
      <3>2. CASE d = 2 /\ step # "VersionWrite"
        <4>1. step \in EngineStages BY <3>2, <2>1, StepKinds
        <4>2. CommandOf(step) # "GetVersion" BY <4>1, StepKinds
        <4> QED BY <4>2, <3>2, <2>1 DEF Answer, VReply
      <3> QED BY <3>1, <3>2
    <2>11. ASSUME NEW i \in 1..Len(queue')
           PROVE  /\ WellFormed(queue'[i])
                  /\ queue'[i].kind = "fragment" => i \in 1..m /\ queue'[i] = queue[i]
      <3>1. CASE i \in 1..m
        <4>1. queue'[i] = queue[i] /\ i \in 1..Len(queue) BY <3>1, <2>1, <2>2
        <4> QED BY <3>1, <4>1 DEF Packets
      <3>2. CASE i \in m + 1..m + d BY <3>2, <2>1, <2>5
      <3> QED BY <3>1, <3>2, <2>3
    <2>12. ASSUME NEW j \in 1..Len(queue')
           PROVE  (j \in 1..m /\ \A i \in 1..j : queue'[i] = queue[i]) \/ queue'[j].own
      <3>1. CASE j \in 1..m
        <4>1. \A i \in 1..j : i \in 1..m BY <3>1, <2>2
        <4> QED BY <3>1, <4>1, <2>1
      <3>2. CASE j \in m + 1..m + d BY <3>2, <2>1
      <3> QED BY <3>1, <3>2, <2>3
    <2>13. ASSUME queue = <<>>
           PROVE  \/ /\ step = "BootResetWrite" /\ Len(queue') = 1 /\ Answer(queue'[1], "ack")
                  \/ /\ step # "BootResetWrite" /\ Len(queue') = 2
                     /\ Answer(queue'[1], "ack") /\ Answer(queue'[2], "reply")
      <3>1. m = 0 BY <2>13, <1>1, <2>2
      <3>2. m + 1 = 1 /\ m + 2 = 2 BY <3>1
      <3>3. CASE d = 1 BY <3>1, <3>2, <3>3, <2>1
      <3>4. CASE d = 2 BY <3>1, <3>2, <3>4, <2>1
      <3> QED BY <3>3, <3>4
    <2> QED BY <2>2, <2>7, <2>8, <2>9, <2>10, <2>11, <2>12, <2>13
  <1> QED BY <1>1, <1>2, <1>3, TakesAdds

\* A write that fails pays for the answer it may still get.
LEMMA WriteFailsLag ==
  ASSUME TypeOK, LagInv, WriteFails
  PROVE  LagInv'
  <1> USE DEF LagInv
  <1>1. EndProbe /\ step' = "Idle" /\ step \in OutSteps /\ faults' = faults + 1
    BY DEF WriteFails, EndProbe, Faults
  <1>2. /\ faults \in Nat /\ queue \in Seq(Packet) /\ step \in Steps
        /\ Cardinality(Owed(queue)) \in Nat /\ Cardinality(Behind(queue)) \in Nat
        /\ Cardinality(Behind(queue)) =< Cardinality(Owed(queue))
        /\ Behind(queue) # {} => HasVersion(queue)
    BY Countable, BehindOwed DEF TypeOK
  <1>3. Clean' BY <1>1, <1>2 DEF Clean
  <1>4. /\ queue' \in Seq(Packet) /\ Packets'
        /\ Cardinality(Owed(queue')) =< Cardinality(Owed(queue)) + 1
        /\ step \notin EngineStages =>
              Owed(queue') = Owed(queue) /\ Behind(queue') = Behind(queue)
        /\ step # "VersionWrite" => (HasVersion(queue') => HasVersion(queue))
    <2>1. CASE queue' = queue
      BY <2>1, <1>1, <1>2 DEF Packets
    <2>2. CASE Takes(0)
      <3>1. 0 \in 0..1 OBVIOUS
      <3>2. \A i \in 1..Len(queue') :
               /\ WellFormed(queue'[i])
               /\ queue'[i].kind = "fragment" => i \in 1..Len(queue) /\ queue'[i] = queue[i]
        BY <2>2, <3>1, <1>1, AddedCounts
      <3>3. Packets' BY <3>2, <1>1 DEF Packets
      <3> QED BY <2>2, <3>1, <3>3, <1>1, AddedCounts
    <2> QED BY <2>1, <2>2 DEF WriteFails
  <1>5. /\ Cardinality(Owed(queue')) \in Nat /\ Cardinality(Behind(queue')) \in Nat
        /\ Cardinality(Behind(queue')) =< Cardinality(Owed(queue'))
        /\ Behind(queue') # {} => HasVersion(queue')
    BY <1>4, Countable, BehindOwed
  <1>6. Behind(queue') = {} \/ Cardinality(Behind(queue')) + 1 =< faults'
    <2>1. CASE step \in Outside
      <3>1. step \notin EngineStages BY <2>1, StepKinds
      <3>2. Behind(queue) = {} \/ Cardinality(Behind(queue)) + 1 =< faults
        BY <2>1 DEF OutsideLag
      <3> QED BY <3>1, <3>2, <1>1, <1>2, <1>4
    <2>2. CASE step \in EngineStages \union ResetSteps
      <3>1. Debt = 0 BY <1>1, StepKinds DEF Debt
      <3>2. HasVersion(queue) => Cardinality(Owed(queue)) + 1 =< faults
        BY <3>1, <2>2, <1>2 DEF EngineLag
      <3>3. step # "VersionWrite" BY <2>2, StepKinds DEF Outside
      <3> QED BY <3>2, <3>3, <1>1, <1>2, <1>4, <1>5
    <2> QED BY <2>1, <2>2, <1>2, StepKinds
  <1> QED BY <1>1, <1>3, <1>4, <1>6, EndLag

\* A write that completes asks for one answer more.
LEMMA WriteLag ==
  ASSUME TypeOK, LagInv, Write
  PROVE  LagInv'
  <1> USE DEF LagInv
  <1>1. PICK n \in 0..1 : Faults(n) /\ Takes(n) BY DEF Write
  <1>2. /\ step \in OutSteps /\ step' = After(step) /\ step \in Steps
        /\ UNCHANGED <<sealed, hash, authenticated, chunk, verdict>>
    BY DEF Write, TypeOK
  <1>3. /\ faults \in Nat /\ faults' \in Nat /\ faults =< faults'
        /\ queue \in Seq(Packet) /\ queue' \in Seq(Packet)
        /\ Cardinality(Owed(queue)) \in Nat /\ Cardinality(Owed(queue')) \in Nat
    <2>1. queue' \in Seq(Packet) BY <1>1, <1>2, AddedCounts
    <2>2. faults \in Nat /\ faults' = faults + n /\ queue \in Seq(Packet)
      BY <1>1 DEF TypeOK, Faults
    <2> QED BY <2>1, <2>2, Countable
  <1>4. /\ step' \in AckSteps /\ step' \in InSteps /\ CommandOf(step') = CommandOf(step)
        /\ step' = "BootResetAck" <=> step = "BootResetWrite"
        /\ step' \in Outside <=> step = "VersionWrite"
        /\ step' = "VersionAck" <=> step = "VersionWrite"
        /\ step' \in EngineStages <=> step \in EngineStages
        /\ step' \in ResetSteps <=> step \in ResetSteps
        /\ step' \in SealedStages <=> step \in SealedStages
        /\ step' \in HashStages <=> step \in HashStages
        /\ step' \in CheckStages <=> step \in CheckStages
        /\ step \in Outside <=> step = "VersionWrite"
    BY <1>2 DEF After, OutSteps, AckSteps, InSteps, CompletionSteps, CommandOf, Outside,
                EngineStages, ResetSteps, SealedStages, HashStages, WriteStages, CheckStages
  <1>5. Clean'
    <2> SUFFICES ASSUME faults' = 0
                 PROVE  \/ queue' = <<>>
                        \/ /\ step' = "BootResetAck" /\ Len(queue') = 1
                           /\ queue'[1].kind = "ack" /\ queue'[1].cmd = CommandOf(step')
                        \/ /\ step' \in AckSteps \ {"BootResetAck"} /\ Len(queue') = 2
                           /\ queue'[1].kind = "ack" /\ queue'[1].cmd = CommandOf(step')
                           /\ queue'[2].kind = "reply" /\ queue'[2].cmd = CommandOf(step')
      BY DEF Clean, Answer
    <2>1. faults = 0 BY <1>3
    <2>2. queue = <<>>
      <3>1. step \notin CompletionSteps /\ step \notin AckSteps /\ step # "BootResetAck"
        BY <1>2 DEF OutSteps, CompletionSteps, AckSteps
      <3> QED BY <3>1, <2>1 DEF Clean
    <2>3. \/ queue' = <<>>
          \/ step = "BootResetWrite" /\ Len(queue') = 1 /\ Answer(queue'[1], "ack")
          \/ /\ step # "BootResetWrite" /\ Len(queue') = 2
             /\ Answer(queue'[1], "ack") /\ Answer(queue'[2], "reply")
      BY <2>2, <1>1, <1>2, AddedCounts
    <2> QED BY <2>3, <1>4 DEF Answer
  <1>6. Packets'
    <2>1. \A i \in 1..Len(queue') :
             /\ WellFormed(queue'[i])
             /\ queue'[i].kind = "fragment" => i \in 1..Len(queue) /\ queue'[i] = queue[i]
      BY <1>1, <1>2, AddedCounts
    <2>2. step \in {"Idle", "VersionWrite", "VersionAck"} => step' = "VersionAck"
      BY <1>2, <1>4 DEF Outside
    <2> QED BY <2>1, <2>2 DEF Packets
  <1>7. /\ Stale(queue') = Stale(queue) /\ Progress' = Progress
        /\ Cardinality(Owed(queue')) =< Cardinality(Owed(queue)) + 1
        /\ step \notin EngineStages =>
              Owed(queue') = Owed(queue) /\ Behind(queue') = Behind(queue)
        /\ step # "VersionWrite" => (HasVersion(queue') => HasVersion(queue))
    BY <1>1, <1>2, AddedCounts DEF Progress
  <1>8. /\ Debt = 0 /\ (step \in EngineStages => Debt' = 1)
        /\ (step \notin EngineStages => Debt' = 0)
    BY <1>2, <1>4, StepKinds DEF Debt
  <1>9. OutsideLag'
    <2> SUFFICES ASSUME step' \in Outside
                 PROVE  Behind(queue') = {} \/ Cardinality(Behind(queue')) + 1 =< faults'
      BY DEF OutsideLag
    <2>1. step \in Outside /\ step \notin EngineStages BY <1>4, StepKinds
    <2>2. Cardinality(Behind(queue)) \in Nat BY <1>3, Countable
    <2> QED BY <2>1, <2>2, <1>3, <1>7 DEF OutsideLag
  <1>10. EngineLag'
    <2> SUFFICES ASSUME step \in EngineStages \union ResetSteps
                 PROVE  /\ Cardinality(Owed(queue')) =< faults' + Debt'
                        /\ HasVersion(queue') => Cardinality(Owed(queue')) + 1 =< faults' + Debt'
      BY <1>4 DEF EngineLag
    <2>1. step # "VersionWrite" BY StepKinds DEF Outside
    <2>2. /\ Cardinality(Owed(queue)) =< faults
          /\ HasVersion(queue) => Cardinality(Owed(queue)) + 1 =< faults
      BY <1>3, <1>8 DEF EngineLag
    <2>3. CASE step \in EngineStages BY <2>1, <2>2, <2>3, <1>3, <1>7, <1>8
    <2>4. CASE step \notin EngineStages BY <2>1, <2>2, <2>4, <1>3, <1>7, <1>8
    <2> QED BY <2>3, <2>4
  <1>11. OldFirst'
    <2> SUFFICES ASSUME step \in EngineStages, NEW j \in 1..Len(queue'), NEW i \in 1..j,
                        queue'[i].own
                 PROVE  queue'[j].own
      BY <1>4 DEF OldFirst
    <2>1. (j \in 1..Len(queue) /\ \A k \in 1..j : queue'[k] = queue[k]) \/ queue'[j].own
      BY <1>1, <1>2, AddedCounts
    <2>2. j \in 1..j OBVIOUS
    <2> QED BY <2>1, <2>2 DEF OldFirst
  <1>12. StaleLag'
    <2> SUFFICES ASSUME step \in EngineStages
                 PROVE  Stale(queue') = {} \/ Progress' + Cardinality(Stale(queue')) + 1 =< faults'
      BY <1>4 DEF StaleLag
    <2>1. Stale(queue) = {} \/ Progress + Cardinality(Stale(queue)) + 1 =< faults
      BY DEF StaleLag
    <2>2. CASE Stale(queue) = {} BY <2>2, <1>7
    <2>3. CASE Progress + Cardinality(Stale(queue)) + 1 =< faults
      <3> DEFINE x == Progress + Cardinality(Stale(queue)) + 1
      <3>1. x \in Int
        <4>1. Cardinality(Stale(queue)) \in Nat BY <1>3, Countable
        <4>2. Progress \in Nat BY ProgressType
        <4> QED BY <4>1, <4>2
      <3> HIDE DEF x
      <3>2. x =< faults' BY <3>1, <2>3, <1>3 DEF x
      <3> QED BY <3>2, <1>7 DEF x
    <2> QED BY <2>1, <2>2, <2>3
  <1>13. Received'
    BY <1>2, <1>4 DEF Received
  <1>14. VerdictLag'
    <2>1. AttemptCommands \in Nat BY ReadsType, BootstrapAssumption DEF AttemptCommands
    <2> QED BY <2>1, <1>2, <1>3, <1>4 DEF VerdictLag
  <1> QED BY <1>5, <1>6, <1>9, <1>10, <1>11, <1>12, <1>13, <1>14

\* The steps that leave the queue, or empty it.
LEMMA StillLag ==
  ASSUME TypeOK, LagInv, StartProbe \/ WriteBlock \/ UNCHANGED vars
  PROVE  LagInv'
  <1> USE DEF LagInv
  <1>1. /\ UNCHANGED <<sealed, hash, authenticated, chunk, verdict, queue, faults>>
        /\ step' = step \/ (step = "Idle" /\ step' = "VersionWrite")
    BY DEF StartProbe, WriteBlock, vars, engineVars, sensorVars
  <1>2. CASE step' = step
    BY <1>1, <1>2 DEF Packets, Clean, Answer, OutsideLag, EngineLag, Debt, OldFirst, StaleLag,
                      Progress, Received, VerdictLag
  <1>3. CASE step = "Idle" /\ step' = "VersionWrite"
    <2>1. /\ step \in Outside /\ step' \in Outside
          /\ step' \notin EngineStages /\ step' \notin ResetSteps /\ step' \notin SealedStages
          /\ step' \notin HashStages /\ step' \notin CheckStages
      BY <1>3, StepKinds DEF Outside
    <2>2. Packets' BY <1>1, <1>3 DEF Packets
    <2>3. Clean'
      <3>1. faults = 0 => queue = <<>>
        BY <1>3 DEF Clean, CompletionSteps, AckSteps
      <3> QED BY <3>1, <1>1 DEF Clean
    <2>4. OutsideLag' /\ EngineLag' /\ OldFirst' /\ StaleLag' /\ Received' /\ VerdictLag'
      BY <2>1, <1>1
         DEF OutsideLag, EngineLag, OldFirst, StaleLag, Received, VerdictLag
    <2> QED BY <2>2, <2>3, <2>4
  <1> QED BY <1>1, <1>2, <1>3

\* A reboot forgets all answers.
LEMMA RebootLag ==
  ASSUME TypeOK, LagInv, Reboot
  PROVE  LagInv'
  <1> USE DEF LagInv
  <1>1. /\ queue' = <<>> /\ step' = step
        /\ UNCHANGED <<sealed, hash, authenticated, chunk, verdict, faults>>
    BY DEF Reboot, engineVars
  <1>2. /\ Owed(queue') = {} /\ Behind(queue') = {} /\ Stale(queue') = {}
        /\ ~HasVersion(queue') /\ Cardinality({}) = 0 /\ Len(queue') = 0
    BY <1>1, NothingOwed
  <1>3. faults \in Nat /\ Debt' = Debt /\ Debt \in 0..1 BY <1>1 DEF TypeOK, Debt
  <1>4. Packets' /\ Clean' BY <1>1, <1>2 DEF Packets, Clean
  <1>5. OutsideLag' /\ OldFirst' /\ StaleLag' BY <1>2 DEF OutsideLag, OldFirst, StaleLag
  <1>6. EngineLag'
    <2>1. Cardinality(Owed(queue')) = 0 BY <1>2
    <2>2. 0 =< faults' + Debt' BY <1>1, <1>3
    <2> QED BY <2>1, <2>2, <1>2 DEF EngineLag
  <1>7. Received' /\ VerdictLag' BY <1>1 DEF Received, VerdictLag
  <1> QED BY <1>4, <1>5, <1>6, <1>7

\* Disown leaves packets what they are, but for whose they are.
LEMMA DisownSame ==
  ASSUME NEW q \in Seq(Packet)
  PROVE  /\ Disown(q) \in Seq(Packet) /\ Len(Disown(q)) = Len(q)
         /\ \A i \in 1..Len(q) : /\ Disown(q)[i].kind = q[i].kind
                                 /\ Disown(q)[i].cmd = q[i].cmd
                                 /\ WellFormed(q[i]) => WellFormed(Disown(q)[i])
                                 /\ ~Disown(q)[i].own
  <1>1. Len(q) \in Nat /\ DOMAIN q = 1..Len(q) /\ \A i \in 1..Len(q) : q[i] \in Packet
    BY LenProperties, ElementOfSeq
  <1>2. ASSUME NEW p \in Packet
        PROVE  LET d == [p EXCEPT !.own = FALSE]
               IN  /\ d \in Packet /\ d.kind = p.kind /\ d.cmd = p.cmd
                   /\ d.word = p.word /\ d.pieces = p.pieces /\ ~d.own
    BY DEF Packet
  <1>3. Disown(q) \in [1..Len(q) -> Packet] BY <1>1, <1>2 DEF Disown
  <1>4. Disown(q) \in Seq(Packet) /\ Len(Disown(q)) = Len(q) BY <1>1, <1>3
  <1>5. ASSUME NEW i \in 1..Len(q)
        PROVE  /\ Disown(q)[i].kind = q[i].kind /\ Disown(q)[i].cmd = q[i].cmd
               /\ WellFormed(q[i]) => WellFormed(Disown(q)[i])
               /\ ~Disown(q)[i].own
    <2>1. Disown(q)[i] = [q[i] EXCEPT !.own = FALSE] BY <1>1 DEF Disown
    <2> QED BY <2>1, <1>1, <1>2 DEF WellFormed, Counted
  <1> QED BY <1>4, <1>5

\* An attempt begins: what it sees of old answers has cost one cut more than there
\* are of them.
LEMMA BeginLag ==
  ASSUME TypeOK, LagInv, Begin
  PROVE  LagInv'
  <1> USE DEF LagInv
  <1> DEFINE d == Disown(Tail(queue))
  <1>1. /\ step = "Version" /\ queue # <<>> /\ Expected(Head(queue)) /\ queue' = d
        /\ step' = "ReadSealedPskWrite" /\ faults' = faults
        /\ UNCHANGED <<sealed, hash, authenticated, chunk, verdict>>
    BY DEF Begin, FirstStage, engineVars
  <1>2. /\ queue \in Seq(Packet) /\ Head(queue) = queue[1] /\ faults \in Nat
        /\ Tail(queue) \in Seq(Packet) /\ Len(Tail(queue)) + 1 = Len(queue)
        /\ \A i \in 1..Len(Tail(queue)) :
              Tail(queue)[i] = queue[i + 1] /\ i + 1 \in 1..Len(queue)
    BY <1>1, TailKeeps, TailGoes DEF TypeOK
  <1>3. /\ d \in Seq(Packet) /\ Len(d) + 1 = Len(queue)
        /\ \A i \in 1..Len(d) :
              /\ d[i].kind = queue[i + 1].kind /\ d[i].cmd = queue[i + 1].cmd
              /\ WellFormed(queue[i + 1]) => WellFormed(d[i])
              /\ ~d[i].own /\ i + 1 \in 1..Len(queue)
    <2>1. /\ d \in Seq(Packet) /\ Len(d) = Len(Tail(queue))
          /\ \A i \in 1..Len(Tail(queue)) :
                /\ d[i].kind = Tail(queue)[i].kind /\ d[i].cmd = Tail(queue)[i].cmd
                /\ WellFormed(Tail(queue)[i]) => WellFormed(d[i])
                /\ ~d[i].own
      BY <1>2, DisownSame
    <2> HIDE DEF d
    <2> QED BY <2>1, <1>2
  <1> HIDE DEF d
  <1>4. Len(d) \in Nat /\ (Len(d) = 0 => d = <<>>) BY <1>3, LenProperties, EmptySeq
  <1>5. VReply(queue[1]) BY <1>1, <1>2, StepKinds DEF Expected, AckSteps, VReply
  <1>6. /\ Cardinality(Owed(d)) =< Cardinality(Behind(queue))
        /\ Behind(queue) = {} => Owed(d) = {}
    BY <1>1, <1>2, <1>3, <1>5, HeadGoes
  <1>7. faults = 0 => d = <<>>
    <2> SUFFICES ASSUME faults = 0 PROVE Len(d) = 0 BY <1>4
    <2>1. Len(queue) = 1 BY <1>1 DEF Clean, AckSteps
    <2> QED BY <2>1, <1>3, <1>4
  <1>8. /\ Cardinality(Owed(d)) \in Nat /\ Cardinality(Behind(queue)) \in Nat
        /\ Cardinality(Stale(d)) \in Nat /\ Cardinality(Stale(d)) =< Cardinality(Owed(d))
    <2>1. Stale(d) \subseteq Owed(d) BY DEF Stale
    <2>2. IsFiniteSet(Owed(d)) BY <1>3, Countable
    <2>3. Cardinality(Stale(d)) =< Cardinality(Owed(d)) BY <2>1, <2>2, FS_Subset
    <2> QED BY <2>3, <1>2, <1>3, Countable
  <1>9. Owed(d) = {} \/ Cardinality(Owed(d)) + 1 =< faults
    <2>1. Behind(queue) = {} \/ Cardinality(Behind(queue)) + 1 =< faults
      BY <1>1 DEF OutsideLag, Outside
    <2> QED BY <2>1, <1>2, <1>6, <1>8
  <1>10. /\ step' \in EngineStages /\ step' \notin Outside /\ step' \notin ResetSteps
         /\ step' \in SealedStages /\ step' \notin HashStages /\ step' \notin CheckStages
         /\ step' \notin InSteps
    BY <1>1 DEF EngineStages, Outside, ResetSteps, SealedStages, HashStages, CheckStages,
                InSteps, AckSteps, CompletionSteps
  <1>11. Debt' = 0 BY <1>10 DEF Debt
  <1>12. Packets'
    <2> SUFFICES ASSUME NEW i \in 1..Len(d)
                 PROVE  WellFormed(d[i]) /\ d[i].kind # "fragment"
      BY <1>1 DEF Packets
    <2>1. i + 1 \in 1..Len(queue) BY <1>3
    <2>2. WellFormed(queue[i + 1]) /\ queue[i + 1].kind # "fragment"
      BY <2>1, <1>1 DEF Packets
    <2> QED BY <2>2, <1>3
  <1>13. Clean' BY <1>1, <1>7 DEF Clean
  <1>14. EngineLag'
    <2>1. Cardinality(Owed(d)) =< faults
      <3>1. CASE Owed(d) = {} BY <3>1, <1>2, NothingOwed
      <3>2. CASE Cardinality(Owed(d)) + 1 =< faults BY <3>2, <1>2, <1>8
      <3> QED BY <3>1, <3>2, <1>9
    <2>2. ASSUME HasVersion(d) PROVE Cardinality(Owed(d)) + 1 =< faults
      <3>1. faults # 0 BY <2>2, <1>7, NothingOwed
      <3>2. CASE Owed(d) = {}
        <4>1. Cardinality(Owed(d)) = 0 BY <3>2, NothingOwed
        <4> QED BY <4>1, <3>1, <1>2
      <3> QED BY <3>2, <1>9
    <2> QED BY <2>1, <2>2, <1>1, <1>2, <1>11 DEF EngineLag
  <1>15. OldFirst'
    <2> SUFFICES ASSUME NEW j \in 1..Len(d), NEW i \in 1..j, d[i].own PROVE FALSE
      BY <1>1 DEF OldFirst
    <2>1. i \in 1..Len(d) BY <1>4
    <2> QED BY <2>1, <1>3
  <1>16. StaleLag'
    <2>1. Progress' = 0
      <3>1. sealed = <<>> /\ hash = <<>> /\ ~authenticated BY <1>1 DEF Received, Outside
      <3>2. Len(<<>>) = 0 /\ Reads(0) = 0
        <4>1. 0 \in Nat /\ 0 =< ReplyPieces BY BootstrapAssumption
        <4> QED BY <4>1, ReadsGrow
      <3> QED BY <3>1, <3>2, <1>1 DEF Progress
    <2>2. Stale(d) = {} \/ Cardinality(Stale(d)) + 1 =< faults
      <3>1. CASE Owed(d) = {} BY <3>1 DEF Stale
      <3>2. CASE Cardinality(Owed(d)) + 1 =< faults BY <3>2, <1>2, <1>8
      <3> QED BY <3>1, <3>2, <1>9
    <2>3. 0 + Cardinality(Stale(d)) + 1 = Cardinality(Stale(d)) + 1 BY <1>8
    <2> QED BY <2>1, <2>2, <2>3, <1>1 DEF StaleLag
  <1>17. Received'
    <2>1. hash = <<>> /\ ~authenticated BY <1>1 DEF Received, Outside
    <2> QED BY <2>1, <1>1, <1>10 DEF Received
  <1>18. OutsideLag' /\ VerdictLag' BY <1>10 DEF OutsideLag, VerdictLag
  <1> QED BY <1>12, <1>13, <1>14, <1>15, <1>16, <1>17, <1>18

\* A read that goes on in the engine: it waits on, or it has had one answer more for
\* the one it took.  If that was its own, no old one is left.
LEMMA GoingLag ==
  ASSUME TypeOK, LagInv, Read, step \in EngineStages,
         step' \in EngineStages \union ResetSteps, Clean', Received', VerdictLag',
         \/ step' \in InSteps /\ step' \in EngineStages /\ Progress' = Progress
         \/ /\ step' \notin InSteps /\ Counted(queue[1])
            /\ Progress' \in Nat /\ Progress' =< Progress + 1
  PROVE  LagInv'
  <1> USE DEF LagInv
  <1> DEFINE r == Tail(queue)
  <1>1. /\ queue # <<>> /\ queue \in Seq(Packet) /\ Head(queue) = queue[1]
        /\ 1 \in 1..Len(queue) /\ step \in InSteps /\ faults \in Nat /\ faults' = faults
    BY ReadTakes DEF Read, TypeOK
  <1>2. ~CutShort(queue[1]) BY DEF CutShort, Strict
  <1>3. queue' = r BY <1>2, ReadTakes
  <1>4. /\ r \in Seq(Packet)
        /\ \A i \in 1..Len(r) : r[i] = queue[i + 1] /\ i + 1 \in 1..Len(queue)
        /\ Cardinality(Owed(r)) =< Cardinality(Owed(queue))
        /\ Counted(queue[1]) => Cardinality(Owed(r)) + 1 =< Cardinality(Owed(queue))
        /\ HasVersion(r) => HasVersion(queue)
    BY <1>1, TailGoes
  <1>5. /\ Cardinality(Stale(r)) =< Cardinality(Stale(queue))
        /\ Stale(queue) = {} => Stale(r) = {}
        /\ Counted(queue[1]) /\ ~queue[1].own
             => Cardinality(Stale(r)) + 1 =< Cardinality(Stale(queue))
    BY <1>1, StaleGoes
  <1> HIDE DEF r
  <1>6. /\ Len(r) \in Nat /\ Cardinality(Owed(r)) \in Nat /\ Cardinality(Owed(queue)) \in Nat
        /\ Cardinality(Stale(r)) \in Nat /\ Cardinality(Stale(queue)) \in Nat
        /\ Progress \in Nat
    BY <1>1, <1>4, LenProperties, Countable, ProgressType
  <1>7. step' \notin Outside BY StepKinds
  <1>8. OutsideLag' BY <1>7 DEF OutsideLag
  <1>9. Packets'
    <2> SUFFICES ASSUME NEW i \in 1..Len(r)
                 PROVE  WellFormed(r[i]) /\ r[i].kind # "fragment"
      BY <1>3 DEF Packets
    <2>1. i + 1 \in 1..Len(queue) /\ r[i] = queue[i + 1] /\ i + 1 # 1 BY <1>4, <1>6
    <2> QED BY <2>1 DEF Packets
  <1>10. EngineLag'
    <2>1. Debt = 1 BY <1>1 DEF Debt
    <2>2. /\ Cardinality(Owed(queue)) =< faults + 1
          /\ HasVersion(queue) => Cardinality(Owed(queue)) + 1 =< faults + 1
      BY <2>1 DEF EngineLag
    <2>3. CASE step' \in InSteps /\ step' \in EngineStages
      <3>1. Debt' = 1 BY <2>3 DEF Debt
      <3>2. /\ Cardinality(Owed(r)) =< faults + 1
            /\ HasVersion(r) => Cardinality(Owed(r)) + 1 =< faults + 1
        BY <2>2, <1>1, <1>4, <1>6
      <3> QED BY <3>1, <3>2, <1>1, <1>3 DEF EngineLag
    <2>4. CASE step' \notin InSteps /\ Counted(queue[1])
      <3>1. Debt' = 0 BY <2>4 DEF Debt
      <3>2. /\ Cardinality(Owed(r)) =< faults + 0
            /\ HasVersion(r) => Cardinality(Owed(r)) + 1 =< faults + 0
        BY <2>2, <2>4, <1>1, <1>4, <1>6
      <3> QED BY <3>1, <3>2, <1>1, <1>3 DEF EngineLag
    <2> QED BY <2>3, <2>4
  <1>11. OldFirst'
    <2> SUFFICES ASSUME NEW j \in 1..Len(r), NEW i \in 1..j, r[i].own PROVE r[j].own
      BY <1>3 DEF OldFirst
    <2>1. i \in 1..Len(r) /\ i + 1 \in 1..(j + 1) BY <1>6
    <2>2. /\ j + 1 \in 1..Len(queue) /\ r[j] = queue[j + 1]
          /\ i + 1 \in 1..Len(queue) /\ r[i] = queue[i + 1]
      BY <2>1, <1>4
    <2> QED BY <2>1, <2>2 DEF OldFirst
  <1>12. StaleLag'
    <2>1. CASE Stale(queue) = {} BY <2>1, <1>3, <1>5 DEF StaleLag
    <2>2. CASE Stale(queue) # {}
      <3>1. Progress + Cardinality(Stale(queue)) + 1 =< faults BY <2>2 DEF StaleLag
      <3>2. ~queue[1].own
        <4>1. PICK k \in Stale(queue) : TRUE BY <2>2
        <4>2. k \in 1..Len(queue) /\ ~queue[k].own BY DEF Stale, Owed
        <4>3. 1 \in 1..k
          <5>1. Len(queue) \in Nat BY <1>1, LenProperties
          <5> QED BY <5>1, <4>2
        <4> QED BY <4>2, <4>3 DEF OldFirst
      <3>3. CASE Progress' = Progress
        <4>1. Progress' + Cardinality(Stale(r)) + 1 =< faults'
          BY <3>1, <3>3, <1>1, <1>5, <1>6
        <4> QED BY <4>1, <1>3 DEF StaleLag
      <3>4. CASE Counted(queue[1]) /\ Progress' \in Nat /\ Progress' =< Progress + 1
        <4>1. Cardinality(Stale(r)) + 1 =< Cardinality(Stale(queue)) BY <3>2, <3>4, <1>5
        <4>2. Progress' + Cardinality(Stale(r)) + 1 =< faults'
          BY <3>1, <3>4, <4>1, <1>1, <1>6
        <4> QED BY <4>2, <1>3 DEF StaleLag
      <3> QED BY <3>3, <3>4
    <2> QED BY <2>1, <2>2
  <1> QED BY <1>8, <1>9, <1>10, <1>11, <1>12

\* An unrelated packet.
LEMMA IgnoredLag == TypeOK /\ LagInv /\ ReadIgnored => LagInv'
  <1> SUFFICES ASSUME TypeOK, LagInv, ReadIgnored PROVE LagInv' OBVIOUS
  <1> USE DEF LagInv
  <1>1. /\ Read /\ Ignores(Head(queue)) /\ UNCHANGED <<step, engineVars, faults>>
        /\ step \in EngineStages /\ step \in InSteps
    BY DEF ReadIgnored, Read, Ignores, Strict
  <1>2. faults # 0 BY <1>1, CleanRead DEF Ignores
  <1>3. Clean' BY <1>1, <1>2 DEF Clean
  <1>4. Received' /\ VerdictLag' /\ Progress' = Progress
    BY <1>1 DEF Received, VerdictLag, Progress, engineVars
  <1> QED BY <1>1, <1>3, <1>4, GoingLag

\* An acknowledgement, in the handshake or in the engine.
LEMMA AckLag == TypeOK /\ LagInv /\ ReadAck => LagInv'
  <1> SUFFICES ASSUME TypeOK, LagInv, ReadAck PROVE LagInv' OBVIOUS
  <1> USE DEF LagInv
  <1>1. /\ Read /\ step \in AckSteps \ {"BootResetAck"} /\ Expected(Head(queue))
        /\ step' = After(step) /\ UNCHANGED <<engineVars, faults>>
    BY DEF ReadAck, Read
  <1>2. /\ step' \in CompletionSteps /\ CommandOf(step') = CommandOf(step)
        /\ step \in Outside <=> step = "VersionAck"
        /\ step = "VersionAck" => step' = "Version"
        /\ step \in EngineStages <=> step # "VersionAck"
        /\ step' \in EngineStages <=> step # "VersionAck"
        /\ step' \in SealedStages <=> step \in SealedStages
        /\ step' \in HashStages <=> step \in HashStages
        /\ step' \in CheckStages <=> step \in CheckStages
        /\ step' \in Outside <=> step = "VersionAck"
        /\ step' \notin ResetSteps /\ step' \in InSteps
    BY <1>1 DEF After, AckSteps, CompletionSteps, InSteps, CommandOf, Outside, EngineStages,
                ResetSteps, SealedStages, HashStages, WriteStages, CheckStages
  <1>3. Received' /\ VerdictLag' /\ Progress' = Progress
    BY <1>1, <1>2 DEF Received, VerdictLag, Progress, engineVars
  <1>4. Clean'
    <2> SUFFICES ASSUME faults = 0
                 PROVE  /\ Len(queue') = 1 /\ queue'[1].kind = "reply"
                        /\ queue'[1].cmd = CommandOf(step')
      BY <1>1, <1>2 DEF Clean, Answer
    <2> QED BY <1>1, <1>2, CleanRead DEF Answer
  <1>5. CASE step # "VersionAck" BY <1>1, <1>2, <1>3, <1>4, <1>5, GoingLag
  <1>6. CASE step = "VersionAck"
    <2> DEFINE r == Tail(queue)
    <2>1. /\ queue # <<>> /\ queue \in Seq(Packet) /\ Head(queue) = queue[1] /\ faults \in Nat
          /\ CutShort(queue[1]) => Counted(queue[1])
          /\ ~CutShort(queue[1]) => queue' = r
      BY <1>1, ReadTakes DEF TypeOK
    <2>2. queue[1].kind = "ack" BY <1>1, <2>1 DEF Expected
    <2>3. queue' = r BY <2>1, <2>2 DEF Counted
    <2>4. /\ r \in Seq(Packet)
          /\ \A i \in 1..Len(r) : r[i] = queue[i + 1] /\ i + 1 \in 1..Len(queue)
          /\ Cardinality(Behind(r)) =< Cardinality(Behind(queue))
          /\ Behind(queue) = {} => Behind(r) = {}
      BY <2>1, TailGoes
    <2> HIDE DEF r
    <2>5. Packets'
      <3> SUFFICES ASSUME NEW i \in 1..Len(r)
                   PROVE  WellFormed(r[i]) /\ r[i].kind # "fragment"
        BY <2>3 DEF Packets
      <3>1. Len(r) \in Nat BY <2>4, LenProperties
      <3>2. i + 1 \in 1..Len(queue) /\ r[i] = queue[i + 1] /\ i + 1 # 1 BY <2>4, <3>1
      <3> QED BY <3>2 DEF Packets
    <2>6. OutsideLag'
      <3>1. Behind(queue) = {} \/ Cardinality(Behind(queue)) + 1 =< faults
        BY <1>2, <1>6 DEF OutsideLag
      <3>2. Cardinality(Behind(r)) \in Nat /\ Cardinality(Behind(queue)) \in Nat
        BY <2>1, <2>4, Countable
      <3>3. Behind(r) = {} \/ Cardinality(Behind(r)) + 1 =< faults
        BY <3>1, <3>2, <2>1, <2>4
      <3> QED BY <3>3, <2>3, <1>1 DEF OutsideLag
    <2>7. EngineLag' /\ OldFirst' /\ StaleLag'
      BY <1>2, <1>6 DEF EngineLag, OldFirst, StaleLag
    <2> QED BY <1>3, <1>4, <2>5, <2>6, <2>7
  <1> QED BY <1>5, <1>6

\* What is common to the answers the engine takes.
LEMMA CountedAnswer ==
  ASSUME TypeOK, LagInv, Read, step \in EngineStages, step \in CompletionSteps,
         Expected(Head(queue))
  PROVE  /\ Counted(queue[1]) /\ Head(queue) = queue[1] /\ queue[1] \in Packet
         /\ queue[1].pieces \in Seq(Nat) /\ Len(queue[1].pieces) \in Nat
         /\ Len(queue[1].pieces) =< ReplyPieces
         /\ Clean'
  <1> USE DEF LagInv
  <1>1. /\ Head(queue) = queue[1] /\ queue[1] \in Packet /\ 1 \in 1..Len(queue)
        /\ faults' = faults
    BY ReadTakes DEF Read
  <1>2. step \notin AckSteps /\ CommandOf(step) # "GetVersion" BY StepKinds
  <1>3. Counted(queue[1]) BY <1>1, <1>2 DEF Expected, Counted
  <1>4. queue[1].pieces \in Seq(Nat) BY <1>1 DEF Packet
  <1>5. Len(queue[1].pieces) \in Nat BY <1>4, LenProperties
  <1>6. Len(queue[1].pieces) =< ReplyPieces BY <1>1 DEF Packets, WellFormed
  <1>7. Clean' BY <1>1, CleanRead DEF Clean
  <1> QED BY <1>1, <1>3, <1>4, <1>5, <1>6, <1>7

\* A piece of the sealed PSK.
LEMMA SealedLag == TypeOK /\ LagInv /\ ReadSealed => LagInv'
  <1> SUFFICES ASSUME TypeOK, LagInv, ReadSealed PROVE LagInv' OBVIOUS
  <1> USE DEF LagInv
  <1>1. /\ Read /\ step = "ReadSealedPskCompletion" /\ Expected(Head(queue))
        /\ sealed' = sealed \o Head(queue).pieces
        /\ step' = IF Len(sealed') = SealedPieces THEN "ReadPskHashWrite"
                                                   ELSE "ReadSealedPskWrite"
        /\ UNCHANGED <<hash, authenticated, chunk, block, verdict, faults>>
    BY DEF ReadSealed, Read
  <1>2. /\ step \in EngineStages /\ step \in CompletionSteps /\ step \in SealedStages
        /\ step' \in EngineStages /\ step' \notin InSteps /\ step' \notin ResetSteps
        /\ step' \notin Outside /\ step' \notin CheckStages
        /\ step' \in SealedStages <=> Len(sealed') # SealedPieces
        /\ step' \in HashStages <=> Len(sealed') = SealedPieces
    BY <1>1 DEF EngineStages, CompletionSteps, SealedStages, HashStages, WriteStages, CheckStages,
                InSteps, AckSteps, ResetSteps, Outside
  <1> DEFINE p == queue[1].pieces
  <1>3. /\ Counted(queue[1]) /\ Head(queue) = queue[1] /\ Clean'
        /\ p \in Seq(Nat) /\ Len(p) \in Nat /\ Len(p) =< ReplyPieces
    BY <1>1, <1>2, CountedAnswer
  <1>4. hash = <<>> /\ ~authenticated BY <1>2 DEF Received
  <1>5. Received' BY <1>1, <1>2, <1>4 DEF Received
  <1>6. VerdictLag' BY <1>2 DEF VerdictLag
  <1>7. Progress' \in Nat /\ Progress' =< Progress + 1
    <2>1. sealed \in Seq(Nat) /\ Len(sealed) \in Nat /\ Len(hash) \in Nat
      BY LenProperties DEF TypeOK
    <2>2. Len(sealed') = Len(sealed) + Len(p) BY <1>1, <1>3, <2>1, ConcatProperties
    <2>3. /\ Reads(Len(sealed)) \in Nat /\ Reads(Len(hash)) \in Nat
          /\ Reads(Len(sealed) + Len(p)) \in Nat
          /\ Reads(Len(sealed) + Len(p)) =< Reads(Len(sealed)) + 1
      BY <2>1, <1>3, ReadsType, ReadsGrow
    <2>4. Progress = Reads(Len(sealed)) + Reads(Len(hash)) BY <1>4 DEF Progress
    <2>5. Progress' = Reads(Len(sealed) + Len(p)) + Reads(Len(hash))
      BY <1>1, <1>4, <2>2 DEF Progress
    <2> QED BY <2>3, <2>4, <2>5
  <1> QED BY <1>1, <1>2, <1>3, <1>5, <1>6, <1>7, GoingLag

\* A piece of the hash.
LEMMA HashLag == IInv /\ LagInv /\ ReadHash => LagInv'
  <1> SUFFICES ASSUME TypeOK, IInv, LagInv, ReadHash PROVE LagInv' BY DEF IInv
  <1> USE DEF LagInv
  <1> DEFINE p == queue[1].pieces
             got == hash \o p
  <1>1. /\ Read /\ step = "ReadPskHashCompletion" /\ Expected(Head(queue))
        /\ UNCHANGED <<chunk, block, verdict, faults>>
    BY DEF ReadHash, Read
  <1>2. /\ step \in EngineStages /\ step \in CompletionSteps /\ step \in HashStages
        /\ "FirmwareWriteBlock" \in EngineStages /\ "FirmwareWriteBlock" \notin InSteps
        /\ "FirmwareWriteBlock" \notin SealedStages \union HashStages \union CheckStages
        /\ "FirmwareWriteBlock" \notin Outside \union ResetSteps
        /\ "ReadPskHashWrite" \in EngineStages /\ "ReadPskHashWrite" \notin InSteps
        /\ "ReadPskHashWrite" \in HashStages
        /\ "ReadPskHashWrite" \notin SealedStages \union CheckStages
        /\ "ReadPskHashWrite" \notin Outside \union ResetSteps
    BY <1>1 DEF EngineStages, CompletionSteps, SealedStages, HashStages, WriteStages, CheckStages,
                InSteps, AckSteps, ResetSteps, Outside
  <1>3. /\ Counted(queue[1]) /\ Head(queue) = queue[1] /\ Clean'
        /\ p \in Seq(Nat) /\ Len(p) \in Nat /\ Len(p) =< ReplyPieces
    BY <1>1, <1>2, CountedAnswer
  <1>4. Len(sealed) = SealedPieces /\ ~authenticated BY <1>2 DEF Received
  <1>5. hash \in Seq(Nat) /\ Len(hash) \in Nat /\ Len(got) = Len(hash) + Len(p)
    BY <1>3, LenProperties, ConcatProperties DEF TypeOK
  <1>6. /\ Reads(SealedPieces) \in Nat /\ Reads(Len(hash)) \in Nat /\ Reads(Len(got)) \in Nat
        /\ Reads(Len(got)) =< Reads(Len(hash)) + 1
    <2>1. SealedPieces \in Nat BY BootstrapAssumption
    <2> QED BY <2>1, <1>3, <1>5, ReadsType, ReadsGrow
  <1>7. Progress = Reads(SealedPieces) + Reads(Len(hash)) BY <1>4 DEF Progress
  <1>8. CASE Len(got) = HashPieces
    <2>1. authenticated' = TRUE /\ step' = "FirmwareWriteBlock"
      BY <1>3, <1>8 DEF ReadHash
    <2>2. chunk = 0 /\ chunk' = chunk
      <3>1. step \notin Past BY <1>1 DEF Past, WriteStages, CheckStages, ResetSteps
      <3> QED BY <1>1, <3>1 DEF IInv, ChunksLeft
    <2>3. Received' /\ VerdictLag' BY <1>2, <2>1 DEF Received, VerdictLag
    <2>4. Progress' = Reads(SealedPieces) + Reads(Len(got))
      BY <1>6, <1>8, <2>1, <2>2 DEF Progress
    <2>5. Progress' \in Nat /\ Progress' =< Progress + 1 BY <2>4, <1>6, <1>7
    <2> QED BY <1>1, <1>2, <1>3, <2>1, <2>3, <2>5, GoingLag
  <1>9. CASE Len(got) # HashPieces
    <2>1. hash' = got /\ step' = "ReadPskHashWrite" /\ UNCHANGED <<sealed, authenticated>>
      BY <1>3, <1>9 DEF ReadHash
    <2>2. Received' /\ VerdictLag' BY <1>2, <1>4, <2>1 DEF Received, VerdictLag
    <2>3. Progress' = Reads(SealedPieces) + Reads(Len(got)) BY <1>4, <2>1 DEF Progress
    <2>4. Progress' \in Nat /\ Progress' =< Progress + 1 BY <2>3, <1>6, <1>7
    <2> QED BY <1>1, <1>2, <1>3, <2>1, <2>2, <2>4, GoingLag
  <1> QED BY <1>8, <1>9

\* The reply to a chunk.
LEMMA ChunkLag == IInv /\ LagInv /\ ChunkDone => LagInv'
  <1> SUFFICES ASSUME TypeOK, IInv, LagInv, ChunkDone PROVE LagInv' BY DEF IInv
  <1> USE DEF LagInv
  <1>1. /\ Read /\ step = "FirmwareWriteCompletion" /\ Expected(Head(queue))
        /\ chunk' = chunk + 1
        /\ step' = IF MoreChunks(chunk') THEN "FirmwareWriteBlock" ELSE "FirmwareCheckWrite"
        /\ UNCHANGED <<sealed, hash, authenticated, block, verdict>>
    BY DEF ChunkDone
  <1>2. /\ step \in EngineStages /\ step \in CompletionSteps /\ step \in WriteStages
        /\ step \in Past
        /\ step' \in EngineStages /\ step' \notin InSteps /\ step' \notin ResetSteps
        /\ step' \notin Outside /\ step' \notin SealedStages /\ step' \notin HashStages
        /\ step' \in CheckStages => ~MoreChunks(chunk')
    BY <1>1 DEF EngineStages, CompletionSteps, SealedStages, HashStages, WriteStages, CheckStages,
                InSteps, AckSteps, ResetSteps, Outside, Past
  <1>3. Counted(queue[1]) /\ Clean' BY <1>1, <1>2, CountedAnswer
  <1>4. authenticated /\ chunk < Chunks /\ chunk \in Nat /\ Chunks \in Nat
    BY <1>2, BootstrapAssumption DEF IInv, Gated, ChunksLeft, TypeOK
  <1>5. Received' /\ VerdictLag'
    <2>1. step' \in CheckStages => chunk' = Chunks BY <1>1, <1>2, <1>4 DEF MoreChunks
    <2> QED BY <2>1, <1>2 DEF Received, VerdictLag
  <1>6. Progress' = Progress + 1
    <2>1. Reads(SealedPieces) \in Nat /\ Reads(HashPieces) \in Nat
      BY ReadsType, BootstrapAssumption
    <2> QED BY <1>1, <1>4, <2>1 DEF Progress
  <1>7. Progress' \in Nat /\ Progress' =< Progress + 1 BY <1>6, ProgressType
  <1> QED BY <1>1, <1>2, <1>3, <1>5, <1>7, GoingLag

\* The check is accepted: an old one in place of the answer has cost more cuts than
\* the attempt has commands.
LEMMA CheckLag == IInv /\ LagInv /\ CheckPassed => LagInv'
  <1> SUFFICES ASSUME TypeOK, IInv, LagInv, CheckPassed PROVE LagInv' BY DEF IInv
  <1> USE DEF LagInv
  <1>1. /\ Read /\ step = "FirmwareCheckCompletion" /\ Expected(Head(queue))
        /\ verdict' = IF Head(queue).own THEN "own" ELSE "stale"
        /\ step' = "BootResetWrite" /\ faults' = faults
        /\ UNCHANGED <<sealed, hash, authenticated, chunk, block>>
    BY DEF CheckPassed, Read
  <1>2. /\ step \in EngineStages /\ step \in CompletionSteps /\ step \in CheckStages
        /\ step \in Past
        /\ step' \in ResetSteps /\ step' \notin InSteps /\ step' \notin EngineStages
        /\ step' \notin Outside /\ step' \notin SealedStages /\ step' \notin HashStages
        /\ step' \notin CheckStages
    BY <1>1 DEF EngineStages, CompletionSteps, SealedStages, HashStages, WriteStages, CheckStages,
                InSteps, AckSteps, ResetSteps, Outside, Past
  <1>3. Counted(queue[1]) /\ Head(queue) = queue[1] /\ Clean' BY <1>1, <1>2, CountedAnswer
  <1>4. Received' BY <1>2 DEF Received
  <1>5. Progress' \in Nat /\ Progress' =< Progress + 1
    <2>1. Progress' = Progress BY <1>1 DEF Progress
    <2> QED BY <2>1, ProgressType
  <1>6. VerdictLag'
    <2>1. CASE queue[1].own BY <2>1, <1>1, <1>3 DEF VerdictLag
    <2>2. CASE ~queue[1].own
      <3>1. /\ queue # <<>> /\ queue \in Seq(Packet)
        BY <1>1 DEF Read, TypeOK
      <3>2. /\ Cardinality(Stale(Tail(queue))) + 1 =< Cardinality(Stale(queue))
            /\ Stale(queue) # {}
        BY <3>1, <1>3, <2>2, StaleGoes
      <3>3. Tail(queue) \in Seq(Packet) BY <3>1, TailGoes
      <3>4. Cardinality(Stale(Tail(queue))) \in Nat /\ Cardinality(Stale(queue)) \in Nat
        BY <3>1, <3>3, Countable
      <3>5. Progress + Cardinality(Stale(queue)) + 1 =< faults
        BY <1>2, <3>2 DEF StaleLag
      <3>6. AttemptCommands = Progress + 1
        <4>1. authenticated /\ chunk = Chunks
          BY <1>2 DEF IInv, Gated, Received
        <4> QED BY <4>1 DEF Progress, AttemptCommands
      <3>7. faults > AttemptCommands
        <4>1. Progress \in Nat /\ faults \in Nat BY ProgressType DEF TypeOK
        <4> QED BY <3>2, <3>4, <3>5, <3>6, <4>1
      <3>8. AttemptCommands' = AttemptCommands BY DEF AttemptCommands, Reads
      <3> QED BY <3>7, <3>8, <1>1 DEF VerdictLag
    <2> QED BY <2>1, <2>2
  <1> QED BY <1>1, <1>2, <1>3, <1>4, <1>5, <1>6, GoingLag

-----------------------------------------------------------------------------
\* Nothing has been asked yet.
LEMMA InitLag == Init => LagInv
  <1> SUFFICES ASSUME Init PROVE LagInv OBVIOUS
  <1>1. /\ step = "Idle" /\ queue = <<>> /\ faults = 0 /\ sealed = <<>> /\ hash = <<>>
        /\ authenticated = FALSE /\ chunk = 0 /\ Len(queue) = 0
    BY DEF Init
  <1>2. step \in Outside /\ step \notin EngineStages \union ResetSteps
    BY <1>1, StepKinds DEF Outside
  <1>3. /\ step \notin EngineStages /\ step \notin ResetSteps /\ step \notin SealedStages
        /\ step \notin HashStages /\ step \notin CheckStages
    BY <1>2 DEF EngineStages
  <1>4. Packets /\ Clean BY <1>1 DEF Packets, Clean
  <1>5. OutsideLag BY <1>1, NothingOwed DEF OutsideLag
  <1>6. EngineLag /\ OldFirst /\ StaleLag /\ VerdictLag
    BY <1>2, <1>3 DEF EngineLag, OldFirst, StaleLag, VerdictLag
  <1>7. Received BY <1>1, <1>3 DEF Received
  <1> QED BY <1>4, <1>5, <1>6, <1>7 DEF LagInv

\* Every step keeps the bounds on what is left over.
LEMMA NextLag == IInv /\ LagInv /\ [Next]_vars => LagInv'
  <1> SUFFICES ASSUME IInv, LagInv, [Next]_vars PROVE LagInv' OBVIOUS
  <1>0. TypeOK BY DEF IInv
  <1>1. CASE StartProbe \/ WriteBlock \/ UNCHANGED vars BY <1>0, <1>1, StillLag
  <1>2. CASE Write BY <1>0, <1>2, WriteLag
  <1>3. CASE WriteFails BY <1>0, <1>3, WriteFailsLag
  <1>4. CASE ReadIgnored BY <1>0, <1>4, IgnoredLag
  <1>5. CASE ReadRejected \/ FindsApp \/ ResetDone BY <1>0, <1>5, RejectLag
  <1>6. CASE Begin BY <1>0, <1>6, BeginLag
  <1>7. CASE ReadAck BY <1>0, <1>7, AckLag
  <1>8. CASE ReadSealed BY <1>0, <1>8, SealedLag
  <1>9. CASE ReadHash BY <1>9, HashLag
  <1>10. CASE ChunkDone BY <1>10, ChunkLag
  <1>11. CASE CheckPassed BY <1>11, CheckLag
  <1>12. CASE ReadFails BY <1>0, <1>12, ReadFailsLag
  <1>13. CASE Reboot BY <1>0, <1>13, RebootLag
  <1> QED BY <1>1, <1>2, <1>3, <1>4, <1>5, <1>6, <1>7, <1>8, <1>9, <1>10, <1>11, <1>12, <1>13
          DEF Next, HostStep, Reading

\* What earlier attempts left in the queue is bounded by how often they were cut off.
THEOREM LagInvariant == Spec => []LagInv
  <1>1. Init => LagInv BY InitLag
  <1>2. IInv /\ LagInv /\ [Next]_vars => LagInv' BY NextLag
  <1> QED BY <1>1, <1>2, BootstrapInvariant, PTL DEF Spec

\* CheckPassed accepts the check of its own attempt, until more probes were cut off
\* than one attempt has commands: the commands of the attempt (bootstrap_advance) use
\* up as many old answers as cuts could have left behind.
THEOREM ChecksAreOwn == Spec => []CheckIsOwn
  <1>1. TypeOK /\ LagInv => CheckIsOwn
    <2> SUFFICES ASSUME TypeOK, LagInv, step \in ResetSteps, faults =< AttemptCommands
                 PROVE  verdict = "own"
      BY DEF CheckIsOwn
    <2>1. faults \in Nat /\ AttemptCommands \in Nat
      <3>1. SealedPieces \in Nat /\ HashPieces \in Nat /\ Chunks \in Nat
        BY BootstrapAssumption
      <3>2. Reads(SealedPieces) \in Nat /\ Reads(HashPieces) \in Nat BY <3>1, ReadsType
      <3>3. AttemptCommands \in Nat BY <3>1, <3>2 DEF AttemptCommands
      <3>4. faults \in Nat BY DEF TypeOK
      <3> QED BY <3>3, <3>4
    <2>2. verdict = "own" \/ faults > AttemptCommands BY DEF LagInv, VerdictLag
    <2> QED BY <2>1, <2>2
  <1> QED BY <1>1, BootstrapTypes, LagInvariant, PTL
-----------------------------------------------------------------------------
(* An attempt comes to its end, and one in which nothing goes wrong is not refused: *)
(* the part of EventuallyBoots that is no matter of fairness.  An answer without a  *)
(* piece of the PSK would let the engine ask for ever; none arises (PiecesCome).    *)

\* The transfers that a probe still has before it at most: of its stages, of the
\* pieces of the PSK and of the chunks.
RoundLeft(s) == IF s \in OutSteps THEN 2 ELSE IF s \in AckSteps THEN 1 ELSE 0
StageLeft(s) == CASE s \in Outside -> 10
                  [] s \in SealedStages \union HashStages \union WriteStages -> 7
                  [] s \in CheckStages -> 5
                  [] s = "BootResetWrite" -> 2
                  [] OTHER -> 0
Stages(s) == RoundLeft(s) + StageLeft(s)
PiecesLeft == IF authenticated
              THEN 0 ELSE 3 * (SealedPieces - Len(sealed)) + 3 * (HashPieces - Len(hash))
BlocksSent == IF step \in {"FirmwareWriteAck", "FirmwareWriteCompletion"}
              THEN Blocks - 1 ELSE block
BlocksLeft == (Blocks + 2) * (Chunks - chunk) - BlocksSent
TransfersLeft == Stages(step) + PiecesLeft + BlocksLeft

\* A command adds two packets, and so weighs three.
Patience == 3 * TransfersLeft + Len(queue)

\* Each step of a probe ends it or takes from its patience, and the reboot of the
\* sensor gives none back.
PatienceFalls ==
  [][step # "Idle" /\ step' # "Idle" => /\ Patience' =< Patience
                                        /\ HostStep => Patience' < Patience]_vars

\* A sensor that is provisioned, under a program that has the right file, is refused
\* only if something went wrong before.
NeverRefused == [][ReadRejected /\ Authorised => faults > 0]_vars

\* How far an engine can have come, and that every answer about the PSK takes it on.
Counters ==
  /\ Len(sealed) =< SealedPieces /\ Len(hash) =< HashPieces
  /\ step \in SealedStages => Len(sealed) < SealedPieces
  /\ step \in HashStages => Len(hash) < HashPieces
  /\ step # "FirmwareWriteBlock" => block = 0
Carries(p) == p.word \in {"sealed", "hash"} => Len(p.pieces) >= 1
PiecesCome == \A i \in 1..Len(queue) : Carries(queue[i])

\* Without a fault the answer that is read is that of the sensor as it is now, the
\* pieces are in order and the chunks behind the engine are written.
FirstPieces(n) == [i \in 1..n |-> i]
Last == queue[Len(queue)]
Fresh == step \in InSteps /\ queue # <<>> =>
  /\ step \in SealedStages => /\ Last.word = "sealed"
                              /\ Last.pieces = Pieces(Len(sealed), SealedPieces)
  /\ step \in HashStages => /\ Last.word = "hash"
                            /\ Last.pieces = Pieces(Len(hash), HashPieces)
  /\ step \in CheckStages => Last.word = (IF Whole THEN "whole" ELSE "zero")
InOrder == sealed = FirstPieces(Len(sealed)) /\ hash = FirstPieces(Len(hash))
Written == /\ \A c \in 0..(chunk - 1) : flash[c] = "new"
           /\ step \in {"FirmwareWriteAck", "FirmwareWriteCompletion"} /\ queue # <<>>
                => flash[chunk] = "new"
Listening == /\ ~halfFrame
             /\ step \in EngineStages => ~rebooting
             /\ step \in {"VersionAck", "Version"} /\ queue # <<>> => ~rebooting
Faultless == faults = 0 => Fresh /\ InOrder /\ Written /\ Listening

-----------------------------------------------------------------------------
(* What a command brings. *)

\* A range that ends in m and in k.
LEMMA SameEnd ==
  ASSUME NEW m \in Nat, NEW k \in Nat, 1..m = 1..k
  PROVE  m = k
  <1>1. CASE m < k
    <2>1. k \in 1..k /\ k \notin 1..m BY <1>1
    <2> QED BY <2>1
  <1>2. CASE k < m
    <2>1. m \in 1..m /\ m \notin 1..k BY <1>2
    <2> QED BY <2>1
  <1> QED BY <1>1, <1>2

\* The pieces from an offset on: at least one where any is missing, and no more than
\* are missing.
LEMMA PiecesCount ==
  ASSUME NEW o \in Nat, NEW t \in Nat, o < t
  PROVE  /\ Pieces(o, t) \in Seq(Nat) /\ Len(Pieces(o, t)) \in 1..(t - o)
         /\ \A i \in 1..Len(Pieces(o, t)) : Pieces(o, t)[i] = o + i
  <1> DEFINE k == Smaller(ReplyPieces, t - o)
  <1>1. k \in 1..(t - o) BY BootstrapAssumption DEF Smaller
  <1>2. /\ Pieces(o, t) \in Seq(Nat) /\ DOMAIN Pieces(o, t) = 1..k
        /\ \A i \in 1..k : Pieces(o, t)[i] = o + i
    BY PiecesType DEF Pieces
  <1> HIDE DEF k
  <1>3. Len(Pieces(o, t)) \in Nat /\ 1..Len(Pieces(o, t)) = 1..k BY <1>2, LenProperties
  <1>4. k \in Nat BY <1>1
  <1>5. Len(Pieces(o, t)) = k BY <1>3, <1>4, SameEnd
  <1> QED BY <1>1, <1>2, <1>5

\* A command brings nothing, its acknowledgement, or that and an answer: the one of
\* the sensor as it is, unless something goes wrong.
Refusal == ReplyOf("PskRead", "refused", <<>>)
LEMMA TakesQueue ==
  ASSUME step \in OutSteps, NEW n \in 0..1, Takes(n)
  PROVE  \/ queue' = queue
         \/ step = "BootResetWrite" /\ queue' = queue \o <<AckOf(CommandOf(step))>>
         \/ /\ step # "BootResetWrite"
            /\ \E p \in {Reply(step), Refusal} :
                 /\ n = 0 => p = Reply(step)
                 /\ queue' = queue \o <<AckOf(CommandOf(step)), p>>
  <1>1. CASE Answered
    <2>1. CASE step = "BootResetWrite" BY <1>1, <2>1 DEF Answered, Queued
    <2>2. CASE step # "BootResetWrite" BY <1>1, <2>2 DEF Answered, Queued
    <2> QED BY <2>1, <2>2
  <1>2. CASE Refuses /\ n = 1
    <2>1. CommandOf(step) = "PskRead" /\ step # "BootResetWrite"
      BY <1>2 DEF Refuses, CommandOf, SealedStages, HashStages, WriteStages, CheckStages,
                  ResetSteps
    <2>2. queue' = Queued(<<AckOf(CommandOf(step)), Refusal>>)
      BY <1>2, <2>1 DEF Refuses, Refusal
    <2> QED BY <1>2, <2>1, <2>2 DEF Queued
  <1>3. CASE LosesCommand BY <1>3 DEF LosesCommand
  <1> QED BY <1>1, <1>2, <1>3 DEF Takes, TakesCommand, TakesChunk

\* The answer to a command about the PSK carries a piece.
LEMMA ReplyCarries ==
  ASSUME TypeOK, Counters, step \in OutSteps
  PROVE  Carries(Reply(step)) /\ Carries(Refusal) /\ Carries(AckOf(CommandOf(step)))
  <1>1. Carries(Refusal) /\ Carries(AckOf(CommandOf(step)))
    BY DEF Carries, Refusal, ReplyOf, AckOf
  <1>2. Len(sealed) \in Nat /\ Len(hash) \in Nat /\ SealedPieces \in Nat /\ HashPieces \in Nat
    BY LenProperties, BootstrapAssumption DEF TypeOK
  <1>3. CASE step = "ReadSealedPskWrite"
    <2>1. Len(sealed) < SealedPieces BY <1>3 DEF Counters, SealedStages
    <2>2. Len(Pieces(Len(sealed), SealedPieces)) \in 1..(SealedPieces - Len(sealed))
      BY <2>1, <1>2, PiecesCount
    <2>3. Len(Pieces(Len(sealed), SealedPieces)) >= 1 BY <2>2
    <2>4. Reply(step).pieces = Pieces(Len(sealed), SealedPieces) BY <1>3 DEF Reply, ReplyOf
    <2> QED BY <1>1, <2>3, <2>4 DEF Carries
  <1>4. CASE step = "ReadPskHashWrite"
    <2>1. Len(hash) < HashPieces BY <1>4 DEF Counters, HashStages
    <2>2. Len(Pieces(Len(hash), HashPieces)) \in 1..(HashPieces - Len(hash))
      BY <2>1, <1>2, PiecesCount
    <2>3. Len(Pieces(Len(hash), HashPieces)) >= 1 BY <2>2
    <2>4. Reply(step).pieces = Pieces(Len(hash), HashPieces) BY <1>4 DEF Reply, ReplyOf
    <2> QED BY <1>1, <2>3, <2>4 DEF Carries
  <1>5. CASE step \notin {"ReadSealedPskWrite", "ReadPskHashWrite"}
    <2>1. Reply(step).word \in {image, "done", "whole", "zero"} BY <1>5 DEF Reply, ReplyOf
    <2>2. image \in {"IAP", "APP"} BY DEF TypeOK
    <2>3. Reply(step).word \notin {"sealed", "hash"} BY <2>1, <2>2
    <2> QED BY <1>1, <2>3 DEF Carries
  <1> QED BY <1>3, <1>4, <1>5

\* What a read does to the queue, for what is said of each packet and of how many
\* there are.
LEMMA ReadShortens ==
  ASSUME TypeOK, Packets, Read
  PROVE  /\ Len(queue) \in Nat /\ Len(queue') \in Nat /\ Len(queue') =< Len(queue)
         /\ \A i \in 1..Len(queue') :
               queue'[i] = Fragment \/ \E j \in 1..Len(queue) : queue'[i] = queue[j]
         /\ ~CutShort(Head(queue)) => Len(queue') < Len(queue)
  <1>1. /\ queue # <<>> /\ queue \in Seq(Packet) /\ queue' \in Seq(Packet)
        /\ Head(queue) = queue[1]
        /\ CutShort(queue[1]) => Counted(queue[1]) /\ queue' = <<Fragment>> \o Tail(queue)
        /\ ~CutShort(queue[1]) => queue' = Tail(queue)
    BY ReadTakes DEF TypeOK
  <1>2. Len(queue) \in Nat /\ Len(queue') \in Nat BY <1>1, LenProperties
  <1>3. CASE CutShort(queue[1])
    <2>1. /\ Len(queue') = Len(queue) /\ queue'[1] = Fragment
          /\ \A i \in 2..Len(queue') : queue'[i] = queue[i]
      BY <1>1, <1>3, CutShortCounts
    <2>2. \A i \in 1..Len(queue') : i = 1 \/ (i \in 2..Len(queue') /\ i \in 1..Len(queue))
      BY <1>2, <2>1
    <2> QED BY <1>1, <1>2, <1>3, <2>1, <2>2
  <1>4. CASE ~CutShort(queue[1])
    <2>1. /\ Len(queue') + 1 = Len(queue)
          /\ \A i \in 1..Len(queue') : queue'[i] = queue[i + 1] /\ i + 1 \in 1..Len(queue)
      BY <1>1, <1>4, TailGoes
    <2> QED BY <1>1, <1>2, <1>4, <2>1
  <1> QED BY <1>3, <1>4

\* Every answer about the PSK that is queued carries a piece of it.
LEMMA PiecesStep == IInv /\ LagInv /\ Counters /\ PiecesCome /\ [Next]_vars => PiecesCome'
  <1> SUFFICES ASSUME IInv, LagInv, Counters, PiecesCome, [Next]_vars PROVE PiecesCome'
    OBVIOUS
  <1>0. TypeOK /\ Packets /\ queue \in Seq(Packet) /\ Len(queue) \in Nat
    BY LenProperties DEF IInv, LagInv, TypeOK
  <1>1. ASSUME queue' = queue PROVE PiecesCome' BY <1>1 DEF PiecesCome
  <1>2. ASSUME Read PROVE PiecesCome'
    <2>1. Carries(Fragment) BY DEF Carries, Fragment
    <2> QED BY <1>0, <1>2, <2>1, ReadShortens DEF PiecesCome
  <1>3. ASSUME step \in OutSteps, NEW n \in 0..1, Takes(n) PROVE PiecesCome'
    <2>1. Carries(Reply(step)) /\ Carries(Refusal) /\ Carries(AckOf(CommandOf(step)))
      BY <1>0, <1>3, ReplyCarries
    <2>2. AckOf(CommandOf(step)) \in Packet /\ Reply(step) \in Packet /\ Refusal \in Packet
      <3>1. <<>> \in Seq(Nat) BY EmptySeq
      <3>2. Refusal \in Packet BY <3>1 DEF Refusal, ReplyOf, Packet, Commands, Words
      <3> QED BY <1>0, <3>2, ReplyType
    <2> DEFINE a == AckOf(CommandOf(step))
    <2> HIDE DEF a
    <2>3. CASE queue' = queue \o <<a>>
      <3>1. /\ Len(queue') = Len(queue) + 1 /\ queue'[Len(queue) + 1] = a
            /\ \A i \in 1..Len(queue) : queue'[i] = queue[i]
        BY <1>0, <2>2, <2>3, OneMore DEF a
      <3>2. \A i \in 1..Len(queue') : i \in 1..Len(queue) \/ i = Len(queue) + 1
        BY <1>0, <3>1
      <3> QED BY <3>1, <3>2, <2>1 DEF PiecesCome, a
    <2>4. ASSUME NEW p \in {Reply(step), Refusal}, queue' = queue \o <<a, p>>
          PROVE  PiecesCome'
      <3>1. /\ Len(queue') = Len(queue) + 2 /\ queue'[Len(queue) + 1] = a
            /\ queue'[Len(queue) + 2] = p
            /\ \A i \in 1..Len(queue) : queue'[i] = queue[i]
        BY <1>0, <2>2, <2>4, TwoMore DEF a
      <3>2. \A i \in 1..Len(queue') :
              i \in 1..Len(queue) \/ i = Len(queue) + 1 \/ i = Len(queue) + 2
        BY <1>0, <3>1
      <3> QED BY <3>1, <3>2, <2>1 DEF PiecesCome, a
    <2> QED BY <1>1, <1>3, <2>3, <2>4, TakesQueue DEF a
  <1>4. CASE Write BY <1>3, <1>4 DEF Write
  <1>5. CASE WriteFails
    <2>1. (step \in OutSteps /\ Takes(0)) \/ queue' = queue BY <1>5 DEF WriteFails
    <2>2. 0 \in 0..1 OBVIOUS
    <2> QED BY <1>1, <1>3, <2>1, <2>2
  <1>6. CASE Begin
    <2> DEFINE r == Tail(queue)
    <2>1. queue # <<>> /\ queue' = Disown(r) BY <1>6 DEF Begin
    <2>2. r \in Seq(Packet) /\ \A i \in 1..Len(r) : r[i] = queue[i + 1] /\ i + 1 \in 1..Len(queue)
      BY <1>0, <2>1, TailGoes
    <2> HIDE DEF r
    <2>3. Len(r) \in Nat /\ DOMAIN r = 1..Len(r) /\ Len(Disown(r)) = Len(r)
      BY <2>2, LenProperties, DisownSame
    <2>4. ASSUME NEW i \in 1..Len(r) PROVE Carries(Disown(r)[i])
      <3>1. Disown(r)[i] = [r[i] EXCEPT !.own = FALSE] BY <2>3 DEF Disown
      <3>2. r[i] \in Packet /\ Carries(r[i]) BY <2>2, ElementOfSeq DEF PiecesCome
      <3>3. Disown(r)[i].word = r[i].word /\ Disown(r)[i].pieces = r[i].pieces
        BY <3>1, <3>2 DEF Packet
      <3> QED BY <3>2, <3>3 DEF Carries
    <2> QED BY <2>1, <2>3, <2>4 DEF PiecesCome
  <1>7. CASE ReadFails
    <2>1. queue' = queue \/ (queue # <<>> /\ queue' = Tail(queue)) BY <1>7 DEF ReadFails
    <2>2. CASE queue # <<>> /\ queue' = Tail(queue)
      BY <1>0, <2>2, TailGoes DEF PiecesCome
    <2> QED BY <1>1, <2>1, <2>2
  <1>8. CASE Reboot
    <2>1. queue' = <<>> BY <1>8 DEF Reboot
    <2> QED BY <2>1 DEF PiecesCome
  <1>9. CASE StartProbe \/ WriteBlock \/ UNCHANGED vars
    BY <1>1, <1>9 DEF StartProbe, WriteBlock, vars, sensorVars
  <1>10. CASE ReadIgnored \/ ReadRejected \/ FindsApp \/ ReadAck \/ ReadSealed \/ ReadHash
              \/ ChunkDone \/ CheckPassed \/ ResetDone
    BY <1>2, <1>10 DEF ReadIgnored, ReadRejected, FindsApp, ReadAck, ReadSealed, ReadHash,
       ChunkDone, CheckPassed, ResetDone
  <1> QED BY <1>4, <1>5, <1>6, <1>7, <1>8, <1>9, <1>10 DEF Next, HostStep, Reading

\* Where a write and an acknowledgement lead: within the stages of the command.
LEMMA AfterStages ==
  ASSUME step \in OutSteps \union (AckSteps \ {"BootResetAck"})
  PROVE  LET s == After(step)
         IN  /\ s \in InSteps /\ s \notin OutSteps /\ s # "Idle"
             /\ s \in SealedStages <=> step \in SealedStages
             /\ s \in HashStages <=> step \in HashStages
             /\ s \in WriteStages <=> step \in WriteStages
             /\ s \in Outside <=> step \in Outside
             /\ step \in OutSteps => s \in AckSteps
             /\ step \in AckSteps => s \in CompletionSteps
             /\ step # "BootResetWrite" => s # "BootResetAck"
  BY DEF After, OutSteps, AckSteps, InSteps, CompletionSteps, SealedStages, HashStages,
         WriteStages, Outside, Zenon

\* A step that ends the probe leaves no count behind.
LEMMA EndCounters == EndProbe => Counters'
  <1> SUFFICES ASSUME EndProbe PROVE Counters' OBVIOUS
  <1>1. step' = "Idle" /\ sealed' = <<>> /\ hash' = <<>> /\ block' = 0
    BY DEF EndProbe
  <1>2. Len(<<>>) = 0 /\ 0 =< SealedPieces /\ 0 =< HashPieces BY BootstrapAssumption
  <1> QED BY <1>1, <1>2 DEF Counters, SealedStages, HashStages

\* What the engine takes of an answer about the PSK: no more than it misses.
LEMMA SealedCount ==
  ASSUME TypeOK, LagInv, PiecesCome, ReadSealed
  PROVE  /\ sealed' = sealed \o queue[1].pieces /\ queue[1].pieces \in Seq(Nat)
         /\ Len(queue[1].pieces) \in Nat \ {0} /\ Len(sealed) \in Nat
         /\ Len(sealed') = Len(sealed) + Len(queue[1].pieces)
         /\ Len(sealed') =< SealedPieces
         /\ queue[1].word = "sealed"
  <1>1. /\ Read /\ step = "ReadSealedPskCompletion" /\ Expected(Head(queue))
        /\ ~Rejects(Head(queue)) /\ sealed' = sealed \o Head(queue).pieces
    BY DEF ReadSealed
  <1>2. /\ Head(queue) = queue[1] /\ queue[1].pieces \in Seq(Nat)
        /\ Len(queue[1].pieces) \in Nat
    BY <1>1, CountedAnswer DEF EngineStages, CompletionSteps, SealedStages
  <1>3. queue[1].word = "sealed" /\ Len(queue[1].pieces) =< SealedPieces - Len(sealed)
    BY <1>1, <1>2 DEF Rejects, Appends
  <1>4. 1 \in 1..Len(queue)
    BY <1>1, ReadTakes DEF LagInv
  <1>5. Len(queue[1].pieces) >= 1 BY <1>3, <1>4 DEF PiecesCome, Carries
  <1>6. sealed \in Seq(Nat) /\ Len(sealed) \in Nat BY LenProperties DEF TypeOK
  <1>7. Len(sealed') = Len(sealed) + Len(queue[1].pieces)
    BY <1>1, <1>2, <1>6, ConcatProperties
  <1>8. SealedPieces \in Nat BY BootstrapAssumption
  <1>9. Len(queue[1].pieces) \in Nat \ {0} /\ Len(sealed') =< SealedPieces
    BY <1>2, <1>3, <1>5, <1>6, <1>7, <1>8
  <1>10. sealed' = sealed \o queue[1].pieces BY <1>1, <1>2
  <1> QED BY <1>2, <1>3, <1>6, <1>7, <1>9, <1>10

\* The same of the stored hash.
LEMMA HashCount ==
  ASSUME TypeOK, LagInv, PiecesCome, ReadHash
  PROVE  LET got == hash \o queue[1].pieces
         IN  /\ queue[1].pieces \in Seq(Nat) /\ got \in Seq(Nat)
             /\ Len(queue[1].pieces) \in Nat \ {0} /\ Len(hash) \in Nat /\ Len(got) \in Nat
             /\ Len(got) = Len(hash) + Len(queue[1].pieces) /\ Len(got) =< HashPieces
             /\ IF Len(got) = HashPieces
                THEN /\ sealed' = <<>> /\ hash' = <<>> /\ authenticated' = TRUE
                     /\ step' = "FirmwareWriteBlock"
                ELSE /\ hash' = got /\ step' = "ReadPskHashWrite"
                     /\ UNCHANGED <<sealed, authenticated>>
  <1>1. /\ Read /\ step = "ReadPskHashCompletion" /\ Expected(Head(queue))
        /\ ~Rejects(Head(queue))
    BY DEF ReadHash
  <1>2. /\ Head(queue) = queue[1] /\ queue[1].pieces \in Seq(Nat)
        /\ Len(queue[1].pieces) \in Nat
    BY <1>1, CountedAnswer DEF EngineStages, CompletionSteps, HashStages
  <1>3. queue[1].word = "hash" /\ Len(queue[1].pieces) =< HashPieces - Len(hash)
    BY <1>1, <1>2 DEF Rejects, Appends
  <1>4. 1 \in 1..Len(queue)
    BY <1>1, ReadTakes DEF LagInv
  <1>5. Len(queue[1].pieces) >= 1 BY <1>3, <1>4 DEF PiecesCome, Carries
  <1>6. hash \in Seq(Nat) /\ Len(hash) \in Nat BY LenProperties DEF TypeOK
  <1> DEFINE got == hash \o queue[1].pieces
  <1>7. got \in Seq(Nat) /\ Len(got) = Len(hash) + Len(queue[1].pieces)
    BY <1>2, <1>6, ConcatProperties
  <1>8. HashPieces \in Nat BY BootstrapAssumption
  <1>9. IF Len(got) = HashPieces
        THEN /\ sealed' = <<>> /\ hash' = <<>> /\ authenticated' = TRUE
             /\ step' = "FirmwareWriteBlock"
        ELSE /\ hash' = got /\ step' = "ReadPskHashWrite"
             /\ UNCHANGED <<sealed, authenticated>>
    BY <1>2 DEF ReadHash
  <1>10. Len(queue[1].pieces) \in Nat \ {0} /\ Len(got) \in Nat /\ Len(got) =< HashPieces
    BY <1>2, <1>3, <1>5, <1>6, <1>7, <1>8
  <1> QED BY <1>2, <1>6, <1>7, <1>9, <1>10

\* The counts of an engine stay within the PSK and the blocks of a frame.
LEMMA CountersStep == IInv /\ LagInv /\ Counters /\ PiecesCome /\ [Next]_vars => Counters'
  <1> SUFFICES ASSUME IInv, LagInv, Counters, PiecesCome, [Next]_vars PROVE Counters'
    OBVIOUS
  <1>0. TypeOK /\ Len(<<>>) = 0 /\ SealedPieces \in Nat \ {0} /\ HashPieces \in Nat \ {0}
    BY BootstrapAssumption DEF IInv
  <1>1. ASSUME UNCHANGED <<sealed, hash>>, block' = 0 \/ step' = "FirmwareWriteBlock",
               step' \in SealedStages => step \in SealedStages,
               step' \in HashStages => step \in HashStages
        PROVE  Counters'
    BY <1>1 DEF Counters
  <1>2. CASE Write BY <1>1, <1>2, AfterStages DEF Write
  <1>3. CASE WriteBlock BY <1>1, <1>3 DEF WriteBlock
  <1>5. CASE ReadAck
    <2>1. step # "FirmwareWriteBlock" BY <1>5 DEF ReadAck, AckSteps
    <2> QED BY <1>1, <1>5, <2>1, AfterStages DEF ReadAck, engineVars, Counters
  <1>6. CASE ReadIgnored \/ Reboot \/ UNCHANGED vars
    BY <1>6 DEF ReadIgnored, Reboot, vars, engineVars, Counters
  <1>7. CASE StartProbe
    BY <1>7 DEF StartProbe, engineVars, Counters, SealedStages, HashStages
  <1>8. CASE Begin
    <2>1. step = "Version" /\ step' = "ReadSealedPskWrite" /\ UNCHANGED engineVars
      BY <1>8 DEF Begin, FirstStage
    <2>2. sealed = <<>> /\ hash = <<>> BY <2>1 DEF LagInv, Received, Outside
    <2> QED BY <1>0, <2>1, <2>2 DEF engineVars, Counters, SealedStages, HashStages
  <1>9. CASE ReadSealed
    <2>1. /\ step = "ReadSealedPskCompletion" /\ UNCHANGED <<hash, block>>
          /\ step' = IF Len(sealed') = SealedPieces THEN "ReadPskHashWrite"
                                                     ELSE "ReadSealedPskWrite"
      BY <1>9 DEF ReadSealed
    <2>2. Len(sealed') \in Nat /\ Len(sealed') =< SealedPieces
      BY <1>0, <1>9, SealedCount
    <2>3. hash = <<>> BY <2>1 DEF LagInv, Received, SealedStages
    <2> QED BY <1>0, <2>1, <2>2, <2>3 DEF Counters, SealedStages, HashStages
  <1>10. CASE ReadHash
    <2>1. step = "ReadPskHashCompletion" /\ UNCHANGED block BY <1>10 DEF ReadHash
    <2> DEFINE got == hash \o queue[1].pieces
    <2>2. /\ Len(got) \in Nat /\ Len(got) =< HashPieces
          /\ IF Len(got) = HashPieces
             THEN /\ sealed' = <<>> /\ hash' = <<>> /\ authenticated' = TRUE
                  /\ step' = "FirmwareWriteBlock"
             ELSE /\ hash' = got /\ step' = "ReadPskHashWrite"
                  /\ UNCHANGED <<sealed, authenticated>>
      BY <1>0, <1>10, HashCount
    <2> HIDE DEF got
    <2> QED BY <1>0, <2>1, <2>2 DEF Counters, SealedStages, HashStages
  <1>11. CASE ChunkDone \/ CheckPassed
    <2>1. /\ step \in {"FirmwareWriteCompletion", "FirmwareCheckCompletion"}
          /\ step' \in {"FirmwareWriteBlock", "FirmwareCheckWrite", "BootResetWrite"}
          /\ UNCHANGED <<sealed, hash, block>>
      BY <1>11 DEF ChunkDone, CheckPassed
    <2> QED BY <2>1 DEF Counters, SealedStages, HashStages
  <1>12. CASE WriteFails \/ ReadRejected \/ FindsApp \/ ResetDone \/ ReadFails
    BY <1>12, EndCounters DEF WriteFails, ReadRejected, FindsApp, ResetDone, ReadFails
  <1> QED BY <1>2, <1>3, <1>5, <1>6, <1>7, <1>8, <1>9, <1>10, <1>11, <1>12
          DEF Next, HostStep, Reading

-----------------------------------------------------------------------------
(* The patience of a probe. *)

\* The blocks of the chunks that are left.
LEMMA ChunkWork ==
  ASSUME NEW c \in Nat, c =< Chunks
  PROVE  LET w == (Blocks + 2) * (Chunks - c)
         IN  /\ w \in Nat /\ w =< (Blocks + 2) * Chunks /\ (Blocks + 2) * Chunks \in Nat
             /\ c < Chunks => /\ w >= Blocks + 2
                              /\ (Blocks + 2) * (Chunks - (c + 1)) = w - (Blocks + 2)
  <1> DEFINE b == Blocks + 2
             k == Chunks - c
  <1>1. b \in Nat /\ k \in Nat /\ Chunks = k + c BY BootstrapAssumption
  <1>2. \A m \in Nat, n \in Nat : /\ m * n \in Nat
                                  /\ n # 0 => m * n >= m /\ m * (n - 1) = m * n - m
    <2> SUFFICES ASSUME NEW m \in Nat, NEW n \in Nat
                 PROVE  m * n \in Nat /\ (n # 0 => m * n >= m /\ m * (n - 1) = m * n - m)
      OBVIOUS
    <2>1. m * n \in Nat OBVIOUS
    <2>2. ASSUME n # 0 PROVE m * n >= m /\ m * (n - 1) = m * n - m
      <3>1. m * (n - 1) = m * n - m OBVIOUS
      <3>2. m * (n - 1) \in Nat
        <4>1. n - 1 \in Nat BY <2>2
        <4> QED BY <4>1
      <3> QED BY <2>1, <3>1, <3>2
    <2> QED BY <2>1, <2>2
  <1>3. b * Chunks = b * k + b * c
    <2>1. \A x \in Nat, y \in Nat, z \in Nat : x * (y + z) = x * y + x * z OBVIOUS
    <2> HIDE DEF b, k
    <2>2. b * (k + c) = b * k + b * c BY <1>1, <2>1
    <2> QED BY <1>1, <2>2
  <1>4. b * k \in Nat /\ b * c \in Nat /\ b * Chunks \in Nat
    <2>1. Chunks \in Nat BY BootstrapAssumption
    <2> QED BY <1>1, <1>2, <2>1
  <1>5. b * k =< b * Chunks BY <1>3, <1>4
  <1>6. ASSUME c < Chunks PROVE b * k >= b /\ b * (Chunks - (c + 1)) = b * k - b
    <2>1. k # 0 /\ Chunks - (c + 1) = k - 1 BY <1>1, <1>6
    <2> QED BY <1>1, <1>2, <2>1
  <1> QED BY <1>4, <1>5, <1>6

\* What is left is a number, and no more than a whole attempt.
LEMMA LeftTypes ==
  ASSUME IInv, Counters
  PROVE  /\ Stages(step) \in 0..12
         /\ PiecesLeft \in 0..(3 * SealedPieces + 3 * HashPieces)
         /\ BlocksLeft \in 0..((Blocks + 2) * Chunks)
         /\ (Blocks + 2) * Chunks \in Nat
         /\ (Blocks + 2) * (Chunks - chunk) \in Nat
         /\ Len(queue) \in Nat
  <1>1. Stages(step) \in 0..12 BY DEF Stages, RoundLeft, StageLeft
  <1>2. PiecesLeft \in 0..(3 * SealedPieces + 3 * HashPieces)
    <2>1. /\ Len(sealed) \in Nat /\ Len(hash) \in Nat /\ SealedPieces \in Nat /\ HashPieces \in Nat
          /\ Len(sealed) =< SealedPieces /\ Len(hash) =< HashPieces
      BY LenProperties, BootstrapAssumption DEF IInv, TypeOK, Counters
    <2> QED BY <2>1 DEF PiecesLeft
  <1> DEFINE w == (Blocks + 2) * (Chunks - chunk)
             W == (Blocks + 2) * Chunks
  <1>3. chunk \in Nat /\ chunk =< Chunks /\ block \in 0..(Blocks - 1) /\ Blocks \in Nat \ {0}
    BY BootstrapAssumption DEF IInv, TypeOK
  <1>4. /\ w \in Nat /\ W \in Nat /\ w =< W
        /\ chunk < Chunks => w >= Blocks + 2
    BY <1>3, ChunkWork
  <1> HIDE DEF w, W
  <1>5. BlocksSent \in 0..(Blocks - 1) BY <1>3 DEF BlocksSent
  <1>6. ~(chunk < Chunks) => BlocksSent = 0
    BY DEF BlocksSent, IInv, ChunksLeft, WriteStages, Counters
  <1>7. BlocksLeft = w - BlocksSent BY DEF BlocksLeft, w
  <1>8. BlocksLeft \in 0..W BY <1>3, <1>4, <1>5, <1>6, <1>7
  <1>9. Len(queue) \in Nat BY LenProperties DEF IInv, TypeOK
  <1> QED BY <1>1, <1>2, <1>4, <1>8, <1>9 DEF w, W

\* A command adds two packets at most.
LEMMA TakesTwo ==
  ASSUME TypeOK, step \in OutSteps, NEW n \in 0..1, Takes(n)
  PROVE  Len(queue') \in Nat /\ Len(queue') =< Len(queue) + 2 /\ Len(queue) \in Nat
  <1>1. queue \in Seq(Packet) /\ Len(queue) \in Nat BY LenProperties DEF TypeOK
  <1>2. queue' = queue \/ \E d \in {1, 2} : Len(queue') = Len(queue) + d
    BY TakesAdds DEF Added
  <1>3. ASSUME NEW d \in {1, 2}, Len(queue') = Len(queue) + d
        PROVE  Len(queue') \in Nat /\ Len(queue') =< Len(queue) + 2
    BY <1>1, <1>3
  <1>4. CASE queue' = queue BY <1>1, <1>4
  <1> QED BY <1>1, <1>2, <1>3, <1>4

\* Three for a transfer, one for a packet.
LEMMA Weighed ==
  ASSUME NEW t \in Nat, NEW u \in Nat, NEW n \in Nat, NEW m \in Nat,
         \/ u + 1 =< t /\ m =< n + 2
         \/ u =< t /\ m < n
  PROVE  3 * u + m < 3 * t + n
  OBVIOUS

\* The stages in numbers.
LEMMA StageNumbers ==
  /\ Stages("VersionWrite") = 12
  /\ Stages("VersionAck") = 11
  /\ Stages("Version") = 10
  /\ Stages("ReadSealedPskWrite") = 9
  /\ Stages("ReadSealedPskAck") = 8
  /\ Stages("ReadSealedPskCompletion") = 7
  /\ Stages("ReadPskHashWrite") = 9
  /\ Stages("ReadPskHashAck") = 8
  /\ Stages("ReadPskHashCompletion") = 7
  /\ Stages("FirmwareWriteBlock") = 9
  /\ Stages("FirmwareWriteAck") = 8
  /\ Stages("FirmwareWriteCompletion") = 7
  /\ Stages("FirmwareCheckWrite") = 7
  /\ Stages("FirmwareCheckAck") = 6
  /\ Stages("FirmwareCheckCompletion") = 5
  /\ Stages("BootResetWrite") = 4
  /\ Stages("BootResetAck") = 1
  BY DEF Stages, RoundLeft, StageLeft, Outside, OutSteps, AckSteps, SealedStages, HashStages,
         WriteStages, CheckStages

\* Within the round of a command.
LEMMA RoundFalls ==
  ASSUME step \in OutSteps \union (AckSteps \ {"BootResetAck"})
  PROVE  Stages(After(step)) + 1 =< Stages(step) /\ Stages(After(step)) \in Nat
  <1>1. /\ After("VersionWrite") = "VersionAck"
        /\ After("VersionAck") = "Version"
        /\ After("ReadSealedPskWrite") = "ReadSealedPskAck"
        /\ After("ReadSealedPskAck") = "ReadSealedPskCompletion"
        /\ After("ReadPskHashWrite") = "ReadPskHashAck"
        /\ After("ReadPskHashAck") = "ReadPskHashCompletion"
        /\ After("FirmwareCheckWrite") = "FirmwareCheckAck"
        /\ After("FirmwareCheckAck") = "FirmwareCheckCompletion"
        /\ After("FirmwareWriteBlock") = "FirmwareWriteAck"
        /\ After("FirmwareWriteAck") = "FirmwareWriteCompletion"
        /\ After("BootResetWrite") = "BootResetAck"
    BY DEF After
  <1>2. step \in {"VersionWrite", "VersionAck", "ReadSealedPskWrite",
                "ReadSealedPskAck", "ReadPskHashWrite", "ReadPskHashAck",
                "FirmwareCheckWrite", "FirmwareCheckAck", "FirmwareWriteBlock",
                "FirmwareWriteAck", "BootResetWrite"}
    BY DEF OutSteps, AckSteps
  <1> QED BY <1>1, <1>2, StageNumbers

\* A write takes one from the round, or a block from the frame.
LEMMA WriteFalls ==
  ASSUME IInv, Counters, Write \/ WriteBlock
  PROVE  TransfersLeft' + 1 =< TransfersLeft
  <1>1. /\ Stages(step) \in Nat /\ PiecesLeft \in Nat /\ BlocksLeft \in Nat
        /\ (Blocks + 2) * (Chunks - chunk) \in Nat
    BY LeftTypes
  <1>2. block \in Nat /\ Blocks \in Nat BY BootstrapAssumption DEF IInv, TypeOK
  <1>3. UNCHANGED <<sealed, hash, authenticated, chunk>> BY DEF Write, WriteBlock
  <1>4. PiecesLeft' = PiecesLeft BY <1>3 DEF PiecesLeft
  <1> DEFINE w == (Blocks + 2) * (Chunks - chunk)
  <1>5. w' = w BY <1>3
  <1> HIDE DEF w
  <1>6. BlocksLeft = w - BlocksSent /\ BlocksLeft' = w' - BlocksSent'
    BY DEF BlocksLeft, w
  <1>7. w \in Nat BY <1>1 DEF w
  <1>8. CASE Write
    <2>1. step' = After(step) /\ step \in OutSteps /\ block' = 0 /\ LastBlock
      BY <1>8 DEF Write
    <2>2. BlocksSent' = BlocksSent
      <3>1. CASE step = "FirmwareWriteBlock"
        <4>1. step' = "FirmwareWriteAck" BY <2>1, <3>1 DEF After
        <4>2. block + 1 = Blocks BY <2>1, <3>1 DEF LastBlock
        <4> QED BY <1>2, <3>1, <4>1, <4>2 DEF BlocksSent
      <3>2. CASE step # "FirmwareWriteBlock"
        <4>1. block = 0 BY <3>2 DEF Counters
        <4>2. step' \notin WriteStages
          BY <2>1, <3>2, AfterStages DEF WriteStages, OutSteps
        <4> QED BY <2>1, <4>1, <4>2 DEF BlocksSent, WriteStages, OutSteps
      <3> QED BY <3>1, <3>2
    <2>3. Stages(step') + 1 =< Stages(step)
      BY <2>1, RoundFalls
    <2>4. BlocksLeft' = BlocksLeft BY <1>5, <1>6, <2>2
    <2>5. Stages(step') \in Nat BY DEF Stages, RoundLeft, StageLeft
    <2> QED BY <1>1, <1>4, <2>3, <2>4, <2>5 DEF TransfersLeft
  <1>9. CASE WriteBlock
    <2>1. step' = step /\ step = "FirmwareWriteBlock" /\ block' = block + 1
      BY <1>9 DEF WriteBlock
    <2>2. BlocksSent = block /\ BlocksSent' = block + 1 BY <2>1 DEF BlocksSent
    <2>3. BlocksLeft' = BlocksLeft - 1 BY <1>2, <1>5, <1>6, <1>7, <2>2
    <2>4. Stages(step') = Stages(step)
      BY <2>1
    <2> QED BY <1>1, <1>4, <2>3, <2>4 DEF TransfersLeft
  <1> QED BY <1>8, <1>9

\* A round that brought a piece of the PSK or wrote a chunk makes up for the next.
LEMMA RoundPaid ==
  ASSUME IInv, Counters, Stages(step) = 7, Stages(step') \in {7, 9}, PiecesLeft' \in Int,
         BlocksLeft' \in Int,
         \/ PiecesLeft' + 3 =< PiecesLeft /\ BlocksLeft' = BlocksLeft
         \/ PiecesLeft' = PiecesLeft /\ BlocksLeft' + 3 = BlocksLeft
  PROVE  TransfersLeft' =< TransfersLeft /\ TransfersLeft' \in Int
  <1>1. PiecesLeft \in Nat /\ BlocksLeft \in Nat BY LeftTypes
  <1>2. \A s \in {7, 9}, p, b \in Nat, q, c \in Int :
           (q + 3 =< p /\ c = b) \/ (q = p /\ c + 3 = b)
             => s + q + c =< 7 + p + b /\ s + q + c \in Int
    OBVIOUS
  <1>3. /\ TransfersLeft = 7 + PiecesLeft + BlocksLeft
        /\ TransfersLeft' = Stages(step') + PiecesLeft' + BlocksLeft'
    BY DEF TransfersLeft
  <1> QED BY <1>1, <1>2, <1>3, Zenon

\* A read that goes on takes no transfer back: it takes one from the round, or ends
\* a round that brought a piece of the PSK or wrote a chunk.
LEMMA ReadFalls ==
  ASSUME IInv, LagInv, Counters, PiecesCome,
         ReadIgnored \/ Begin \/ ReadAck \/ ReadSealed \/ ReadHash \/ ChunkDone \/ CheckPassed
  PROVE  TransfersLeft' =< TransfersLeft /\ TransfersLeft' \in Int
  <1>1. /\ Stages(step) \in Nat /\ PiecesLeft \in Nat /\ BlocksLeft \in Nat
    BY LeftTypes
  <1>2. /\ TypeOK /\ chunk \in Nat /\ chunk =< Chunks /\ Chunks \in Nat /\ Blocks \in Nat
        /\ SealedPieces \in Nat /\ HashPieces \in Nat
        /\ Len(sealed) \in Nat /\ Len(hash) \in Nat
    BY BootstrapAssumption, LenProperties DEF IInv, TypeOK
  <1>3. ASSUME Stages(step') \in Nat,
               Stages(step') =< Stages(step),
               PiecesLeft' = PiecesLeft, BlocksLeft' = BlocksLeft
        PROVE  TransfersLeft' =< TransfersLeft /\ TransfersLeft' \in Int
    BY <1>1, <1>3 DEF TransfersLeft
  <1>4. ASSUME UNCHANGED engineVars PROVE PiecesLeft' = PiecesLeft
    BY <1>4 DEF engineVars, PiecesLeft
  <1>5. CASE ReadIgnored
    <2>1. step' = step /\ UNCHANGED engineVars BY <1>5 DEF ReadIgnored
    <2>2. BlocksLeft' = BlocksLeft BY <2>1 DEF engineVars, BlocksLeft, BlocksSent
    <2> QED BY <1>1, <1>3, <1>4, <2>1, <2>2
  <1>6. CASE Begin
    <2>1. step = "Version" /\ step' = "ReadSealedPskWrite" /\ UNCHANGED engineVars
      BY <1>6 DEF Begin, FirstStage
    <2>2. BlocksLeft' = BlocksLeft BY <2>1 DEF engineVars, BlocksLeft, BlocksSent
    <2>3. /\ Stages(step') = 9
          /\ Stages(step) = 10
      BY <2>1, StageNumbers
    <2> QED BY <1>3, <1>4, <2>1, <2>2, <2>3
  <1>7. CASE ReadAck
    <2>1. /\ step \in AckSteps \ {"BootResetAck"} /\ step' = After(step)
          /\ UNCHANGED engineVars
      BY <1>7 DEF ReadAck
    <2>2. /\ step' \in CompletionSteps
          /\ step' \in WriteStages <=> step \in WriteStages
      BY <2>1, AfterStages
    <2>3. BlocksSent' = BlocksSent
      BY <2>1, <2>2 DEF BlocksSent, engineVars, WriteStages, AckSteps, CompletionSteps
    <2>4. BlocksLeft' = BlocksLeft BY <2>1, <2>3 DEF engineVars, BlocksLeft
    <2>5. Stages(step') + 1 =< Stages(step)
      BY <2>1, RoundFalls
    <2>6. Stages(step') \in Nat BY DEF Stages, RoundLeft, StageLeft
    <2> QED BY <1>1, <1>3, <1>4, <2>1, <2>4, <2>5, <2>6
  <1>8. CASE ReadSealed
    <2>1. /\ step = "ReadSealedPskCompletion"
          /\ step' \in {"ReadSealedPskWrite", "ReadPskHashWrite"}
          /\ UNCHANGED <<hash, authenticated, chunk, block>>
      BY <1>8 DEF ReadSealed
    <2>2. /\ Stages(step') = 9 /\ Stages(step) = 7
      BY <2>1, StageNumbers
    <2>3. BlocksLeft' = BlocksLeft BY <2>1 DEF BlocksLeft, BlocksSent
    <2>4. /\ Len(queue[1].pieces) \in Nat \ {0}
          /\ Len(sealed') = Len(sealed) + Len(queue[1].pieces)
      BY <1>2, <1>8, SealedCount
    <2>5. ~authenticated /\ ~authenticated' BY <2>1 DEF LagInv, Received, SealedStages
    <2>6. PiecesLeft' \in Int /\ PiecesLeft' + 3 =< PiecesLeft
      <3>1. /\ PiecesLeft = 3 * (SealedPieces - Len(sealed)) + 3 * (HashPieces - Len(hash))
            /\ PiecesLeft' = 3 * (SealedPieces - Len(sealed')) + 3 * (HashPieces - Len(hash))
        BY <2>1, <2>5 DEF PiecesLeft
      <3>2. \A s, t, m, h, k \in Nat : k # 0 =>
               /\ 3 * (s - (m + k)) + 3 * (t - h) + 3 =< 3 * (s - m) + 3 * (t - h)
               /\ 3 * (s - (m + k)) + 3 * (t - h) \in Int
        OBVIOUS
      <3> QED BY <1>2, <2>4, <3>1, <3>2
    <2>7. BlocksLeft' \in Int BY <1>1, <2>3
    <2> QED BY <2>2, <2>3, <2>6, <2>7, RoundPaid
  <1>9. CASE ReadHash
    <2>1. /\ step = "ReadPskHashCompletion" /\ UNCHANGED <<chunk, block>>
      BY <1>9 DEF ReadHash
    <2> DEFINE got == hash \o queue[1].pieces
    <2>2. /\ Len(queue[1].pieces) \in Nat \ {0} /\ Len(got) \in Nat
          /\ Len(got) = Len(hash) + Len(queue[1].pieces) /\ Len(got) =< HashPieces
          /\ IF Len(got) = HashPieces
             THEN /\ sealed' = <<>> /\ hash' = <<>> /\ authenticated' = TRUE
                  /\ step' = "FirmwareWriteBlock"
             ELSE /\ hash' = got /\ step' = "ReadPskHashWrite"
                  /\ UNCHANGED <<sealed, authenticated>>
      BY <1>2, <1>9, HashCount
    <2> HIDE DEF got
    <2>3. ~authenticated /\ Len(sealed) = SealedPieces
      BY <2>1 DEF LagInv, Received, HashStages
    <2>4. step' \in {"FirmwareWriteBlock", "ReadPskHashWrite"} BY <2>2
    <2>5. BlocksLeft' = BlocksLeft BY <2>1, <2>4 DEF BlocksLeft, BlocksSent
    <2>6. /\ Stages(step') = 9 /\ Stages(step) = 7
      BY <2>1, <2>4, StageNumbers
    <2>7. PiecesLeft = 3 * (HashPieces - Len(hash)) BY <1>2, <2>3 DEF PiecesLeft
    <2>8. PiecesLeft' \in Int /\ PiecesLeft' + 3 =< PiecesLeft
      <3>1. CASE Len(got) = HashPieces
        <4>1. PiecesLeft' = 0 BY <2>2, <3>1 DEF PiecesLeft
        <4>2. HashPieces - Len(hash) \in Nat \ {0} BY <1>2, <2>2, <3>1
        <4> QED BY <2>7, <4>1, <4>2
      <3>2. CASE Len(got) # HashPieces
        <4>1. hash' = got /\ sealed' = sealed /\ authenticated' = authenticated
          BY <2>2, <3>2
        <4>2. PiecesLeft' = 3 * (HashPieces - Len(got))
          BY <1>2, <2>3, <4>1 DEF PiecesLeft
        <4>3. \A t, h, k \in Nat : k # 0 =>
                 3 * (t - (h + k)) + 3 =< 3 * (t - h) /\ 3 * (t - (h + k)) \in Int
          OBVIOUS
        <4>4. HashPieces - Len(got) = HashPieces - (Len(hash) + Len(queue[1].pieces))
          BY <2>2
        <4> QED BY <1>2, <2>2, <2>7, <4>2, <4>3, <4>4
      <3> QED BY <3>1, <3>2
    <2>9. BlocksLeft' \in Int BY <1>1, <2>5
    <2> QED BY <2>5, <2>6, <2>8, <2>9, RoundPaid
  <1>10. CASE ChunkDone
    <2>1. /\ step = "FirmwareWriteCompletion" /\ chunk' = chunk + 1
          /\ step' \in {"FirmwareWriteBlock", "FirmwareCheckWrite"}
          /\ UNCHANGED <<sealed, hash, authenticated, block>>
      BY <1>10 DEF ChunkDone
    <2>2. chunk < Chunks BY <2>1 DEF IInv, ChunksLeft, WriteStages
    <2> DEFINE w == (Blocks + 2) * (Chunks - chunk)
    <2>3. w \in Nat /\ w' = w - (Blocks + 2)
      <3>1. w' = (Blocks + 2) * (Chunks - (chunk + 1)) BY <2>1
      <3> QED BY <3>1, <1>2, <2>2, ChunkWork
    <2> HIDE DEF w
    <2>4. block = 0 BY <2>1 DEF Counters
    <2>5. BlocksSent = Blocks - 1 /\ BlocksSent' = 0 BY <2>1, <2>4 DEF BlocksSent
    <2>6. BlocksLeft = w - BlocksSent /\ BlocksLeft' = w' - BlocksSent'
      BY DEF BlocksLeft, w
    <2>7. BlocksLeft' \in Int /\ BlocksLeft' + 3 = BlocksLeft BY <1>2, <2>3, <2>5, <2>6
    <2>8. PiecesLeft' = PiecesLeft BY <2>1 DEF PiecesLeft
    <2>9. /\ Stages(step') \in {7, 9} /\ Stages(step) = 7
      BY <2>1, StageNumbers
    <2>10. PiecesLeft' \in Int BY <1>1, <2>8
    <2> QED BY <2>7, <2>8, <2>9, <2>10, RoundPaid
  <1>11. CASE CheckPassed
    <2>1. /\ step = "FirmwareCheckCompletion" /\ step' = "BootResetWrite"
          /\ UNCHANGED <<sealed, hash, authenticated, chunk, block>>
      BY <1>11 DEF CheckPassed
    <2>2. BlocksLeft' = BlocksLeft BY <2>1 DEF BlocksLeft, BlocksSent
    <2>3. PiecesLeft' = PiecesLeft BY <2>1 DEF PiecesLeft
    <2>4. /\ Stages(step') = 4
          /\ Stages(step) = 5
      BY <2>1, StageNumbers
    <2> QED BY <1>3, <2>2, <2>3, <2>4
  <1> QED BY <1>5, <1>6, <1>7, <1>8, <1>9, <1>10, <1>11


\* A read that goes on takes a packet.
LEMMA ReadGoing ==
  ASSUME TypeOK, LagInv,
         ReadIgnored \/ Begin \/ ReadAck \/ ReadSealed \/ ReadHash \/ ChunkDone \/ CheckPassed
  PROVE  Len(queue) \in Nat /\ Len(queue') \in Nat /\ Len(queue') < Len(queue)
  <1>1. CASE Begin
    <2> DEFINE r == Tail(queue)
    <2>1. queue # <<>> /\ queue' = Disown(r) /\ queue \in Seq(Packet)
      BY <1>1 DEF Begin, TypeOK
    <2>2. r \in Seq(Packet) /\ Len(r) + 1 = Len(queue) BY <2>1, TailGoes
    <2> HIDE DEF r
    <2>3. Len(r) \in Nat /\ Len(queue) \in Nat /\ Len(Disown(r)) = Len(r)
      BY <2>1, <2>2, LenProperties, DisownSame
    <2> QED BY <2>1, <2>2, <2>3
  <1>2. CASE ~Begin
    <2>1. Packets /\ Read
      BY <1>2 DEF LagInv, ReadIgnored, ReadAck, ReadSealed, ReadHash, ChunkDone, CheckPassed
    <2>2. /\ Head(queue) = queue[1]
          /\ CutShort(queue[1]) => Counted(queue[1])
      BY <2>1, ReadTakes
    <2>3. CASE ReadAck
      <3>1. queue[1].kind = "ack" BY <2>2, <2>3 DEF ReadAck, Expected
      <3>2. ~CutShort(queue[1]) BY <2>2, <3>1 DEF Counted
      <3> QED BY <2>1, <2>2, <3>2, ReadShortens
    <2>4. CASE ~ReadAck
      <3>1. ~Strict
        BY <1>2, <2>4 DEF ReadIgnored, Ignores, ReadSealed, ReadHash, ChunkDone, CheckPassed,
           Strict, EngineStages, SealedStages, HashStages, WriteStages, CheckStages
      <3>2. ~CutShort(queue[1]) BY <3>1 DEF CutShort
      <3> QED BY <2>1, <2>2, <3>2, ReadShortens
    <2> QED BY <2>3, <2>4
  <1> QED BY <1>1, <1>2

\* What is left is a number, before a step and after it.
LEMMA LeftNumber ==
  IInv /\ Counters => TransfersLeft \in 0..(12 + 3 * SealedPieces + 3 * HashPieces
                                               + (Blocks + 2) * Chunks)
  <1> SUFFICES ASSUME IInv, Counters
               PROVE  TransfersLeft \in 0..(12 + 3 * SealedPieces + 3 * HashPieces
                                               + (Blocks + 2) * Chunks)
    OBVIOUS
  <1> DEFINE W == (Blocks + 2) * Chunks
  <1>1. /\ Stages(step) \in 0..12
        /\ PiecesLeft \in 0..(3 * SealedPieces + 3 * HashPieces)
        /\ BlocksLeft \in 0..W /\ W \in Nat
    BY LeftTypes
  <1>2. SealedPieces \in Nat /\ HashPieces \in Nat BY BootstrapAssumption
  <1> HIDE DEF W
  <1>3. TransfersLeft \in 0..(12 + 3 * SealedPieces + 3 * HashPieces + W)
    BY <1>1, <1>2 DEF TransfersLeft
  <1> QED BY <1>3 DEF W

Numbers == TransfersLeft \in Nat /\ Len(queue) \in Nat
LEMMA LeftNat == IInv /\ Counters => Numbers
  <1> SUFFICES ASSUME IInv, Counters PROVE Numbers
    OBVIOUS
  <1>1. /\ Stages(step) \in Nat /\ PiecesLeft \in Nat /\ BlocksLeft \in Nat
        /\ Len(queue) \in Nat
    BY LeftTypes
  <1> QED BY <1>1 DEF TransfersLeft, Numbers

LEMMA LeftNext == IInv' /\ Counters' => Numbers'
  BY LeftNat, PTL

\* What a probe that goes on does takes from its patience.
LEMMA PatienceStep ==
  ASSUME IInv, LagInv, Counters, PiecesCome, IInv', Counters', [Next]_vars,
         step # "Idle", step' # "Idle"
  PROVE  Patience' =< Patience /\ (HostStep => Patience' < Patience)
  <1>1. TransfersLeft \in Nat /\ Len(queue) \in Nat BY LeftNat DEF Numbers
  <1>2. TransfersLeft' \in Nat /\ Len(queue') \in Nat BY LeftNext DEF Numbers
  <1>3. /\ Patience = 3 * TransfersLeft + Len(queue)
        /\ Patience' = 3 * TransfersLeft' + Len(queue')
    BY DEF Patience
  <1>4. ASSUME \/ TransfersLeft' + 1 =< TransfersLeft /\ Len(queue') =< Len(queue) + 2
               \/ TransfersLeft' =< TransfersLeft /\ Len(queue') < Len(queue)
        PROVE  Patience' < Patience /\ Patience' =< Patience
    <2>1. Patience' < Patience BY <1>1, <1>2, <1>3, <1>4, Weighed
    <2> QED BY <1>1, <1>2, <1>3, <2>1
  <1>5. CASE Write
    <2>1. \E n \in 0..1 : Takes(n) /\ step \in OutSteps BY <1>5 DEF Write
    <2>2. Len(queue') =< Len(queue) + 2 BY <2>1, TakesTwo DEF IInv
    <2>3. TransfersLeft' + 1 =< TransfersLeft BY <1>5, WriteFalls
    <2> QED BY <1>4, <2>2, <2>3
  <1>6. CASE WriteBlock
    <2>1. queue' = queue BY <1>6 DEF WriteBlock, sensorVars
    <2>2. Len(queue') =< Len(queue) + 2 BY <1>1, <2>1
    <2>3. TransfersLeft' + 1 =< TransfersLeft BY <1>6, WriteFalls
    <2> QED BY <1>4, <2>2, <2>3
  <1>7. CASE ReadIgnored \/ Begin \/ ReadAck \/ ReadSealed \/ ReadHash \/ ChunkDone \/ CheckPassed
    <2>1. TransfersLeft' =< TransfersLeft BY <1>7, ReadFalls
    <2>2. Len(queue') < Len(queue) BY <1>7, ReadGoing DEF IInv
    <2> QED BY <1>4, <2>1, <2>2
  <1>8. HostStep => Write \/ WriteBlock
                    \/ ReadIgnored \/ Begin \/ ReadAck \/ ReadSealed \/ ReadHash \/ ChunkDone
                    \/ CheckPassed
    BY DEF HostStep, Reading, StartProbe, WriteFails, ReadRejected, FindsApp, ResetDone,
           ReadFails, EndProbe
  <1>9. CASE HostStep BY <1>5, <1>6, <1>7, <1>8, <1>9
  <1>10. CASE ~HostStep
    <2>1. UNCHANGED <<step, engineVars>> /\ (queue' = queue \/ queue' = <<>>)
      BY <1>10 DEF Next, Reboot, vars, sensorVars
    <2>2. TransfersLeft' = TransfersLeft
      BY <2>1 DEF TransfersLeft, PiecesLeft, BlocksLeft, BlocksSent, engineVars
    <2>3. Len(<<>>) = 0 OBVIOUS
    <2>4. Len(queue') =< Len(queue) BY <1>1, <2>1, <2>3
    <2>5. Patience' =< Patience BY <1>1, <1>2, <1>3, <2>2, <2>4
    <2> QED BY <1>10, <2>5
  <1> QED BY <1>9, <1>10

\* The counts hold of every bootstrap.
LEMMA CountsInvariant == Spec => [](Counters /\ PiecesCome)
  <1>1. Init => Counters /\ PiecesCome
    <2> SUFFICES ASSUME Init PROVE Counters /\ PiecesCome OBVIOUS
    <2>1. /\ step = "Idle" /\ queue = <<>> /\ sealed = <<>> /\ hash = <<>> /\ block = 0
          /\ Len(<<>>) = 0
      BY DEF Init
    <2> QED BY <2>1, BootstrapAssumption
            DEF Counters, PiecesCome, SealedStages, HashStages
  <1>2. IInv /\ LagInv /\ Counters /\ PiecesCome /\ [Next]_vars => Counters' /\ PiecesCome'
    BY CountersStep, PiecesStep
  <1> QED BY <1>1, <1>2, BootstrapInvariant, LagInvariant, PTL DEF Spec

\* A probe and its engine make progress with everything they do: bootstrap_advance and
\* bootstrap_next repeat a read only for a packet that is gone, ask again for the PSK
\* only after a piece of it, and go on to the next chunk after each.  So no probe takes
\* more than the transfers of one attempt and one more for each old packet, whatever
\* the sensor answers and loses.
THEOREM AttemptsAreBounded ==
  Spec => /\ PatienceFalls
          /\ [](TransfersLeft \in 0..(12 + 3 * SealedPieces + 3 * HashPieces
                                         + (Blocks + 2) * Chunks))
  <1> DEFINE Falls == step # "Idle" /\ step' # "Idle"
                        => /\ Patience' =< Patience
                           /\ HostStep => Patience' < Patience
             Inv == IInv /\ LagInv /\ Counters /\ PiecesCome
  <1>1. Inv /\ Inv' /\ [Next]_vars => [Falls]_vars
    BY PatienceStep
  <1>2. Spec => []Inv BY BootstrapInvariant, LagInvariant, CountsInvariant, PTL
  <1>3. Spec => PatienceFalls
    <2>1. Spec => [][Falls]_vars BY <1>1, <1>2, PTL DEF Spec
    <2> QED BY <2>1 DEF PatienceFalls
  <1>4. Inv => TransfersLeft \in 0..(12 + 3 * SealedPieces + 3 * HashPieces
                                        + (Blocks + 2) * Chunks)
    BY LeftNumber
  <1> QED BY <1>2, <1>3, <1>4, PTL

-----------------------------------------------------------------------------
(* An attempt in which nothing goes wrong. *)

\* The first pieces of an object, and how they grow.
LEMMA FirstSeq ==
  ASSUME NEW n \in Nat
  PROVE  FirstPieces(n) \in Seq(Nat) /\ Len(FirstPieces(n)) = n
  <1>1. FirstPieces(n) \in [1..n -> Nat] BY DEF FirstPieces
  <1>2. FirstPieces(n) \in Seq(Nat) BY <1>1, RangeSeq
  <1>3. Len(FirstPieces(n)) \in Nat /\ 1..Len(FirstPieces(n)) = 1..n
    BY <1>1, <1>2, LenProperties
  <1> QED BY <1>2, <1>3, SameEnd

LEMMA NoPieces == FirstPieces(Len(<<>>)) = <<>>
  <1>1. FirstPieces(0) \in Seq(Nat) /\ Len(FirstPieces(0)) = 0 BY FirstSeq
  <1>2. Len(<<>>) = 0 OBVIOUS
  <1> QED BY <1>1, <1>2, EmptySeq

LEMMA OrderGrows ==
  ASSUME NEW s \in Seq(Nat), NEW p \in Seq(Nat), s = FirstPieces(Len(s)),
         \A i \in 1..Len(p) : p[i] = Len(s) + i
  PROVE  s \o p = FirstPieces(Len(s \o p))
  <1> DEFINE t == s \o p
  <1>1. Len(s) \in Nat /\ Len(p) \in Nat BY LenProperties
  <1>2. /\ t \in Seq(Nat) /\ Len(t) = Len(s) + Len(p)
        /\ \A i \in 1..Len(s) + Len(p) :
              t[i] = IF i <= Len(s) THEN s[i] ELSE p[i - Len(s)]
    BY ConcatProperties
  <1>3. FirstPieces(Len(t)) \in Seq(Nat) /\ Len(FirstPieces(Len(t))) = Len(t)
    BY <1>1, <1>2, FirstSeq
  <1>4. \A i \in 1..Len(s) : s[i] = i BY DEF FirstPieces
  <1> HIDE DEF t
  <1>5. ASSUME NEW i \in 1..Len(t) PROVE t[i] = FirstPieces(Len(t))[i]
    <2>1. FirstPieces(Len(t))[i] = i BY DEF FirstPieces
    <2>2. CASE i <= Len(s)
      <3>1. t[i] = s[i] /\ i \in 1..Len(s) BY <1>1, <1>2, <1>5, <2>2
      <3> QED BY <1>4, <2>1, <3>1
    <2>3. CASE ~(i <= Len(s))
      <3>1. t[i] = p[i - Len(s)] /\ i - Len(s) \in 1..Len(p) BY <1>1, <1>2, <1>5, <2>3
      <3>2. p[i - Len(s)] = Len(s) + (i - Len(s)) BY <3>1
      <3>3. Len(s) + (i - Len(s)) = i BY <1>1, <1>2
      <3> QED BY <2>1, <3>1, <3>2, <3>3
    <2> QED BY <2>2, <2>3
  <1>6. t = FirstPieces(Len(t)) BY <1>2, <1>3, <1>5, SeqEqual
  <1> QED BY <1>6 DEF t

\* Nothing of an ended probe is out of order.
AllWell == Fresh /\ InOrder /\ Written /\ Listening
LEMMA EndWell ==
  ASSUME EndProbe, ~halfFrame'
  PROVE  AllWell'
  <1>1. step' = "Idle" /\ sealed' = <<>> /\ hash' = <<>> /\ chunk' = 0 BY DEF EndProbe
  <1>2. step' \notin InSteps \union EngineStages
    BY <1>1, StepKinds DEF Outside
  <1>3. Fresh' BY <1>2 DEF Fresh
  <1>4. InOrder' BY <1>1, NoPieces DEF InOrder
  <1>5. Written' BY <1>1 DEF Written
  <1>6. Listening' BY <1>1, <1>2 DEF Listening
  <1> QED BY <1>3, <1>4, <1>5, <1>6 DEF AllWell

\* Without a fault the queue is empty before a command, one answer before the last
\* read and two packets before the first.
LEMMA CleanQueue ==
  ASSUME TypeOK, Clean, faults = 0
  PROVE  /\ step \notin InSteps => queue = <<>>
         /\ step \in CompletionSteps /\ queue # <<>> => Len(queue) = 1
  <1>1. /\ step \in CompletionSteps \union AckSteps => step \in InSteps
        /\ "BootResetAck" \in AckSteps /\ "BootResetAck" \notin CompletionSteps
        /\ step \in CompletionSteps => step \notin AckSteps
    BY DEF InSteps, AckSteps, CompletionSteps
  <1>2. \/ queue = <<>>
        \/ step \in CompletionSteps /\ Len(queue) = 1
        \/ step = "BootResetAck"
        \/ step \in AckSteps
    BY DEF Clean
  <1> QED BY <1>1, <1>2, Zenon

\* The command that is taken leaves its answer behind it.
LEMMA WriteWell ==
  ASSUME IInv, LagInv, AllWell, Write, faults = 0, faults' = 0
  PROVE  AllWell'
  <1> USE DEF AllWell
  <1>1. /\ step \in OutSteps /\ step' = After(step)
        /\ UNCHANGED <<sealed, hash, authenticated, chunk>>
        /\ Takes(0) /\ 0 \in 0..1
    BY DEF Write, Faults
  <1>2. TypeOK /\ queue = <<>> BY <1>1, CleanQueue, StepKinds DEF IInv, LagInv
  <1>3. /\ ~halfFrame' /\ image' = image
        /\ \/ LosesCommand /\ step \notin EngineStages /\ flash' = flash
           \/ /\ ~LosesCommand /\ ~rebooting /\ rebooting' = (step = "BootResetWrite")
              /\ step # "FirmwareWriteBlock" => flash' = flash
              /\ step = "FirmwareWriteBlock" => flash' = [flash EXCEPT ![chunk] = "new"]
    BY <1>1, <1>2 DEF Takes, TakesCommand, TakesChunk, LosesCommand, Answered, Listening, TypeOK
  <1>4. /\ step' \in EngineStages => step \in EngineStages
        /\ step' \in SealedStages => step = "ReadSealedPskWrite"
        /\ step' \in HashStages => step = "ReadPskHashWrite"
        /\ step' \in CheckStages => step = "FirmwareCheckWrite"
        /\ step' \in WriteStages => step = "FirmwareWriteBlock"
        /\ step' \in {"VersionAck", "Version"} => step = "VersionWrite"
    BY <1>1 DEF After, OutSteps, EngineStages, SealedStages, HashStages, WriteStages, CheckStages
  <1>5. InOrder' BY <1>1 DEF InOrder
  <1>6. CASE LosesCommand
    <2>1. queue' = <<>> BY <1>2, <1>6 DEF LosesCommand
    <2>2. step' \notin EngineStages /\ flash' = flash BY <1>3, <1>4, <1>6
    <2>3. Fresh' BY <2>1 DEF Fresh
    <2>4. Written' BY <1>1, <2>1, <2>2 DEF Written
    <2>5. Listening' BY <1>3, <2>1, <2>2 DEF Listening
    <2> QED BY <1>5, <2>3, <2>4, <2>5
  <1>7. CASE ~LosesCommand
    <2>1. Listening' BY <1>3, <1>4, <1>7, StepKinds DEF Listening
    <2>2. Written'
      <3>1. flash \in [0..(Chunks - 1) -> {"old", "new", "torn"}] /\ chunk \in Nat
            /\ Chunks \in Nat
        BY <1>2, BootstrapAssumption DEF TypeOK
      <3>2. CASE step = "FirmwareWriteBlock"
        <4>1. chunk \in 0..(Chunks - 1)
          BY <3>1, <3>2 DEF IInv, ChunksLeft, WriteStages
        <4>2. flash' = [flash EXCEPT ![chunk] = "new"] BY <1>3, <1>7, <3>2
        <4>3. flash'[chunk] = "new" /\ \A c \in 0..(chunk - 1) : flash'[c] = "new"
          BY <3>1, <4>1, <4>2 DEF Written
        <4> QED BY <1>1, <4>3 DEF Written
      <3>3. CASE step # "FirmwareWriteBlock"
        <4>1. flash' = flash BY <1>3, <1>7, <3>3
        <4>2. step' \notin {"FirmwareWriteAck", "FirmwareWriteCompletion"}
          BY <1>4, <3>3 DEF WriteStages
        <4> QED BY <1>1, <4>1, <4>2 DEF Written
      <3> QED BY <3>2, <3>3
    <2>3. Fresh'
      <3> SUFFICES ASSUME queue' # <<>>,
                          step' \in SealedStages \union HashStages \union CheckStages
                   PROVE  /\ step' \in SealedStages =>
                               /\ Last'.word = "sealed"
                               /\ Last'.pieces = Pieces(Len(sealed'), SealedPieces)
                          /\ step' \in HashStages =>
                               /\ Last'.word = "hash"
                               /\ Last'.pieces = Pieces(Len(hash'), HashPieces)
                          /\ step' \in CheckStages =>
                               Last'.word = (IF Whole' THEN "whole" ELSE "zero")
        BY DEF Fresh, Pieces
      <3>1. step \in {"ReadSealedPskWrite", "ReadPskHashWrite", "FirmwareCheckWrite"}
        BY <1>4
      <3>2. queue' = queue \o <<AckOf(CommandOf(step)), Reply(step)>>
        BY <1>1, <1>2, <3>1, TakesQueue
      <3>3. /\ AckOf(CommandOf(step)) \in Packet /\ Reply(step) \in Packet
            /\ queue \in Seq(Packet) /\ Len(queue) \in Nat
        BY <1>2, ReplyType, LenProperties DEF TypeOK
      <3>4. Len(queue') = Len(queue) + 2 /\ queue'[Len(queue) + 2] = Reply(step)
        BY <3>2, <3>3, TwoMore
      <3>5. Last' = Reply(step) BY <3>4 DEF Last
      <3>6. Whole' = Whole BY <1>3, <1>7, <3>1 DEF Whole
      <3>7. CASE step = "ReadSealedPskWrite"
        <4>1. /\ Reply(step).word = "sealed"
              /\ Reply(step).pieces = Pieces(Len(sealed), SealedPieces)
          BY <3>7 DEF Reply, ReplyOf
        <4> QED BY <1>1, <1>4, <3>5, <3>7, <4>1
      <3>8. CASE step = "ReadPskHashWrite"
        <4>1. /\ Reply(step).word = "hash"
              /\ Reply(step).pieces = Pieces(Len(hash), HashPieces)
          BY <3>8 DEF Reply, ReplyOf
        <4> QED BY <1>1, <1>4, <3>5, <3>8, <4>1
      <3>9. CASE step = "FirmwareCheckWrite"
        <4>1. Reply(step).word = (IF Whole THEN "whole" ELSE "zero")
          BY <3>9 DEF Reply, ReplyOf
        <4> QED BY <1>4, <3>5, <3>6, <3>9, <4>1
      <3> QED BY <3>1, <3>7, <3>8, <3>9
    <2> QED BY <1>5, <2>1, <2>2, <2>3
  <1> QED BY <1>6, <1>7

\* The one packet that is read last is the answer.
LEMMA ReadLast ==
  ASSUME TypeOK, LagInv, Read, step \in CompletionSteps, faults = 0
  PROVE  /\ Expected(Head(queue)) /\ queue' = <<>> /\ queue # <<>>
         /\ Head(queue) = Last /\ Head(queue) = queue[1]
  <1>1. /\ Expected(Head(queue)) /\ queue' = <<>>
        /\ queue # <<>> /\ Head(queue) = queue[1]
    BY CleanRead, ReadTakes DEF LagInv
  <1>2. Len(queue) = 1 BY <1>1, CleanQueue DEF LagInv
  <1> QED BY <1>1, <1>2 DEF Last

\* The pieces of the PSK that come without a fault are those asked for.
LEMMA PiecesWell ==
  ASSUME IInv, LagInv, Counters, AllWell, Read, faults = 0,
         NEW got \in Seq(Nat), NEW total \in Nat, NEW object,
         \/ step = "ReadSealedPskCompletion" /\ got = sealed /\ total = SealedPieces
            /\ object = "sealed"
         \/ step = "ReadPskHashCompletion" /\ got = hash /\ total = HashPieces
            /\ object = "hash"
  PROVE  LET p == Head(queue)
         IN  /\ p.word = object /\ p.pieces \in Seq(Nat)
             /\ Appends(p, got, object, total)
             /\ got \o p.pieces = FirstPieces(Len(got \o p.pieces))
  <1> DEFINE p == Head(queue)
  <1>1. /\ step \in CompletionSteps /\ step \in InSteps
        /\ step = "ReadSealedPskCompletion" => step \in SealedStages
        /\ step = "ReadPskHashCompletion" => step \in HashStages
    BY DEF CompletionSteps, InSteps, SealedStages, HashStages
  <1>2. queue # <<>> /\ p = Last BY <1>1, ReadLast DEF IInv
  <1>3. p.word = object /\ p.pieces = Pieces(Len(got), total)
    BY <1>1, <1>2 DEF AllWell, Fresh
  <1>4. Len(got) \in Nat /\ Len(got) < total
    BY <1>1, LenProperties DEF Counters
  <1>5. /\ p.pieces \in Seq(Nat) /\ Len(p.pieces) \in 1..(total - Len(got))
        /\ \A i \in 1..Len(p.pieces) : p.pieces[i] = Len(got) + i
    BY <1>3, <1>4, PiecesCount
  <1>6. got = FirstPieces(Len(got)) BY DEF AllWell, InOrder
  <1> HIDE DEF p
  <1>7. Appends(p, got, object, total)
    <2>1. Len(p.pieces) =< total - Len(got) BY <1>4, <1>5
    <2> QED BY <1>3, <2>1 DEF Appends
  <1>8. got \o p.pieces = FirstPieces(Len(got \o p.pieces)) BY <1>5, <1>6, OrderGrows
  <1> QED BY <1>3, <1>5, <1>7, <1>8 DEF p

\* What is read without a fault leaves everything in order.
LEMMA ReadWell ==
  ASSUME IInv, LagInv, Counters, AllWell, faults = 0,
         Begin \/ ReadAck \/ ReadSealed \/ ReadHash \/ ChunkDone \/ CheckPassed
  PROVE  AllWell'
  <1> USE DEF AllWell
  <1>0. TypeOK BY DEF IInv
  <1>1. ASSUME UNCHANGED <<flash, rebooting, halfFrame>>, queue' = <<>> \/ step' \notin InSteps,
               InOrder',
               \A c \in 0..(chunk' - 1) : flash[c] = "new",
               step' \in EngineStages => ~rebooting,
               step' \notin {"VersionAck", "Version", "FirmwareWriteAck",
                             "FirmwareWriteCompletion"}
        PROVE  AllWell'
    BY <1>1 DEF Fresh, Written, Listening
  <1>2. CASE Begin
    <2>1. /\ step = "Version" /\ queue # <<>> /\ step' = "ReadSealedPskWrite"
          /\ UNCHANGED <<flash, rebooting, halfFrame, engineVars>>
      BY <1>2 DEF Begin, FirstStage
    <2>2. ~rebooting BY <2>1 DEF Listening
    <2>3. InOrder' BY <2>1 DEF engineVars, InOrder
    <2>4. \A c \in 0..(chunk' - 1) : flash[c] = "new" BY <2>1 DEF engineVars, Written
    <2>5. step' \notin InSteps BY <2>1 DEF InSteps, AckSteps, CompletionSteps
    <2> QED BY <1>1, <2>1, <2>2, <2>3, <2>4, <2>5
  <1>3. CASE ReadAck
    <2>1. /\ Read /\ step \in AckSteps \ {"BootResetAck"} /\ step' = After(step)
          /\ UNCHANGED <<engineVars, flash, rebooting, halfFrame>>
      BY <1>3 DEF ReadAck, Read
    <2>2. /\ queue' = Tail(queue) /\ Len(queue') = 1 /\ queue # <<>>
      BY <1>0, <2>1, CleanRead, ReadTakes DEF LagInv
    <2>3. queue \in Seq(Packet) /\ Len(queue) \in Nat BY <1>0, LenProperties DEF TypeOK
    <2>4. Len(queue') + 1 = Len(queue) /\ queue'[1] = queue[1 + 1]
      <3>1. 1 \in 1..1 OBVIOUS
      <3> QED BY <2>2, <2>3, <3>1, TailGoes
    <2>5. Last' = Last
      <3>1. Len(queue) = 2 BY <2>2, <2>3, <2>4
      <3>2. Last' = queue'[1] BY <2>2 DEF Last
      <3>3. Last = queue[2] BY <3>1 DEF Last
      <3> QED BY <2>4, <3>2, <3>3
    <2>6. /\ step \in InSteps
          /\ step' \in EngineStages => step \in EngineStages
          /\ step' \in SealedStages => step \in SealedStages
          /\ step' \in HashStages => step \in HashStages
          /\ step' \in CheckStages => step \in CheckStages
          /\ step' \in {"FirmwareWriteAck", "FirmwareWriteCompletion"}
               => step = "FirmwareWriteAck"
          /\ step' \in {"VersionAck", "Version"} => step = "VersionAck"
      BY <2>1 DEF After, InSteps, AckSteps, EngineStages, SealedStages, HashStages,
                  WriteStages, CheckStages
    <2>7. UNCHANGED <<sealed, hash, chunk>> BY <2>1 DEF engineVars
    <2>8. Whole' = Whole BY <2>1 DEF Whole
    <2>9. Fresh'
      <3> SUFFICES ASSUME step' \in SealedStages \union HashStages \union CheckStages
                   PROVE  /\ step' \in SealedStages =>
                               /\ Last'.word = "sealed"
                               /\ Last'.pieces = Pieces(Len(sealed'), SealedPieces)
                          /\ step' \in HashStages =>
                               /\ Last'.word = "hash"
                               /\ Last'.pieces = Pieces(Len(hash'), HashPieces)
                          /\ step' \in CheckStages =>
                               Last'.word = (IF Whole' THEN "whole" ELSE "zero")
        BY DEF Fresh, Pieces
      <3> QED BY <2>2, <2>5, <2>6, <2>7, <2>8 DEF Fresh
    <2>10. InOrder' BY <2>7 DEF InOrder
    <2>11. Written' BY <2>1, <2>2, <2>6, <2>7 DEF Written
    <2>12. Listening' BY <2>1, <2>2, <2>6 DEF Listening
    <2> QED BY <2>9, <2>10, <2>11, <2>12
  <1>4. ASSUME Read, step \in CompletionSteps, step \in EngineStages, InOrder',
               \A c \in 0..(chunk' - 1) : flash[c] = "new",
               step' \notin {"VersionAck", "Version", "FirmwareWriteAck",
                             "FirmwareWriteCompletion"}
        PROVE  AllWell'
    <2>1. queue' = <<>> BY <1>0, <1>4, ReadLast
    <2>2. UNCHANGED <<flash, rebooting, halfFrame>> BY <1>4 DEF Read
    <2> QED BY <1>1, <1>4, <2>1, <2>2 DEF Listening
  <1>5. CASE ReadSealed
    <2>1. /\ Read /\ step = "ReadSealedPskCompletion"
          /\ step' \in {"ReadSealedPskWrite", "ReadPskHashWrite"}
          /\ sealed' = sealed \o Head(queue).pieces /\ UNCHANGED <<hash, chunk>>
      BY <1>5 DEF ReadSealed
    <2>2. sealed \in Seq(Nat) /\ SealedPieces \in Nat BY <1>0, BootstrapAssumption DEF TypeOK
    <2>3. sealed' = FirstPieces(Len(sealed')) BY <2>1, <2>2, PiecesWell
    <2>4. InOrder' BY <2>1, <2>3 DEF InOrder
    <2>5. step \in CompletionSteps /\ step \in EngineStages
      BY <2>1 DEF CompletionSteps, EngineStages, SealedStages
    <2>6. \A c \in 0..(chunk' - 1) : flash[c] = "new" BY <2>1 DEF Written
    <2> QED BY <1>4, <2>1, <2>4, <2>5, <2>6
  <1>6. CASE ReadHash
    <2> DEFINE got == hash \o Head(queue).pieces
    <2>1. /\ Read /\ step = "ReadPskHashCompletion" /\ UNCHANGED chunk
          /\ step' \in {"FirmwareWriteBlock", "ReadPskHashWrite"}
          /\ \/ sealed' = <<>> /\ hash' = <<>>
             \/ hash' = got /\ UNCHANGED sealed
      BY <1>6 DEF ReadHash
    <2>2. hash \in Seq(Nat) /\ HashPieces \in Nat BY <1>0, BootstrapAssumption DEF TypeOK
    <2>3. got = FirstPieces(Len(got)) BY <2>1, <2>2, PiecesWell
    <2> HIDE DEF got
    <2>4. InOrder' BY <2>1, <2>3, NoPieces DEF InOrder
    <2>5. step \in CompletionSteps /\ step \in EngineStages
      BY <2>1 DEF CompletionSteps, EngineStages, HashStages
    <2>6. \A c \in 0..(chunk' - 1) : flash[c] = "new" BY <2>1 DEF Written
    <2> QED BY <1>4, <2>1, <2>4, <2>5, <2>6
  <1>7. CASE ChunkDone
    <2>1. /\ Read /\ step = "FirmwareWriteCompletion" /\ chunk' = chunk + 1
          /\ step' \in {"FirmwareWriteBlock", "FirmwareCheckWrite"}
          /\ UNCHANGED <<sealed, hash>> /\ queue # <<>>
      BY <1>7 DEF ChunkDone, Read
    <2>2. InOrder' BY <2>1 DEF InOrder
    <2>3. chunk \in Nat BY <1>0 DEF TypeOK
    <2>4. flash[chunk] = "new" /\ \A c \in 0..(chunk - 1) : flash[c] = "new"
      BY <2>1 DEF Written
    <2>5. \A c \in 0..(chunk' - 1) : c = chunk \/ c \in 0..(chunk - 1) BY <2>1, <2>3
    <2>6. step \in CompletionSteps /\ step \in EngineStages
      BY <2>1 DEF CompletionSteps, EngineStages, WriteStages
    <2> QED BY <1>4, <2>1, <2>2, <2>4, <2>5, <2>6
  <1>8. CASE CheckPassed
    <2>1. /\ Read /\ step = "FirmwareCheckCompletion" /\ step' = "BootResetWrite"
          /\ UNCHANGED <<sealed, hash, chunk>>
      BY <1>8 DEF CheckPassed
    <2>2. InOrder' BY <2>1 DEF InOrder
    <2>3. \A c \in 0..(chunk' - 1) : flash[c] = "new" BY <2>1 DEF Written
    <2>4. step \in CompletionSteps /\ step \in EngineStages
      BY <2>1 DEF CompletionSteps, EngineStages, CheckStages
    <2> QED BY <1>4, <2>1, <2>2, <2>3, <2>4
  <1> QED BY <1>2, <1>3, <1>5, <1>6, <1>7, <1>8

\* As long as nothing goes wrong, all is well.
LEMMA WellStep ==
  IInv /\ LagInv /\ Counters /\ Faultless /\ [Next]_vars => Faultless'
  <1> SUFFICES ASSUME IInv, LagInv, Counters, Faultless, [Next]_vars, faults' = 0
               PROVE  AllWell'
    BY DEF Faultless, AllWell
  <1>0. TypeOK /\ faults \in Nat BY DEF IInv, TypeOK
  <1>1. faults = 0 /\ ~WriteFails
    <2>1. CASE UNCHANGED faults
      <3>1. ~WriteFails BY <1>0, <2>1 DEF WriteFails, Faults
      <3> QED BY <2>1, <3>1
    <2>2. ASSUME NEW n \in 0..1, Faults(n) PROVE faults = 0 /\ n = 0
      BY <1>0, <2>2 DEF Faults
    <2>3. ~WriteFails
      <3>1. ASSUME WriteFails PROVE FALSE
        <4>1. Faults(1) BY <3>1 DEF WriteFails
        <4> QED BY <4>1, <1>0 DEF Faults
      <3> QED BY <3>1
    <2>4. UNCHANGED faults \/ \E n \in 0..1 : Faults(n)
      BY <2>3 DEF Next, HostStep, Reading, Reboot, StartProbe, Write, WriteBlock, ReadIgnored,
         ReadRejected, FindsApp, Begin, ReadAck, ReadSealed, ReadHash, ChunkDone, CheckPassed,
         ResetDone, ReadFails, Read, vars
    <2> QED BY <2>2, <2>3, <2>4
  <1>2. AllWell BY <1>1 DEF Faultless, AllWell
  <1> USE DEF AllWell
  <1>3. CASE StartProbe
    <2>1. step' = "VersionWrite" /\ UNCHANGED <<engineVars, sensorVars>> BY <1>3 DEF StartProbe
    <2>2. step' \notin InSteps \union EngineStages
      BY <2>1 DEF InSteps, AckSteps, CompletionSteps, EngineStages, SealedStages, HashStages,
                  WriteStages, CheckStages
    <2> QED BY <1>2, <2>1, <2>2
            DEF Fresh, InOrder, Written, Listening, engineVars, sensorVars
  <1>4. CASE Write BY <1>1, <1>2, <1>4, WriteWell
  <1>5. CASE WriteBlock \/ UNCHANGED vars
    <2>1. UNCHANGED <<step, sealed, hash, chunk, queue, flash, rebooting, halfFrame>>
      BY <1>5 DEF WriteBlock, vars, engineVars, sensorVars
    <2>2. Whole' = Whole /\ Last' = Last BY <2>1 DEF Whole, Last
    <2>3. Fresh' BY <1>2, <2>1, <2>2 DEF Fresh, Pieces
    <2>4. InOrder' /\ Written' /\ Listening'
      BY <1>2, <2>1 DEF InOrder, Written, Listening
    <2> QED BY <2>3, <2>4
  <1>6. CASE ReadIgnored
    <2>1. Read /\ ~Expected(Head(queue)) BY <1>6 DEF ReadIgnored, Ignores
    <2> QED BY <1>0, <1>1, <2>1, CleanRead DEF LagInv
  <1>7. CASE ReadRejected \/ FindsApp \/ ResetDone \/ ReadFails
    <2>1. EndProbe /\ halfFrame' = halfFrame
      BY <1>7 DEF ReadRejected, FindsApp, ResetDone, ReadFails, Read
    <2>2. ~halfFrame' BY <1>2, <2>1 DEF Listening
    <2> QED BY <2>1, <2>2, EndWell
  <1>8. CASE Begin \/ ReadAck \/ ReadSealed \/ ReadHash \/ ChunkDone \/ CheckPassed
    BY <1>1, <1>2, <1>8, ReadWell
  <1>9. CASE Reboot
    <2>1. /\ queue' = <<>> /\ ~halfFrame' /\ ~rebooting'
          /\ UNCHANGED <<step, engineVars, flash>>
      BY <1>9 DEF Reboot
    <2>2. Fresh' BY <2>1 DEF Fresh
    <2>3. InOrder' BY <1>2, <2>1 DEF InOrder, engineVars
    <2>4. Written' BY <1>2, <2>1 DEF Written, engineVars
    <2>5. Listening' BY <2>1 DEF Listening
    <2> QED BY <2>2, <2>3, <2>4, <2>5
  <1> QED BY <1>1, <1>3, <1>4, <1>5, <1>6, <1>7, <1>8, <1>9 DEF Next, HostStep, Reading

LEMMA FaultlessInvariant == Spec => []Faultless
  <1>1. Init => Faultless
    <2> SUFFICES ASSUME Init PROVE Fresh /\ InOrder /\ Written /\ Listening BY DEF Faultless
    <2>1. /\ step = "Idle" /\ sealed = <<>> /\ hash = <<>> /\ chunk = 0 /\ queue = <<>>
          /\ halfFrame = FALSE
      BY DEF Init
    <2>2. step \notin InSteps \union EngineStages BY <2>1, StepKinds DEF Outside
    <2>3. InOrder BY <2>1, NoPieces DEF InOrder
    <2> QED BY <2>1, <2>2, <2>3 DEF Fresh, Written, Listening
  <1> QED BY <1>1, WellStep, BootstrapInvariant, LagInvariant, CountsInvariant, PTL DEF Spec

\* The driver refuses no sensor that deserves it: append_psk_read, verify_psk_hash, the
\* version and the firmware check all accept what a provisioned sensor sends them, in
\* however many pieces and chunks, unless a transfer was lost, cut off or answered
\* wrongly before.
THEOREM NothingRefusedUnprovoked == Spec => NeverRefused
  <1>1. IInv /\ LagInv /\ Counters /\ Faultless => ~(ReadRejected /\ Authorised /\ faults = 0)
    <2> SUFFICES ASSUME IInv, LagInv, Counters, Faultless, ReadRejected, Authorised, faults = 0
                 PROVE  FALSE
      OBVIOUS
    <2> DEFINE p == Head(queue)
    <2>1. TypeOK /\ AllWell BY DEF IInv, Faultless, AllWell
    <2>2. Read /\ Rejects(p) BY DEF ReadRejected
    <2>3. Expected(p) BY <2>1, <2>2, CleanRead DEF LagInv
    <2>4. step # "Version" \/ resource = "exact" BY DEF Authorised
    <2>5. CASE step = "ReadSealedPskCompletion"
      <3>1. sealed \in Seq(Nat) /\ SealedPieces \in Nat
        BY <2>1, BootstrapAssumption DEF TypeOK
      <3>2. Appends(p, sealed, "sealed", SealedPieces) BY <2>1, <2>2, <2>5, <3>1, PiecesWell
      <3> QED BY <2>2, <2>3, <2>5, <3>2 DEF Rejects
    <2>6. CASE step = "ReadPskHashCompletion"
      <3> DEFINE got == hash \o p.pieces
      <3>1. hash \in Seq(Nat) /\ HashPieces \in Nat /\ SealedPieces \in Nat
        BY <2>1, BootstrapAssumption DEF TypeOK
      <3>2. Appends(p, hash, "hash", HashPieces) /\ got = FirstPieces(Len(got))
        BY <2>1, <2>2, <2>6, <3>1, PiecesWell
      <3>3. Len(got) = HashPieces /\ ~Authentic(sealed, got)
        BY <2>2, <2>3, <2>6, <3>2 DEF Rejects
      <3>4. sealed = FirstPieces(SealedPieces)
        BY <2>1, <2>6 DEF LagInv, Received, HashStages, AllWell, InOrder
      <3>5. got = FirstPieces(HashPieces) BY <3>2, <3>3
      <3> HIDE DEF got
      <3> QED BY <3>3, <3>4, <3>5 DEF Authentic, FirstPieces, Authorised
    <2>7. CASE step = "FirmwareCheckCompletion"
      <3>1. step \in CompletionSteps /\ step \in InSteps /\ step \in CheckStages
        BY <2>7 DEF CompletionSteps, InSteps, CheckStages
      <3>2. p = Last /\ queue # <<>> BY <2>1, <2>2, <3>1, ReadLast
      <3>3. Whole
        <4>1. chunk = Chunks BY <3>1 DEF LagInv, Received
        <4>2. DOMAIN flash = 0..(Chunks - 1) BY <2>1 DEF TypeOK
        <4> QED BY <2>1, <4>1, <4>2 DEF AllWell, Written, Whole
      <3>4. p.word = "whole" BY <2>1, <3>1, <3>2, <3>3 DEF AllWell, Fresh
      <3> QED BY <2>2, <2>3, <2>7, <3>4 DEF Rejects, Passes
    <2> QED BY <2>2, <2>3, <2>4, <2>5, <2>6, <2>7 DEF Rejects
  <1>2. IInv => faults \in Nat BY DEF IInv, TypeOK
  <1>3. IInv /\ LagInv /\ Counters /\ Faultless => [ReadRejected /\ Authorised => faults > 0]_vars
    <2> SUFFICES ASSUME IInv, LagInv, Counters, Faultless, ReadRejected, Authorised
                 PROVE  faults > 0
      OBVIOUS
    <2> QED BY <1>1, <1>2
  <1> QED BY <1>3, BootstrapInvariant, LagInvariant, CountsInvariant, FaultlessInvariant, PTL
          DEF NeverRefused
=============
