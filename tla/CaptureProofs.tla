----------------------------- MODULE CaptureProofs -----------------------------
(***************************************************************************)
(* What holds of every sequence of captures, for any number of them, any   *)
(* queue length and any image size: type correctness, that a result is a   *)
(* frame of the capture that returns it and ready only when the finger has *)
(* left, that a delivered capture leaves nothing queued, whose finger-down *)
(* event an exposure follows, that the engine keeps the contract of one    *)
(* touch, and that every capture comes to its end.                         *)
(*                                                                         *)
(* ResultIsOwnFrame is not inductive: it says nothing of the frames that   *)
(* are still queued, and those are what a later capture reads.  IInv adds  *)
(* that a frame is never protected by a key younger than the capture that  *)
(* exposed it, and that keys are numbered like the captures that drew      *)
(* them: a frame under the key of the running capture can then only have   *)
(* been exposed by the running capture.                                    *)
(***************************************************************************)
EXTENDS CaptureEngine, SequenceTheorems, TLAPS

\* A frame, exposed no later than now, under a key drawn no later than that.
Aged(f) == f.key =< f.sess /\ f.sess =< sess

KeysFollowSessions == key = sess /\ sensorKey =< sess

QueueAged == \A i \in 1..Len(queue) : Aged(queue[i].frame)

ResultOwned == result # NoFrame \/ stage = "Complete" => result.key = key /\ result.live

Unreported == stage # "Idle" => outcome = "none"

IInv == /\ TypeOK
        /\ KeysFollowSessions
        /\ QueueAged
        /\ Aged(protected)
        /\ Aged(result)
        /\ ResultOwned
        /\ Unreported

-----------------------------------------------------------------------------
(* The packets of the model are packets. *)

\* The absence of a frame is a value of the frame type.
LEMMA NoFrameType == NoFrame \in Frame
  BY CaptureAssumption DEF NoFrame, Frame

\* Every stage of the engine belongs to one of the four commands (CommandOf).
LEMMA CommandType == \A s : CommandOf(s) \in Commands
  BY DEF CommandOf, Commands

\* complete_transfer never leaves the set of stages.
LEMMA AfterType == \A s \in Stages : After(s) \in Stages
  BY DEF After, Stages, WriteStages, ReadStages, AckStages, CompletionStages

\* What the sensor sends is a packet, whatever the command and the frame.
LEMMA PacketType ==
  ASSUME NEW c \in Commands, NEW f \in Frame
  PROVE  AckOf(c) \in Packet /\ Completion(c) \in Packet
         /\ Image(f) \in Packet /\ Fragment \in Packet
  BY NoFrameType DEF AckOf, Completion, Image, Fragment, Packet, Commands

\* A frame exposed now is a frame: its numbers are those of captures begun.
LEMMA ExposureType ==
  ASSUME TypeOK
  PROVE  Exposures \subseteq Frame
  BY DEF TypeOK, Exposures, Frame

-----------------------------------------------------------------------------
(* What one step can do to the queue. *)

\* The packets of a queue carry no frame but the absent one and those of F.
Carries(q, F) == \A i \in 1..Len(q) : q[i].frame \in F

\* Appending a packet adds its frame and no other.
LEMMA AppendCarries ==
  ASSUME NEW q \in Seq(Packet), NEW p \in Packet, NEW F, Carries(q, F), p.frame \in F
  PROVE  Append(q, p) \in Seq(Packet) /\ Carries(Append(q, p), F)
  <1>1. /\ Append(q, p) \in Seq(Packet)
        /\ Len(Append(q, p)) = Len(q) + 1
        /\ \A i \in 1..Len(q) : Append(q, p)[i] = q[i]
        /\ Append(q, p)[Len(q) + 1] = p
    BY AppendProperties
  <1>2. ASSUME NEW i \in 1..Len(q) + 1 PROVE Append(q, p)[i].frame \in F
    BY <1>1, LenProperties DEF Carries
  <1> QED BY <1>1, <1>2 DEF Carries

\* Reading takes the head away and shifts the rest, in order; what it puts in
\* front when it cuts an image short are fragments.
LEMMA ReadShifts ==
  ASSUME TypeOK, Read
  PROVE  /\ queue' \in Seq(Packet)
         /\ Len(queue) >= 1
         /\ Head(queue) = queue[1]
         /\ Head(queue) \in Packet
         /\ \E d \in Int : \A j \in 1..Len(queue') :
               \/ queue'[j] = Fragment
               \/ j + d \in 2..Len(queue) /\ queue'[j] = queue[j + d]
  <1>1. queue \in Seq(Packet) /\ queue # <<>>
    BY DEF TypeOK, Read
  <1>2. /\ Head(queue) \in Packet /\ Head(queue) = queue[1]
        /\ Tail(queue) \in Seq(Packet)
        /\ Len(Tail(queue)) = Len(queue) - 1
        /\ \A i \in 1..Len(Tail(queue)) : Tail(queue)[i] = queue[i + 1]
    BY <1>1, HeadTailProperties
  <1>3. Len(queue) \in Nat /\ Len(queue) >= 1
    BY <1>1, LenProperties, EmptySeq
  <1>4. CASE ~CutShort(Head(queue))
    <2>1. queue' = Tail(queue) BY <1>4 DEF Read
    <2>2. \A j \in 1..Len(queue') : j + 1 \in 2..Len(queue) /\ queue'[j] = queue[j + 1]
      BY <2>1, <1>2, <1>3
    <2> QED BY <2>1, <2>2, <1>2, <1>3
  <1>5. CASE CutShort(Head(queue))
    <2>1. queue' = Remains \o Tail(queue) BY <1>5 DEF Read
    <2>2. ImageRemains \in Nat BY CaptureAssumption
    <2>3. Fragment \in Packet BY NoFrameType DEF Fragment, Packet, Commands
    <2>4. /\ Remains \in Seq(Packet) /\ Len(Remains) = ImageRemains
          /\ \A i \in 1..ImageRemains : Remains[i] = Fragment
      BY <2>2, <2>3 DEF Remains
    <2>5. /\ queue' \in Seq(Packet)
          /\ Len(queue') = ImageRemains + (Len(queue) - 1)
          /\ \A i \in 1..Len(queue') :
                queue'[i] = IF i <= ImageRemains THEN Remains[i]
                                                 ELSE Tail(queue)[i - ImageRemains]
      <3>1. /\ Remains \o Tail(queue) \in Seq(Packet)
            /\ Len(Remains \o Tail(queue)) = Len(Remains) + Len(Tail(queue))
            /\ \A i \in 1..Len(Remains) + Len(Tail(queue)) :
                  (Remains \o Tail(queue))[i] =
                     IF i <= Len(Remains) THEN Remains[i] ELSE Tail(queue)[i - Len(Remains)]
        BY <1>2, <2>4, ConcatProperties
      <3> QED BY <3>1, <2>1, <2>4, <1>2
    <2> DEFINE d == 1 - ImageRemains
    <2>6. ASSUME NEW j \in 1..Len(queue')
          PROVE  \/ queue'[j] = Fragment
                 \/ j + d \in 2..Len(queue) /\ queue'[j] = queue[j + d]
      <3>1. CASE j <= ImageRemains
        BY <3>1, <2>2, <2>4, <2>5
      <3>2. CASE ~(j <= ImageRemains)
        <4>1. /\ j - ImageRemains \in 1..Len(Tail(queue))
              /\ (j - ImageRemains) + 1 = j + d
              /\ j + d \in 2..Len(queue)
          BY <3>2, <2>2, <2>5, <1>2, <1>3
        <4>2. queue'[j] = Tail(queue)[j - ImageRemains]
          BY <3>2, <2>5
        <4> QED BY <4>1, <4>2, <1>2
      <3> QED BY <3>1, <3>2
    <2>7. d \in Int BY <2>2
    <2> QED BY <2>5, <2>6, <2>7, <1>2, <1>3
  <1> QED BY <1>4, <1>5

\* One IN transfer, also one that cuts an image short, leaves a property of the
\* queued images to those that stay.
LEMMA ReadCarries ==
  ASSUME TypeOK, Read, NEW F, Carries(queue, F), NoFrame \in F
  PROVE  /\ queue' \in Seq(Packet)
         /\ Carries(queue', F)
         /\ Head(queue).frame \in F
  <1>1. PICK d \in Int : \A j \in 1..Len(queue') :
               \/ queue'[j] = Fragment
               \/ j + d \in 2..Len(queue) /\ queue'[j] = queue[j + d]
    BY ReadShifts
  <1>2. Fragment.frame = NoFrame BY DEF Fragment
  <1>3. Len(queue) \in Nat BY LenProperties DEF TypeOK
  <1>4. ASSUME NEW j \in 1..Len(queue') PROVE queue'[j].frame \in F
    BY <1>1, <1>2, <1>3 DEF Carries
  <1> QED BY <1>3, <1>4, ReadShifts DEF Carries

\* A command leaves the queued frames alone and may add an exposure.
LEMMA ReceiveCarries ==
  ASSUME TypeOK, NEW c \in Commands, queue' \in Answers(c),
         NEW F, Carries(queue, F), NoFrame \in F, Exposures \subseteq F
  PROVE  queue' \in Seq(Packet) /\ Carries(queue', F)
  <1> DEFINE acked == Append(queue, AckOf(c))
  <1>1. acked \in Seq(Packet) /\ Carries(acked, F)
    <2>1. AckOf(c) \in Packet /\ AckOf(c).frame = NoFrame
      BY PacketType, NoFrameType DEF AckOf
    <2> QED BY <2>1, AppendCarries DEF TypeOK
  <1> HIDE DEF acked
  <1>2. Append(acked, Completion(c)) \in Seq(Packet) /\ Carries(Append(acked, Completion(c)), F)
    <2>1. Completion(c) \in Packet /\ Completion(c).frame = NoFrame
      BY PacketType, NoFrameType DEF Completion
    <2> QED BY <2>1, <1>1, AppendCarries
  <1>3. ASSUME NEW f \in Exposures
        PROVE  Append(acked, Image(f)) \in Seq(Packet) /\ Carries(Append(acked, Image(f)), F)
    <2>1. f \in Frame /\ f \in F BY ExposureType
    <2>2. Image(f) \in Packet BY <2>1, PacketType
    <2>3. Image(f).frame = f BY DEF Image
    <2> QED BY <2>1, <2>2, <2>3, <1>1, AppendCarries
  <1>4. \/ queue' = acked
        \/ queue' = Append(acked, Completion(c))
        \/ \E f \in Exposures : queue' = Append(acked, Image(f))
    BY DEF Answers, acked
  <1> QED BY <1>1, <1>2, <1>3, <1>4
-----------------------------------------------------------------------------
(* Type correctness and the ownership of results. *)

\* A sensor step keeps the queue typed and every queued frame aged.
LEMMA ReceiveKeeps ==
  ASSUME IInv, NEW c \in Commands, SensorReceives(c), UNCHANGED <<sess, key>>
  PROVE  /\ queue' \in Seq(Packet)
         /\ QueueAged'
         /\ sensorKey' \in 0..MaxSessions /\ sensorKey' =< sess
         /\ armed' \in {"none", "down", "up"}
         /\ finger' \in BOOLEAN /\ touch' \in 0..MaxSessions /\ lifted' \in BOOLEAN
  <1> USE DEF IInv
  <1> DEFINE F == {f \in Frame : Aged(f)}
  <1>1. Carries(queue, F)
    <2>1. ASSUME NEW i \in 1..Len(queue) PROVE queue[i].frame \in F
      <3>1. queue[i] \in Packet BY ElementOfSeq DEF TypeOK
      <3> QED BY <3>1, <2>1 DEF QueueAged, Packet
    <2> QED BY <2>1 DEF Carries
  <1>2. NoFrame \in F
    BY NoFrameType DEF NoFrame, Aged, TypeOK
  <1>3. Exposures \subseteq F
    BY ExposureType DEF Exposures, Aged, KeysFollowSessions, TypeOK, Frame
  <1>4. queue' \in Seq(Packet) /\ Carries(queue', F)
    <2> HIDE DEF F
    <2>1. queue' \in Answers(c) BY DEF SensorReceives
    <2> QED BY <1>1, <1>2, <1>3, <2>1, ReceiveCarries
  <1>5. QueueAged'
    BY <1>4 DEF Carries, QueueAged, Aged
  <1>6. sensorKey' \in 0..MaxSessions /\ sensorKey' =< sess
    BY DEF SensorReceives, TypeOK, KeysFollowSessions
  <1>7. /\ armed' \in {"none", "down", "up"}
        /\ finger' \in BOOLEAN /\ touch' \in 0..MaxSessions /\ lifted' \in BOOLEAN
    BY DEF SensorReceives, TypeOK
  <1> QED BY <1>4, <1>5, <1>6, <1>7

\* An event appends one packet without a frame.
LEMMA EventKeeps ==
  ASSUME IInv, NEW p \in Packet, p.frame = NoFrame, queue' = Append(queue, p),
         UNCHANGED <<sess, key>>
  PROVE  queue' \in Seq(Packet) /\ QueueAged'
  <1> USE DEF IInv
  <1>1. queue \in Seq(Packet) BY DEF TypeOK
  <1>2. /\ queue' \in Seq(Packet)
        /\ Len(queue') = Len(queue) + 1
        /\ \A i \in 1..Len(queue) : queue'[i] = queue[i]
        /\ queue'[Len(queue) + 1] = p
    BY <1>1, AppendProperties
  <1>3. Aged(NoFrame)' BY DEF NoFrame, Aged, TypeOK
  <1>4. ASSUME NEW i \in 1..Len(queue') PROVE Aged(queue[i].frame)'
    BY <1>1, <1>2, <1>3, LenProperties DEF QueueAged, Aged
  <1> QED BY <1>2, <1>4 DEF QueueAged

\* A read keeps the queue typed and aged, and what it takes is a typed, aged frame.
LEMMA ReadKeeps ==
  ASSUME IInv, Read, UNCHANGED <<sess, key>>
  PROVE  /\ queue' \in Seq(Packet)
         /\ QueueAged'
         /\ Head(queue).frame \in Frame /\ Aged(Head(queue).frame)
  <1> USE DEF IInv
  <1> DEFINE F == {f \in Frame : Aged(f)}
  <1>1. Carries(queue, F)
    <2>1. ASSUME NEW i \in 1..Len(queue) PROVE queue[i].frame \in F
      <3>1. queue[i] \in Packet BY ElementOfSeq DEF TypeOK
      <3> QED BY <3>1, <2>1 DEF QueueAged, Packet
    <2> QED BY <2>1 DEF Carries
  <1>2. NoFrame \in F
    BY NoFrameType DEF NoFrame, Aged, TypeOK
  <1>3. queue' \in Seq(Packet) /\ Carries(queue', F) /\ Head(queue).frame \in F
    <2> HIDE DEF F
    <2> QED BY <1>1, <1>2, ReadCarries
  <1> QED BY <1>3 DEF Carries, QueueAged, Aged

\* Taking a packet that was lost with a failed transfer.
LEMMA LossKeeps ==
  ASSUME IInv, ReadFails
  PROVE  queue' \in Seq(Packet) /\ QueueAged'
  <1> USE DEF IInv
  <1>1. CASE queue' = queue
    BY <1>1 DEF ReadFails, Fail, QueueAged, Aged, TypeOK
  <1>2. CASE queue # <<>> /\ queue' = Tail(queue)
    <2>1. /\ queue' \in Seq(Packet)
          /\ Len(queue') = Len(queue) - 1
          /\ \A i \in 1..Len(queue') : queue'[i] = queue[i + 1]
      BY <1>2, HeadTailProperties DEF TypeOK
    <2>2. Len(queue) \in Nat BY LenProperties DEF TypeOK
    <2> QED BY <2>1, <2>2 DEF ReadFails, Fail, QueueAged, Aged
  <1> QED BY <1>1, <1>2 DEF ReadFails

\* The image comes with the last packet before the stages that hold it and goes with
\* the engine; a failure counts.
LEMMA ImageStays ==
  ASSUME TypeOK, [Next]_vars
  PROVE  ImageHeld' /\ failures' \in Nat
  <1>1. ASSUME Fail("transfer") \/ Fail("protocol") \/ Fail("image")
        PROVE  ImageHeld' /\ failures' \in Nat
    BY <1>1 DEF Fail, ImageHeld, TypeOK
  <1>2. CASE StartCapture \/ Deliver
    BY <1>2 DEF StartCapture, Deliver, ImageHeld, TypeOK
  <1>3. CASE Write \/ ReadAccepted
    <2>1. /\ stage \in WriteStages \union ReadStages /\ stage # "FingerUpCompletion"
          /\ stage' = After(stage) /\ failures' = failures
          /\ protected' = protected \/ stage = "GetImageCompletion"
      BY <1>3 DEF Write, ReadAccepted, Read, WriteStages
    <2>2. stage \in Holding \/ stage = "GetImageCompletion" => stage' \in Holding
      BY <2>1
      DEF After, Holding, WriteStages, ReadStages, AckStages, CompletionStages
    <2> QED BY <2>1, <2>2 DEF ImageHeld, TypeOK
  <1>4. CASE FinishCapture
    BY <1>1, <1>4 DEF FinishCapture, After, ImageHeld, Holding, TypeOK
  <1>5. CASE WriteFails \/ ReadRejected \/ ReadFails
    BY <1>1, <1>5 DEF WriteFails, ReadRejected, ReadFails
  <1>6. CASE ReadIgnored \/ FingerDownEvent \/ FingerUpEvent \/ FingerMoves \/ UNCHANGED vars
    BY <1>6
    DEF ReadIgnored, FingerDownEvent, FingerUpEvent, FingerMoves, vars, engineVars, ImageHeld,
        TypeOK
  <1> QED BY <1>2, <1>3, <1>4, <1>5, <1>6 DEF Next, EngineStep

\* The invariant holds before the first capture.
THEOREM InvInit == Init => IInv
  <1> SUFFICES ASSUME Init PROVE IInv
    OBVIOUS
  <1>1. queue \in Seq(Packet) /\ Len(queue) = 0
    BY EmptySeq DEF Init
  <1>2. TypeOK
    <2>1. finger \in BOOLEAN /\ lifted \in BOOLEAN
      BY Zenon DEF Init
    <2>2. /\ sess \in 0..MaxSessions /\ key \in 0..MaxSessions
          /\ sensorKey \in 0..MaxSessions /\ touch \in 0..MaxSessions
      BY CaptureAssumption DEF Init
    <2>3. /\ protected \in Frame /\ result \in Frame
          /\ stage \in Stages \union {"Idle"}
          /\ outcome \in {"none", "delivered", "transfer", "protocol", "image"}
          /\ armed \in {"none", "down", "up"}
      BY NoFrameType, Zenon DEF Init
    <2>4. ImageHeld /\ failures \in Nat BY DEF Init, ImageHeld
    <2> QED BY <1>1, <2>1, <2>2, <2>3, <2>4 DEF TypeOK
  <1>3. QueueAged BY <1>1 DEF QueueAged
  <1> QED
    BY <1>2, <1>3 DEF Init, IInv, KeysFollowSessions, ResultOwned, Unreported, Aged, NoFrame

\* Every action keeps the invariant: the engine's by case on its action, the
\* sensor's events by EventKeeps.
THEOREM InvNext == IInv /\ [Next]_vars => IInv'
  <1> SUFFICES ASSUME IInv, [Next]_vars PROVE IInv'
    OBVIOUS
  <1> USE DEF IInv
  <1>0. ImageHeld' /\ failures' \in Nat BY ImageStays
  <1>1. CASE StartCapture
    <2>1. queue' = queue /\ sess' = sess + 1 /\ key' = sess' /\ sensorKey' = sensorKey
      BY <1>1 DEF StartCapture, FreshKey, sensorVars
    <2>2. TypeOK'
      BY <1>0, <1>1, <2>1, NoFrameType, CaptureAssumption
      DEF StartCapture, FreshKey, sensorVars, TypeOK, Stages, WriteStages
    <2>3. KeysFollowSessions' BY <2>1 DEF KeysFollowSessions, TypeOK
    <2>4. QueueAged'
      <3>1. ASSUME NEW i \in 1..Len(queue) PROVE Aged(queue[i].frame)'
        <4>1. queue[i] \in Packet BY ElementOfSeq DEF TypeOK
        <4>2. queue[i].frame.sess \in Int BY <4>1 DEF Packet, Frame
        <4> QED BY <2>1, <3>1, <4>2 DEF QueueAged, Aged, TypeOK
      <3> QED BY <3>1, <2>1 DEF QueueAged
    <2>5. Aged(protected)' /\ Aged(result)' /\ ResultOwned' /\ Unreported'
      BY <1>1, <2>1 DEF StartCapture, Aged, NoFrame, ResultOwned, Unreported, TypeOK
    <2> QED BY <2>2, <2>3, <2>4, <2>5
  <1>2. ASSUME Fail("transfer") \/ Fail("protocol") \/ Fail("image")
        PROVE  /\ stage' = "Idle" /\ protected' = NoFrame /\ result' = NoFrame
               /\ outcome' \in {"transfer", "protocol", "image"}
               /\ UNCHANGED <<sess, key>>
               /\ Aged(protected)' /\ Aged(result)' /\ ResultOwned' /\ Unreported'
    BY <1>2 DEF Fail, Aged, NoFrame, ResultOwned, Unreported, TypeOK
  <1>3. CASE Write
    <2>1. SensorReceives(CommandOf(stage)) /\ UNCHANGED <<sess, key, protected, result, outcome>>
          /\ stage' = After(stage) /\ stage \in WriteStages
      BY <1>3 DEF Write
    <2>2. stage' \in Stages /\ stage' # "Complete" /\ stage # "Idle"
      BY <2>1, AfterType DEF Stages, WriteStages, After
    <2> QED
      BY <1>0, <2>1, <2>2, ReceiveKeeps, CommandType
      DEF TypeOK, KeysFollowSessions, Aged, ResultOwned, Unreported
  <1>4. CASE WriteFails
    <2>1. CASE SensorReceives(CommandOf(stage))
      BY <1>0, <1>2, <1>4, <2>1, ReceiveKeeps, CommandType, NoFrameType
      DEF WriteFails, TypeOK, KeysFollowSessions
    <2>2. CASE UNCHANGED sensorVars
      BY <1>0, <1>2, <1>4, <2>2, NoFrameType
      DEF WriteFails, sensorVars, TypeOK, KeysFollowSessions, QueueAged, Aged
    <2> QED BY <1>4, <2>1, <2>2 DEF WriteFails
  <1>5. CASE ReadAccepted
    <2>1. Read /\ UNCHANGED <<sess, key, result, outcome>> /\ stage' = After(stage)
          /\ stage \in ReadStages /\ stage # "FingerUpCompletion"
          /\ protected' \in {protected, Head(queue).frame}
      BY <1>5 DEF ReadAccepted, Read
    <2>2. stage' \in Stages /\ stage' # "Complete" /\ stage # "Idle"
      BY <2>1, AfterType DEF Stages, ReadStages, AckStages, CompletionStages, After
    <2> QED
      BY <1>0, <2>1, <2>2, ReadKeeps DEF Read, TypeOK, KeysFollowSessions, Aged, ResultOwned, Unreported
  <1>6. CASE ReadIgnored
    BY <1>0, <1>6, ReadKeeps
    DEF ReadIgnored, Read, engineVars, TypeOK, KeysFollowSessions, Aged, ResultOwned, Unreported
  <1>7. CASE ReadRejected
    BY <1>0, <1>2, <1>7, ReadKeeps, NoFrameType DEF ReadRejected, Read, TypeOK, KeysFollowSessions
  <1>8. CASE FinishCapture
    <2>1. CASE Decrypts(protected)
      <3>1. Read /\ result' = protected /\ UNCHANGED <<sess, key, protected, outcome>>
            /\ stage' = "Complete" /\ stage # "Idle"
        BY <1>8, <2>1 DEF FinishCapture, After
      <3> QED
        BY <1>0, <2>1, <3>1, ReadKeeps
        DEF Decrypts, Read, TypeOK, KeysFollowSessions, Aged, ResultOwned, Unreported, Stages
    <2>2. CASE ~Decrypts(protected)
      <3>1. Read /\ Fail("image") BY <1>8, <2>2 DEF FinishCapture
      <3> QED BY <1>0, <1>2, <3>1, ReadKeeps, NoFrameType DEF Read, TypeOK, KeysFollowSessions
    <2> QED BY <2>1, <2>2
  <1>9. CASE ReadFails
    BY <1>0, <1>2, <1>9, LossKeeps, NoFrameType DEF ReadFails, TypeOK, KeysFollowSessions
  <1>10. CASE Deliver
    BY <1>0, <1>10, NoFrameType
    DEF Deliver, NoFrame, sensorVars, TypeOK, KeysFollowSessions, QueueAged, Aged, ResultOwned, Unreported
  <1>11. CASE FingerDownEvent
    <2>1. Completion("FdtDown") \in Packet /\ Completion("FdtDown").frame = NoFrame
      BY NoFrameType DEF Completion, Packet, Commands
    <2> QED
      BY <1>0, <1>11, <2>1, EventKeeps
      DEF FingerDownEvent, engineVars, TypeOK, KeysFollowSessions, Aged, ResultOwned, Unreported
  <1>12. CASE FingerUpEvent
    <2>1. Completion("FdtUp") \in Packet /\ Completion("FdtUp").frame = NoFrame
      BY NoFrameType DEF Completion, Packet, Commands
    <2> QED
      BY <1>0, <1>12, <2>1, EventKeeps
      DEF FingerUpEvent, engineVars, TypeOK, KeysFollowSessions, Aged, ResultOwned, Unreported
  <1>13. CASE FingerMoves
    BY <1>0, <1>13
    DEF FingerMoves, engineVars, TypeOK, KeysFollowSessions, QueueAged, Aged, ResultOwned, Unreported
  <1>14. CASE UNCHANGED vars
    BY <1>0, <1>14
    DEF vars, engineVars, sensorVars, TypeOK, KeysFollowSessions, QueueAged, Aged, ResultOwned, Unreported
  <1> QED
    BY <1>1, <1>3, <1>4, <1>5, <1>6, <1>7, <1>8, <1>9, <1>10, <1>11, <1>12, <1>13, <1>14
    DEF Next, EngineStep

\* A frame under the running capture's key was exposed by the running capture.
THEOREM InvOwns == IInv => ResultIsOwnFrame
  BY DEF IInv, TypeOK, KeysFollowSessions, Aged, ResultOwned, ResultIsOwnFrame, Frame

\* The invariant holds throughout every run of the capture engine.
THEOREM Invariance == Spec => []IInv
  BY InvInit, InvNext, PTL DEF Spec

\* Type correctness of every reachable state.
THEOREM TypeCorrect == Spec => []TypeOK
  <1>1. IInv => TypeOK BY DEF IInv
  <1> QED BY <1>1, Invariance, PTL

\* No capture ever returns a frame exposed by an earlier one, whatever earlier
\* captures left in the endpoint.
THEOREM OwnFrame == Spec => []ResultIsOwnFrame
  BY Invariance, InvOwns, PTL

-----------------------------------------------------------------------------
(* Finger-up before the result.  The endpoint is a queue, so the argument is *)
(* one of order: until the finger is lifted after the exposure, no finger-up *)
(* event stands behind a frame under the running capture's key, in the queue *)
(* or already read.  A stale event stands before that frame and was skipped  *)
(* on the way to it.                                                         *)

Own(f) == f.key = key /\ key # 0

IsUp(p) == p.kind = "completion" /\ p.cmd = "FdtUp"

BeforeExposure == {"D2Write", "D2Ack", "D2Completion", "FingerDownWrite", "FingerDownAck",
                   "FingerDownCompletion", "GetImageWrite"}

Started == stage # "Idle" => sess # 0

NothingExposed ==
  stage \in BeforeExposure =>
    /\ ~Own(protected)
    /\ \A i \in 1..Len(queue) : ~Own(queue[i].frame)

NoUpBehind ==
  ~lifted =>
    /\ \A i, j \in 1..Len(queue) : i < j /\ Own(queue[i].frame) => ~IsUp(queue[j])
    /\ Own(protected) => \A j \in 1..Len(queue) : ~IsUp(queue[j])

UpInv == /\ IInv
         /\ Started
         /\ NothingExposed
         /\ NoUpBehind
         /\ FingerUpBeforeResult

\* The absence of a frame is not taken for a frame of the current capture.
LEMMA NoFrameNotOwn == ~Own(NoFrame)
  BY DEF Own, NoFrame

\* A command extends the queue, with an exposure if it asks for one and with
\* no finger-up event.
LEMMA ReceiveExtends ==
  ASSUME IInv, NEW c \in Commands, SensorReceives(c)
  PROVE  /\ Len(queue) =< Len(queue')
         /\ \A i \in 1..Len(queue) : queue'[i] = queue[i]
         /\ \A i \in 1..Len(queue') : i > Len(queue) =>
               /\ ~IsUp(queue'[i])
               /\ queue'[i].frame = NoFrame \/ c = "GetImage"
  <1> DEFINE acked == Append(queue, AckOf(c))
  <1>1. queue \in Seq(Packet) /\ Len(queue) \in Nat
    BY LenProperties DEF IInv, TypeOK
  <1>2. /\ AckOf(c) \in Packet /\ AckOf(c).frame = NoFrame /\ ~IsUp(AckOf(c))
    BY PacketType, NoFrameType DEF AckOf, IsUp
  <1>3. /\ acked \in Seq(Packet) /\ Len(acked) = Len(queue) + 1
        /\ \A i \in 1..Len(queue) : acked[i] = queue[i]
        /\ acked[Len(queue) + 1] = AckOf(c)
    BY <1>1, <1>2, AppendProperties
  <1> HIDE DEF acked
  <1>4. CASE queue' = acked
    <2>1. \A i \in 1..Len(queue') : i > Len(queue) => i = Len(queue) + 1
      BY <1>1, <1>3, <1>4
    <2> QED BY <1>1, <1>2, <1>3, <1>4, <2>1
  <1>5. ASSUME NEW p \in Packet, queue' = Append(acked, p), ~IsUp(p),
               p.frame = NoFrame \/ c = "GetImage"
        PROVE  /\ Len(queue) =< Len(queue')
               /\ \A i \in 1..Len(queue) : queue'[i] = queue[i]
               /\ \A i \in 1..Len(queue') : i > Len(queue) =>
                     /\ ~IsUp(queue'[i])
                     /\ queue'[i].frame = NoFrame \/ c = "GetImage"
    <2>1. /\ Len(queue') = Len(queue) + 2
          /\ \A i \in 1..Len(queue) + 1 : queue'[i] = acked[i]
          /\ queue'[Len(queue) + 2] = p
      <3>1. /\ Len(Append(acked, p)) = Len(acked) + 1
            /\ \A i \in 1..Len(acked) : Append(acked, p)[i] = acked[i]
            /\ Append(acked, p)[Len(acked) + 1] = p
        BY <1>3, AppendProperties
      <3> QED BY <3>1, <1>1, <1>3, <1>5
    <2>2. \A i \in 1..Len(queue') :
             i > Len(queue) => i = Len(queue) + 1 \/ i = Len(queue) + 2
      BY <1>1, <2>1
    <2> QED BY <1>1, <1>2, <1>3, <1>5, <2>1, <2>2
  <1>6. CASE c = "TlsPovImage"
    <2>1. Completion(c) \in Packet /\ ~IsUp(Completion(c)) /\ Completion(c).frame = NoFrame
      BY <1>6, PacketType, NoFrameType DEF Completion, IsUp
    <2>2. queue' = Append(acked, Completion(c))
      BY <1>6 DEF SensorReceives, Answers, acked
    <2> QED BY <1>5, <2>1, <2>2
  <1>7. CASE c = "GetImage"
    <2>1. PICK f \in Exposures : queue' = Append(acked, Image(f))
      BY <1>7 DEF SensorReceives, Answers, acked
    <2>2. f \in Frame BY ExposureType DEF IInv
    <2>3. Image(f) \in Packet BY <2>2, PacketType
    <2>4. ~IsUp(Image(f)) BY DEF IsUp, Image
    <2> QED BY <1>5, <1>7, <2>1, <2>3, <2>4
  <1>8. CASE c \notin {"TlsPovImage", "GetImage"}
    <2>1. queue' = acked BY <1>8 DEF SensorReceives, Answers, acked
    <2> QED BY <1>4, <2>1
  <1> QED BY <1>6, <1>7, <1>8

\* Appending a packet without a frame keeps the order, unless it is a finger-up
\* event, and then the finger is lifted.
LEMMA ExtendKeepsOrder ==
  ASSUME UpInv, queue' \in Seq(Packet), UNCHANGED <<key, protected>>,
         Len(queue) =< Len(queue'),
         \A i \in 1..Len(queue) : queue'[i] = queue[i],
         \A i \in 1..Len(queue') : i > Len(queue) => queue'[i].frame = NoFrame,
         ~lifted' => ~lifted /\ \A i \in 1..Len(queue') : i > Len(queue) => ~IsUp(queue'[i])
  PROVE  /\ NoUpBehind'
         /\ (\A i \in 1..Len(queue) : ~Own(queue[i].frame)) =>
               \A i \in 1..Len(queue') : ~Own(queue[i].frame)'
  <1>1. Len(queue) \in Nat /\ Len(queue') \in Nat
    BY LenProperties DEF UpInv, IInv, TypeOK
  <1>2. \A i \in 1..Len(queue') : i \in 1..Len(queue) \/ i > Len(queue)
    BY <1>1
  <1>3. \A f : Own(f)' <=> Own(f) BY DEF Own
  <1>4. NoUpBehind'
    <2> SUFFICES ASSUME ~lifted' PROVE
           /\ \A i, j \in 1..Len(queue') : i < j /\ Own(queue'[i].frame) => ~IsUp(queue'[j])
           /\ Own(protected) => \A j \in 1..Len(queue') : ~IsUp(queue'[j])
      BY <1>3 DEF NoUpBehind, Own, IsUp
    <2>1. ASSUME NEW i \in 1..Len(queue'), NEW j \in 1..Len(queue'), i < j,
                 Own(queue'[i].frame)
          PROVE  ~IsUp(queue'[j])
      <3>1. CASE j > Len(queue) BY <3>1
      <3>2. CASE j \in 1..Len(queue)
        <4>1. i \in 1..Len(queue) BY <1>1, <2>1, <3>2
        <4> QED BY <2>1, <3>2, <4>1 DEF UpInv, NoUpBehind
      <3> QED BY <1>2, <3>1, <3>2
    <2>2. ASSUME Own(protected), NEW j \in 1..Len(queue') PROVE ~IsUp(queue'[j])
      BY <1>2, <2>2 DEF UpInv, NoUpBehind
    <2> QED BY <2>1, <2>2
  <1>5. ASSUME \A i \in 1..Len(queue) : ~Own(queue[i].frame), NEW i \in 1..Len(queue')
        PROVE  ~Own(queue[i].frame)'
    BY <1>2, <1>5, NoFrameNotOwn DEF Own
  <1> QED BY <1>4, <1>5

\* Reading keeps the order of what is left.
LEMMA ReadKeepsOrder ==
  ASSUME UpInv, Read, UNCHANGED key
  PROVE  /\ UNCHANGED protected => NoUpBehind'
         /\ protected' = NoFrame => NoUpBehind'
         /\ protected' = Head(queue).frame => NoUpBehind'
         /\ (\A i \in 1..Len(queue) : ~Own(queue[i].frame)) =>
               \A i \in 1..Len(queue') : ~Own(queue[i].frame)'
  <1>1. PICK d \in Int : \A j \in 1..Len(queue') :
               \/ queue'[j] = Fragment
               \/ j + d \in 2..Len(queue) /\ queue'[j] = queue[j + d]
    BY ReadShifts DEF UpInv, IInv
  <1>2. Head(queue) = queue[1] /\ Len(queue) >= 1 /\ queue' \in Seq(Packet)
    BY ReadShifts DEF UpInv, IInv
  <1>3. Len(queue) \in Nat /\ Len(queue') \in Nat
    BY <1>2, LenProperties DEF UpInv, IInv, TypeOK
  <1>4. ~Own(Fragment.frame) /\ ~IsUp(Fragment)
    BY NoFrameNotOwn DEF Fragment, IsUp
  <1>5. \A f : Own(f)' <=> Own(f) BY DEF Own
  <1>6. lifted' = lifted BY DEF Read
  <1>7. ASSUME ~lifted, NEW i \in 1..Len(queue'), NEW j \in 1..Len(queue'), i < j,
               Own(queue'[i].frame)
        PROVE  ~IsUp(queue'[j])
    <2>1. i + d \in 2..Len(queue) /\ queue'[i] = queue[i + d]
      BY <1>1, <1>4, <1>7
    <2>2. CASE queue'[j] = Fragment BY <1>4, <2>2
    <2>3. CASE j + d \in 2..Len(queue) /\ queue'[j] = queue[j + d]
      <3>1. i + d < j + d /\ i + d \in 1..Len(queue) /\ j + d \in 1..Len(queue)
        BY <1>3, <1>7, <2>1, <2>3
      <3> QED BY <1>7, <2>1, <2>3, <3>1 DEF UpInv, NoUpBehind
    <2> QED BY <1>1, <2>2, <2>3
  <1>8. ASSUME ~lifted, Own(protected) \/ Own(Head(queue).frame), NEW j \in 1..Len(queue')
        PROVE  ~IsUp(queue'[j])
    <2>1. CASE queue'[j] = Fragment BY <1>4, <2>1
    <2>2. CASE j + d \in 2..Len(queue) /\ queue'[j] = queue[j + d]
      <3>1. 1 < j + d /\ j + d \in 1..Len(queue) /\ 1 \in 1..Len(queue)
        BY <1>2, <1>3, <2>2
      <3> QED BY <1>2, <1>8, <2>2, <3>1 DEF UpInv, NoUpBehind
    <2> QED BY <1>1, <2>1, <2>2
  <1>9. ASSUME \A i \in 1..Len(queue) : ~Own(queue[i].frame), NEW i \in 1..Len(queue')
        PROVE  ~Own(queue[i].frame)'
    <2>1. CASE queue'[i] = Fragment BY <1>4, <2>1 DEF Own
    <2>2. CASE i + d \in 2..Len(queue) /\ queue'[i] = queue[i + d]
      BY <1>3, <1>9, <2>2 DEF Own
    <2> QED BY <1>1, <2>1, <2>2
  <1>10. ASSUME UNCHANGED protected \/ protected' = NoFrame \/ protected' = Head(queue).frame
         PROVE  NoUpBehind'
    <2>1. ASSUME ~lifted, Own(protected') PROVE Own(protected) \/ Own(Head(queue).frame)
      BY <1>10, <2>1, NoFrameNotOwn
    <2> SUFFICES ASSUME ~lifted PROVE
           /\ \A i, j \in 1..Len(queue') : i < j /\ Own(queue'[i].frame) => ~IsUp(queue'[j])
           /\ Own(protected') => \A j \in 1..Len(queue') : ~IsUp(queue'[j])
      BY <1>5, <1>6 DEF NoUpBehind, Own, IsUp
    <2> QED BY <1>7, <1>8, <2>1
  <1> QED BY <1>9, <1>10

\* A new capture has a key no frame carries yet.
LEMMA StartKeepsOrder ==
  ASSUME UpInv, StartCapture
  PROVE  NothingExposed' /\ NoUpBehind' /\ Started' /\ FingerUpBeforeResult'
  <1>1. /\ key' = sess + 1 /\ sess' = sess + 1 /\ sess \in Nat /\ key = sess
        /\ queue' = queue /\ protected' = NoFrame /\ stage' = "D2Write"
    BY DEF UpInv, IInv, TypeOK, KeysFollowSessions, StartCapture, FreshKey, sensorVars
  <1>2. ASSUME NEW i \in 1..Len(queue') PROVE ~Own(queue[i].frame)'
    <2>1. queue[i] \in Packet BY <1>1, ElementOfSeq DEF UpInv, IInv, TypeOK
    <2>2. queue[i].frame.key \in Int /\ queue[i].frame.sess \in Int
      BY <2>1 DEF Packet, Frame
    <2>3. Aged(queue[i].frame) BY <1>1 DEF UpInv, IInv, QueueAged
    <2> QED BY <1>1, <2>2, <2>3 DEF Own, Aged
  <1>3. ~Own(protected)' BY <1>1 DEF Own, NoFrame
  <1> QED
    BY <1>1, <1>2, <1>3
    DEF NothingExposed, NoUpBehind, Started, FingerUpBeforeResult

\* The capture's only command that exposes is sent when nothing was exposed yet.
LEMMA WriteKeepsOrder ==
  ASSUME UpInv, SensorReceives(CommandOf(stage)), stage \in WriteStages,
         UNCHANGED <<sess, key>>, protected' \in {protected, NoFrame},
         stage' \in {After(stage), "Idle"}, IInv'
  PROVE  NothingExposed' /\ NoUpBehind' /\ Started' /\ FingerUpBeforeResult'
  <1> DEFINE c == CommandOf(stage)
  <1>1. /\ Len(queue) =< Len(queue')
        /\ \A i \in 1..Len(queue) : queue'[i] = queue[i]
        /\ \A i \in 1..Len(queue') : i > Len(queue) =>
              /\ ~IsUp(queue'[i])
              /\ queue'[i].frame = NoFrame \/ c = "GetImage"
    BY ReceiveExtends, CommandType DEF UpInv
  <1>2. Len(queue) \in Nat /\ Len(queue') \in Nat
    BY LenProperties DEF UpInv, IInv, TypeOK
  <1>3. \A i \in 1..Len(queue') : i \in 1..Len(queue) \/ i > Len(queue)
    BY <1>2
  <1>4. Started' /\ FingerUpBeforeResult'
    BY DEF UpInv, Started, FingerUpBeforeResult, After, WriteStages
  <1>5. Own(protected') => Own(protected) BY NoFrameNotOwn
  <1>6. \A f : Own(f)' <=> Own(f) BY DEF Own
  <1>7. CASE stage = "GetImageWrite"
    <2>1. ~Own(protected) /\ \A i \in 1..Len(queue) : ~Own(queue[i].frame)
      BY <1>7 DEF UpInv, NothingExposed, BeforeExposure
    <2>2. stage' \notin BeforeExposure BY <1>7 DEF After, BeforeExposure
    <2>3. ASSUME NEW i \in 1..Len(queue'), NEW j \in 1..Len(queue'), i < j,
                 Own(queue'[i].frame)
          PROVE  ~IsUp(queue'[j])
      <3>1. i > Len(queue) BY <1>1, <1>3, <2>1, <2>3
      <3>2. j > Len(queue) BY <1>2, <2>3, <3>1
      <3> QED BY <1>1, <3>2
    <2>4. NoUpBehind'
      BY <1>5, <1>6, <2>1, <2>3 DEF NoUpBehind, Own, IsUp
    <2> QED BY <1>4, <2>2, <2>4 DEF NothingExposed
  <1>8. CASE stage # "GetImageWrite"
    <2>1. c # "GetImage" BY <1>8 DEF CommandOf, WriteStages
    <2>2. lifted' = lifted
      BY <2>1 DEF SensorReceives, UpInv, IInv, TypeOK
    <2>3. stage' \in BeforeExposure => stage \in BeforeExposure
      BY <1>8 DEF After, BeforeExposure, WriteStages
    <2>4. ASSUME NEW i \in 1..Len(queue'), Own(queue'[i].frame)
          PROVE  i \in 1..Len(queue) /\ Own(queue[i].frame)
      <3>1. ~(i > Len(queue)) BY <1>1, <2>1, <2>4, NoFrameNotOwn
      <3> QED BY <1>1, <1>3, <2>4, <3>1
    <2>5. NothingExposed'
      BY <1>5, <1>6, <2>3, <2>4 DEF NothingExposed, UpInv, Own
    <2>6. ASSUME ~lifted, NEW i \in 1..Len(queue'), NEW j \in 1..Len(queue'), i < j,
                 Own(queue'[i].frame)
          PROVE  ~IsUp(queue'[j])
      <3>1. CASE j > Len(queue) BY <1>1, <3>1
      <3>2. CASE j \in 1..Len(queue)
        BY <1>1, <2>4, <2>6, <3>2 DEF UpInv, NoUpBehind
      <3> QED BY <1>3, <3>1, <3>2
    <2>7. ASSUME ~lifted, Own(protected'), NEW j \in 1..Len(queue')
          PROVE  ~IsUp(queue'[j])
      <3>1. CASE j > Len(queue) BY <1>1, <3>1
      <3>2. CASE j \in 1..Len(queue)
        BY <1>1, <1>5, <2>7, <3>2 DEF UpInv, NoUpBehind
      <3> QED BY <1>3, <3>1, <3>2
    <2>8. NoUpBehind'
      BY <1>6, <2>2, <2>6, <2>7 DEF NoUpBehind, Own, IsUp
    <2> QED BY <1>4, <2>5, <2>8
  <1> QED BY <1>7, <1>8

\* A finger event appends its completion; the only event that could stand
\* behind an exposed frame also lifts the finger.
LEMMA EventKeepsOrder ==
  ASSUME UpInv, FingerDownEvent \/ FingerUpEvent
  PROVE  NothingExposed' /\ NoUpBehind' /\ Started' /\ FingerUpBeforeResult'
  <1> DEFINE p == IF FingerDownEvent THEN Completion("FdtDown") ELSE Completion("FdtUp")
  <1>1. p \in Packet /\ p.frame = NoFrame
    BY NoFrameType DEF Completion, Packet, Commands
  <1>2. queue' = Append(queue, p) /\ UNCHANGED engineVars
    BY DEF FingerDownEvent, FingerUpEvent
  <1> HIDE DEF p
  <1>3. queue \in Seq(Packet) /\ Len(queue) \in Nat
    BY LenProperties DEF UpInv, IInv, TypeOK
  <1>4. /\ queue' \in Seq(Packet)
        /\ Len(queue') = Len(queue) + 1
        /\ \A i \in 1..Len(queue) : queue'[i] = queue[i]
        /\ queue'[Len(queue) + 1] = p
    BY <1>1, <1>2, <1>3, AppendProperties
  <1>5. \A i \in 1..Len(queue') : i > Len(queue) => i = Len(queue) + 1
    BY <1>3, <1>4
  <1>6. \A i \in 1..Len(queue') : i > Len(queue) => queue'[i] = p
    BY <1>4, <1>5
  <1>7. ~lifted' => ~lifted /\ ~IsUp(p)
    BY DEF p, FingerDownEvent, FingerUpEvent, Completion, IsUp
  <1>8. /\ NoUpBehind'
        /\ (\A i \in 1..Len(queue) : ~Own(queue[i].frame)) =>
               \A i \in 1..Len(queue') : ~Own(queue[i].frame)'
    <2>1. UNCHANGED <<key, protected>> BY <1>2 DEF engineVars
    <2>2. Len(queue) =< Len(queue') BY <1>3, <1>4
    <2>3. \A i \in 1..Len(queue') : i > Len(queue) => queue'[i].frame = NoFrame
      BY <1>1, <1>6
    <2>4. ~lifted' => ~lifted /\ \A i \in 1..Len(queue') : i > Len(queue) => ~IsUp(queue'[i])
      BY <1>6, <1>7
    <2> QED BY <1>4, <2>1, <2>2, <2>3, <2>4, ExtendKeepsOrder
  <1>9. NothingExposed'
    BY <1>2, <1>8 DEF UpInv, NothingExposed, engineVars, Own
  <1>10. Started' BY <1>2 DEF UpInv, Started, engineVars
  <1>11. FingerUpBeforeResult'
    BY <1>2 DEF UpInv, FingerUpBeforeResult, engineVars, FingerDownEvent, FingerUpEvent
  <1> QED BY <1>8, <1>9, <1>10, <1>11

\* The order invariant behind FingerUpBeforeResult holds before the first capture.
THEOREM UpInit == Init => UpInv
  <1> SUFFICES ASSUME Init PROVE UpInv
    OBVIOUS
  <1>1. IInv BY InvInit
  <1>2. Len(queue) = 0 BY EmptySeq DEF Init
  <1>3. ~Own(protected) BY DEF Init, Own
  <1> QED
    BY <1>1, <1>2, <1>3
    DEF Init, UpInv, Started, NothingExposed, NoUpBehind, FingerUpBeforeResult, BeforeExposure

\* Every step of the engine, the sensor and the finger keeps the order invariant.
THEOREM UpNext == UpInv /\ [Next]_vars => UpInv'
  <1> SUFFICES ASSUME UpInv, [Next]_vars PROVE UpInv'
    OBVIOUS
  <1>1. IInv' BY InvNext DEF UpInv
  <1>2. CASE StartCapture
    BY <1>1, <1>2, StartKeepsOrder DEF UpInv
  <1>3. CASE Write
    BY <1>1, <1>3, WriteKeepsOrder DEF UpInv, Write
  <1>4. CASE WriteFails
    <2>1. /\ stage' = "Idle" /\ protected' = NoFrame /\ UNCHANGED <<sess, key>>
          /\ stage \in WriteStages
      BY <1>4 DEF WriteFails, Fail
    <2>2. CASE SensorReceives(CommandOf(stage))
      BY <1>1, <2>1, <2>2, WriteKeepsOrder DEF UpInv
    <2>3. CASE UNCHANGED sensorVars
      BY <1>1, <2>1, <2>3, NoFrameNotOwn
      DEF sensorVars, UpInv, Started, NothingExposed, NoUpBehind, FingerUpBeforeResult,
          BeforeExposure, Own
    <2> QED BY <1>4, <2>2, <2>3 DEF WriteFails
  <1>5. ASSUME Read, stage' = "Idle", protected' = NoFrame, UNCHANGED <<sess, key>>
        PROVE  UpInv'
    BY <1>1, <1>5, ReadKeepsOrder
    DEF UpInv, Started, NothingExposed, FingerUpBeforeResult, BeforeExposure
  <1>6. CASE ReadAccepted
    <2>1. /\ Read /\ stage \in ReadStages /\ stage # "FingerUpCompletion"
          /\ stage' = After(stage) /\ UNCHANGED <<sess, key>>
          /\ protected' = IF stage = "GetImageCompletion" THEN Head(queue).frame ELSE protected
      BY <1>6 DEF ReadAccepted, Read
    <2>2. /\ stage' # "Complete" /\ stage # "Idle"
          /\ stage' \in BeforeExposure =>
                stage \in BeforeExposure /\ stage # "GetImageCompletion"
      BY <2>1 DEF After, BeforeExposure, ReadStages, AckStages, CompletionStages
    <2>3. NoUpBehind' BY <2>1, ReadKeepsOrder
    <2>4. NothingExposed'
      BY <2>1, <2>2, ReadKeepsOrder DEF UpInv, NothingExposed, Own
    <2> QED BY <1>1, <2>1, <2>2, <2>3, <2>4 DEF UpInv, Started, FingerUpBeforeResult
  <1>7. CASE ReadIgnored
    <2>1. Read /\ UNCHANGED <<stage, sess, key, protected>>
      BY <1>7 DEF ReadIgnored, engineVars
    <2>2. NoUpBehind' /\ NothingExposed'
      BY <2>1, ReadKeepsOrder DEF UpInv, NothingExposed, Own
    <2> QED BY <1>1, <2>1, <2>2 DEF UpInv, Started, FingerUpBeforeResult, Read
  <1>8. CASE ReadRejected
    BY <1>5, <1>8 DEF ReadRejected, Fail
  <1>9. CASE FinishCapture
    <2>1. CASE Decrypts(protected)
      <3>1. /\ Read /\ stage = "FingerUpCompletion" /\ Accepts(Head(queue))
            /\ stage' = "Complete" /\ UNCHANGED <<sess, key, protected>>
        BY <1>9, <2>1 DEF FinishCapture, After
      <3>2. IsUp(queue[1]) /\ 1 \in 1..Len(queue)
        <4>1. Head(queue) = queue[1] /\ Len(queue) >= 1
          BY <3>1, ReadShifts DEF UpInv, IInv
        <4>2. Len(queue) \in Nat BY LenProperties DEF UpInv, IInv, TypeOK
        <4> QED BY <3>1, <4>1, <4>2 DEF Accepts, IsUp, CommandOf, AckStages
      <3>3. Own(protected)
        BY <2>1, <3>1 DEF Decrypts, Own, UpInv, Started, IInv, KeysFollowSessions
      <3>4. lifted BY <3>2, <3>3 DEF UpInv, NoUpBehind
      <3>5. lifted' BY <3>1, <3>4 DEF Read
      <3>6. NoUpBehind' BY <3>1, ReadKeepsOrder
      <3> QED
        BY <1>1, <3>1, <3>5, <3>6
        DEF UpInv, Started, NothingExposed, FingerUpBeforeResult, BeforeExposure
    <2>2. CASE ~Decrypts(protected)
      BY <1>5, <1>9, <2>2 DEF FinishCapture, Fail
    <2> QED BY <2>1, <2>2
  <1>10. CASE ReadFails
    <2>1. /\ stage' = "Idle" /\ protected' = NoFrame /\ UNCHANGED <<sess, key, lifted>>
          /\ queue' \in Seq(Packet)
      BY <1>10, LossKeeps DEF ReadFails, Fail, UpInv
    <2>2. NoUpBehind'
      <3>1. ~Own(protected)' BY <2>1, NoFrameNotOwn DEF Own
      <3>2. CASE queue' = queue
        BY <2>1, <3>1, <3>2 DEF UpInv, NoUpBehind, Own
      <3>3. CASE queue # <<>> /\ queue' = Tail(queue)
        <4>1. /\ Len(queue') = Len(queue) - 1
              /\ \A i \in 1..Len(queue') : queue'[i] = queue[i + 1]
          BY <3>3, HeadTailProperties DEF UpInv, IInv, TypeOK
        <4>2. Len(queue) \in Nat BY LenProperties DEF UpInv, IInv, TypeOK
        <4>3. ASSUME ~lifted, NEW i \in 1..Len(queue'), NEW j \in 1..Len(queue'), i < j,
                     Own(queue'[i].frame)
              PROVE  ~IsUp(queue'[j])
          <5>1. /\ i + 1 \in 1..Len(queue) /\ j + 1 \in 1..Len(queue)
                /\ i + 1 < j + 1
            BY <4>1, <4>2, <4>3
          <5> QED BY <4>1, <4>3, <5>1 DEF UpInv, NoUpBehind
        <4> QED BY <2>1, <3>1, <4>3 DEF NoUpBehind, Own, IsUp
      <3> QED BY <1>10, <3>2, <3>3 DEF ReadFails
    <2> QED
      BY <1>1, <2>1, <2>2
      DEF UpInv, Started, NothingExposed, FingerUpBeforeResult, BeforeExposure
  <1>11. CASE Deliver
    BY <1>1, <1>11
    DEF Deliver, sensorVars, UpInv, Started, NothingExposed, NoUpBehind, FingerUpBeforeResult,
        BeforeExposure, Own
  <1>12. CASE FingerDownEvent \/ FingerUpEvent
    BY <1>1, <1>12, EventKeepsOrder DEF UpInv
  <1>13. CASE FingerMoves \/ UNCHANGED vars
    BY <1>1, <1>13
    DEF FingerMoves, vars, engineVars, sensorVars, UpInv, Started, NothingExposed, NoUpBehind,
        FingerUpBeforeResult, Own
  <1> QED
    BY <1>2, <1>3, <1>4, <1>6, <1>7, <1>8, <1>9, <1>10, <1>11, <1>12, <1>13
    DEF Next, EngineStep

\* When a capture is complete, the finger was lifted after the exposure.
THEOREM UpBeforeResult == Spec => []FingerUpBeforeResult
  <1>1. UpInv => FingerUpBeforeResult BY DEF UpInv
  <1> QED BY <1>1, UpInit, UpNext, PTL DEF Spec

-----------------------------------------------------------------------------
(* A capture that comes to its result leaves nothing behind: nothing queued and no *)
(* detection armed.  What is in the endpoint when an image of its own is read was  *)
(* sent after the image, and that is at most finger-down events that came late, the *)
(* acknowledgement of FDT-up and the finger-up event the capture waits for.        *)

Acked(p, c) == p.kind = "ack" /\ p.cmd = c
Done(p, c)  == p.kind = "completion" /\ p.cmd = c

\* From FDT-down to FDT-up no finger-up detection is armed.
NoUpArmed ==
  stage \in {"FingerDownAck", "FingerDownCompletion", "GetImageWrite", "GetImageAck",
             "GetImageCompletion", "FingerUpWrite"} => armed # "up"

\* What stands behind an image of this capture when it is read.
BehindImage ==
  stage \in {"GetImageAck", "GetImageCompletion"} =>
    \A i, j \in 1..Len(queue) :
      i < j /\ Own(queue[i].frame) => Done(queue[j], "FdtDown")

\* What is queued once it was read, up to the n-th packet and in all.
OnlyDowns(n) == \A j \in 1..n : Done(queue[j], "FdtDown")

AfterImage ==
  Own(protected) =>
    /\ stage = "FingerUpWrite" => OnlyDowns(Len(queue))
    /\ stage = "FingerUpAck" =>
         \/ /\ armed = "up" /\ Len(queue) >= 1
            /\ OnlyDowns(Len(queue) - 1)
            /\ Acked(queue[Len(queue)], "FdtUp")
         \/ /\ armed = "none" /\ Len(queue) >= 2
            /\ OnlyDowns(Len(queue) - 2)
            /\ Acked(queue[Len(queue) - 1], "FdtUp")
            /\ Done(queue[Len(queue)], "FdtUp")
    /\ stage = "FingerUpCompletion" =>
         \/ armed = "up" /\ Len(queue) = 0
         \/ armed = "none" /\ Len(queue) = 1 /\ Done(queue[1], "FdtUp")

Drained == stage = "Complete" => Len(queue) = 0 /\ armed = "none"

DrainInv == /\ UpInv
            /\ NoUpArmed
            /\ BehindImage
            /\ AfterImage
            /\ Drained

\* A read that cuts no image short takes the first packet and leaves the rest as it is.
LEMMA ReadTakesHead ==
  ASSUME TypeOK, Read, ~Malformed(Head(queue))
  PROVE  /\ Len(queue) \in Nat /\ Len(queue) >= 1 /\ Len(queue') = Len(queue) - 1
         /\ Head(queue) = queue[1]
         /\ \A i \in 1..Len(queue') : i + 1 \in 1..Len(queue) /\ queue'[i] = queue[i + 1]
         /\ armed' = armed /\ touch' = touch
  <1>1. /\ queue \in Seq(Packet) /\ queue # <<>> /\ queue' = Tail(queue)
        /\ armed' = armed /\ touch' = touch
    BY DEF TypeOK, Read, Malformed
  <1>2. /\ Head(queue) = queue[1] /\ Len(Tail(queue)) = Len(queue) - 1
        /\ \A i \in 1..Len(Tail(queue)) : Tail(queue)[i] = queue[i + 1]
    BY <1>1, HeadTailProperties
  <1>3. Len(queue) \in Nat /\ Len(queue) >= 1
    BY <1>1, LenProperties, EmptySeq
  <1> QED BY <1>1, <1>2, <1>3

\* What a command adds to the queue, packet by packet.
LEMMA ReceiveAppends ==
  ASSUME TypeOK, NEW c \in Commands, SensorReceives(c)
  PROVE  /\ Len(queue) \in Nat
         /\ Len(queue') = IF c \in {"TlsPovImage", "GetImage"} THEN Len(queue) + 2
                                                               ELSE Len(queue) + 1
         /\ \A i \in 1..Len(queue) : queue'[i] = queue[i]
         /\ queue'[Len(queue) + 1] = AckOf(c)
         /\ c = "TlsPovImage" => queue'[Len(queue) + 2] = Completion(c)
         /\ c = "GetImage" => \E f \in Exposures : queue'[Len(queue) + 2] = Image(f)
  <1> DEFINE acked == Append(queue, AckOf(c))
  <1>1. queue \in Seq(Packet) /\ Len(queue) \in Nat
    BY LenProperties DEF TypeOK
  <1>2. AckOf(c) \in Packet BY PacketType, NoFrameType
  <1>3. /\ acked \in Seq(Packet) /\ Len(acked) = Len(queue) + 1
        /\ \A i \in 1..Len(queue) : acked[i] = queue[i]
        /\ acked[Len(queue) + 1] = AckOf(c)
    BY <1>1, <1>2, AppendProperties
  <1> HIDE DEF acked
  <1>4. ASSUME NEW p \in Packet, queue' = Append(acked, p)
        PROVE  /\ Len(queue') = Len(queue) + 2
               /\ \A i \in 1..Len(queue) : queue'[i] = queue[i]
               /\ queue'[Len(queue) + 1] = AckOf(c)
               /\ queue'[Len(queue) + 2] = p
    <2>1. /\ Len(Append(acked, p)) = Len(acked) + 1
          /\ \A i \in 1..Len(acked) : Append(acked, p)[i] = acked[i]
          /\ Append(acked, p)[Len(acked) + 1] = p
      BY <1>3, AppendProperties
    <2> QED BY <1>1, <1>3, <1>4, <2>1
  <1>5. CASE c = "TlsPovImage"
    <2>1. Completion(c) \in Packet BY PacketType, NoFrameType
    <2>2. queue' = Append(acked, Completion(c))
      BY <1>5 DEF SensorReceives, Answers, acked
    <2> QED BY <1>1, <1>4, <1>5, <2>1, <2>2
  <1>6. CASE c = "GetImage"
    <2>1. PICK f \in Exposures : queue' = Append(acked, Image(f))
      BY <1>6 DEF SensorReceives, Answers, acked
    <2>2. Image(f) \in Packet BY ExposureType, PacketType
    <2> QED BY <1>1, <1>4, <1>6, <2>1, <2>2
  <1>7. CASE c \notin {"TlsPovImage", "GetImage"}
    <2>1. queue' = acked BY <1>7 DEF SensorReceives, Answers, acked
    <2> QED BY <1>1, <1>3, <1>7, <2>1
  <1> QED BY <1>5, <1>6, <1>7

\* An event is the last packet of the queue, and its detection is armed no more.
LEMMA EventAppends ==
  ASSUME TypeOK, NEW c \in Commands, queue' = Append(queue, Completion(c))
  PROVE  /\ Len(queue) \in Nat /\ Len(queue') = Len(queue) + 1
         /\ \A i \in 1..Len(queue) : queue'[i] = queue[i]
         /\ queue'[Len(queue) + 1] = Completion(c)
  <1>1. queue \in Seq(Packet) /\ Len(queue) \in Nat
    BY LenProperties DEF TypeOK
  <1>2. Completion(c) \in Packet BY PacketType, NoFrameType
  <1> QED BY <1>1, <1>2, AppendProperties

\* Nothing is queued before the first capture.
LEMMA DrainInit == Init => DrainInv
  <1> SUFFICES ASSUME Init PROVE DrainInv
    OBVIOUS
  <1>1. UpInv BY UpInit
  <1>2. stage = "Idle" BY DEF Init
  <1> QED BY <1>1, <1>2 DEF DrainInv, NoUpArmed, BehindImage, AfterImage, Drained

\* A command is written.
LEMMA DrainWrite ==
  ASSUME DrainInv, Write
  PROVE  NoUpArmed' /\ BehindImage' /\ AfterImage' /\ Drained'
  <1>1. /\ stage \in WriteStages /\ SensorReceives(CommandOf(stage))
        /\ stage' = After(stage) /\ UNCHANGED <<sess, key, protected>>
    BY DEF Write
  <1>2. TypeOK BY DEF DrainInv, UpInv, IInv
  <1>3. \A f : Own(f)' <=> Own(f) BY <1>1 DEF Own
  <1>4. CASE stage = "D2Write"
    <2>1. stage' = "D2Ack" BY <1>1, <1>4 DEF After
    <2> QED BY <2>1 DEF NoUpArmed, BehindImage, AfterImage, Drained
  <1>5. CASE stage = "FingerDownWrite"
    <2>1. stage' = "FingerDownAck" /\ armed' = "down"
      BY <1>1, <1>5 DEF After, CommandOf, SensorReceives
    <2> QED BY <2>1 DEF NoUpArmed, BehindImage, AfterImage, Drained
  <1>6. CASE stage = "GetImageWrite"
    <2>1. /\ stage' = "GetImageAck" /\ armed' = armed /\ SensorReceives("GetImage")
          /\ "GetImage" \in Commands
      BY <1>1, <1>6 DEF After, CommandOf, SensorReceives, Commands
    <2>2. /\ Len(queue) \in Nat /\ Len(queue') = Len(queue) + 2
          /\ \A i \in 1..Len(queue) : queue'[i] = queue[i]
          /\ queue'[Len(queue) + 1] = AckOf("GetImage")
      BY <1>2, <2>1, ReceiveAppends
    <2>3. \A i \in 1..Len(queue) : ~Own(queue[i].frame)
      BY <1>6 DEF DrainInv, UpInv, NothingExposed, BeforeExposure
    <2>4. ~Own(AckOf("GetImage").frame) BY NoFrameNotOwn DEF AckOf
    <2>5. ASSUME NEW i \in 1..Len(queue'), NEW j \in 1..Len(queue'), i < j,
                 Own(queue'[i].frame)
          PROVE  FALSE
      <3>1. i \in 1..Len(queue) \/ i = Len(queue) + 1 BY <2>2, <2>5
      <3> QED BY <2>2, <2>3, <2>4, <2>5, <3>1
    <2>6. BehindImage' BY <1>3, <2>5 DEF BehindImage
    <2> QED BY <1>6, <2>1, <2>6 DEF DrainInv, NoUpArmed, AfterImage, Drained
  <1>7. CASE stage = "FingerUpWrite"
    <2>1. /\ stage' = "FingerUpAck" /\ armed' = "up" /\ SensorReceives("FdtUp")
          /\ "FdtUp" \in Commands
      BY <1>1, <1>7 DEF After, CommandOf, SensorReceives, Commands
    <2>2. /\ Len(queue) \in Nat /\ Len(queue') = Len(queue) + 1
          /\ \A i \in 1..Len(queue) : queue'[i] = queue[i]
          /\ queue'[Len(queue) + 1] = AckOf("FdtUp")
      BY <1>2, <2>1, ReceiveAppends
    <2>3. Own(protected) => OnlyDowns(Len(queue))
      BY <1>7 DEF DrainInv, AfterImage
    <2>4. Acked(AckOf("FdtUp"), "FdtUp") BY DEF Acked, AckOf
    <2>5. Own(protected) => \A j \in 1..Len(queue') - 1 : Done(queue'[j], "FdtDown")
      BY <2>2, <2>3 DEF OnlyDowns
    <2>6. Acked(queue'[Len(queue')], "FdtUp") BY <2>2, <2>4
    <2>7. AfterImage'
      BY <1>1, <2>1, <2>2, <2>5, <2>6 DEF AfterImage, OnlyDowns, Acked, Done, Own
    <2> QED BY <2>1, <2>7 DEF NoUpArmed, BehindImage, Drained
  <1> QED BY <1>1, <1>4, <1>5, <1>6, <1>7 DEF WriteStages

\* What stands behind an image stays behind it when the packets before it are read.
LEMMA ShiftBehind ==
  ASSUME BehindImage, Len(queue) \in Nat, Len(queue') = Len(queue) - 1, key' = key,
         \A i \in 1..Len(queue') : i + 1 \in 1..Len(queue) /\ queue'[i] = queue[i + 1],
         stage \in {"GetImageAck", "GetImageCompletion"}
  PROVE  BehindImage'
  <1>1. \A f : Own(f)' <=> Own(f) BY DEF Own
  <1>2. ASSUME NEW i \in 1..Len(queue'), NEW j \in 1..Len(queue'), i < j, Own(queue'[i].frame)
        PROVE  Done(queue'[j], "FdtDown")
    <2>1. i + 1 \in 1..Len(queue) /\ j + 1 \in 1..Len(queue) /\ i + 1 < j + 1
      BY <1>2
    <2> QED BY <1>2, <2>1 DEF BehindImage
  <1> QED BY <1>1, <1>2 DEF BehindImage, Done

\* A packet that is waited for, or one that is passed over.
LEMMA DrainRead ==
  ASSUME DrainInv, ReadAccepted \/ ReadIgnored
  PROVE  NoUpArmed' /\ BehindImage' /\ AfterImage' /\ Drained'
  <1>1. /\ Read /\ stage \in ReadStages /\ ~Malformed(Head(queue)) /\ UNCHANGED <<sess, key>>
        /\ ReadAccepted => /\ Accepts(Head(queue)) /\ stage # "FingerUpCompletion"
                           /\ stage' = After(stage)
                           /\ protected' = IF stage = "GetImageCompletion"
                                           THEN Head(queue).frame ELSE protected
        /\ ReadIgnored => ~Accepts(Head(queue)) /\ UNCHANGED <<stage, protected>>
    BY DEF ReadAccepted, ReadIgnored, Read, Accepts, Ignores, Rejects, engineVars
  <1>2. TypeOK BY DEF DrainInv, UpInv, IInv
  <1>3. /\ Len(queue) \in Nat /\ Len(queue) >= 1 /\ Len(queue') = Len(queue) - 1
        /\ Head(queue) = queue[1]
        /\ \A i \in 1..Len(queue') : i + 1 \in 1..Len(queue) /\ queue'[i] = queue[i + 1]
        /\ armed' = armed
    BY <1>1, <1>2, ReadTakesHead
  <1>4. \A f : Own(f)' <=> Own(f) BY <1>1 DEF Own
  <1>5. NoUpArmed'
    BY <1>1, <1>3 DEF DrainInv, NoUpArmed, After, ReadStages, AckStages, CompletionStages,
                      SensorReceives, UpInv, IInv
  <1>6. Drained'
    BY <1>1 DEF Drained, After, ReadStages, AckStages, CompletionStages
  <1>7. BehindImage'
    <2>1. stage' \in {"GetImageAck", "GetImageCompletion"} =>
             stage \in {"GetImageAck", "GetImageCompletion"}
      BY <1>1 DEF After, ReadStages, AckStages, CompletionStages
    <2>2. CASE stage \in {"GetImageAck", "GetImageCompletion"}
      BY <1>1, <1>3, <2>2, ShiftBehind DEF DrainInv
    <2> QED BY <2>1, <2>2 DEF BehindImage
  <1>8. AfterImage'
    <2>1. CASE stage \notin {"GetImageCompletion", "FingerUpAck", "FingerUpCompletion"}
      <3>1. stage' \notin {"FingerUpWrite", "FingerUpAck", "FingerUpCompletion"}
        BY <1>1, <2>1 DEF After, ReadStages, AckStages, CompletionStages
      <3> QED BY <3>1 DEF AfterImage
    <2>2. CASE stage = "GetImageCompletion"
      <3>1. CASE ReadIgnored
        BY <1>1, <2>2, <3>1 DEF AfterImage
      <3>2. CASE ReadAccepted
        <4>1. stage' = "FingerUpWrite" /\ protected' = queue[1].frame
          BY <1>1, <1>3, <2>2, <3>2 DEF After
        <4>2. ASSUME Own(queue[1].frame), NEW j \in 1..Len(queue')
              PROVE  Done(queue'[j], "FdtDown")
          <5>1. 1 \in 1..Len(queue) /\ j + 1 \in 1..Len(queue) /\ 1 < j + 1
            BY <1>3
          <5> QED BY <1>3, <2>2, <4>2, <5>1 DEF DrainInv, BehindImage
        <4>3. Own(queue[1].frame) => OnlyDowns(Len(queue))'
          BY <4>2 DEF OnlyDowns, Done
        <4> QED BY <1>1, <4>1, <4>3 DEF AfterImage, Own
      <3> QED BY <3>1, <3>2
    <2>3. CASE stage = "FingerUpAck"
      <3> SUFFICES ASSUME Own(protected) PROVE AfterImage'
        BY <1>1, <2>3 DEF AfterImage, Own
      <3>1. /\ stage' = IF ReadAccepted THEN "FingerUpCompletion" ELSE "FingerUpAck"
            /\ ReadAccepted <=> Acked(queue[1], "FdtUp")
        <4>1. Accepts(queue[1]) <=> Acked(queue[1], "FdtUp")
          BY <1>1, <1>3, <2>3 DEF Accepts, CommandOf, AckStages, Acked
        <4> QED BY <1>1, <1>3, <2>3, <4>1 DEF After
      <3>2. CASE armed = "up"
        <4>1. /\ OnlyDowns(Len(queue) - 1) /\ Acked(queue[Len(queue)], "FdtUp")
          BY <2>3, <3>2 DEF DrainInv, AfterImage
        <4>2. CASE Len(queue) = 1
          BY <1>3, <3>1, <3>2, <4>1, <4>2 DEF AfterImage
        <4>3. CASE Len(queue) >= 2
          <5>1. Done(queue[1], "FdtDown") BY <1>3, <4>1, <4>3 DEF OnlyDowns
          <5>2. stage' = "FingerUpAck" BY <3>1, <5>1 DEF Done, Acked
          <5>3. ASSUME NEW j \in 1..Len(queue') - 1 PROVE Done(queue'[j], "FdtDown")
            <6>1. /\ j \in 1..Len(queue') /\ j + 1 \in 1..Len(queue) - 1
              BY <1>3, <4>3
            <6> QED BY <1>3, <4>1, <6>1 DEF OnlyDowns
          <5>4. Acked(queue'[Len(queue')], "FdtUp") BY <1>3, <4>1, <4>3
          <5> QED BY <1>3, <3>2, <4>3, <5>2, <5>3, <5>4 DEF AfterImage, OnlyDowns, Done, Acked
        <4> QED BY <1>3, <4>2, <4>3
      <3>3. CASE armed # "up"
        <4>1. /\ armed = "none" /\ Len(queue) >= 2 /\ OnlyDowns(Len(queue) - 2)
              /\ Acked(queue[Len(queue) - 1], "FdtUp") /\ Done(queue[Len(queue)], "FdtUp")
          BY <2>3, <3>3 DEF DrainInv, AfterImage
        <4>2. Done(queue'[Len(queue')], "FdtUp") BY <1>3, <4>1
        <4>3. CASE Len(queue) = 2
          BY <1>3, <3>1, <4>1, <4>2, <4>3 DEF AfterImage, Done, Acked
        <4>4. CASE Len(queue) >= 3
          <5>1. Done(queue[1], "FdtDown") BY <1>3, <4>1, <4>4 DEF OnlyDowns
          <5>2. stage' = "FingerUpAck" BY <3>1, <5>1 DEF Done, Acked
          <5>3. ASSUME NEW j \in 1..Len(queue') - 2 PROVE Done(queue'[j], "FdtDown")
            <6>1. /\ j \in 1..Len(queue') /\ j + 1 \in 1..Len(queue) - 2
              BY <1>3, <4>4
            <6> QED BY <1>3, <4>1, <6>1 DEF OnlyDowns
          <5>4. Acked(queue'[Len(queue') - 1], "FdtUp") BY <1>3, <4>1, <4>4
          <5> QED
            BY <1>3, <4>1, <4>2, <4>4, <5>2, <5>3, <5>4 DEF AfterImage, OnlyDowns, Done, Acked
        <4> QED BY <1>3, <4>1, <4>3, <4>4
      <3> QED BY <3>2, <3>3
    <2>4. CASE stage = "FingerUpCompletion"
      <3> SUFFICES ASSUME Own(protected) PROVE FALSE
        BY <1>1, <2>4 DEF AfterImage, Own
      <3>1. Done(queue[1], "FdtUp")
        BY <1>3, <2>4 DEF DrainInv, AfterImage
      <3>2. Accepts(queue[1])
        BY <1>1, <1>3, <2>4, <3>1 DEF Accepts, CommandOf, AckStages, Done
      <3> QED BY <1>1, <1>3, <2>4, <3>2
    <2> QED BY <1>1, <2>1, <2>2, <2>3, <2>4
  <1> QED BY <1>5, <1>6, <1>7, <1>8

\* The finger-up event that ends a capture is the last packet.
LEMMA DrainFinish ==
  ASSUME DrainInv, FinishCapture, Decrypts(protected)
  PROVE  NoUpArmed' /\ BehindImage' /\ AfterImage' /\ Drained'
  <1>1. /\ Read /\ stage = "FingerUpCompletion" /\ ~Malformed(Head(queue))
        /\ stage' = "Complete" /\ TypeOK
    BY DEF FinishCapture, After, Accepts, DrainInv, UpInv, IInv
  <1>2. Own(protected)
    BY <1>1 DEF Decrypts, Own, DrainInv, UpInv, Started, IInv, KeysFollowSessions
  <1>3. Len(queue') = Len(queue) - 1 /\ Len(queue) \in Nat /\ Len(queue) >= 1 /\ armed' = armed
    BY <1>1, ReadTakesHead
  <1>4. Drained' BY <1>1, <1>2, <1>3 DEF DrainInv, AfterImage, Drained
  <1> QED BY <1>1, <1>4 DEF NoUpArmed, BehindImage, AfterImage

\* A finger event is one that may stand behind the image, or the one waited for.
LEMMA DrainEvent ==
  ASSUME DrainInv, FingerDownEvent \/ FingerUpEvent
  PROVE  NoUpArmed' /\ BehindImage' /\ AfterImage' /\ Drained'
  <1> DEFINE c == IF FingerDownEvent THEN "FdtDown" ELSE "FdtUp"
  <1>1. /\ queue' = Append(queue, Completion(c)) /\ c \in Commands
        /\ armed = (IF c = "FdtDown" THEN "down" ELSE "up") /\ armed' = "none"
        /\ UNCHANGED <<stage, key, protected>> /\ c \in {"FdtDown", "FdtUp"}
    BY DEF FingerDownEvent, FingerUpEvent, engineVars, Commands
  <1> HIDE DEF c
  <1>2. /\ Len(queue) \in Nat /\ Len(queue') = Len(queue) + 1
        /\ \A i \in 1..Len(queue) : queue'[i] = queue[i]
        /\ queue'[Len(queue) + 1] = Completion(c)
    BY <1>1, EventAppends DEF DrainInv, UpInv, IInv
  <1>3. Done(Completion(c), c) BY DEF Done, Completion
  <1>4. \A f : Own(f)' <=> Own(f) BY <1>1 DEF Own
  <1>5. NoUpArmed' /\ Drained' BY <1>1 DEF DrainInv, NoUpArmed, Drained
  <1>6. BehindImage'
    <2> SUFFICES ASSUME stage \in {"GetImageAck", "GetImageCompletion"},
                        NEW i \in 1..Len(queue'), NEW j \in 1..Len(queue'), i < j,
                        Own(queue'[i].frame)
                 PROVE  Done(queue'[j], "FdtDown")
      BY <1>1, <1>4 DEF BehindImage, Done
    <2>1. c = "FdtDown" BY <1>1 DEF DrainInv, NoUpArmed
    <2>2. i \in 1..Len(queue) /\ (j \in 1..Len(queue) \/ j = Len(queue) + 1)
      BY <1>2
    <2>3. Own(queue[i].frame) BY <1>2, <2>2
    <2> QED BY <1>2, <1>3, <2>1, <2>2, <2>3 DEF DrainInv, BehindImage
  <1>7. AfterImage'
    <2> SUFFICES ASSUME Own(protected) PROVE AfterImage'
      BY <1>1 DEF AfterImage, Own
    <2>1. CASE stage = "FingerUpWrite"
      <3>1. c = "FdtDown" BY <1>1, <2>1 DEF DrainInv, NoUpArmed
      <3>2. OnlyDowns(Len(queue)) BY <2>1 DEF DrainInv, AfterImage
      <3>3. ASSUME NEW j \in 1..Len(queue') PROVE Done(queue'[j], "FdtDown")
        <4>1. j \in 1..Len(queue) \/ j = Len(queue) + 1 BY <1>2
        <4> QED BY <1>2, <1>3, <3>1, <3>2, <4>1 DEF OnlyDowns
      <3> QED BY <1>1, <2>1, <3>3 DEF AfterImage, OnlyDowns, Done
    <2>2. CASE stage = "FingerUpAck"
      <3>1. /\ c = "FdtUp" /\ Len(queue) >= 1 /\ OnlyDowns(Len(queue) - 1)
            /\ Acked(queue[Len(queue)], "FdtUp")
        BY <1>1, <2>2 DEF DrainInv, AfterImage
      <3>2. \A j \in 1..Len(queue') - 2 : Done(queue'[j], "FdtDown")
        BY <1>2, <3>1 DEF OnlyDowns
      <3>3. Acked(queue'[Len(queue') - 1], "FdtUp") /\ Done(queue'[Len(queue')], "FdtUp")
        BY <1>2, <1>3, <3>1
      <3> QED BY <1>1, <1>2, <2>2, <3>1, <3>2, <3>3 DEF AfterImage, OnlyDowns, Done, Acked
    <2>3. CASE stage = "FingerUpCompletion"
      <3>1. c = "FdtUp" /\ Len(queue) = 0 BY <1>1, <2>3 DEF DrainInv, AfterImage
      <3> QED BY <1>1, <1>2, <1>3, <2>3, <3>1 DEF AfterImage, Done
    <2> QED BY <1>1, <2>1, <2>2, <2>3 DEF AfterImage
  <1> QED BY <1>5, <1>6, <1>7

\* Every step keeps what is left behind an image.
LEMMA DrainNext == DrainInv /\ [Next]_vars => DrainInv'
  <1> SUFFICES ASSUME DrainInv, [Next]_vars PROVE DrainInv'
    OBVIOUS
  <1>1. UpInv' BY UpNext DEF DrainInv
  <1>2. ASSUME stage' \in {"Idle", "D2Write"}
        PROVE  NoUpArmed' /\ BehindImage' /\ AfterImage' /\ Drained'
    BY <1>2 DEF NoUpArmed, BehindImage, AfterImage, Drained
  <1>3. CASE StartCapture \/ WriteFails \/ ReadRejected \/ ReadFails \/ Deliver
    <2>1. stage' \in {"Idle", "D2Write"}
      BY <1>3 DEF StartCapture, WriteFails, ReadRejected, ReadFails, Deliver, Fail
    <2> QED BY <1>1, <1>2, <2>1 DEF DrainInv
  <1>4. CASE Write
    BY <1>1, <1>4, DrainWrite DEF DrainInv
  <1>5. CASE ReadAccepted \/ ReadIgnored
    BY <1>1, <1>5, DrainRead DEF DrainInv
  <1>6. CASE FinishCapture
    <2>1. CASE Decrypts(protected) BY <1>1, <1>6, <2>1, DrainFinish DEF DrainInv
    <2>2. CASE ~Decrypts(protected)
      <3>1. stage' = "Idle" BY <1>6, <2>2 DEF FinishCapture, Fail
      <3> QED BY <1>1, <1>2, <3>1 DEF DrainInv
    <2> QED BY <2>1, <2>2
  <1>7. CASE FingerDownEvent \/ FingerUpEvent
    BY <1>1, <1>7, DrainEvent DEF DrainInv
  <1>8. CASE FingerMoves \/ UNCHANGED vars
    BY <1>1, <1>8
    DEF FingerMoves, vars, engineVars, sensorVars, DrainInv, NoUpArmed, BehindImage, AfterImage,
        OnlyDowns, Drained, Own, Acked, Done
  <1> QED BY <1>3, <1>4, <1>5, <1>6, <1>7, <1>8 DEF Next, EngineStep

\* When a capture has its result the endpoint is empty and nothing is armed: whatever
\* earlier captures left, a delivered one leaves nothing to the next.
THEOREM DeliveredDrains == Spec => [](stage = "Complete" => queue = <<>> /\ armed = "none")
  <1>1. DrainInv => (stage = "Complete" => queue = <<>> /\ armed = "none")
    BY EmptySeq, LenProperties DEF DrainInv, UpInv, IInv, TypeOK, Drained
  <1> QED BY <1>1, DrainInit, DrainNext, PTL DEF Spec

-----------------------------------------------------------------------------
(* Whose finger-down event an exposure follows.  Nothing is left behind a delivered *)
(* capture, so the first capture that fails leaves answers to its own commands and   *)
(* of one kind: a D2 answer, or what came after it was read (OneKind).  The capture  *)
(* after it can take that D2 answer for its own, but meets no finger-down event      *)
(* behind it that is not its own (DownBeforeKey).                                    *)

NoneOf(c) == \A i \in 1..Len(queue) : ~Done(queue[i], c)

\* Nothing failed since the last delivery: the queue holds what is about to be read.
Clean ==
  failures = 0 =>
    /\ stage \in {"Idle", "D2Write", "FingerDownWrite"} => Len(queue) = 0 /\ armed = "none"
    /\ stage = "D2Ack" => /\ armed = "none" /\ Len(queue) = 2
                          /\ Acked(queue[1], "TlsPovImage")
                          /\ Done(queue[2], "TlsPovImage")
    /\ stage = "D2Completion" => /\ armed = "none" /\ Len(queue) = 1
                                 /\ Done(queue[1], "TlsPovImage")
    /\ stage \notin {"D2Ack", "D2Completion"} => NoneOf("TlsPovImage")

OneKind == NoneOf("TlsPovImage") \/ (armed # "down" /\ NoneOf("FdtDown"))

OneBehind == failures = 1 /\ stage \in {"Idle", "D2Write"} => OneKind

\* One capture failed at most.
DownBeforeKey ==
  failures =< 1 /\ stage \in {"D2Ack", "D2Completion"} /\ touch # sess =>
    \A i, j \in 1..Len(queue) :
      i < j /\ Done(queue[i], "TlsPovImage") => ~Done(queue[j], "FdtDown")

DownIsOwn ==
  failures =< 1 /\ stage \in {"FingerDownWrite", "FingerDownAck", "FingerDownCompletion"}
    /\ touch # sess => NoneOf("FdtDown")

Exposed == {"GetImageAck", "GetImageCompletion"} \union Holding

TouchIsOwn == failures =< 1 /\ stage \in {"GetImageWrite"} \union Exposed => touch = sess

ImageIsOwn ==
  failures =< 1 /\ stage \in Exposed =>
    /\ \A i \in 1..Len(queue) : Own(queue[i].frame) => queue[i].frame.down = sess
    /\ Own(protected) => protected.down = sess

DownInv == /\ DrainInv
           /\ Clean
           /\ OneBehind
           /\ DownBeforeKey
           /\ DownIsOwn
           /\ TouchIsOwn
           /\ ImageIsOwn
           /\ FingerDownIsOwn

\* Reading adds no completion.
LEMMA ReadKinds ==
  ASSUME TypeOK, Read \/ ReadFails, NEW c \in Commands, NoneOf(c)
  PROVE  NoneOf(c)'
  <1>1. queue \in Seq(Packet) /\ Len(queue) \in Nat
    BY LenProperties DEF TypeOK
  <1>2. ASSUME Read PROVE NoneOf(c)'
    <2>1. PICK d \in Int : \A j \in 1..Len(queue') :
                 \/ queue'[j] = Fragment
                 \/ j + d \in 2..Len(queue) /\ queue'[j] = queue[j + d]
      BY <1>2, ReadShifts
    <2>2. ~Done(Fragment, c) BY DEF Done, Fragment
    <2>3. ASSUME NEW j \in 1..Len(queue') PROVE ~Done(queue'[j], c)
      <3>1. CASE j + d \in 2..Len(queue) /\ queue'[j] = queue[j + d]
        <4>1. j + d \in 1..Len(queue) BY <1>1, <3>1
        <4> QED BY <3>1, <4>1 DEF NoneOf
      <3> QED BY <2>1, <2>2, <3>1
    <2> QED BY <2>3 DEF NoneOf, Done
  <1>3. CASE queue' = queue BY <1>3 DEF NoneOf, Done
  <1>4. CASE queue # <<>> /\ queue' = Tail(queue)
    <2>1. /\ Len(queue') = Len(queue) - 1
          /\ \A i \in 1..Len(queue') : queue'[i] = queue[i + 1]
      BY <1>1, <1>4, HeadTailProperties
    <2>2. \A i \in 1..Len(queue') : i + 1 \in 1..Len(queue) BY <1>1, <2>1
    <2> QED BY <2>1, <2>2 DEF NoneOf, Done
  <1> QED BY <1>2, <1>3, <1>4 DEF ReadFails

\* A command adds no completion of another command, and its own only if that does not
\* wait for the finger.
LEMMA ReceiveKinds ==
  ASSUME TypeOK, NEW c \in Commands, SensorReceives(c), NEW k \in Commands, NoneOf(k),
         k # c \/ c \in {"FdtDown", "FdtUp"}
  PROVE  NoneOf(k)'
  <1>1. /\ Len(queue) \in Nat
        /\ Len(queue') = IF c \in {"TlsPovImage", "GetImage"} THEN Len(queue) + 2
                                                              ELSE Len(queue) + 1
        /\ \A i \in 1..Len(queue) : queue'[i] = queue[i]
        /\ queue'[Len(queue) + 1] = AckOf(c)
        /\ c = "TlsPovImage" => queue'[Len(queue) + 2] = Completion(c)
        /\ c = "GetImage" => \E f \in Exposures : queue'[Len(queue) + 2] = Image(f)
    BY ReceiveAppends
  <1>2. ~Done(AckOf(c), k) /\ (c # k => ~Done(Completion(c), k))
    BY DEF Done, AckOf, Completion
  <1>3. c = "GetImage" => \A f : c # k => ~Done(Image(f), k)
    BY DEF Done, Image
  <1>4. ASSUME NEW i \in 1..Len(queue') PROVE ~Done(queue'[i], k)
    <2>1. \/ i \in 1..Len(queue)
          \/ i = Len(queue) + 1
          \/ i = Len(queue) + 2 /\ c \in {"TlsPovImage", "GetImage"}
      BY <1>1
    <2> QED BY <1>1, <1>2, <1>3, <2>1 DEF NoneOf
  <1> QED BY <1>4 DEF NoneOf, Done

\* An event adds a completion of its own kind.
LEMMA EventKinds ==
  ASSUME TypeOK, NEW c \in Commands, queue' = Append(queue, Completion(c)),
         NEW k \in Commands, k # c, NoneOf(k)
  PROVE  NoneOf(k)'
  <1>1. /\ Len(queue) \in Nat /\ Len(queue') = Len(queue) + 1
        /\ \A i \in 1..Len(queue) : queue'[i] = queue[i]
        /\ queue'[Len(queue) + 1] = Completion(c)
    BY EventAppends
  <1>2. ~Done(Completion(c), k) BY DEF Done, Completion
  <1>3. ASSUME NEW i \in 1..Len(queue') PROVE ~Done(queue'[i], k)
    <2>1. i \in 1..Len(queue) \/ i = Len(queue) + 1 BY <1>1
    <2> QED BY <1>1, <1>2, <2>1 DEF NoneOf
  <1> QED BY <1>3 DEF NoneOf, Done

\* A capture that nothing has gone wrong with has left answers of one kind at a time.
LEMMA CleanIsOneKind ==
  ASSUME Clean, failures = 0
  PROVE  OneKind
  <1>1. CASE stage = "D2Ack"
    <2>1. /\ armed = "none" /\ Len(queue) = 2
          /\ Acked(queue[1], "TlsPovImage") /\ Done(queue[2], "TlsPovImage")
      BY <1>1 DEF Clean
    <2>2. \A i \in 1..Len(queue) : i = 1 \/ i = 2 BY <2>1
    <2> QED BY <2>1, <2>2 DEF OneKind, NoneOf, Acked, Done
  <1>2. CASE stage = "D2Completion"
    <2>1. armed = "none" /\ Len(queue) = 1 /\ Done(queue[1], "TlsPovImage")
      BY <1>2 DEF Clean
    <2>2. \A i \in 1..Len(queue) : i = 1 BY <2>1
    <2> QED BY <2>1, <2>2 DEF OneKind, NoneOf, Done
  <1>3. CASE stage \notin {"D2Ack", "D2Completion"}
    BY <1>3 DEF Clean, OneKind
  <1> QED BY <1>1, <1>2, <1>3

DownParts == Clean /\ OneBehind /\ DownBeforeKey /\ DownIsOwn /\ TouchIsOwn /\ ImageIsOwn
             /\ FingerDownIsOwn

\* There is nothing but the queue to answer for while no capture runs.
LEMMA DownAtRest ==
  ASSUME stage' \in {"Idle", "D2Write"}, Clean', OneBehind'
  PROVE  DownParts'
  BY DEF DownParts, DownBeforeKey, DownIsOwn, TouchIsOwn, ImageIsOwn, FingerDownIsOwn, Exposed,
         Holding

\* A capture fails: the first to do so leaves answers of one kind.
LEMMA DownFails ==
  ASSUME DownInv, WriteFails \/ ReadRejected \/ ReadFails \/ (FinishCapture /\ ~Decrypts(protected))
  PROVE  DownParts'
  <1>1. /\ stage' = "Idle" /\ failures' = failures + 1 /\ failures \in Nat /\ TypeOK
        /\ "TlsPovImage" \in Commands /\ "FdtDown" \in Commands
    BY DEF WriteFails, ReadRejected, ReadFails, FinishCapture, Fail, DownInv, DrainInv, UpInv,
           IInv, TypeOK, Commands
  <1>2. Clean' BY <1>1 DEF Clean
  <1>3. ASSUME failures = 0 PROVE OneKind'
    <2>1. OneKind BY <1>3, CleanIsOneKind DEF DownInv
    <2>2. CASE ~WriteFails
      <3>1. (Read \/ ReadFails) /\ armed' = armed
        BY <2>2 DEF ReadRejected, ReadFails, FinishCapture, Read
      <3> QED BY <1>1, <2>1, <3>1, ReadKinds DEF OneKind
    <2>3. CASE WriteFails /\ UNCHANGED sensorVars
      BY <2>1, <2>3 DEF sensorVars, OneKind, NoneOf, Done
    <2>4. CASE stage \in WriteStages /\ SensorReceives(CommandOf(stage))
      <3>1. CASE stage = "D2Write"
        <4>1. Len(queue) = 0 /\ armed = "none"
          BY <1>3, <3>1 DEF DownInv, Clean
        <4>2. SensorReceives("TlsPovImage") /\ armed' = "none"
          BY <2>4, <3>1, <4>1 DEF CommandOf, SensorReceives
        <4>3. NoneOf("FdtDown") BY <4>1 DEF NoneOf
        <4>4. NoneOf("FdtDown")' BY <1>1, <4>2, <4>3, ReceiveKinds
        <4> QED BY <4>2, <4>4 DEF OneKind
      <3>2. CASE stage # "D2Write"
        <4>1. NoneOf("TlsPovImage")
          BY <1>3, <2>4, <3>2 DEF DownInv, Clean, WriteStages
        <4>2. CommandOf(stage) \in Commands /\ CommandOf(stage) # "TlsPovImage"
          BY <2>4, <3>2 DEF CommandOf, Commands, WriteStages
        <4>3. NoneOf("TlsPovImage")' BY <1>1, <2>4, <4>1, <4>2, ReceiveKinds
        <4> QED BY <4>3 DEF OneKind
      <3> QED BY <3>1, <3>2
    <2> QED BY <2>2, <2>3, <2>4 DEF WriteFails
  <1>4. OneBehind' BY <1>1, <1>3 DEF OneBehind
  <1> QED BY <1>1, <1>2, <1>4, DownAtRest

\* A command is written.
LEMMA DownWrite ==
  ASSUME DownInv, Write
  PROVE  DownParts'
  <1> DEFINE c == CommandOf(stage)
  <1>1. /\ stage \in WriteStages /\ SensorReceives(c) /\ stage' = After(stage)
        /\ UNCHANGED <<sess, key, protected, result, failures, touch>>
        /\ TypeOK /\ c \in Commands /\ failures \in Nat
    BY CommandType DEF Write, SensorReceives, DownInv, DrainInv, UpInv, IInv, TypeOK
  <1>2. /\ Len(queue) \in Nat
        /\ Len(queue') = IF c \in {"TlsPovImage", "GetImage"} THEN Len(queue) + 2
                                                              ELSE Len(queue) + 1
        /\ \A i \in 1..Len(queue) : queue'[i] = queue[i]
        /\ queue'[Len(queue) + 1] = AckOf(c)
        /\ c = "TlsPovImage" => queue'[Len(queue) + 2] = Completion(c)
        /\ c = "GetImage" => \E f \in Exposures : queue'[Len(queue) + 2] = Image(f)
    BY <1>1, ReceiveAppends
  <1>3. \A f : Own(f)' <=> Own(f) BY <1>1 DEF Own
  <1>4. /\ Acked(AckOf("TlsPovImage"), "TlsPovImage")
        /\ Done(Completion("TlsPovImage"), "TlsPovImage")
        /\ ~Done(Completion("TlsPovImage"), "FdtDown")
        /\ \A k : ~Done(AckOf(c), k)
        /\ ~Own(AckOf(c).frame)
    BY NoFrameNotOwn DEF Acked, Done, AckOf, Completion
  <1>5. "TlsPovImage" \in Commands /\ "FdtDown" \in Commands BY DEF Commands
  <1>6. CASE stage = "D2Write"
    <2>1. stage' = "D2Ack" /\ c = "TlsPovImage" /\ armed' = armed
      BY <1>1, <1>6 DEF After, CommandOf, SensorReceives
    <2>2. Clean'
      <3> SUFFICES ASSUME failures = 0 PROVE Clean'
        BY <1>1 DEF Clean
      <3>1. Len(queue) = 0 /\ armed = "none" BY <1>6 DEF DownInv, Clean
      <3> QED BY <1>2, <1>4, <2>1, <3>1 DEF Clean, Acked, Done
    <2>3. DownBeforeKey'
      <3> SUFFICES ASSUME failures =< 1,
                          NEW i \in 1..Len(queue'), NEW j \in 1..Len(queue'), i < j,
                          Done(queue'[i], "TlsPovImage"), Done(queue'[j], "FdtDown")
                   PROVE  FALSE
        BY <1>1 DEF DownBeforeKey, Done
      <3>1. OneKind
        BY <1>1, <1>6, CleanIsOneKind DEF DownInv, OneBehind
      <3>2. j \in 1..Len(queue)
        <4>1. j \in 1..Len(queue) \/ j = Len(queue) + 1 \/ j = Len(queue) + 2
          BY <1>2, <2>1
        <4> QED BY <1>2, <1>4, <2>1, <4>1
      <3>3. i \in 1..Len(queue) BY <1>2, <3>2
      <3> QED BY <1>2, <3>1, <3>2, <3>3 DEF OneKind, NoneOf
    <2> QED
      BY <2>1, <2>2, <2>3
      DEF DownParts, OneBehind, DownIsOwn, TouchIsOwn, ImageIsOwn, FingerDownIsOwn, Exposed,
          Holding
  <1>7. CASE stage # "D2Write"
    <2>1. /\ stage' \notin {"Idle", "D2Write", "D2Ack", "D2Completion", "FingerDownWrite",
                            "Complete"}
          /\ c # "TlsPovImage"
      BY <1>1, <1>7 DEF After, CommandOf, WriteStages
    <2>2. Clean'
      <3> SUFFICES ASSUME failures = 0 PROVE Clean'
        BY <1>1 DEF Clean
      <3>1. NoneOf("TlsPovImage")
        BY <1>1, <1>7 DEF DownInv, Clean, WriteStages
      <3>2. NoneOf("TlsPovImage")' BY <1>1, <1>5, <2>1, <3>1, ReceiveKinds
      <3> QED BY <2>1, <3>2 DEF Clean
    <2>3. DownIsOwn'
      <3>1. CASE stage # "FingerDownWrite"
        <4>1. stage' \notin {"FingerDownWrite", "FingerDownAck", "FingerDownCompletion"}
          BY <1>1, <1>7, <3>1 DEF After, WriteStages
        <4> QED BY <4>1 DEF DownIsOwn
      <3>2. CASE stage = "FingerDownWrite"
        <4> SUFFICES ASSUME failures =< 1, touch # sess PROVE NoneOf("FdtDown")'
          BY <1>1 DEF DownIsOwn
        <4>1. NoneOf("FdtDown") BY <3>2 DEF DownInv, DownIsOwn
        <4>2. c = "FdtDown" BY <3>2 DEF CommandOf
        <4> QED BY <1>1, <1>5, <4>1, <4>2, ReceiveKinds
      <3> QED BY <3>1, <3>2
    <2>4. TouchIsOwn'
      <3>1. stage' \in {"GetImageWrite"} \union Exposed =>
              stage \in {"GetImageWrite"} \union Exposed
        BY <1>1, <1>7 DEF After, WriteStages, Exposed, Holding
      <3> QED BY <1>1, <3>1 DEF DownInv, TouchIsOwn
    <2>5. ImageIsOwn'
      <3>1. CASE stage = "GetImageWrite"
        <4> SUFFICES ASSUME failures =< 1 PROVE ImageIsOwn'
          BY <1>1 DEF ImageIsOwn
        <4>1. /\ ~Own(protected) /\ \A i \in 1..Len(queue) : ~Own(queue[i].frame)
              /\ touch = sess /\ c = "GetImage"
          BY <3>1
          DEF DownInv, DrainInv, UpInv, NothingExposed, BeforeExposure, TouchIsOwn, CommandOf
        <4>2. PICK f \in Exposures : queue'[Len(queue) + 2] = Image(f)
          BY <1>2, <4>1
        <4>3. queue'[Len(queue) + 2].frame.down = sess
          BY <4>1, <4>2 DEF Exposures, Image
        <4>4. ASSUME NEW i \in 1..Len(queue'), Own(queue'[i].frame)
              PROVE  queue'[i].frame.down = sess
          <5>1. i \in 1..Len(queue) \/ i = Len(queue) + 1 \/ i = Len(queue) + 2
            BY <1>2, <4>1
          <5> QED BY <1>2, <1>4, <4>1, <4>3, <4>4, <5>1
        <4> QED BY <1>1, <1>3, <4>1, <4>4 DEF ImageIsOwn
      <3>2. CASE stage = "FingerUpWrite"
        <4> SUFFICES ASSUME failures =< 1 PROVE ImageIsOwn'
          BY <1>1 DEF ImageIsOwn
        <4>1. /\ \A i \in 1..Len(queue) : Own(queue[i].frame) => queue[i].frame.down = sess
              /\ Own(protected) => protected.down = sess
          BY <3>2 DEF DownInv, ImageIsOwn, Exposed, Holding
        <4>2. Len(queue') = Len(queue) + 1 BY <1>2, <3>2 DEF CommandOf
        <4>3. ASSUME NEW i \in 1..Len(queue'), Own(queue'[i].frame)
              PROVE  queue'[i].frame.down = sess
          <5>1. i \in 1..Len(queue) \/ i = Len(queue) + 1 BY <1>2, <4>2
          <5> QED BY <1>2, <1>4, <4>1, <4>3, <5>1
        <4> QED BY <1>1, <1>3, <4>1, <4>3 DEF ImageIsOwn
      <3>3. CASE stage \notin {"GetImageWrite", "FingerUpWrite"}
        <4>1. stage' \notin Exposed
          BY <1>1, <1>7, <3>3 DEF After, WriteStages, Exposed, Holding
        <4> QED BY <4>1 DEF ImageIsOwn
      <3> QED BY <3>1, <3>2, <3>3
    <2> QED
      BY <2>1, <2>2, <2>3, <2>4, <2>5
      DEF DownParts, OneBehind, DownBeforeKey, FingerDownIsOwn
  <1> QED BY <1>6, <1>7

\* A packet is read and the capture goes on.
LEMMA DownRead ==
  ASSUME DownInv, ReadAccepted \/ ReadIgnored \/ (FinishCapture /\ Decrypts(protected))
  PROVE  DownParts'
  <1>1. /\ Read /\ stage \in ReadStages /\ ~Malformed(Head(queue)) /\ TypeOK
        /\ UNCHANGED <<sess, key, failures>> /\ failures \in Nat
        /\ protected' \in {protected, Head(queue).frame}
        /\ \/ Accepts(Head(queue)) /\ stage' = After(stage)
           \/ ~Accepts(Head(queue)) /\ stage' = stage
    BY DEF ReadAccepted, ReadIgnored, FinishCapture, Read, Accepts, Ignores, Rejects,
           engineVars, DownInv, DrainInv, UpInv, IInv, TypeOK, ReadStages, CompletionStages
  <1>2. /\ Len(queue) \in Nat /\ Len(queue) >= 1 /\ Len(queue') = Len(queue) - 1
        /\ Head(queue) = queue[1]
        /\ \A i \in 1..Len(queue') : i + 1 \in 1..Len(queue) /\ queue'[i] = queue[i + 1]
        /\ armed' = armed /\ touch' = touch
    BY <1>1, ReadTakesHead
  <1>3. \A f : Own(f)' <=> Own(f) BY <1>1 DEF Own
  <1>4. "TlsPovImage" \in Commands /\ "FdtDown" \in Commands BY DEF Commands
  <1>5. /\ stage = "D2Ack" => (Accepts(queue[1]) <=> Acked(queue[1], "TlsPovImage"))
        /\ stage = "D2Completion" => (Accepts(queue[1]) <=> Done(queue[1], "TlsPovImage"))
        /\ stage = "FingerDownCompletion" => (Accepts(queue[1]) <=> Done(queue[1], "FdtDown"))
    BY <1>1, <1>2 DEF Accepts, CommandOf, AckStages, Acked, Done
  <1>6. stage' \notin {"Idle", "D2Write"}
    BY <1>1 DEF After, ReadStages, AckStages, CompletionStages
  <1>7. Clean'
    <2> SUFFICES ASSUME failures = 0 PROVE Clean'
      BY <1>1 DEF Clean
    <2>1. CASE stage = "D2Ack"
      <3>1. /\ armed = "none" /\ Len(queue) = 2
            /\ Acked(queue[1], "TlsPovImage") /\ Done(queue[2], "TlsPovImage")
        BY <2>1 DEF DownInv, Clean
      <3>2. stage' = "D2Completion" BY <1>1, <1>2, <1>5, <2>1, <3>1 DEF After
      <3>3. Len(queue') = 1 /\ queue'[1] = queue[2] BY <1>2, <3>1
      <3> QED BY <1>2, <3>1, <3>2, <3>3 DEF Clean, Done
    <2>2. CASE stage = "D2Completion"
      <3>1. armed = "none" /\ Len(queue) = 1 /\ Done(queue[1], "TlsPovImage")
        BY <2>2 DEF DownInv, Clean
      <3>2. stage' = "FingerDownWrite" BY <1>1, <1>2, <1>5, <2>2, <3>1 DEF After
      <3>3. Len(queue') = 0 BY <1>2, <3>1
      <3>4. NoneOf("TlsPovImage")' BY <3>3 DEF NoneOf
      <3> QED BY <1>2, <3>1, <3>2, <3>3, <3>4 DEF Clean
    <2>3. CASE stage \notin {"D2Ack", "D2Completion"}
      <3>1. NoneOf("TlsPovImage") BY <2>3 DEF DownInv, Clean
      <3>2. NoneOf("TlsPovImage")' BY <1>1, <1>4, <3>1, ReadKinds
      <3>3. stage' \notin {"D2Ack", "D2Completion", "FingerDownWrite"}
        BY <1>1, <2>3 DEF After, ReadStages, AckStages, CompletionStages
      <3> QED BY <1>6, <3>2, <3>3 DEF Clean
    <2> QED BY <2>1, <2>2, <2>3
  <1>8. DownBeforeKey'
    <2> SUFFICES ASSUME failures =< 1, stage' \in {"D2Ack", "D2Completion"}, touch # sess,
                        NEW i \in 1..Len(queue'), NEW j \in 1..Len(queue'), i < j,
                        Done(queue'[i], "TlsPovImage")
                 PROVE  ~Done(queue'[j], "FdtDown")
      BY <1>1, <1>2 DEF DownBeforeKey, Done
    <2>1. stage \in {"D2Ack", "D2Completion"}
      BY <1>1 DEF After, ReadStages, AckStages, CompletionStages
    <2>2. i + 1 \in 1..Len(queue) /\ j + 1 \in 1..Len(queue) /\ i + 1 < j + 1
      BY <1>2
    <2> QED BY <1>2, <2>1, <2>2 DEF DownInv, DownBeforeKey
  <1>9. DownIsOwn'
    <2> SUFFICES ASSUME failures =< 1, touch # sess,
                        stage' \in {"FingerDownWrite", "FingerDownAck", "FingerDownCompletion"}
                 PROVE  NoneOf("FdtDown")'
      BY <1>1, <1>2 DEF DownIsOwn
    <2>1. CASE stage = "D2Completion"
      <3>1. Done(queue[1], "TlsPovImage") BY <1>1, <1>2, <1>5, <2>1
      <3>2. ASSUME NEW j \in 1..Len(queue') PROVE ~Done(queue'[j], "FdtDown")
        <4>1. 1 \in 1..Len(queue) /\ j + 1 \in 1..Len(queue) /\ 1 < j + 1
          BY <1>2
        <4> QED BY <1>2, <2>1, <3>1, <4>1 DEF DownInv, DownBeforeKey
      <3> QED BY <3>2 DEF NoneOf, Done
    <2>2. CASE stage \in {"FingerDownAck", "FingerDownCompletion"}
      BY <1>1, <1>4, <2>2, ReadKinds DEF DownInv, DownIsOwn
    <2>3. stage \in {"D2Completion", "FingerDownAck", "FingerDownCompletion"}
      BY <1>1 DEF After, ReadStages, AckStages, CompletionStages
    <2> QED BY <2>1, <2>2, <2>3
  <1>10. TouchIsOwn'
    <2> SUFFICES ASSUME failures =< 1, stage' \in {"GetImageWrite"} \union Exposed
                 PROVE  touch = sess
      BY <1>1, <1>2 DEF TouchIsOwn
    <2>1. CASE stage = "FingerDownCompletion"
      <3>1. Done(queue[1], "FdtDown")
        BY <1>1, <1>2, <1>5, <2>1 DEF Exposed, Holding
      <3>2. 1 \in 1..Len(queue) BY <1>2
      <3> QED BY <2>1, <3>1, <3>2 DEF DownInv, DownIsOwn, NoneOf
    <2>2. CASE stage \in Exposed
      BY <2>2 DEF DownInv, TouchIsOwn
    <2>3. stage = "FingerDownCompletion" \/ stage \in Exposed
      BY <1>1 DEF After, ReadStages, AckStages, CompletionStages, Exposed, Holding
    <2> QED BY <2>1, <2>2, <2>3
  <1>11. ImageIsOwn'
    <2> SUFFICES ASSUME failures =< 1, stage' \in Exposed PROVE ImageIsOwn'
      BY <1>1 DEF ImageIsOwn
    <2>1. stage \in Exposed
      BY <1>1 DEF After, ReadStages, AckStages, CompletionStages, Exposed, Holding
    <2>2. /\ \A i \in 1..Len(queue) : Own(queue[i].frame) => queue[i].frame.down = sess
          /\ Own(protected) => protected.down = sess
      BY <2>1 DEF DownInv, ImageIsOwn
    <2>3. 1 \in 1..Len(queue) BY <1>2
    <2>4. Own(protected') => protected'.down = sess
      BY <1>1, <1>2, <2>2, <2>3
    <2>5. ASSUME NEW i \in 1..Len(queue'), Own(queue'[i].frame)
          PROVE  queue'[i].frame.down = sess
      BY <1>2, <2>2, <2>5
    <2> QED BY <1>1, <1>3, <2>4, <2>5 DEF ImageIsOwn
  <1>12. FingerDownIsOwn'
    <2> SUFFICES ASSUME stage' = "Complete", failures < 2 PROVE result'.down = sess
      BY <1>1 DEF FingerDownIsOwn, FailuresForStaleFinger
    <2>1. stage = "FingerUpCompletion"
      BY <1>1 DEF After, ReadStages, AckStages, CompletionStages
    <2>2. Decrypts(protected) /\ result' = protected
      BY <1>1, <2>1 DEF ReadAccepted, ReadIgnored, FinishCapture, engineVars
    <2>3. Own(protected)
      BY <2>1, <2>2 DEF Decrypts, Own, DownInv, DrainInv, UpInv, Started, IInv, KeysFollowSessions
    <2>4. failures =< 1 BY <1>1
    <2> QED BY <2>1, <2>2, <2>3, <2>4 DEF DownInv, ImageIsOwn, Exposed, Holding
  <1> QED BY <1>6, <1>7, <1>8, <1>9, <1>10, <1>11, <1>12 DEF DownParts, OneBehind

\* A finger event: a finger-down event is of the capture that runs when it arises.
LEMMA DownEvent ==
  ASSUME DownInv, FingerDownEvent \/ FingerUpEvent
  PROVE  DownParts'
  <1> DEFINE c == IF FingerDownEvent THEN "FdtDown" ELSE "FdtUp"
  <1>1. /\ queue' = Append(queue, Completion(c)) /\ c \in Commands /\ c \in {"FdtDown", "FdtUp"}
        /\ armed = (IF c = "FdtDown" THEN "down" ELSE "up") /\ armed' = "none"
        /\ touch' = (IF c = "FdtDown" THEN sess ELSE touch)
        /\ UNCHANGED <<stage, sess, key, protected, result, failures>> /\ TypeOK
    BY DEF FingerDownEvent, FingerUpEvent, engineVars, Commands, DownInv, DrainInv, UpInv, IInv
  <1> HIDE DEF c
  <1>2. /\ Len(queue) \in Nat /\ Len(queue') = Len(queue) + 1
        /\ \A i \in 1..Len(queue) : queue'[i] = queue[i]
        /\ queue'[Len(queue) + 1] = Completion(c)
    BY <1>1, EventAppends
  <1>3. \A f : Own(f)' <=> Own(f) BY <1>1 DEF Own
  <1>4. "TlsPovImage" \in Commands /\ "FdtDown" \in Commands BY DEF Commands
  <1>5. /\ \A i \in 1..Len(queue') : i \in 1..Len(queue) \/ i = Len(queue) + 1
        /\ ~Own(Completion(c).frame)
        /\ c # "FdtDown" => ~Done(Completion(c), "FdtDown")
    BY <1>2, NoFrameNotOwn DEF Completion, Done
  <1>6. NoneOf("TlsPovImage") => NoneOf("TlsPovImage")'
    BY <1>1, <1>4, EventKinds
  <1>7. NoneOf("FdtDown") /\ c # "FdtDown" => NoneOf("FdtDown")'
    BY <1>1, <1>4, EventKinds
  <1>8. Clean' BY <1>1, <1>6 DEF DownInv, Clean
  <1>9. OneBehind' BY <1>1, <1>6, <1>7 DEF DownInv, OneBehind, OneKind
  <1>10. DownBeforeKey'
    <2> SUFFICES ASSUME failures =< 1, stage \in {"D2Ack", "D2Completion"},
                        c # "FdtDown", touch # sess,
                        NEW i \in 1..Len(queue'), NEW j \in 1..Len(queue'), i < j,
                        Done(queue'[i], "TlsPovImage")
                 PROVE  ~Done(queue'[j], "FdtDown")
      BY <1>1 DEF DownBeforeKey, Done
    <2>1. CASE j = Len(queue) + 1 BY <1>2, <1>5, <2>1
    <2>2. CASE j \in 1..Len(queue)
      <3>1. i \in 1..Len(queue) BY <1>2, <2>2
      <3> QED BY <1>2, <2>2, <3>1 DEF DownInv, DownBeforeKey
    <2> QED BY <1>5, <2>1, <2>2
  <1>11. DownIsOwn' BY <1>1, <1>7 DEF DownInv, DownIsOwn
  <1>12. TouchIsOwn' BY <1>1 DEF DownInv, TouchIsOwn
  <1>13. ImageIsOwn'
    <2> SUFFICES ASSUME failures =< 1, stage \in Exposed PROVE ImageIsOwn'
      BY <1>1 DEF ImageIsOwn
    <2>1. /\ \A i \in 1..Len(queue) : Own(queue[i].frame) => queue[i].frame.down = sess
          /\ Own(protected) => protected.down = sess
      BY DEF DownInv, ImageIsOwn
    <2>2. ASSUME NEW i \in 1..Len(queue'), Own(queue'[i].frame)
          PROVE  queue'[i].frame.down = sess
      BY <1>2, <1>5, <2>1, <2>2
    <2> QED BY <1>1, <1>3, <2>1, <2>2 DEF ImageIsOwn
  <1>14. FingerDownIsOwn' BY <1>1 DEF DownInv, FingerDownIsOwn
  <1> QED
    BY <1>8, <1>9, <1>10, <1>11, <1>12, <1>13, <1>14 DEF DownParts

\* The sensor is empty and at rest before the first capture.
LEMMA DownInit == Init => DownInv
  <1> SUFFICES ASSUME Init PROVE DownInv
    OBVIOUS
  <1>1. Len(queue) = 0 BY EmptySeq DEF Init
  <1>2. NoneOf("TlsPovImage") BY <1>1 DEF NoneOf
  <1> QED
    BY <1>1, <1>2, DrainInit
    DEF Init, DownInv, Clean, OneBehind, DownBeforeKey, DownIsOwn, TouchIsOwn, ImageIsOwn,
        FingerDownIsOwn, Exposed, Holding

\* Every step keeps whose the finger-down event is.
LEMMA DownNext == DownInv /\ [Next]_vars => DownInv'
  <1> SUFFICES ASSUME DownInv, [Next]_vars PROVE DownInv'
    OBVIOUS
  <1>1. DrainInv' BY DrainNext DEF DownInv
  <1>2. DownParts' => DownInv' BY <1>1 DEF DownParts, DownInv
  <1>3. CASE StartCapture
    <2>1. /\ stage = "Idle" /\ stage' = "D2Write"
          /\ UNCHANGED <<failures, queue, armed>>
      BY <1>3 DEF StartCapture, sensorVars
    <2>2. Clean' /\ OneBehind'
      BY <2>1 DEF DownInv, Clean, OneBehind, OneKind, NoneOf, Done
    <2> QED BY <1>2, <2>1, <2>2, DownAtRest
  <1>4. CASE WriteFails \/ ReadRejected \/ ReadFails
    BY <1>2, <1>4, DownFails
  <1>5. CASE Write BY <1>2, <1>5, DownWrite
  <1>6. CASE ReadAccepted \/ ReadIgnored BY <1>2, <1>6, DownRead
  <1>7. CASE FinishCapture BY <1>2, <1>7, DownRead, DownFails
  <1>8. CASE Deliver
    <2>1. /\ stage = "Complete" /\ stage' = "Idle" /\ failures' = 0
          /\ UNCHANGED <<queue, armed>>
      BY <1>8 DEF Deliver, sensorVars
    <2>2. Len(queue) = 0 /\ armed = "none" BY <2>1 DEF DownInv, DrainInv, Drained
    <2>3. NoneOf("TlsPovImage")' BY <2>1, <2>2 DEF NoneOf
    <2>4. Clean' /\ OneBehind' BY <2>1, <2>2, <2>3 DEF Clean, OneBehind
    <2> QED BY <1>2, <2>1, <2>4, DownAtRest
  <1>9. CASE FingerDownEvent \/ FingerUpEvent BY <1>2, <1>9, DownEvent
  <1>10. CASE FingerMoves \/ UNCHANGED vars
    BY <1>1, <1>10
    DEF FingerMoves, vars, engineVars, sensorVars, DownInv, Clean, OneBehind, OneKind, NoneOf,
        DownBeforeKey, DownIsOwn, TouchIsOwn, ImageIsOwn, FingerDownIsOwn, Own, Acked, Done
  <1> QED BY <1>3, <1>4, <1>5, <1>6, <1>7, <1>8, <1>9, <1>10 DEF Next, EngineStep

\* Unless two captures before it failed in a row, the exposure that a capture returns
\* follows a finger-down event of its own, for any number of captures and whatever they
\* were broken off at.
THEOREM FingerDownsAreOwn == Spec => []FingerDownIsOwn
  <1>1. DownInv => FingerDownIsOwn BY DEF DownInv
  <1> QED BY <1>1, DownInit, DownNext, PTL DEF Spec

-----------------------------------------------------------------------------
(* The engine implements the contract of one touch. *)

THEOREM ContractInit == Init => Contract!Init
  BY DEF Init, Contract!Init

\* A start is a Begin, a delivery a Yield, every failure an Abort, and all the
\* other steps are invisible to the operation.
THEOREM ContractNext == IInv /\ [Next]_vars => [Contract!Next]_(Contract!vars)
  <1> SUFFICES ASSUME IInv, [Next]_vars PROVE [Contract!Next]_(Contract!vars)
    OBVIOUS
  <1> USE DEF Contract!Next, Contract!vars
  <1>1. CASE StartCapture
    BY <1>1 DEF StartCapture, Contract!Begin
  <1>2. ASSUME stage # "Idle",
               Fail("transfer") \/ Fail("protocol") \/ Fail("image")
        PROVE  Contract!Abort
    BY <1>2 DEF Fail, Contract!Abort
  <1>3. CASE Deliver
    <2>1. stage = "Complete" /\ stage' = "Idle" /\ outcome' = "delivered"
          /\ UNCHANGED <<sess, result>>
      BY <1>3 DEF Deliver
    <2>2. result.sess = sess
      BY <2>1 DEF IInv, TypeOK, KeysFollowSessions, Aged, ResultOwned, Frame
    <2> QED BY <2>1, <2>2 DEF Contract!Yield
  <1>4. ASSUME stage # "Idle", stage' # "Idle", UNCHANGED <<sess, outcome>>
        PROVE  UNCHANGED Contract!vars
    BY <1>4 DEF IInv, Unreported
  <1>5. CASE Write \/ ReadAccepted
    <2>1. stage # "Idle" /\ stage' # "Idle" /\ UNCHANGED <<sess, outcome>>
      BY <1>5
      DEF Write, ReadAccepted, Read, After, WriteStages, ReadStages, AckStages, CompletionStages
    <2> QED BY <1>4, <2>1
  <1>6. CASE WriteFails \/ ReadRejected \/ ReadFails
    BY <1>2, <1>6
    DEF WriteFails, ReadRejected, ReadFails, Read, WriteStages, ReadStages, AckStages,
        CompletionStages
  <1>7. CASE FinishCapture
    <2>1. stage = "FingerUpCompletion" BY <1>7 DEF FinishCapture
    <2>2. CASE Decrypts(protected)
      BY <1>4, <1>7, <2>1, <2>2 DEF FinishCapture, After
    <2>3. CASE ~Decrypts(protected)
      BY <1>2, <1>7, <2>1, <2>3 DEF FinishCapture
    <2> QED BY <2>2, <2>3
  <1>8. CASE ReadIgnored \/ FingerDownEvent \/ FingerUpEvent \/ FingerMoves \/ UNCHANGED vars
    BY <1>8 DEF ReadIgnored, FingerDownEvent, FingerUpEvent, FingerMoves, vars, engineVars
  <1> QED BY <1>1, <1>3, <1>5, <1>6, <1>7, <1>8 DEF Next, EngineStep

\* Whatever a user of the engine sees is a behaviour of the contract.
THEOREM ImplementsTouch == Spec => Contract!Spec
  BY ContractInit, ContractNext, Invariance, PTL DEF Spec, Contract!Spec
-----------------------------------------------------------------------------

(* A capture comes to its end, whatever it finds in the endpoint: the part of the *)
(* contract's liveness that is no matter of fairness.                             *)

\* The transfers that the stages of a capture still ask for.
CommandsLeft(s) == CASE CommandOf(s) = "TlsPovImage" -> 3
                     [] CommandOf(s) = "FdtDown"     -> 2
                     [] CommandOf(s) = "GetImage"    -> 1
                     [] OTHER                        -> 0
RoundLeft(s) == CASE s \in WriteStages      -> 3
                  [] s \in AckStages        -> 2
                  [] s \in CompletionStages -> 1
                  [] OTHER                  -> 0
TransfersLeft == 3 * CommandsLeft(stage) + RoundLeft(stage)

\* A command adds two packets at most, at once or when the finger moves; and so it
\* weighs three.
Waiting == IF armed = "none" THEN 0 ELSE 1
Patience == 3 * TransfersLeft + Len(queue) + Waiting

\* Every step of a capture ends it or takes from its patience, and neither the sensor
\* nor the finger gives any back.
PatienceFalls ==
  [][stage # "Idle" /\ stage' # "Idle" => /\ Patience' =< Patience
                                          /\ EngineStep => Patience' < Patience]_vars

\* A capture has twelve transfers before it and no more.
LEMMA LeftType == TypeOK => TransfersLeft \in 0..12 /\ Len(queue) \in Nat /\ Waiting \in {0, 1}
  <1> SUFFICES ASSUME TypeOK
               PROVE  TransfersLeft \in 0..12 /\ Len(queue) \in Nat /\ Waiting \in {0, 1}
    OBVIOUS
  <1>1. CommandsLeft(stage) \in 0..3 /\ RoundLeft(stage) \in 0..3
    BY DEF CommandsLeft, RoundLeft
  <1>2. queue \in Seq(Packet) BY DEF TypeOK
  <1> QED BY <1>1, <1>2, LenProperties DEF TransfersLeft, Waiting

\* Each stage has one transfer less before it than the one it follows.
LEMMA StageFalls ==
  ASSUME stage \in WriteStages \union ReadStages, stage' = After(stage)
  PROVE  TransfersLeft' = TransfersLeft - 1
  <1> DEFINE L(s) == 3 * CommandsLeft(s) + RoundLeft(s)
  <1>1. /\ L("D2Write") = 12 /\ L("D2Ack") = 11 /\ L("D2Completion") = 10
        /\ L("FingerDownWrite") = 9 /\ L("FingerDownAck") = 8 /\ L("FingerDownCompletion") = 7
        /\ L("GetImageWrite") = 6 /\ L("GetImageAck") = 5 /\ L("GetImageCompletion") = 4
        /\ L("FingerUpWrite") = 3 /\ L("FingerUpAck") = 2 /\ L("FingerUpCompletion") = 1
        /\ L("Complete") = 0
    BY DEF CommandsLeft, RoundLeft, CommandOf, WriteStages, AckStages, CompletionStages
  <1> HIDE DEF L
  <1>2. TransfersLeft = L(stage) /\ TransfersLeft' = L(stage')
    BY DEF TransfersLeft, L
  <1>3. L(After(stage)) = L(stage) - 1
    BY <1>1 DEF After, WriteStages, ReadStages, AckStages, CompletionStages
  <1> QED BY <1>2, <1>3

\* A command adds an acknowledgement, and an answer or the wait for one.
LEMMA ReceiveAdds ==
  ASSUME TypeOK, NEW c \in Commands, SensorReceives(c)
  PROVE  Len(queue') + Waiting' =< Len(queue) + Waiting + 2 /\ Len(queue') \in Nat
  <1> DEFINE acked == Append(queue, AckOf(c))
  <1>1. queue \in Seq(Packet) /\ Len(queue) \in Nat BY LenProperties DEF TypeOK
  <1>2. AckOf(c) \in Packet BY PacketType, NoFrameType
  <1>3. acked \in Seq(Packet) /\ Len(acked) = Len(queue) + 1
    BY <1>1, <1>2, AppendProperties
  <1> HIDE DEF acked
  <1>4. ASSUME NEW p \in Packet, queue' = Append(acked, p)
        PROVE  Len(queue') = Len(queue) + 2
    <2>1. Len(Append(acked, p)) = Len(acked) + 1 BY <1>3, AppendProperties
    <2> QED BY <1>1, <1>3, <1>4, <2>1
  <1>5. Waiting \in {0, 1} /\ Waiting' \in {0, 1} BY DEF Waiting
  <1>6. CASE c = "TlsPovImage"
    <2>1. Completion(c) \in Packet BY PacketType, NoFrameType
    <2>2. queue' = Append(acked, Completion(c)) /\ armed' = armed
      BY <1>6 DEF SensorReceives, Answers, acked
    <2>3. Waiting' = Waiting BY <2>2 DEF Waiting
    <2> QED BY <1>1, <1>4, <1>5, <2>1, <2>2, <2>3
  <1>7. CASE c = "GetImage"
    <2>1. PICK f \in Exposures : queue' = Append(acked, Image(f))
      BY <1>7 DEF SensorReceives, Answers, acked
    <2>2. Image(f) \in Packet BY ExposureType, PacketType
    <2>3. armed' = armed BY <1>7 DEF SensorReceives
    <2>4. Waiting' = Waiting BY <2>3 DEF Waiting
    <2> QED BY <1>1, <1>4, <1>5, <2>1, <2>2, <2>4
  <1>8. CASE c \notin {"TlsPovImage", "GetImage"}
    <2>1. queue' = acked BY <1>8 DEF SensorReceives, Answers, acked
    <2> QED BY <1>1, <1>3, <1>5, <2>1
  <1> QED BY <1>6, <1>7, <1>8

\* A read that cuts no image short takes one packet.
LEMMA ReadTakesOne ==
  ASSUME TypeOK, Read, ~Malformed(Head(queue))
  PROVE  /\ Len(queue') + 1 = Len(queue) /\ Len(queue') \in Nat
         /\ Waiting' = Waiting /\ Waiting \in {0, 1}
  <1>1. queue \in Seq(Packet) /\ queue # <<>> /\ queue' = Tail(queue) /\ armed' = armed
    BY DEF TypeOK, Read, Malformed
  <1>2. Tail(queue) \in Seq(Packet) /\ Len(Tail(queue)) = Len(queue) - 1
    BY <1>1, HeadTailProperties
  <1>3. Len(queue) \in Nat /\ Len(queue') \in Nat BY <1>1, <1>2, LenProperties
  <1> QED BY <1>1, <1>2, <1>3 DEF Waiting

\* The event of an armed detection is the packet it was waiting for.
LEMMA EventTaken ==
  ASSUME TypeOK, NEW c \in Commands, armed # "none", armed' = "none",
         queue' = Append(queue, Completion(c))
  PROVE  Len(queue') + Waiting' = Len(queue) + Waiting
  <1>1. queue \in Seq(Packet) /\ Len(queue) \in Nat BY LenProperties DEF TypeOK
  <1>2. Completion(c) \in Packet BY PacketType, NoFrameType
  <1>3. Len(queue') = Len(queue) + 1 BY <1>1, <1>2, AppendProperties
  <1> QED BY <1>1, <1>3 DEF Waiting

\* What a capture that goes on does takes from its patience.
LEMMA PatienceStep ==
  TypeOK /\ [Next]_vars /\ stage # "Idle" /\ stage' # "Idle"
    => Patience' =< Patience /\ (EngineStep => Patience' < Patience)
  <1> SUFFICES ASSUME TypeOK, [Next]_vars, stage # "Idle", stage' # "Idle"
               PROVE  Patience' =< Patience /\ (EngineStep => Patience' < Patience)
    OBVIOUS
  <1>1. TransfersLeft \in 0..12 /\ Len(queue) \in Nat /\ Waiting \in {0, 1}
    BY LeftType
  <1>2. Waiting' \in {0, 1} BY DEF Waiting
  <1>3. /\ Patience = 3 * TransfersLeft + Len(queue) + Waiting
        /\ Patience' = 3 * TransfersLeft' + Len(queue') + Waiting'
    BY DEF Patience
  <1>4. WriteStages \subseteq Stages /\ ReadStages \subseteq Stages
    BY DEF Stages
  <1>5. CASE Write
    <2>1. stage \in WriteStages /\ stage' = After(stage) /\ SensorReceives(CommandOf(stage))
      BY <1>5 DEF Write
    <2>2. Len(queue') + Waiting' =< Len(queue) + Waiting + 2 /\ Len(queue') \in Nat
      BY <2>1, CommandType, ReceiveAdds
    <2>3. TransfersLeft' = TransfersLeft - 1 BY <2>1, StageFalls
    <2> QED BY <1>1, <1>2, <1>3, <2>2, <2>3
  <1>6. CASE ReadAccepted \/ (FinishCapture /\ Decrypts(protected))
    <2>1. Read /\ stage \in ReadStages /\ Accepts(Head(queue)) /\ stage' = After(stage)
      BY <1>6 DEF ReadAccepted, FinishCapture, Read
    <2>2. /\ Len(queue') + 1 = Len(queue) /\ Len(queue') \in Nat /\ Waiting' = Waiting
      BY <2>1, ReadTakesOne DEF Accepts
    <2>3. TransfersLeft' = TransfersLeft - 1 BY <2>1, StageFalls
    <2> QED BY <1>1, <1>2, <1>3, <2>2, <2>3
  <1>7. CASE ReadIgnored
    <2>1. Read /\ ~Malformed(Head(queue)) /\ stage' = stage
      BY <1>7 DEF ReadIgnored, Ignores, Rejects, engineVars
    <2>2. /\ Len(queue') + 1 = Len(queue) /\ Len(queue') \in Nat /\ Waiting' = Waiting
      BY <2>1, ReadTakesOne
    <2>3. TransfersLeft' = TransfersLeft BY <2>1 DEF TransfersLeft
    <2> QED BY <1>1, <1>2, <1>3, <2>2, <2>3
  <1>8. EngineStep => Write \/ ReadAccepted \/ ReadIgnored
                      \/ (FinishCapture /\ Decrypts(protected))
    BY DEF EngineStep, WriteFails, ReadRejected, ReadFails, FinishCapture, Deliver, Fail
  <1>9. CASE EngineStep BY <1>5, <1>6, <1>7, <1>8, <1>9
  <1>10. CASE ~EngineStep
    <2>1. stage' = stage
      BY <1>10 DEF Next, StartCapture, FingerDownEvent, FingerUpEvent, FingerMoves, vars,
                   engineVars
    <2>2. TransfersLeft' = TransfersLeft BY <2>1 DEF TransfersLeft
    <2>3. Len(queue') + Waiting' = Len(queue) + Waiting
      <3>1. CASE FingerDownEvent \/ FingerUpEvent
        <4>1. "FdtDown" \in Commands /\ "FdtUp" \in Commands BY DEF Commands
        <4> QED BY <3>1, <4>1, EventTaken DEF FingerDownEvent, FingerUpEvent
      <3>2. CASE FingerMoves \/ StartCapture \/ UNCHANGED vars
        BY <3>2 DEF FingerMoves, StartCapture, vars, sensorVars, Waiting
      <3> QED BY <1>10, <3>1, <3>2 DEF Next
    <2>4. Len(queue') \in Nat
      <3>1. queue' = queue \/ \E c \in Commands : queue' = Append(queue, Completion(c))
        BY <1>10 DEF Next, StartCapture, FingerDownEvent, FingerUpEvent, FingerMoves, vars,
                     sensorVars, Commands
      <3>2. ASSUME NEW c \in Commands, queue' = Append(queue, Completion(c))
            PROVE  Len(queue') \in Nat
        BY <3>2, PacketType, NoFrameType, AppendProperties, LenProperties DEF TypeOK
      <3> QED BY <1>1, <3>1, <3>2
    <2> QED BY <1>1, <1>2, <1>3, <1>10, <2>2, <2>3, <2>4
  <1> QED BY <1>9, <1>10

\* Whatever earlier captures left in the endpoint and whenever the finger moves, a
\* capture asks for twelve transfers of its own (complete_transfer) and one more for
\* each packet it passes over, and those are finitely many: nothing it reads makes the
\* sensor send more.
THEOREM CapturesAreBounded == Spec => PatienceFalls /\ [](TransfersLeft \in 0..12)
  <1> DEFINE Falls == stage # "Idle" /\ stage' # "Idle"
                        => /\ Patience' =< Patience
                           /\ EngineStep => Patience' < Patience
  <1>1. TypeOK /\ [Next]_vars => [Falls]_vars BY PatienceStep
  <1>2. Spec => [][Falls]_vars BY <1>1, TypeCorrect, PTL DEF Spec
  <1>3. TypeOK => TransfersLeft \in 0..12 BY LeftType
  <1> QED BY <1>2, <1>3, TypeCorrect, PTL DEF PatienceFalls
=============
