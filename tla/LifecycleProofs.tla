---------------------------- MODULE LifecycleProofs ----------------------------
(***************************************************************************)
(* Lifecycle's invariant for every stream, ring and choice of options:     *)
(* promises are set once, the delay is honoured, and the frame period is   *)
(* measured right and settled before it is read.                           *)
(***************************************************************************)
EXTENDS Lifecycle, CommonLemmas, TLAPS

Stamp == 0 .. TimestampModulus - 1
Packet == 0 .. StreamLength

LEMMA Positive ==
    /\ BufferLength \in Nat \ {0}
    /\ TimestampModulus \in Nat \ {0}
    /\ Period \in Nat
    /\ StreamLength \in Nat
BY FramesAssumption DEF StreamLength

(* A remainder is a timestamp. *)
LEMMA StampOf ==
    ASSUME NEW x \in Int
    PROVE  x % TimestampModulus \in Stamp
BY Positive DEF Stamp

LEMMA TimestampType ==
    ASSUME NEW k \in Packet
    PROVE  timestamp(k) \in Stamp
<1> DEFINE n == (k - 1) \div 2
<1>1. n \in Int
  BY Positive DEF Packet
<1> HIDE DEF n
<1>2. n * Period \in Int
  BY <1>1, Positive
<1>3. FirstTimestamp + n * Period \in Int
  BY <1>2, TimestampAssumption, Positive
<1>4. (FirstTimestamp + n * Period) % TimestampModulus \in Stamp
  BY <1>3, StampOf
<1> QED  BY <1>4 DEF timestamp, n

(* What the ring holds stays a bounded sequence of packets. *)
LEMMA PutType ==
    ASSUME ring \in Seq(Packet), Len(ring) <= BufferLength,
           NEW k \in Packet, Put(k)
    PROVE  ring' \in Seq(Packet) /\ Len(ring') <= BufferLength
<1>1. CASE Len(ring) = BufferLength
  <2>1. ring # <<>> /\ Tail(ring) \in Seq(Packet) /\ Len(Tail(ring)) = Len(ring) - 1
    BY <1>1, Positive
  <2>2. ring' = Append(Tail(ring), k)
    BY <1>1 DEF Put
  <2> QED  BY <1>1, <2>1, <2>2, Positive
<1>2. CASE Len(ring) # BufferLength
  BY <1>2, Positive DEF Put
<1> QED  BY <1>1, <1>2

LEMMA PopType ==
    ASSUME ring \in Seq(Packet), Len(ring) <= BufferLength, NEW k, Pop(k)
    PROVE  ring' \in Seq(Packet) /\ Len(ring') <= BufferLength
<1>1. Tail(ring) \in Seq(Packet) /\ Len(Tail(ring)) = Len(ring) - 1
  BY DEF Pop
<1> QED  BY <1>1, Positive DEF Pop

--------------------------------------------------------------------------------
(* Type correctness. *)

LEMMA InitType == Init => TypeOK
<1> SUFFICES ASSUME Init  PROVE TypeOK
  OBVIOUS
<1>1. NetworkTypeOK
  <2>0. next = 1 /\ losses = MaxLoss /\ missed = FALSE /\ ring = <<>>
    BY DEF Init
  <2>1. next \in 1 .. StreamLength + 1
    BY <2>0, Positive
  <2>2. losses \in 0 .. MaxLoss
    BY <2>0, MaxLossAssumption
  <2>3. ring \in Seq(0 .. StreamLength) /\ Len(ring) = 0
    BY <2>0
  <2>4. Len(ring) <= BufferLength
    BY <2>3, Positive
  <2> QED  BY <2>0, <2>1, <2>2, <2>3, <2>4 DEF NetworkTypeOK
<1>2. ReceiveTypeOK
  <2>1. last_packet \in 0 .. StreamLength
    BY Positive DEF Init, Terminator
  <2>2. pre_timestamp \in 0 .. TimestampModulus - 1
    BY Positive DEF Init
  <2> QED  BY <2>1, <2>2 DEF Init, ReceiveTypeOK
<1>3. SharedTypeOK
  <2>1. img_inc \in 0 .. TimestampModulus - 1
    BY Positive DEF Init
  <2>2. frame_delay \in Int
    BY OptionsAssumption DEF Init
  <2> QED  BY <2>1, <2>2 DEF Init, SharedTypeOK, Promise
<1>4. ThreadsTypeOK
  BY DEF Init, ThreadsTypeOK
<1> QED  BY <1>1, <1>2, <1>3, <1>4 DEF TypeOK

(* A step that leaves the variables of a part alone leaves its type alone. *)
LEMMA NetworkKept ==
    NetworkTypeOK /\ UNCHANGED <<networkVars, ring>> => NetworkTypeOK'
BY DEF NetworkTypeOK, networkVars

LEMMA ReceiveKept ==
    ReceiveTypeOK /\ UNCHANGED <<sig_flag, receiveVars>> => ReceiveTypeOK'
BY DEF ReceiveTypeOK, receiveVars

LEMMA SharedKept ==
    SharedTypeOK /\ UNCHANGED <<periodVars, delayVars, analysis_stoper>> => SharedTypeOK'
BY DEF SharedTypeOK, periodVars, delayVars

LEMMA ThreadsKept ==
    ThreadsTypeOK /\ UNCHANGED <<analysisVars, mpc>> => ThreadsTypeOK'
BY DEF ThreadsTypeOK, analysisVars

(* A change of the ring alone. *)
LEMMA RingKept ==
    ASSUME NetworkTypeOK, UNCHANGED networkVars,
           \/ UNCHANGED ring
           \/ \E k \in Packet : Put(k)
           \/ \E k \in Packet : Pop(k)
    PROVE  NetworkTypeOK'
<1>1. ring' \in Seq(Packet) /\ Len(ring') <= BufferLength
  BY PutType, PopType DEF NetworkTypeOK, Packet
<1> QED  BY <1>1 DEF NetworkTypeOK, networkVars, Packet

LEMMA TerminatorType == Terminator \in Packet
BY Positive DEF Terminator, Packet

LEMMA LookType == TypeOK /\ LookAtPacket => TypeOK'
<1> SUFFICES ASSUME TypeOK, LookAtPacket  PROVE TypeOK'
  OBVIOUS
<1>1. timestamp(last_packet) \in Stamp
  BY TimestampType DEF TypeOK, ReceiveTypeOK, Packet
<1>2. pre_timestamp' \in Stamp /\ headers' \in Nat
  BY <1>1 DEF TypeOK, ReceiveTypeOK, LookAtPacket, Stamp
<1>3. /\ is_img_init' \in BOOLEAN
      /\ SharedTypeOK'
  <2>0. UNCHANGED analysis_stoper
    BY DEF LookAtPacket
  <2>1. CASE UNCHANGED <<is_img_init, periodVars, delayVars>>
    BY <2>0, <2>1, SharedKept DEF TypeOK, ReceiveTypeOK
  <2>2. CASE /\ img_inc' = TimestampDifference(timestamp(last_packet))
             /\ first_mhd_prm' = Set(first_mhd_prm)
             /\ is_img_init' = TRUE
             /\ UNCHANGED delayVars
    <3>1. timestamp(last_packet) - pre_timestamp \in Int
      BY <1>1, Positive DEF TypeOK, ReceiveTypeOK, Stamp
    <3>2. img_inc' \in Stamp
      BY <2>2, <3>1, StampOf DEF TimestampDifference
    <3> QED
      BY <2>0, <2>2, <3>2 DEF TypeOK, SharedTypeOK, Promise, Set, delayVars, Stamp
  <2>3. CASE /\ frame_delay' = frame_delay - 1
             /\ frame_delay_prm' = DelayOver
             /\ UNCHANGED <<is_img_init, periodVars>>
    BY <2>0, <2>3
    DEF TypeOK, ReceiveTypeOK, SharedTypeOK, DelayOver, Promise, Set, periodVars
  <2> QED  BY <2>1, <2>2, <2>3 DEF LookAtPacket, LookAtTimestamp
<1>4. ReceiveTypeOK'
  BY <1>2, <1>3 DEF TypeOK, ReceiveTypeOK, LookAtPacket, Stamp
<1> QED  BY <1>3, <1>4, NetworkKept, ThreadsKept DEF TypeOK, LookAtPacket

LEMMA ReceivePacketType ==
    ASSUME TypeOK, NEW k \in 1 .. StreamLength, Receive(k)
    PROVE  TypeOK'
<1>1. k \in Packet
  BY Positive DEF Packet
<1>2. ring' \in Seq(Packet) /\ Len(ring') <= BufferLength
  BY <1>1, PutType DEF TypeOK, NetworkTypeOK, Receive, Packet
<1>3. /\ next' \in 1 .. StreamLength + 1
      /\ losses' \in 0 .. MaxLoss
      /\ missed' \in BOOLEAN
  BY Positive, MaxLossAssumption DEF TypeOK, NetworkTypeOK, Receive
<1>4. NetworkTypeOK'
  BY <1>2, <1>3 DEF NetworkTypeOK, Packet
<1>5. ReceiveTypeOK'
  BY <1>1 DEF TypeOK, ReceiveTypeOK, Receive, Packet
<1> QED  BY <1>4, <1>5, SharedKept, ThreadsKept DEF TypeOK, Receive

LEMMA LoadBodyType ==
    ASSUME ThreadsTypeOK, LoadBody
    PROVE  ThreadsTypeOK'
<1>1. PICK k \in Packet :
         \/ AnalysisStep("load", "done") /\ UNCHANGED analysis_frame
         \/ \E to \in {"load", "loop"} :
               AnalysisStep("load", to) /\ UNCHANGED analysis_frame
         \/ AnalysisStep("load", "update") /\ analysis_frame' = analysis_frame + 1
  BY DEF LoadBody, Packet
<1>2. analysis_frame \in Nat
  BY DEF ThreadsTypeOK
<1>3. analysis_frame' \in Nat
  <2>1. analysis_frame' = analysis_frame \/ analysis_frame' = analysis_frame + 1
    BY <1>1
  <2> QED  BY <1>2, <2>1
<1>4. apc' \in {"load", "loop", "update", "done"} /\ UNCHANGED mpc
  BY <1>1 DEF AnalysisStep
<1> QED  BY <1>3, <1>4 DEF ThreadsTypeOK

LEMMA StepType == TypeOK /\ [Next]_vars => TypeOK'
<1> SUFFICES ASSUME TypeOK, [Next]_vars  PROVE TypeOK'
  OBVIOUS
<1> USE DEF TypeOK
<1>1. CASE UnblockSignal
  <2>1. ReceiveTypeOK'
    BY <1>1 DEF UnblockSignal, ReceiveTypeOK
  <2> QED
    BY <1>1, <2>1, NetworkKept, SharedKept, ThreadsKept DEF UnblockSignal
<1>2. CASE ReadSigFlag
  <2>1. ReceiveTypeOK'
    BY <1>2 DEF ReadSigFlag, ReceiveTypeOK
  <2> QED
    BY <1>2, <2>1, NetworkKept, SharedKept, ThreadsKept DEF ReadSigFlag
<1>3. CASE \E k \in 1 .. StreamLength : Receive(k)
  BY <1>3, ReceivePacketType
<1>4. CASE ReceiveEnd
  <2>1. NetworkTypeOK'
    BY <1>4, RingKept, TerminatorType DEF ReceiveEnd
  <2>2. ReceiveTypeOK'
    BY <1>4 DEF ReceiveEnd, ReceiveTypeOK
  <2> QED
    BY <1>4, <2>1, <2>2, SharedKept, ThreadsKept DEF ReceiveEnd
<1>5. CASE Signal
  <2>1. NetworkTypeOK'
    BY <1>5, RingKept, TerminatorType DEF Signal
  <2>2. ReceiveTypeOK'
    BY <1>5 DEF Signal, ReceiveTypeOK
  <2> QED
    BY <1>5, <2>1, <2>2, SharedKept, ThreadsKept DEF Signal
<1>6. CASE LookAtPacket
  BY <1>6, LookType
<1>7. CASE GiveUpPeriod
  <2>1. ReceiveTypeOK'
    BY <1>7 DEF GiveUpPeriod, ReceiveTypeOK
  <2>2. SharedTypeOK'
    BY <1>7 DEF GiveUpPeriod, PeriodAtEnd, Promise, Set, periodVars, delayVars, SharedTypeOK
  <2> QED
    BY <1>7, <2>1, <2>2, NetworkKept, ThreadsKept DEF GiveUpPeriod
<1>8. CASE PushTerminator
  <2>1. NetworkTypeOK'
    BY <1>8, RingKept, TerminatorType DEF PushTerminator
  <2>2. ReceiveTypeOK'
    BY <1>8 DEF PushTerminator, ReceiveTypeOK
  <2> QED
    BY <1>8, <2>1, <2>2, SharedKept, ThreadsKept DEF PushTerminator
<1>9. CASE PassEnter
  <2>1. ThreadsTypeOK'
    BY <1>9 DEF PassEnter, AnalysisStep, ThreadsTypeOK
  <2> QED
    BY <1>9, <2>1, NetworkKept, ReceiveKept, SharedKept DEF PassEnter, AnalysisStep
<1>10. CASE PassDelay
  <2>1. ThreadsTypeOK'
    BY <1>10 DEF PassDelay, AnalysisStep, ThreadsTypeOK
  <2> QED
    BY <1>10, <2>1, NetworkKept, ReceiveKept, SharedKept DEF PassDelay, AnalysisStep
<1>11. CASE LoadMainHeader
  <2>1. NetworkTypeOK'
    BY <1>11, RingKept DEF LoadMainHeader, AnalysisStep, Packet
  <2>2. ThreadsTypeOK'
    BY <1>11 DEF LoadMainHeader, AnalysisStep, ThreadsTypeOK
  <2> QED
    BY <1>11, <2>1, <2>2, ReceiveKept, SharedKept DEF LoadMainHeader, AnalysisStep
<1>12. CASE BodyLoop
  <2>1. ThreadsTypeOK'
    BY <1>12 DEF BodyLoop, AnalysisStep, ThreadsTypeOK
  <2> QED
    BY <1>12, <2>1, NetworkKept, ReceiveKept, SharedKept DEF BodyLoop, AnalysisStep
<1>13. CASE LoadBody
  <2>1. NetworkTypeOK'
    BY <1>13, RingKept DEF LoadBody, AnalysisStep, Packet
  <2>2. ThreadsTypeOK'
    BY <1>13, LoadBodyType
  <2> QED
    BY <1>13, <2>1, <2>2, ReceiveKept, SharedKept DEF LoadBody, AnalysisStep
<1>14. CASE WaitFirstHeader
  <2>1. ThreadsTypeOK'
    BY <1>14 DEF WaitFirstHeader, AnalysisStep, ThreadsTypeOK
  <2> QED
    BY <1>14, <2>1, NetworkKept, ReceiveKept, SharedKept DEF WaitFirstHeader, AnalysisStep
<1>15. CASE Pace
  <2>1. ThreadsTypeOK'
    BY <1>15 DEF Pace, AnalysisStep, ThreadsTypeOK
  <2> QED
    BY <1>15, <2>1, NetworkKept, ReceiveKept, SharedKept DEF Pace, AnalysisStep
<1>16. CASE PressEnterToStart
  <2>1. SharedTypeOK'
    BY <1>16, OptionsAssumption DEF PressEnterToStart, MainStep, periodVars, delayVars, SharedTypeOK
  <2>2. ThreadsTypeOK'
    BY <1>16 DEF PressEnterToStart, MainStep, analysisVars, ThreadsTypeOK
  <2> QED
    BY <1>16, <2>1, <2>2, NetworkKept, ReceiveKept DEF PressEnterToStart, MainStep, delayVars
<1>17. CASE PressEnterToEndDelay
  <2>1. SharedTypeOK'
    BY <1>17 DEF PressEnterToEndDelay, MainStep, Promise, Set, periodVars, delayVars, SharedTypeOK
  <2>2. ThreadsTypeOK'
    BY <1>17 DEF PressEnterToEndDelay, MainStep, analysisVars, ThreadsTypeOK
  <2> QED
    BY <1>17, <2>1, <2>2, NetworkKept, ReceiveKept DEF PressEnterToEndDelay, MainStep
<1>18. CASE JoinAnalysis
  <2>1. ThreadsTypeOK'
    BY <1>18 DEF JoinAnalysis, MainStep, analysisVars, ThreadsTypeOK
  <2> QED
    BY <1>18, <2>1, NetworkKept, ReceiveKept, SharedKept DEF JoinAnalysis, MainStep, delayVars
<1>19. CASE JoinReceive
  <2>1. ThreadsTypeOK'
    BY <1>19 DEF JoinReceive, MainStep, analysisVars, ThreadsTypeOK
  <2> QED
    BY <1>19, <2>1, NetworkKept, ReceiveKept, SharedKept DEF JoinReceive, MainStep, delayVars
<1>20. CASE UNCHANGED vars
  BY <1>20, NetworkKept, ReceiveKept, SharedKept, ThreadsKept DEF vars
<1> QED
  BY <1>1, <1>2, <1>3, <1>4, <1>5, <1>6, <1>7, <1>8, <1>9, <1>10, <1>11,
     <1>12, <1>13, <1>14, <1>15, <1>16, <1>17, <1>18, <1>19, <1>20
  DEF Next, ReceiveThread, Network, AnalysisThread, Main

(* Every variable of the three threads keeps its type, whatever the options. *)
THEOREM LifecycleTypeCorrect == Spec => []TypeOK
<1>1. Init => TypeOK
  BY InitType
<1>2. TypeOK /\ [Next]_vars => TypeOK'
  BY StepType
<1> QED  BY <1>1, <1>2, PTL DEF Spec

--------------------------------------------------------------------------------
(* What the steps of each thread leave alone. *)

LEMMA AnalysisKeeps ==
    AnalysisThread =>
        UNCHANGED <<networkVars, sig_flag, receiveVars, periodVars, delayVars,
                    analysis_stoper, mpc>>
BY DEF AnalysisThread, PassEnter, PassDelay, LoadMainHeader, BodyLoop, LoadBody,
       WaitFirstHeader, Pace, AnalysisStep

LEMMA MainKeeps ==
    Main =>
        UNCHANGED <<networkVars, ring, sig_flag, receiveVars, periodVars, frame_delay,
                    analysisVars>>
BY DEF Main, PressEnterToStart, PressEnterToEndDelay, JoinAnalysis, JoinReceive, MainStep

LEMMA ReceiveKeeps ==
    ReceiveThread \/ Network \/ Signal =>
        UNCHANGED <<analysis_stoper, analysisVars, mpc>>
BY DEF ReceiveThread, Network, UnblockSignal, ReadSigFlag, LookAtPacket, GiveUpPeriod,
       PushTerminator, ReceiveEnd, Receive, Signal

(* The steps of the receive thread that decide nothing. *)
PlainReceive == UnblockSignal \/ ReadSigFlag \/ Network \/ Signal \/ PushTerminator

LEMMA PlainReceiveKeeps ==
    PlainReceive =>
        /\ UNCHANGED <<is_img_init, pre_timestamp, headers, periodVars, delayVars>>
        /\ rpc' \in {"push", "done"} <=> rpc \in {"push", "done"}
<1> DEFINE Kept ==
       /\ UNCHANGED <<is_img_init, pre_timestamp, headers, periodVars, delayVars>>
       /\ rpc' \in {"push", "done"} <=> rpc \in {"push", "done"}
<1>1. UnblockSignal => Kept
  BY DEF UnblockSignal
<1>2. ReadSigFlag => Kept
  BY DEF ReadSigFlag
<1>3. Network => Kept
  BY DEF Network, ReceiveEnd, Receive
<1>4. Signal => Kept
  BY DEF Signal
<1>5. PushTerminator => Kept
  BY DEF PushTerminator
<1> QED  BY <1>1, <1>2, <1>3, <1>4, <1>5 DEF PlainReceive

(* Every step is one of these. *)
LEMMA Steps ==
    [Next]_vars =>
        \/ PlainReceive \/ LookAtPacket \/ GiveUpPeriod
        \/ AnalysisThread \/ Main \/ UNCHANGED vars
BY DEF Next, ReceiveThread, PlainReceive

(* The look at a packet: what it does to the promises and the delay.         *)
LEMMA LookCases ==
    ASSUME LookAtPacket
    PROVE  /\ rpc = "look" /\ rpc' = "loop"
           /\ \/ /\ UNCHANGED <<is_img_init, periodVars, delayVars, pre_timestamp, headers>>
              \/ /\ headers' = headers + 1
                 /\ UNCHANGED <<is_img_init, periodVars, delayVars>>
              \/ /\ headers' = headers + 1
                 /\ ~is_img_init
                 /\ is_img_init' = TRUE
                 /\ first_mhd_prm' = Set(first_mhd_prm)
                 /\ UNCHANGED delayVars
              \/ /\ headers' = headers + 1
                 /\ pre_timestamp # 0
                 /\ frame_delay > 0
                 /\ frame_delay' = frame_delay - 1
                 /\ frame_delay_prm' = DelayOver
                 /\ UNCHANGED <<is_img_init, periodVars>>
BY DEF LookAtPacket, LookAtTimestamp, Measurable

--------------------------------------------------------------------------------
(* The invariant, part by part. *)

LEMMA FirstHeaderPromiseStep ==
    ASSUME FirstHeaderPromise, [Next]_vars
    PROVE  FirstHeaderPromise'
<1>1. CASE PlainReceive
  BY <1>1, PlainReceiveKeeps DEF FirstHeaderPromise, periodVars
<1>2. CASE LookAtPacket
  <2>1. rpc = "look" /\ rpc' = "loop"
    BY <1>2, LookCases
  <2>2. CASE UNCHANGED <<is_img_init, periodVars>>
    BY <2>1, <2>2 DEF FirstHeaderPromise, periodVars
  <2>3. CASE /\ ~is_img_init
             /\ is_img_init' = TRUE
             /\ first_mhd_prm' = Set(first_mhd_prm)
    <3>1. first_mhd_prm = "unset"
      BY <2>1, <2>3 DEF FirstHeaderPromise
    <3> QED  BY <2>3, <3>1 DEF FirstHeaderPromise, Set
  <2> QED  BY <1>2, <2>2, <2>3, LookCases
<1>3. CASE GiveUpPeriod
  BY <1>3 DEF GiveUpPeriod, PeriodAtEnd, FirstHeaderPromise, Set
<1>4. CASE AnalysisThread
  BY <1>4, AnalysisKeeps DEF FirstHeaderPromise, periodVars, receiveVars
<1>5. CASE Main
  BY <1>5, MainKeeps DEF FirstHeaderPromise, periodVars, receiveVars
<1>6. CASE UNCHANGED vars
  BY <1>6 DEF vars, FirstHeaderPromise, periodVars, receiveVars
<1> QED  BY <1>1, <1>2, <1>3, <1>4, <1>5, <1>6, Steps

LEMMA DelayCountStep ==
    ASSUME TypeOK, DelayCount, [Next]_vars
    PROVE  DelayCount'
<1>0. headers \in Nat /\ frame_delay \in Int /\ FrameDelay \in Int
  BY OptionsAssumption DEF TypeOK, ReceiveTypeOK, SharedTypeOK
<1>1. CASE PlainReceive
  BY <1>1, PlainReceiveKeeps DEF DelayCount, delayVars
<1>2. CASE LookAtPacket
  <2>1. CASE UNCHANGED <<delayVars, pre_timestamp, headers>>
    BY <2>1 DEF DelayCount, delayVars
  <2>2. CASE headers' = headers + 1 /\ UNCHANGED delayVars
    <3>1. frame_delay' = frame_delay
      BY <2>2 DEF delayVars
    <3> QED  BY <1>0, <2>2, <3>1 DEF DelayCount
  <2>3. CASE /\ headers' = headers + 1
             /\ pre_timestamp # 0
             /\ frame_delay > 0
             /\ frame_delay' = frame_delay - 1
    <3> SUFFICES ASSUME FrameDelay > 0
                 PROVE  /\ frame_delay' \in 0 .. FrameDelay
                        /\ headers' > FrameDelay - frame_delay'
      BY <1>0, <2>3 DEF DelayCount
    <3>1. frame_delay \in 0 .. FrameDelay /\ headers > FrameDelay - frame_delay
      BY <2>3 DEF DelayCount
    <3> QED  BY <1>0, <2>3, <3>1
  <2> QED  BY <1>2, <2>1, <2>2, <2>3, LookCases
<1>3. CASE GiveUpPeriod
  BY <1>3 DEF GiveUpPeriod, DelayCount, delayVars
<1>4. CASE AnalysisThread
  BY <1>4, AnalysisKeeps DEF DelayCount, delayVars, receiveVars
<1>5. CASE Main
  BY <1>5, MainKeeps DEF DelayCount, receiveVars
<1>6. CASE UNCHANGED vars
  BY <1>6 DEF vars, DelayCount, delayVars, receiveVars
<1> QED  BY <1>1, <1>2, <1>3, <1>4, <1>5, <1>6, Steps

(* The promise of the delay is made at the frame that ends it, or by main,  *)
(* and never by both.                                                       *)
LEMMA DelayPromiseStep ==
    ASSUME TypeOK, DelayPromise, DelayCount, [Next]_vars
    PROVE  /\ DelayPromise'
           /\ frame_delay_prm = "set" => frame_delay_prm' = "set"
<1> DEFINE Goal == /\ DelayPromise'
                   /\ frame_delay_prm = "set" => frame_delay_prm' = "set"
<1>0. /\ frame_delay \in Int /\ FrameDelay \in Int
      /\ frame_delay_prm \in {"unset", "set"}
  BY OptionsAssumption DEF TypeOK, SharedTypeOK, DelayPromise, Promise
<1>q. ASSUME UNCHANGED delayVars,
             mpc' \in {"enter", "delay"} <=> mpc \in {"enter", "delay"}
      PROVE  Goal
  BY <1>q DEF DelayPromise, delayVars
<1>1. CASE PlainReceive
  <2>1. UNCHANGED mpc
    BY <1>1, ReceiveKeeps DEF PlainReceive, ReceiveThread
  <2> QED  BY <1>1, <2>1, <1>q, PlainReceiveKeeps
<1>2. CASE LookAtPacket
  <2>1. UNCHANGED mpc
    BY <1>2 DEF LookAtPacket
  <2>2. CASE UNCHANGED delayVars
    BY <2>1, <2>2, <1>q
  <2>3. CASE /\ frame_delay > 0
             /\ frame_delay' = frame_delay - 1
             /\ frame_delay_prm' = DelayOver
    <3>1. FrameDelay > 0 /\ frame_delay_prm = "unset"
      BY <1>0, <2>3 DEF DelayPromise
    <3>2. frame_delay_prm' = IF frame_delay' = 0 THEN "set" ELSE "unset"
      BY <1>0, <2>3, <3>1 DEF DelayOver, Set
    <3>3. frame_delay_prm' # "broken" /\ (frame_delay_prm' = "set" <=> frame_delay' = 0)
      BY <3>2
    <3> QED  BY <1>0, <3>1, <3>3 DEF DelayPromise
  <2> QED  BY <1>2, <2>2, <2>3, LookCases
<1>3. CASE GiveUpPeriod
  BY <1>3, <1>q DEF GiveUpPeriod
<1>4. CASE AnalysisThread
  BY <1>4, <1>q, AnalysisKeeps
<1>5. CASE Main
  <2>1. CASE PressEnterToStart
    BY <2>1, <1>q DEF PressEnterToStart, MainStep, delayVars
  <2>2. CASE PressEnterToEndDelay
    <3>1. /\ mpc = "delay" /\ mpc' = "join analysis"
          /\ UNCHANGED frame_delay
          /\ frame_delay_prm' =
               IF frame_delay = -1 THEN Set(frame_delay_prm) ELSE frame_delay_prm
      BY <2>2 DEF PressEnterToEndDelay, MainStep
    <3>2. CASE frame_delay = -1
      <4>1. FrameDelay = -1
        BY <1>0, <3>2 DEF DelayPromise, DelayCount
      <4>2. frame_delay_prm = "unset"
        BY <1>0, <3>1, <4>1 DEF DelayPromise
      <4>3. frame_delay_prm' = "set"
        BY <3>1, <3>2, <4>2 DEF Set
      <4>4. mpc' \notin {"enter", "delay"} /\ frame_delay' = FrameDelay
        BY <3>1, <3>2, <4>1
      <4> QED  BY <4>1, <4>3, <4>4 DEF DelayPromise
    <3>3. CASE frame_delay # -1
      <4>1. FrameDelay # -1
        BY <1>0, <3>3 DEF DelayPromise
      <4> QED  BY <3>1, <3>3, <4>1 DEF DelayPromise
    <3> QED  BY <3>2, <3>3
  <2>3. CASE JoinAnalysis
    BY <2>3, <1>q DEF JoinAnalysis, MainStep, delayVars
  <2>4. CASE JoinReceive
    BY <2>4, <1>q DEF JoinReceive, MainStep, delayVars
  <2> QED  BY <1>5, <2>1, <2>2, <2>3, <2>4 DEF Main
<1>6. CASE UNCHANGED vars
  BY <1>6, <1>q DEF vars
<1> QED  BY <1>1, <1>2, <1>3, <1>4, <1>5, <1>6, Steps

LEMMA DelayPassedStep ==
    ASSUME TypeOK, DelayPromise, DelayCount, DelayPassed, [Next]_vars
    PROVE  DelayPassed'
<1>1. frame_delay_prm = "set" => frame_delay_prm' = "set"
  BY DelayPromiseStep
<1>2. CASE UNCHANGED apc
  BY <1>1, <1>2 DEF DelayPassed
<1>3. CASE AnalysisThread
  <2>1. \/ apc' \in {"start", "delay"}
        \/ apc \notin {"start", "delay"}
        \/ PassDelay
    BY <1>3 DEF AnalysisThread, PassEnter, LoadMainHeader, BodyLoop, LoadBody,
                WaitFirstHeader, Pace, AnalysisStep
  <2>2. CASE PassDelay
    <3>1. FrameDelay # 0 => frame_delay_prm = "set"
      BY <2>2 DEF PassDelay, frame_delay_flag, TypeOK, SharedTypeOK, Promise, DelayPromise
    <3> QED  BY <1>1, <3>1 DEF DelayPassed
  <2> QED  BY <1>1, <2>1, <2>2 DEF DelayPassed
<1>4. AnalysisThread \/ UNCHANGED apc
  BY ReceiveKeeps, MainKeeps DEF Next, analysisVars, vars
<1> QED  BY <1>2, <1>3, <1>4

(* A promise that is unset after a step was unset before it. *)
LEMMA UnsetBefore ==
    ASSUME [Next]_vars, first_mhd_prm' = "unset"
    PROVE  first_mhd_prm = "unset"
<1>1. UNCHANGED first_mhd_prm \/ first_mhd_prm' = Set(first_mhd_prm)
  <2>1. CASE PlainReceive
    BY <2>1, PlainReceiveKeeps DEF periodVars
  <2>2. CASE LookAtPacket
    BY <2>2, LookCases DEF periodVars
  <2>3. CASE GiveUpPeriod
    BY <2>3 DEF GiveUpPeriod, PeriodAtEnd
  <2>4. CASE AnalysisThread \/ Main \/ UNCHANGED vars
    BY <2>4, AnalysisKeeps, MainKeeps DEF periodVars, vars
  <2> QED  BY <2>1, <2>2, <2>3, <2>4, Steps
<1> QED  BY <1>1 DEF Set

LEMMA FirstFrameWaitsStep ==
    ASSUME FirstFrameWaits, [Next]_vars
    PROVE  FirstFrameWaits'
<1> SUFFICES ASSUME first_mhd_prm' = "unset"
             PROVE  \/ analysis_frame' = 0 /\ apc' \notin {"update", "pace"}
                    \/ analysis_frame' = 1 /\ apc' = "update"
  BY DEF FirstFrameWaits
<1>1. first_mhd_prm = "unset"
  BY UnsetBefore
<1>2. \/ analysis_frame = 0 /\ apc \notin {"update", "pace"}
      \/ analysis_frame = 1 /\ apc = "update"
  BY <1>1 DEF FirstFrameWaits
<1>3. CASE UNCHANGED analysisVars
  BY <1>2, <1>3 DEF analysisVars
<1>4. CASE AnalysisThread
  <2>1. CASE PassEnter \/ PassDelay \/ LoadMainHeader \/ BodyLoop
    BY <1>2, <2>1 DEF PassEnter, PassDelay, LoadMainHeader, BodyLoop, AnalysisStep
  <2>2. CASE LoadBody
    BY <1>2, <2>2 DEF LoadBody, AnalysisStep
  <2>3. CASE WaitFirstHeader
    BY <1>1, <1>2, <2>3 DEF WaitFirstHeader, AnalysisStep
  <2>4. CASE Pace
    BY <1>2, <2>4 DEF Pace, AnalysisStep
  <2> QED  BY <1>4, <2>1, <2>2, <2>3, <2>4 DEF AnalysisThread
<1>5. AnalysisThread \/ UNCHANGED analysisVars
  BY ReceiveKeeps, MainKeeps DEF Next, vars
<1> QED  BY <1>3, <1>4, <1>5

LEMMA InitInv == Init => LifecycleInv
<1> SUFFICES ASSUME Init  PROVE LifecycleInv
  OBVIOUS
<1>1. FirstHeaderPromise /\ FirstFrameWaits /\ DelayPassed
  BY DEF Init, FirstHeaderPromise, FirstFrameWaits, DelayPassed
<1>2. /\ headers = 0 /\ pre_timestamp = 0 /\ frame_delay = FrameDelay
      /\ frame_delay_prm = "unset" /\ mpc = "enter" /\ FrameDelay \in Int
  BY OptionsAssumption DEF Init
<1>3. DelayPromise
  BY <1>2 DEF DelayPromise
<1>4. DelayCount
  BY <1>2 DEF DelayCount
<1> QED  BY <1>1, <1>3, <1>4, InitType DEF LifecycleInv

(* The promises, the delay and the first frame stay in step, whatever the   *)
(* threads, the network and the operator do.                                *)
THEOREM LifecycleInvCorrect == Spec => []LifecycleInv
<1>1. Init => LifecycleInv
  BY InitInv
<1>2. LifecycleInv /\ [Next]_vars => LifecycleInv'
  <2> SUFFICES ASSUME LifecycleInv, [Next]_vars  PROVE LifecycleInv'
    OBVIOUS
  <2>1. /\ TypeOK /\ FirstHeaderPromise /\ DelayPromise /\ DelayCount
        /\ FirstFrameWaits /\ DelayPassed
    BY DEF LifecycleInv
  <2>2. TypeOK'
    BY <2>1, StepType
  <2>3. FirstHeaderPromise'
    BY <2>1, FirstHeaderPromiseStep
  <2>4. DelayPromise'
    BY <2>1, DelayPromiseStep
  <2>5. DelayCount'
    BY <2>1, DelayCountStep
  <2>6. FirstFrameWaits'
    BY <2>1, FirstFrameWaitsStep
  <2>7. DelayPassed'
    BY <2>1, DelayPassedStep
  <2> QED  BY <2>2, <2>3, <2>4, <2>5, <2>6, <2>7 DEF LifecycleInv
<1> QED  BY <1>1, <1>2, PTL DEF Spec

(* No promise is ever set twice: no thread ends with std::future_error. *)
THEOREM PromisesSetOnceCorrect == Spec => []PromisesSetOnce
<1>1. LifecycleInv => PromisesSetOnce
  BY DEF LifecycleInv, FirstHeaderPromise, DelayPromise, PromisesSetOnce
<1> QED  BY <1>1, LifecycleInvCorrect, PTL

(* The analysis of a delayed start never begins early, for every -d. *)
THEOREM DelayHonouredCorrect == Spec => []DelayHonoured
<1>1. LifecycleInv => DelayHonoured
  <2> SUFFICES ASSUME LifecycleInv, apc \notin {"start", "delay"}
               PROVE  /\ FrameDelay > 0 => headers > FrameDelay
                      /\ FrameDelay = -1 => mpc \notin {"enter", "delay"}
    BY DEF DelayHonoured
  <2>0. FrameDelay \in Int /\ headers \in Nat
    BY OptionsAssumption DEF LifecycleInv, TypeOK, ReceiveTypeOK
  <2>1. FrameDelay # 0 => frame_delay_prm = "set"
    BY DEF LifecycleInv, DelayPassed
  <2>2. FrameDelay > 0 => headers > FrameDelay
    BY <2>0, <2>1 DEF LifecycleInv, DelayPromise, DelayCount
  <2>3. FrameDelay = -1 => mpc \notin {"enter", "delay"}
    BY <2>0, <2>1 DEF LifecycleInv, DelayPromise
  <2> QED  BY <2>2, <2>3
<1> QED  BY <1>1, LifecycleInvCorrect, PTL

(* The unlocked img_inc is written only before the analysis thread can read *)
(* it.                                                                      *)
THEOREM ImgIncSettledCorrect == Spec => ImgIncSettledBeforeRead
<1>1. LifecycleInv /\ [Next]_vars =>
        [img_inc' # img_inc =>
            /\ first_mhd_prm = "unset"
            /\ apc # "pace"
            /\ analysis_frame <= 1]_vars
  <2> SUFFICES ASSUME LifecycleInv, [Next]_vars, img_inc' # img_inc
               PROVE  /\ first_mhd_prm = "unset"
                      /\ apc # "pace"
                      /\ analysis_frame <= 1
    OBVIOUS
  <2>1. LookAtPacket
    BY Steps, PlainReceiveKeeps, AnalysisKeeps, MainKeeps
    DEF GiveUpPeriod, periodVars, vars
  <2>2. rpc = "look" /\ ~is_img_init
    BY <2>1, LookCases DEF periodVars
  <2>3. first_mhd_prm = "unset"
    BY <2>2 DEF LifecycleInv, FirstHeaderPromise
  <2> QED  BY <2>3 DEF LifecycleInv, FirstFrameWaits
<1> QED  BY <1>1, LifecycleInvCorrect, PTL DEF Spec, ImgIncSettledBeforeRead

--------------------------------------------------------------------------------
(* The frame period. *)

(* The timestamp of the main header after h others, from the first on.      *)
StampOfHeader(h) == (FirstTimestamp + h * Period) % TimestampModulus

(* Without a loss the receive thread looked at every main header before      *)
(* next, and pre_timestamp is that of the last of them.                      *)
PeriodInv ==
    ~missed =>
        /\ rpc = "look" => last_packet = next - 1 /\ next > 1
        /\ headers = (IF rpc = "look" THEN next - 1 ELSE next) \div 2
        /\ pre_timestamp = IF headers = 0 THEN 0 ELSE StampOfHeader(headers - 1)
        /\ is_img_init => img_inc = Period

(* The difference of two timestamps one period apart, over the wrap too.     *)
LEMMA OnePeriod ==
    ASSUME NEW h \in Nat, h > 0
    PROVE  (StampOfHeader(h) - StampOfHeader(h - 1)) % TimestampModulus = Period
<1> DEFINE M == TimestampModulus
           a == FirstTimestamp + h * Period
           b == FirstTimestamp + (h - 1) * Period
<1>0. M \in Nat /\ M > 0 /\ Period \in Nat /\ Period < M /\ FirstTimestamp \in Int
  BY Positive, PeriodAssumption, TimestampAssumption
<1>1. h * Period \in Int /\ (h - 1) * Period \in Int /\ h * Period = (h - 1) * Period + Period
  BY <1>0
<1>2. a \in Int /\ b \in Int /\ a = b + Period
  BY <1>0, <1>1
<1> DEFINE q == a \div M  r == a % M  u == b \div M  v == b % M
<1> HIDE DEF M
<1>3. q \in Int /\ r \in 0 .. M - 1 /\ a = M * q + r /\ u \in Int /\ v \in 0 .. M - 1 /\ b = M * u + v
  <2> HIDE DEF a, b
  <2> QED  BY <1>0, <1>2, DivMod
<1> DEFINE x == r - v
           d == u - q
<1> HIDE DEF a, b, q, r, u, v
<1>4. x \in Int /\ d \in Int /\ M * d = M * u - M * q
  BY <1>0, <1>3
<1>5. x = M * d + Period
  BY <1>0, <1>2, <1>3, <1>4
<1> HIDE DEF x, d
<1>6. x \div M = d
  BY <1>0, <1>4, <1>5, DivUnique
<1>7. x % M = Period
  <2>1. x = M * (x \div M) + (x % M) /\ x % M \in 0 .. M - 1
    BY <1>0, <1>4, DivMod
  <2>2. M * d \in Int
    BY <1>0, <1>4
  <2> QED  BY <1>0, <1>4, <1>5, <1>6, <2>1, <2>2
<1> QED  BY <1>7 DEF x, r, v, a, b, M, StampOfHeader

LEMMA PeriodStep ==
    ASSUME TypeOK, PeriodInv, [Next]_vars
    PROVE  PeriodInv'
<1> SUFFICES ASSUME ~missed'  PROVE PeriodInv'
  BY DEF PeriodInv
<1>0. /\ next \in 1 .. StreamLength + 1 /\ StreamLength \in Nat /\ headers \in Nat
      /\ pre_timestamp \in Nat /\ missed \in BOOLEAN
  BY Positive DEF TypeOK, NetworkTypeOK, ReceiveTypeOK
<1>1. CASE UNCHANGED <<next, missed, last_packet, headers, pre_timestamp, is_img_init, img_inc>>
           /\ (rpc' = "look" <=> rpc = "look")
  BY <1>1 DEF PeriodInv
<1>2. CASE UnblockSignal \/ ReadSigFlag \/ ReceiveEnd \/ Signal \/ PushTerminator \/ GiveUpPeriod
  <2>1. UNCHANGED <<next, missed, last_packet, headers, pre_timestamp, is_img_init, img_inc>>
    BY <1>2 DEF UnblockSignal, ReadSigFlag, ReceiveEnd, Signal, PushTerminator, GiveUpPeriod,
                networkVars, periodVars
  <2>2. rpc' = "look" <=> rpc = "look"
    BY <1>2 DEF UnblockSignal, ReadSigFlag, ReceiveEnd, Signal, PushTerminator, GiveUpPeriod
  <2> QED  BY <1>1, <2>1, <2>2
<1>3. CASE AnalysisThread \/ Main \/ UNCHANGED vars
  <2>1. UNCHANGED <<next, missed, last_packet, headers, pre_timestamp, is_img_init, img_inc, rpc>>
    BY <1>3, AnalysisKeeps, MainKeeps DEF vars, networkVars, receiveVars, periodVars
  <2> QED  BY <1>1, <2>1
<1>4. ASSUME NEW k \in 1 .. StreamLength, Receive(k)  PROVE PeriodInv'
  <2>1. /\ rpc = "recvmsg" /\ rpc' = "look" /\ next' = k + 1 /\ missed' = (missed \/ k # next)
        /\ last_packet' = k /\ UNCHANGED <<pre_timestamp, is_img_init, headers, img_inc>>
    BY <1>4 DEF Receive, periodVars
  <2>2. ~missed /\ k = next
    BY <2>1
  <2>3. headers = next \div 2
    BY <2>1, <2>2 DEF PeriodInv
  <2>4. (k + 1) - 1 = k /\ k + 1 > 1
    OBVIOUS
  <2> QED  BY <2>1, <2>2, <2>3, <2>4 DEF PeriodInv
<1>5. CASE LookAtPacket
  <2> DEFINE k == last_packet
             tp == timestamp(k)
  <2>1. /\ rpc = "look" /\ rpc' = "loop" /\ UNCHANGED <<next, missed, last_packet>>
        /\ IF MH(k)
           THEN LookAtTimestamp(tp) /\ pre_timestamp' = tp /\ headers' = headers + 1
           ELSE UNCHANGED <<is_img_init, img_inc, pre_timestamp, headers>>
    BY <1>5 DEF LookAtPacket, networkVars, periodVars
  <2>2. ~missed /\ k = next - 1 /\ next > 1 /\ headers = (next - 1) \div 2
        /\ pre_timestamp = (IF headers = 0 THEN 0 ELSE StampOfHeader(headers - 1))
        /\ (is_img_init => img_inc = Period)
    BY <2>1 DEF PeriodInv
  <2>3. CASE ~MH(k)
    <3>1. next \div 2 = (next - 1) \div 2
      BY <1>0, <2>2, <2>3 DEF MH
    <3> QED  BY <2>1, <2>2, <2>3, <3>1 DEF PeriodInv
  <2>4. CASE MH(k)
    <3>1. next \div 2 = headers + 1 /\ (k - 1) \div 2 = headers
      BY <1>0, <2>2, <2>4 DEF MH
    <3>2. tp = StampOfHeader(headers) /\ (headers + 1) - 1 = headers /\ headers + 1 # 0
      BY <1>0, <3>1 DEF timestamp, StampOfHeader
    <3>3. \/ UNCHANGED <<is_img_init, img_inc>>
          \/ is_img_init' /\ img_inc' = TimestampDifference(tp) /\ pre_timestamp # 0
      BY <2>1, <2>4 DEF LookAtTimestamp, Measurable, periodVars
    <3>4. pre_timestamp # 0 => TimestampDifference(tp) = Period
      <4>1. pre_timestamp # 0 => headers > 0 /\ pre_timestamp = StampOfHeader(headers - 1)
        BY <1>0, <2>2
      <4>2. headers > 0 => (StampOfHeader(headers) - StampOfHeader(headers - 1)) % TimestampModulus = Period
        BY <1>0, OnePeriod
      <4> QED  BY <3>2, <4>1, <4>2 DEF TimestampDifference
    <3>5. is_img_init' => img_inc' = Period
      BY <2>2, <3>3, <3>4
    <3>6. pre_timestamp' = StampOfHeader(headers' - 1) /\ headers' = next' \div 2 /\ headers' # 0
      BY <2>1, <2>4, <3>1, <3>2
    <3> QED  BY <2>1, <3>5, <3>6 DEF PeriodInv
  <2> QED  BY <2>3, <2>4
<1> QED  BY <1>2, <1>3, <1>4, <1>5 DEF Next, ReceiveThread, Network

(* For every period below the modulus, every first timestamp and every delay *)
(* the period measured is the sender's, as long as no packet was lost.       *)
THEOREM PeriodMeasuredCorrect == Spec => []PeriodMeasured
<1>1. Init => PeriodInv
  <2> SUFFICES ASSUME Init  PROVE PeriodInv
    OBVIOUS
  <2>1. 1 \div 2 = 0
    OBVIOUS
  <2> QED  BY <2>1 DEF Init, PeriodInv
<1>2. PeriodInv => PeriodMeasured
  BY DEF PeriodInv, PeriodMeasured
<1> QED  BY <1>1, <1>2, InitType, StepType, PeriodStep, PTL DEF Spec

================================================================================
