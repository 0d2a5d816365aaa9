------------------------------- MODULE Lifecycle -------------------------------
(***************************************************************************)
(* The three threads of main.cpp: what starts them, what they tell each    *)
(* other and what ends them.  The receive thread learns the frame period   *)
(* from the first main headers and hands it to the analysis thread through *)
(* the promise first_mhd_prm; the analysis thread may first have to wait   *)
(* for Enter (main, analysis_stoper) or for a delay (frame_delay_prm);     *)
(* a SIGINT, which only the receive thread accepts, or the terminator of   *)
(* the sender makes the receive thread push a last terminator and stop.    *)
(*                                                                         *)
(* The ring is the drop-oldest queue its own module shows it to be, and    *)
(* load_body_packet is any number of pops: AnalysisThread has the detail.  *)
(***************************************************************************)
EXTENDS Integers, Sequences

CONSTANTS
    Frames,             \* bound: frames sent, a main header and a body packet each
    Period,             \* timestamp difference of consecutive frames
    FirstTimestamp,     \* RTP timestamp of the first frame
    TimestampModulus,   \* 2 to the width of a timestamp
    MaxLoss,            \* bound: packets lost
    BufferLength,       \* slots of the ring
    IsEnter,            \* is_enter: the analysis waits for Enter
    FrameDelay          \* -d: frames to wait for; -1 waits for Enter, 0 not at all

ASSUME FramesAssumption == {Frames, Period, TimestampModulus, BufferLength} \subseteq Nat \ {0}
ASSUME PeriodAssumption == Period < TimestampModulus
ASSUME TimestampAssumption == FirstTimestamp \in 0 .. TimestampModulus - 1
ASSUME MaxLossAssumption == MaxLoss \in Nat
ASSUME OptionsAssumption == IsEnter \in BOOLEAN /\ FrameDelay \in Int

(* Packet k of the stream: main headers are the odd ones. *)
StreamLength == 2 * Frames
MH(k) == k % 2 = 1
timestamp(k) == (FirstTimestamp + ((k - 1) \div 2) * Period) % TimestampModulus
Terminator == 0

VARIABLES
    next,               \* the packet of the stream that comes next
    losses,             \* packets that may still be lost
    missed,             \* history: a packet was lost
    ring,               \* the leaky bucket
    sig_flag,
    rpc,                \* where the receive thread is
    last_packet,        \* buffer.get_last_packet()
    result,             \* what buffer.receive returned last
    pre_timestamp,
    is_img_init,
    img_inc,
    frame_delay,
    headers,            \* history: main headers the receive thread looked at
    first_mhd_prm,
    frame_delay_prm,
    analysis_stoper,
    apc,                \* where the analysis thread is
    analysis_frame,
    mpc                 \* where main is

networkVars == <<next, losses, missed>>
receiveVars == <<rpc, last_packet, result, pre_timestamp, is_img_init, headers>>
analysisVars == <<apc, analysis_frame>>
delayVars == <<frame_delay, frame_delay_prm>>
periodVars == <<img_inc, first_mhd_prm>>
vars == <<networkVars, ring, sig_flag, receiveVars, periodVars, delayVars,
          analysis_stoper, analysisVars, mpc>>

(* A promise whose value is set twice throws std::future_error. *)
Promise == {"unset", "set", "broken"}
Set(prm) == IF prm = "unset" THEN "set" ELSE "broken"

NetworkTypeOK ==
    /\ next \in 1 .. StreamLength + 1
    /\ losses \in 0 .. MaxLoss
    /\ missed \in BOOLEAN
    /\ ring \in Seq(0 .. StreamLength)
    /\ Len(ring) <= BufferLength

ReceiveTypeOK ==
    /\ sig_flag \in BOOLEAN
    /\ rpc \in {"start", "loop", "recvmsg", "look", "end", "push", "done"}
    /\ last_packet \in 0 .. StreamLength
    /\ result \in {"none", "RECEIVED", "SIGNAL", "FINISH"}
    /\ pre_timestamp \in 0 .. TimestampModulus - 1
    /\ is_img_init \in BOOLEAN
    /\ headers \in Nat

SharedTypeOK ==
    /\ img_inc \in 0 .. TimestampModulus - 1
    /\ frame_delay \in Int
    /\ first_mhd_prm \in Promise
    /\ frame_delay_prm \in Promise
    /\ analysis_stoper \in BOOLEAN

ThreadsTypeOK ==
    /\ apc \in {"start", "delay", "main header", "loop", "load", "update", "pace", "done"}
    /\ analysis_frame \in Nat
    /\ mpc \in {"enter", "delay", "join analysis", "join receive", "done"}

TypeOK == NetworkTypeOK /\ ReceiveTypeOK /\ SharedTypeOK /\ ThreadsTypeOK

Init ==
    /\ next = 1
    /\ losses = MaxLoss
    /\ missed = FALSE
    /\ ring = <<>>
    /\ sig_flag = FALSE
    /\ rpc = "start"
    /\ last_packet = Terminator
    /\ result = "none"
    /\ pre_timestamp = 0
    /\ is_img_init = FALSE
    /\ img_inc = 0
    /\ frame_delay = FrameDelay
    /\ headers = 0
    /\ first_mhd_prm = "unset"
    /\ frame_delay_prm = "unset"
    /\ analysis_stoper = FALSE
    /\ apc = "start"
    /\ analysis_frame = 0
    /\ mpc = "enter"

--------------------------------------------------------------------------------
(* The receive thread. *)

(* One packet more in the ring, or in place of the oldest one. *)
Put(k) == ring' = Append(IF Len(ring) = BufferLength THEN Tail(ring) ELSE ring, k)

(* SIGINT is unblocked in this thread alone. *)
UnblockSignal ==
    /\ rpc = "start"
    /\ rpc' = "loop"
    /\ UNCHANGED <<networkVars, ring, sig_flag, last_packet, result, pre_timestamp,
                   is_img_init, headers, periodVars, delayVars, analysis_stoper,
                   analysisVars, mpc>>

(* while (!sig_flag) buffer.receive(): the flag is read before the thread   *)
(* enters recvmsg, on a blocking socket.                                    *)
ReadSigFlag ==
    /\ rpc = "loop"
    /\ rpc' = IF sig_flag THEN "end" ELSE "recvmsg"
    /\ UNCHANGED <<networkVars, ring, sig_flag, last_packet, result, pre_timestamp,
                   is_img_init, headers, periodVars, delayVars, analysis_stoper,
                   analysisVars, mpc>>

(* A packet of the stream; the ones before it that had not come are lost.   *)
Receive(k) ==
    /\ rpc = "recvmsg"
    /\ k \in next .. StreamLength
    /\ k - next <= losses
    /\ next' = k + 1
    /\ losses' = losses - (k - next)
    /\ missed' = (missed \/ k # next)
    /\ Put(k)
    /\ last_packet' = k
    /\ result' = "RECEIVED"
    /\ rpc' = "look"
    /\ UNCHANGED <<sig_flag, pre_timestamp, is_img_init, headers, periodVars,
                   delayVars, analysis_stoper, analysisVars, mpc>>

(* The terminator, at the end of the stream or from stop_j2kpay at any time; *)
(* or recvmsg fails, and nothing is put in the ring.                         *)
ReceiveEnd ==
    /\ rpc = "recvmsg"
    /\ Put(Terminator) \/ UNCHANGED ring
    /\ result' = "FINISH"
    /\ rpc' = "end"
    /\ UNCHANGED <<networkVars, sig_flag, last_packet, pre_timestamp, is_img_init,
                   headers, periodVars, delayVars, analysis_stoper, analysisVars, mpc>>

(* SIGINT: the handler runs in the receive thread, as long as there is one. *)
(* Out of recvmsg it makes buffer.receive return SIGNAL.                    *)
Signal ==
    /\ rpc \notin {"start", "done"}
    /\ ~sig_flag
    /\ sig_flag' = TRUE
    /\ IF rpc = "recvmsg"
       THEN Put(Terminator) /\ result' = "SIGNAL" /\ rpc' = "end"
       ELSE UNCHANGED <<ring, result, rpc>>
    /\ UNCHANGED <<networkVars, last_packet, pre_timestamp, is_img_init, headers,
                   periodVars, delayVars, analysis_stoper, analysisVars, mpc>>

(* Mutant: a timestamp that wrapped around counts as no difference. *)
DifferenceUntilWrap(tp) == IF tp > pre_timestamp THEN tp - pre_timestamp ELSE 0

(* tp - pre_timestamp, both uint32_t. *)
TimestampDifference(tp) == (tp - pre_timestamp) % TimestampModulus

(* Mutant: the first main header is measured against nothing. *)
MeasurableAlways(tp) == ~is_img_init

(* Two main headers with timestamps came and the period is not known yet.  *)
Measurable(tp) == ~is_img_init /\ pre_timestamp # 0 /\ tp # 0

(* Mutant: the promise is fulfilled at every frame of the delay. *)
DelayOverAnyway == Set(frame_delay_prm)

(* frame_delay_prm after one more frame of the delay. *)
DelayOver == IF frame_delay = 1 THEN Set(frame_delay_prm) ELSE frame_delay_prm

(* What a main header tells before the frame period is known. *)
LookAtTimestamp(tp) ==
    IF ~Measurable(tp)
    THEN UNCHANGED <<is_img_init, periodVars, delayVars>>
    ELSE \/ /\ frame_delay <= 0
            /\ img_inc' = TimestampDifference(tp)
            /\ first_mhd_prm' = Set(first_mhd_prm)
            /\ is_img_init' = TRUE
            /\ UNCHANGED delayVars
         \/ /\ frame_delay > 0
            /\ frame_delay' = frame_delay - 1
            /\ frame_delay_prm' = DelayOver
            /\ UNCHANGED <<is_img_init, periodVars>>

(* The body of the loop after RECEIVED. *)
LookAtPacket ==
    /\ rpc = "look"
    /\ rpc' = "loop"
    /\ IF MH(last_packet)
       THEN /\ LookAtTimestamp(timestamp(last_packet))
            /\ pre_timestamp' = timestamp(last_packet)
            /\ headers' = headers + 1
       ELSE UNCHANGED <<is_img_init, periodVars, delayVars, pre_timestamp, headers>>
    /\ UNCHANGED <<networkVars, ring, sig_flag, last_packet, result,
                   analysis_stoper, analysisVars, mpc>>

(* Mutant: the promise is fulfilled once more. *)
PeriodAtEndAgain == Set(first_mhd_prm)

(* Mutant: the promise is left as it is. *)
PeriodAtEndForgotten == first_mhd_prm

(* if (!is_img_init) first_mhd_prm.set_value(): nobody is left waiting. *)
PeriodAtEnd == IF is_img_init THEN first_mhd_prm ELSE Set(first_mhd_prm)

GiveUpPeriod ==
    /\ rpc = "end"
    /\ rpc' = "push"
    /\ first_mhd_prm' = PeriodAtEnd
    /\ UNCHANGED <<networkVars, ring, sig_flag, last_packet, result, pre_timestamp,
                   is_img_init, headers, img_inc, delayVars, analysis_stoper,
                   analysisVars, mpc>>

(* Mutant: the receive thread ends without its last push. *)
PushForgotten ==
    /\ rpc = "push"
    /\ rpc' = "done"
    /\ UNCHANGED <<networkVars, ring, sig_flag, last_packet, result, pre_timestamp,
                   is_img_init, headers, periodVars, delayVars, analysis_stoper,
                   analysisVars, mpc>>

(* The final push of {0}. *)
PushTerminator ==
    /\ rpc = "push"
    /\ Put(Terminator)
    /\ rpc' = "done"
    /\ UNCHANGED <<networkVars, sig_flag, last_packet, result, pre_timestamp,
                   is_img_init, headers, periodVars, delayVars, analysis_stoper,
                   analysisVars, mpc>>

--------------------------------------------------------------------------------
(* The analysis thread. *)

AnalysisStep(from, to) ==
    /\ apc = from
    /\ apc' = to
    /\ UNCHANGED <<networkVars, sig_flag, receiveVars, periodVars, delayVars,
                   analysis_stoper, mpc>>

(* Mutant: -d n is read, but only -d Enter makes the analysis wait. *)
delay_flag_enter == FrameDelay = -1

(* main: frame_delay_flag = frame_delay != 0. *)
frame_delay_flag == FrameDelay # 0

(* if (is_enter) while (!analysis_stoper); *)
PassEnter ==
    /\ IsEnter => analysis_stoper
    /\ AnalysisStep("start", "delay")
    /\ UNCHANGED <<ring, analysis_frame>>

(* if (frame_delay_flag) frame_delay_ftr.wait(); *)
PassDelay ==
    /\ frame_delay_flag => frame_delay_prm # "unset"
    /\ AnalysisStep("delay", "main header")
    /\ UNCHANGED <<ring, analysis_frame>>

(* buffer->pop() *)
Pop(k) ==
    /\ ring # <<>>
    /\ k = Head(ring)
    /\ ring' = Tail(ring)

(* load_main_packet until it returns MAIN_HEADER, or FINISH on a terminator. *)
LoadMainHeader ==
    /\ \E k \in 0 .. StreamLength :
          /\ Pop(k)
          /\ \/ k = Terminator /\ AnalysisStep("main header", "done")
             \/ k # Terminator /\ \E to \in {"main header", "loop"} :
                                     AnalysisStep("main header", to)
    /\ UNCHANGED analysis_frame

(* while (!sig_flag) load_body_packet *)
BodyLoop ==
    /\ AnalysisStep("loop", IF sig_flag THEN "done" ELSE "load")
    /\ UNCHANGED <<ring, analysis_frame>>

(* A packet popped for load_body_packet or buffer.dest.  The call goes on,  *)
(* it returned, or it returned with a frame complete; a terminator ends it  *)
(* and the loop.                                                            *)
LoadBody ==
    \E k \in 0 .. StreamLength :
        /\ Pop(k)
        /\ \/ /\ k = Terminator
              /\ AnalysisStep("load", "done")
              /\ UNCHANGED analysis_frame
           \/ /\ k # Terminator
              /\ \E to \in {"load", "loop"} : AnalysisStep("load", to)
              /\ UNCHANGED analysis_frame
           \/ /\ k # Terminator
              /\ AnalysisStep("load", "update")
              /\ analysis_frame' = analysis_frame + 1

(* Mutant: the frame is counted after the comparison. *)
WaitBeforeCounting ==
    /\ analysis_frame = 0 => first_mhd_prm # "unset"
    /\ AnalysisStep("update", "pace")
    /\ UNCHANGED <<ring, analysis_frame>>

(* frame_update: first_mhd_ftr.wait() for the first frame only. *)
WaitFirstHeader ==
    /\ analysis_frame = 1 => first_mhd_prm # "unset"
    /\ AnalysisStep("update", "pace")
    /\ UNCHANGED <<ring, analysis_frame>>

(* img_clock += img_inc, and sleep until then. *)
Pace ==
    /\ AnalysisStep("pace", "loop")
    /\ UNCHANGED <<ring, analysis_frame>>

--------------------------------------------------------------------------------
(* main. *)

MainStep(from, to) ==
    /\ mpc = from
    /\ mpc' = to
    /\ UNCHANGED <<networkVars, ring, sig_flag, receiveVars, periodVars,
                   frame_delay, analysisVars>>

PressEnterToStart ==
    /\ MainStep("enter", "delay")
    /\ analysis_stoper' = (analysis_stoper \/ IsEnter)
    /\ UNCHANGED frame_delay_prm

PressEnterToEndDelay ==
    /\ MainStep("delay", "join analysis")
    /\ frame_delay_prm' = IF frame_delay = -1 THEN Set(frame_delay_prm) ELSE frame_delay_prm
    /\ UNCHANGED analysis_stoper

JoinAnalysis ==
    /\ apc = "done"
    /\ MainStep("join analysis", "join receive")
    /\ UNCHANGED <<frame_delay_prm, analysis_stoper>>

JoinReceive ==
    /\ rpc = "done"
    /\ MainStep("join receive", "done")
    /\ UNCHANGED <<frame_delay_prm, analysis_stoper>>

--------------------------------------------------------------------------------
(* What the receive thread does without the network. *)
ReceiveThread ==
    UnblockSignal \/ ReadSigFlag \/ LookAtPacket \/ GiveUpPeriod \/ PushTerminator

Network == ReceiveEnd \/ \E k \in 1 .. StreamLength : Receive(k)

AnalysisThread ==
    \/ PassEnter \/ PassDelay \/ LoadMainHeader \/ BodyLoop \/ LoadBody
    \/ WaitFirstHeader \/ Pace

Main == PressEnterToStart \/ PressEnterToEndDelay \/ JoinAnalysis \/ JoinReceive

Next == ReceiveThread \/ Network \/ Signal \/ AnalysisThread \/ Main

Spec == Init /\ [][Next]_vars

(* Every thread is scheduled, and the operator presses Enter when asked to. *)
(* The network owes no packet and nobody a signal.                          *)
Fairness ==
    /\ WF_vars(ReceiveThread)
    /\ WF_vars(AnalysisThread)
    /\ WF_vars(Main)

FairSpec == Spec /\ Fairness

--------------------------------------------------------------------------------
(* Properties. *)

(* No promise is set twice, whatever main, the stream and the end of the     *)
(* stream do to them: std::future_error in a thread would end the program.   *)
PromisesSetOnce == "broken" \notin {first_mhd_prm, frame_delay_prm}

(* img_inc has no lock: it is written only while the analysis thread is      *)
(* still held back from reading it by the promise of the first frame.        *)
ImgIncSettledBeforeRead ==
    [][img_inc' # img_inc =>
          /\ first_mhd_prm = "unset"
          /\ apc # "pace"
          /\ analysis_frame <= 1]_vars

(* Without a loss the measured pace is the sender's frame period, although   *)
(* the timestamps wrap around and may pass through 0, which also stands for  *)
(* "no header yet".                                                          *)
PeriodMeasured == is_img_init /\ ~missed => img_inc = Period

(* With -d n the analysis starts only after n + 1 main headers came, and     *)
(* with -d Enter only after Enter.                                           *)
DelayHonoured ==
    apc \notin {"start", "delay"} =>
        /\ FrameDelay > 0 => headers > FrameDelay
        /\ FrameDelay = -1 => mpc \notin {"enter", "delay"}

(* The inductive invariant behind them: what a promise that is set or still  *)
(* unset says about the variables the threads decided it by.                 *)
FirstHeaderPromise ==
    first_mhd_prm = IF is_img_init \/ rpc \in {"push", "done"} THEN "set" ELSE "unset"

DelayPromise ==
    /\ frame_delay_prm # "broken"
    /\ FrameDelay <= 0 => frame_delay = FrameDelay
    /\ FrameDelay > 0 => (frame_delay_prm = "set" <=> frame_delay = 0)
    /\ FrameDelay = 0 \/ FrameDelay < -1 => frame_delay_prm = "unset"
    /\ FrameDelay = -1 =>
          (frame_delay_prm = "set" <=> mpc \notin {"enter", "delay"})

DelayCount ==
    FrameDelay > 0 =>
        /\ frame_delay \in 0 .. FrameDelay
        /\ headers >= FrameDelay - frame_delay
        /\ pre_timestamp # 0 \/ frame_delay # FrameDelay
              => headers > FrameDelay - frame_delay

FirstFrameWaits ==
    first_mhd_prm = "unset" =>
        \/ analysis_frame = 0 /\ apc \notin {"update", "pace"}
        \/ analysis_frame = 1 /\ apc = "update"

DelayPassed ==
    apc \notin {"start", "delay"} /\ FrameDelay # 0 => frame_delay_prm = "set"

LifecycleInv ==
    /\ TypeOK
    /\ FirstHeaderPromise
    /\ DelayPromise
    /\ DelayCount
    /\ FirstFrameWaits
    /\ DelayPassed

(* Once recvmsg delivered the terminator or failed, all threads end and main *)
(* joins them (progress.md:281: the program ends when the packet that closes *)
(* the transmission has been received).                                      *)
StreamEndEndsProgram == (result = "FINISH") ~> (mpc = "done")

(* After a SIGINT all threads end and main joins them, except that a SIGINT  *)
(* between the look at sig_flag and recvmsg leaves the receive thread in     *)
(* recvmsg for as long as no packet comes.                                   *)
SigintEndsUnlessBlocked == sig_flag ~> (mpc = "done" \/ [](rpc = "recvmsg"))

================================================================================
