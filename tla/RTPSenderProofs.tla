--------------------------- MODULE RTPSenderProofs ---------------------------
(***************************************************************************)
(* Proofs about the sender, for every recording, every line typed and any  *)
(* number of loops: its types, that exactly the packets asked for are      *)
(* lost, that the numbers on the wire follow each other, that the counters *)
(* agree, and that a command has done what it says when the next is asked. *)
(***************************************************************************)
EXTENDS FrameScan, CommonLemmas, FiniteSetTheorems, SequenceTheorems, TLAPS

LEMMA Constants ==
    /\ MaxLines \in Nat \ {0} /\ SeqModulus \in Nat \ {0} /\ RawSeq \in Nat \ {0}
    /\ TsMod \in Nat \ {0} /\ Word \in Nat \ {0} /\ Clock \in Nat \ {0}
  BY SenderAssumption

LEMMA ModRange ==
    ASSUME NEW a \in Int, NEW b \in Nat \ {0}
    PROVE  a % b \in 0 .. b - 1
  OBVIOUS

LEMMA SetIgnoreRange ==
    ASSUME NEW n \in Int
    PROVE  set_ignore(n) \in 0 .. SIZE_MAX
  BY Constants, ModRange, n - 1 \in Int DEF set_ignore, SIZE_MAX

\* A nonempty set of packets' positions has a first.
LEMMA MinIn ==
    ASSUME NEW S, S \subseteq Nat, S # {}
    PROVE  Min(S) \in S
  BY LeastElement DEF Min

LEMMA BlockNumbers ==
    ASSUME NEW b \in Blocks, NEW t \in 0 .. TsMod - 1, NEW q \in 0 .. SeqModulus - 1
    PROVE  [b EXCEPT !.ts = t, !.seq = q] \in Blocks
  BY DEF Blocks

\* Writing numbers into a packet leaves a sequence of packets.
LEMMA WriteType ==
    ASSUME TypeOK, p < N
    PROVE  /\ Write(p + 1) \in Seq(Blocks)
           /\ Len(Write(p + 1)) = N
  <1> DEFINE k == p + 1
             t == tp % TsMod
             q == exseq % SeqModulus
             b == [packets[k] EXCEPT !.ts = t, !.seq = q]
  <1>1. packets \in Seq(Blocks) /\ N = Len(packets) /\ k \in 1 .. Len(packets)
    BY DEF TypeOK, N
  <1>2. t \in 0 .. TsMod - 1 /\ q \in 0 .. SeqModulus - 1
    <2>1. tp \in Int /\ exseq \in Int
      BY Constants DEF TypeOK
    <2> QED BY <2>1, Constants, ModRange
  <1>3. packets[k] \in Blocks
    BY <1>1
  <1>4. b \in Blocks
    BY <1>2, <1>3, BlockNumbers
  <1>5. Write(p + 1) = [packets EXCEPT ![k] = b]
    BY <1>1, <1>3 DEF Write, Blocks
  <1> HIDE DEF b, k
  <1>6. [packets EXCEPT ![k] = b] \in Seq(Blocks)
        /\ Len([packets EXCEPT ![k] = b]) = Len(packets)
    BY <1>1, <1>4, ExceptSeq
  <1> QED BY <1>1, <1>5, <1>6

LEMMA AdvanceType ==
    ASSUME NEW s \in Seq(Blocks), NEW rate \in Nat, ~ReadsPast(s, rate)
    PROVE  AdvanceOf(s, rate) \in Nat /\ s[1] \in Blocks
  <1> DEFINE e == Min(FrameEnds(s))
  <1>1. FrameEnds(s) \subseteq Nat /\ FrameEnds(s) \subseteq 1 .. Len(s)
    BY DEF FrameEnds
  <1>2. e \in 1 .. Len(s)
    BY <1>1, MinIn DEF ReadsPast
  <1>3. s[1] \in Blocks
    BY <1>2
  <1>4. FrameRate(rate) \in Nat
    BY Constants DEF FrameRate, SIZE_MAX
  <1>5. CASE FrameRate(rate) # SIZE_MAX
    BY <1>3, <1>4, <1>5 DEF AdvanceOf
  <1>6. CASE FrameRate(rate) = SIZE_MAX
    <2>1. e < Len(s)
      BY <1>2, <1>6 DEF ReadsPast
    <2> HIDE DEF e
    <2>2. s[e + 1] \in Blocks
      BY <1>2, <2>1
    <2> DEFINE d == s[e + 1].ts - s[1].ts
    <2>3. s[1].ts \in 0 .. TsMod - 1 /\ s[e + 1].ts \in 0 .. TsMod - 1
      BY <1>3, <2>2 DEF Blocks
    <2>4. d \in Int
      BY <2>3, Constants
    <2>5. d % TsMod \in Nat
      <3> HIDE DEF d
      <3> QED BY <2>4, Constants
    <2> QED BY <1>3, <1>6, <2>5 DEF AdvanceOf, e
  <1> QED BY <1>5, <1>6

\* What a command leaves alone.
LEMMA LineType ==
    ASSUME TypeOK, NEW c \in Commands, NEW n \in Nat, Line(c, n)
    PROVE  lines' \in Nat /\ asked' \in [c: Commands, n: Nat, call: Nat, lost: Nat]
  BY DEF TypeOK, Line, Typed

\* The sender keeps its types.
LEMMA TypeInit == Init => TypeOK
  <1> SUFFICES ASSUME Init PROVE TypeOK
    OBVIOUS
  <1>1. loops \in Nat /\ NoBlock \in Blocks /\ <<>> \in Seq(Blocks) /\ N = 0
    BY Constants, SenderAssumption DEF Init, NoBlock, Blocks, N
  <1>2. NoPacket \in [seq: 0 .. SeqModulus - 1, ts: 0 .. TsMod - 1, M: BOOLEAN, lost: BOOLEAN]
    BY Constants DEF NoPacket
  <1>3. NoCommand \in [c: Commands, n: Nat, call: Nat, lost: Nat]
    BY DEF NoCommand, Commands
  <1>4. FromBase \in [seq: {"base", "last", "changed"}, ts: {"base", "last"}]
    BY DEF FromBase
  <1>5. 0 \in 0 .. SIZE_MAX /\ 0 \in 0 .. RawSeq - 1 /\ i \in 0 .. loops /\ p \in 0 .. N
    BY <1>1, Constants DEF Init, SIZE_MAX
  <1> QED BY <1>1, <1>2, <1>3, <1>4, <1>5 DEF Init, TypeOK

LEMMA TypeStep == TypeOK /\ [Next]_vars => TypeOK'
  <1> SUFFICES ASSUME TypeOK, [Next]_vars PROVE TypeOK'
    OBVIOUS
  <1> USE DEF loaded, place, clock, counters, history
  <1>1. CASE Load
    <2>1. load(file) \in Seq(Blocks) /\ fps \in Nat
      BY SenderAssumption DEF TypeOK
    <2>2. CASE phase' # "read"
      BY <1>1, <2>2 DEF Load, TypeOK, N, Ended
    <2>3. CASE phase' = "read"
      <3>1. /\ packets' = load(file) /\ base' = load(file)[1] /\ tp' = base'.ts /\ exseq' = base'.seq
            /\ adv' = AdvanceOf(load(file), fps) /\ ~ReadsPast(load(file), fps)
        BY <1>1, <2>3 DEF Load
      <3>2. adv' \in Nat /\ base' \in Blocks
        BY <2>1, <3>1, AdvanceType
      <3>3. tp' \in Nat /\ exseq' \in 0 .. RawSeq - 1
        <4>1. base'.ts \in 0 .. TsMod - 1 /\ base'.seq \in 0 .. SeqModulus - 1
          BY <3>2 DEF Blocks
        <4>2. SeqModulus <= RawSeq
          BY SenderAssumption, Constants
        <4> QED BY <3>1, <4>1, <4>2, Constants
      <3>4. p' \in 0 .. N'
        BY <1>1, <2>1, <3>1 DEF Load, TypeOK, N
      <3> QED BY <1>1, <2>1, <2>3, <3>1, <3>2, <3>3, <3>4 DEF Load, TypeOK
    <2> QED BY <2>2, <2>3
  <1>2. CASE NextLoop
    <2>1. loops \in Nat
      BY SenderAssumption DEF TypeOK
    <2> QED BY <1>2, <2>1 DEF NextLoop, TypeOK, N, Ended
  <1>3. CASE NoLine
    BY <1>3, Constants DEF NoLine, InLoop, Prompting, TypeOK, N, SIZE_MAX
  <1>4. CASE EndOfInput
    BY <1>4, Constants DEF EndOfInput, InLoop, Prompting, TypeOK, N, Typed, Commands
  <1>0. /\ \A n \in Numbers : n \in Nat /\ set_ignore(n) \in 0 .. SIZE_MAX
        /\ \A k \in Nat : set_ignore(k + 1) \in 0 .. SIZE_MAX
        /\ \A c \in Commands, n \in Nat : Line(c, n) =>
              /\ lines' \in Nat /\ asked' \in [c: Commands, n: Nat, call: Nat, lost: Nat]
              /\ p < N /\ phase = "read"
    <2>1. \A n \in Numbers : n \in Nat
      BY SenderAssumption
    <2>2. \A n \in Nat : set_ignore(n) \in 0 .. SIZE_MAX
      BY SetIgnoreRange
    <2>3. \A k \in Nat : set_ignore(k + 1) \in 0 .. SIZE_MAX
      <3> TAKE k \in Nat
      <3>1. k + 1 \in Nat
        OBVIOUS
      <3> QED BY <2>2, <3>1
    <2>4. ASSUME NEW c \in Commands, NEW n \in Nat, Line(c, n)
          PROVE  /\ lines' \in Nat /\ asked' \in [c: Commands, n: Nat, call: Nat, lost: Nat]
                 /\ p < N /\ phase = "read"
      BY <2>4, LineType DEF Line, Prompting, InLoop
    <2> QED BY <2>1, <2>2, <2>3, <2>4
  <1>5. ASSUME NEW n \in Numbers, SendCommand(n) PROVE TypeOK'
    BY <1>0, <1>5 DEF SendCommand, Commands, TypeOK, N
  <1>6. ASSUME NEW n \in Numbers, LossCommand(n) PROVE TypeOK'
    BY <1>0, <1>6 DEF LossCommand, lose, Commands, TypeOK, N
  <1>7. ASSUME NEW n \in Numbers, ResyncCommand(n) PROVE TypeOK'
    <2>1. /\ Line("r", n)
          /\ phase' \in {"send", "undefined"} /\ cli_ignore' \in 0 .. SIZE_MAX
          /\ UNCHANGED <<loaded, place, ignore_count, clock, counters, stamped, origin>>
      <3>1. Line("r", n) /\ UNCHANGED <<loaded, place, ignore_count, clock, counters, stamped, origin>>
        BY <1>7 DEF ResyncCommand, ToCommand
      <3>2. cli_ignore \in 0 .. SIZE_MAX /\ Ahead \subseteq Nat /\ set_ignore(0) \in 0 .. SIZE_MAX
        BY SetIgnoreRange DEF TypeOK, Ahead
      <3>3. \/ \E k \in Ahead : cli_ignore' = set_ignore(k + 1) /\ phase' = "send"
            \/ cli_ignore' = set_ignore(0) /\ phase' = "send"
            \/ phase' = "undefined" /\ cli_ignore' = cli_ignore
        BY <1>7 DEF ResyncCommand, ToCommand
      <3> QED BY <1>0, <3>1, <3>2, <3>3
    <2> QED BY <1>0, <2>1 DEF Commands, TypeOK, N, Ended
  <1>8. ASSUME NEW n \in Numbers, EocCommand(n) PROVE TypeOK'
    <2>1. /\ Line("e", n)
          /\ phase' \in {"send", "undefined"} /\ cli_ignore' \in 0 .. SIZE_MAX
          /\ UNCHANGED <<loaded, place, ignore_count, clock, counters, stamped, origin>>
      <3>1. Line("e", n) /\ UNCHANGED <<loaded, place, ignore_count, clock, counters, stamped, origin>>
        BY <1>8 DEF EocCommand, ToCommand
      <3>2. cli_ignore \in 0 .. SIZE_MAX /\ Ahead \subseteq Nat /\ set_ignore(0) \in 0 .. SIZE_MAX
        BY SetIgnoreRange DEF TypeOK, Ahead
      <3>3. \/ \E k \in Ahead : cli_ignore' = set_ignore(k + 1) /\ phase' = "send"
            \/ cli_ignore' = set_ignore(0) /\ phase' = "send"
            \/ phase' = "undefined" /\ cli_ignore' = cli_ignore
        BY <1>8 DEF EocCommand, ToCommand
      <3> QED BY <1>0, <3>1, <3>2, <3>3
    <2> QED BY <1>0, <2>1 DEF Commands, TypeOK, N, Ended
  <1>9. ASSUME NEW n \in Numbers, ChangeCommand(n) PROVE TypeOK'
    <2>1. n % RawSeq \in 0 .. RawSeq - 1
      BY <1>0, Constants, ModRange
    <2>2. origin' \in [seq: {"base", "last", "changed"}, ts: {"base", "last"}]
      BY <1>9 DEF ChangeCommand, TypeOK
    <2> QED BY <1>0, <1>9, <2>1, <2>2 DEF ChangeCommand, Commands, TypeOK, N
  <1>10. ASSUME NEW n \in Numbers, ViewCommand(n) PROVE TypeOK'
    <2>1. packets' \in Seq(Blocks) /\ N' = N
      BY <1>0, <1>10, WriteType DEF ViewCommand, Commands, N
    <2>2. phase' \in {"read", "undefined"}
      BY <1>0, <1>10 DEF ViewCommand, Commands
    <2> QED BY <1>0, <1>10, <2>1, <2>2 DEF ViewCommand, Commands, TypeOK, Ended
  <1>11. CASE FrameCommand
    <2>1. phase' \in {"read", "undefined"}
      BY <1>0, <1>11 DEF FrameCommand, Commands
    <2> QED BY <1>0, <1>11, <2>1 DEF FrameCommand, Commands, TypeOK, N, Ended
  <1>12. CASE RestartCommand
    <2>1. base.ts \in 0 .. TsMod - 1 /\ base.seq \in 0 .. SeqModulus - 1 /\ loops \in Nat
      BY SenderAssumption DEF TypeOK, Blocks
    <2>2. base.ts \in Nat /\ base.seq \in 0 .. RawSeq - 1
      BY <2>1, Constants, SenderAssumption
    <2>3. NoCommand \in [c: Commands, n: Nat, call: Nat, lost: Nat]
      BY DEF NoCommand, Commands
    <2>4. FromBase \in [seq: {"base", "last", "changed"}, ts: {"base", "last"}]
      BY DEF FromBase
    <2>5. 0 \in 0 .. loops /\ 0 \in 0 .. N /\ lines' \in Nat /\ phase = "read"
      <3>1. N \in Nat /\ lines \in Nat
        BY DEF TypeOK, N
      <3> QED BY <1>12, <2>1, <3>1 DEF RestartCommand, Prompting, InLoop
    <2> QED BY <1>12, <2>2, <2>3, <2>4, <2>5 DEF RestartCommand, clear, TypeOK, N
  <1>13. CASE OtherLine
    <2>1. PICK end \in {"quit", "read", "exit"} : Line(end, 1) /\ phase' = end
      BY <1>13 DEF OtherLine
    <2> QED BY <1>0, <1>13, <2>1 DEF OtherLine, Commands, TypeOK, N, Ended
  <1>14. CASE TerminateCommand
    <2>1. /\ stamped' \in [seq: 0 .. SeqModulus - 1, ts: 0 .. TsMod - 1, M: BOOLEAN, lost: BOOLEAN]
      BY <1>14 DEF TerminateCommand, TypeOK
    <2>2. /\ send_call' \in Nat /\ sent_f_packet' \in Nat /\ lost_packet' \in Nat
          /\ sent_frame' \in Nat /\ ignore_count' \in Nat
      <3>1. /\ send_call \in Nat /\ sent_f_packet \in Nat /\ lost_packet \in Nat
            /\ sent_frame \in Nat /\ ignore_count \in Nat
        BY DEF TypeOK
      <3> QED BY <1>14, <3>1 DEF TerminateCommand, Passes
    <2> QED BY <1>0, <1>14, <2>1, <2>2 DEF TerminateCommand, Commands, TypeOK, N, Ended
  <1>15. CASE Interrupted
    BY <1>15 DEF Interrupted, TypeOK, N, Ended
  <1>16. CASE Send
    <2>1. p < N /\ packets[p + 1] \in Blocks
      BY <1>16 DEF Send, TypeOK, N
    <2>2. packets' \in Seq(Blocks) /\ N' = N
      BY <1>16, <2>1, WriteType DEF Send, N
    <2>3. packets[p + 1].M \in BOOLEAN
      BY <2>1 DEF Blocks
    <2>4. /\ send_call' \in Nat /\ sent_f_packet' \in Nat /\ lost_packet' \in Nat
          /\ sent_frame' \in Nat /\ ignore_count' \in Nat
      <3>1. /\ send_call \in Nat /\ sent_f_packet \in Nat /\ lost_packet \in Nat
            /\ sent_frame \in Nat /\ ignore_count \in Nat
        BY DEF TypeOK
      <3> QED BY <1>16, <3>1 DEF Send, Passes
    <2>5. tp % TsMod \in 0 .. TsMod - 1 /\ exseq % SeqModulus \in 0 .. SeqModulus - 1
          /\ (exseq + 1) % RawSeq \in 0 .. RawSeq - 1
      <3>1. tp \in Int /\ exseq \in Int
        BY Constants DEF TypeOK
      <3>2. exseq + 1 \in Int
        BY <3>1
      <3> QED BY <3>1, <3>2, Constants, ModRange
    <2>6. tp' \in Nat /\ exseq' \in 0 .. RawSeq - 1
      <3>1. tp \in Nat /\ adv \in Nat
        BY DEF TypeOK
      <3>2. tp' = advance_tp(packets[p + 1].M) /\ exseq' = (exseq + 1) % RawSeq
        BY <1>16 DEF Send
      <3>3. (tp % TsMod) + adv \in Nat
        BY <2>5, <3>1, Constants
      <3> QED BY <2>5, <3>1, <3>2, <3>3 DEF advance_tp
    <2>7. stamped' \in [seq: 0 .. SeqModulus - 1, ts: 0 .. TsMod - 1, M: BOOLEAN, lost: BOOLEAN]
      BY <1>16, <2>3, <2>5 DEF Send
    <2>8. phase' \in {"undefined", "read"} /\ p' \in 0 .. N
      <3>1. p \in 0 .. N /\ N \in Nat
        BY DEF TypeOK, N
      <3>2. phase' \in {"undefined", "read"} /\ p' = p + 1
        BY <1>16 DEF Send
      <3> QED BY <2>1, <3>1, <3>2
    <2>9. origin' \in [seq: {"base", "last", "changed"}, ts: {"base", "last"}]
      BY <1>16 DEF Send, FromLast
    <2> QED BY <1>16, <2>2, <2>4, <2>6, <2>7, <2>8, <2>9 DEF Send, TypeOK, Ended
  <1>17. CASE SendFails
    BY <1>17 DEF SendFails, TypeOK, N, Ended
  <1>18. CASE UNCHANGED vars
    BY <1>18 DEF vars, TypeOK, N
  <1> QED BY <1>1, <1>2, <1>3, <1>4, <1>5, <1>6, <1>7, <1>8, <1>9, <1>10, <1>11, <1>12, <1>13,
             <1>14, <1>15, <1>16, <1>17, <1>18 DEF Next

\* Every variable of the sender keeps its type.
THEOREM SenderTypeCorrect == Spec => []TypeOK
  BY TypeInit, TypeStep, PTL DEF Spec
-----------------------------------------------------------------------------
(* The packets to lose.                                                    *)

\* The two counters run together, and what is lost and what is still to lose
\* make up what was asked for.
LossInv ==
    /\ phase \in {"load", "read", "send"} =>
        /\ ignore_count # 0 => ignore_count = cli_ignore + IF phase = "send" THEN 1 ELSE 0
        /\ ~enter => ignore_count = 0
        /\ asked.c = "l" => lost_packet - asked.lost + ignore_count = asked.n
        /\ asked.c # "l" => lost_packet = asked.lost /\ ignore_count = 0
    /\ phase = "terminated" => ~stamped.lost

\* When it asks, nothing is left to lose.
LEMMA AskedIdle ==
    ASSUME TypeOK, LossInv, Prompting
    PROVE  ignore_count = 0 /\ phase = "read" /\ enter
  BY DEF TypeOK, LossInv, Prompting, InLoop

\* A command other than 'l' starts a count of its own.
LEMMA OtherCommandLoss ==
    ASSUME TypeOK, LossInv, NEW c \in Commands \ {"l"}, NEW n \in Nat, Line(c, n),
           ignore_count' = ignore_count, lost_packet' = lost_packet, phase' # "terminated"
    PROVE  LossInv'
  <1>1. ignore_count = 0 /\ asked' = [c |-> c, n |-> n, call |-> send_call, lost |-> lost_packet]
    BY AskedIdle DEF Line, Typed
  <1> QED BY <1>1 DEF LossInv

LEMMA LossStep == TypeOK /\ LossInv /\ [Next]_vars => LossInv'
  <1> SUFFICES ASSUME TypeOK, LossInv, [Next]_vars PROVE LossInv'
    OBVIOUS
  <1> USE DEF loaded, place, clock, counters, history
  <1>0. /\ Numbers \subseteq Nat /\ Numbers \subseteq 0 .. Word - 1 /\ Word \in Nat \ {0}
        /\ cli_ignore \in Nat /\ ignore_count \in Nat /\ lost_packet \in Nat
        /\ asked \in [c: Commands, n: Nat, call: Nat, lost: Nat]
    <2>1. Numbers \subseteq 0 .. Word - 1 /\ Word \in Nat \ {0}
      BY SenderAssumption, Constants
    <2>2. Numbers \subseteq Nat
      BY <2>1
    <2>3. cli_ignore \in 0 .. SIZE_MAX /\ ignore_count \in Nat /\ lost_packet \in Nat
          /\ asked \in [c: Commands, n: Nat, call: Nat, lost: Nat]
      BY DEF TypeOK
    <2> QED BY <2>1, <2>2, <2>3
  <1>1. CASE Load
    BY <1>1 DEF Load, LossInv
  <1>2. CASE NextLoop
    BY <1>2 DEF NextLoop, LossInv
  <1>3. CASE NoLine
    BY <1>0, <1>3 DEF NoLine, InLoop, Prompting, LossInv
  <1>4. CASE EndOfInput
    <2>1. ignore_count = 0 /\ asked' = [c |-> "s", n |-> 1, call |-> send_call, lost |-> lost_packet]
      BY <1>4, AskedIdle DEF EndOfInput, Typed
    <2> QED BY <1>4, <2>1 DEF EndOfInput, LossInv
  <1>5. ASSUME NEW n \in Numbers, SendCommand(n) PROVE LossInv'
    BY <1>0, <1>5, OtherCommandLoss DEF SendCommand, Commands
  <1>6. ASSUME NEW n \in Numbers, LossCommand(n) PROVE LossInv'
    <2>1. /\ Prompting /\ phase' = "send" /\ enter' = enter /\ lost_packet' = lost_packet
          /\ ignore_count' = n /\ cli_ignore' = (n - 1) % Word
          /\ asked' = [c |-> "l", n |-> n, call |-> send_call, lost |-> lost_packet]
      BY <1>6 DEF LossCommand, Line, Typed, set_ignore, lose
    <2>2. enter
      BY <2>1, AskedIdle
    <2>3. n # 0 => (n - 1) % Word = n - 1
      BY <1>0
    <2>4. n \in Nat
      BY <1>0
    <2> QED BY <1>0, <2>1, <2>2, <2>3, <2>4 DEF LossInv
  <1>7. ASSUME NEW n \in Numbers, ResyncCommand(n) PROVE LossInv'
    BY <1>0, <1>7, OtherCommandLoss DEF ResyncCommand, ToCommand, Commands
  <1>8. ASSUME NEW n \in Numbers, EocCommand(n) PROVE LossInv'
    BY <1>0, <1>8, OtherCommandLoss DEF EocCommand, ToCommand, Commands
  <1>9. ASSUME NEW n \in Numbers, ChangeCommand(n) PROVE LossInv'
    <2>1. Line("c", n) /\ phase' = "read" /\ ignore_count' = ignore_count /\ lost_packet' = lost_packet
      BY <1>9 DEF ChangeCommand, Line, Prompting, InLoop
    <2> QED BY <1>0, <2>1, OtherCommandLoss DEF Commands
  <1>10. ASSUME NEW n \in Numbers, ViewCommand(n) PROVE LossInv'
    <2>1. /\ Line("v", n) /\ phase' \in {"read", "undefined"}
          /\ ignore_count' = ignore_count /\ lost_packet' = lost_packet
      BY <1>10 DEF ViewCommand, Line, Prompting, InLoop
    <2> QED BY <1>0, <2>1, OtherCommandLoss DEF Commands
  <1>11. CASE FrameCommand
    <2>1. /\ Line("f", 1) /\ phase' \in {"read", "undefined"}
          /\ ignore_count' = ignore_count /\ lost_packet' = lost_packet
      BY <1>11 DEF FrameCommand, Line, Prompting, InLoop
    <2> QED BY <1>0, <2>1, OtherCommandLoss DEF Commands
  <1>12. CASE RestartCommand
    <2>1. ignore_count = 0 /\ phase = "read"
      BY <1>12, AskedIdle DEF RestartCommand
    <2>2. /\ asked'.c = "none" /\ asked'.lost = 0 /\ lost_packet' = 0
          /\ ignore_count' = 0 /\ phase' = "read"
      BY <1>12, <2>1 DEF RestartCommand, clear, NoCommand
    <2> QED BY <2>2 DEF LossInv
  <1>13. CASE OtherLine
    <2>1. PICK end \in {"quit", "read", "exit"} : Line(end, 1) /\ phase' = end
      BY <1>13 DEF OtherLine
    <2>2. ignore_count' = ignore_count /\ lost_packet' = lost_packet
      BY <1>13 DEF OtherLine
    <2> QED BY <1>0, <2>1, <2>2, OtherCommandLoss DEF Commands
  <1>14. CASE TerminateCommand
    <2>1. ignore_count = 0
      BY <1>14, AskedIdle DEF TerminateCommand, Line
    <2>2. ~stamped'.lost
      BY <1>14, <2>1 DEF TerminateCommand, TypeOK
    <2> QED BY <1>14, <2>2 DEF TerminateCommand, LossInv
  <1>15. CASE Interrupted
    BY <1>15 DEF Interrupted, LossInv
  <1>16. CASE Send
    <2>1. /\ phase = "send" /\ phase' \in {"undefined", "read"}
          /\ enter' = enter /\ cli_ignore' = cli_ignore /\ asked' = asked
      BY <1>16 DEF Send
    <2>2. IF ignore_count # 0
          THEN ignore_count' = ignore_count - 1 /\ lost_packet' = lost_packet + 1
          ELSE ignore_count' = ignore_count /\ lost_packet' = lost_packet
      BY <1>16 DEF Send, Passes
    <2> QED BY <1>0, <2>1, <2>2 DEF LossInv
  <1>17. CASE SendFails
    BY <1>17 DEF SendFails, LossInv
  <1>18. CASE UNCHANGED vars
    BY <1>18 DEF vars, LossInv
  <1> QED BY <1>1, <1>2, <1>3, <1>4, <1>5, <1>6, <1>7, <1>8, <1>9, <1>10, <1>11, <1>12, <1>13,
             <1>14, <1>15, <1>16, <1>17, <1>18 DEF Next

\* 'l n' loses n packets, whatever n is and wherever the recording ends
\* among them, and nothing else loses a packet.
THEOREM SenderLossExact == Spec => []LossExact
  <1>1. Init => LossInv
    BY DEF Init, LossInv, NoCommand, NoPacket
  <1>2. TypeOK /\ LossInv => LossExact
    <2> SUFFICES ASSUME TypeOK, LossInv PROVE LossExact
      OBVIOUS
    <2>1. ASSUME Prompting
          PROVE  lost_packet - asked.lost = IF asked.c = "l" THEN asked.n ELSE 0
      <3>1. ignore_count = 0 /\ phase = "read"
        BY <2>1, AskedIdle
      <3>2. lost_packet \in Nat /\ asked.lost \in Nat /\ asked.n \in Nat
        BY DEF TypeOK
      <3> QED BY <3>1, <3>2 DEF LossInv
    <2> QED BY <2>1 DEF LossInv, LossExact
  <1> QED BY <1>1, <1>2, TypeInit, TypeStep, LossStep, PTL DEF Spec
-----------------------------------------------------------------------------
(* The numbers on the wire.                                                *)

\* The numbers packet_os has for the next packet, by where they come from.
NumbersInv ==
    /\ phase = "load" => origin = FromBase
    /\ phase \in {"read", "send"} =>
        /\ origin.ts = "base" => tp = base.ts
        /\ origin.seq = "base" => exseq = base.seq
        /\ origin.ts = "last" =>
              tp % TsMod = (stamped.ts + IF stamped.M THEN adv ELSE 0) % TsMod
        /\ origin.seq = "last" => exseq % SeqModulus = (stamped.seq + 1) % SeqModulus

\* A step that leaves the clock, its origin and the last packet alone.
LEMMA NumbersStay ==
    ASSUME NumbersInv, phase \in {"read", "send"}, phase' # "load",
           UNCHANGED <<clock, origin, stamped, base, adv>>
    PROVE  NumbersInv'
  BY DEF NumbersInv, clock

LEMMA NumbersStep == TypeOK /\ NumbersInv /\ [Next]_vars => NumbersInv'
  <1> SUFFICES ASSUME TypeOK, NumbersInv, [Next]_vars PROVE NumbersInv'
    OBVIOUS
  <1> USE DEF loaded, place, clock, counters, history
  <1>1. CASE Load
    <2>1. origin = FromBase /\ origin' = origin
      BY <1>1 DEF Load, NumbersInv
    <2>2. phase' # "load" /\ (phase' = "read" => tp' = base'.ts /\ exseq' = base'.seq)
      BY <1>1 DEF Load
    <2>3. phase' # "send"
      BY <1>1 DEF Load
    <2> QED BY <2>1, <2>2, <2>3 DEF NumbersInv, FromBase
  <1>2. CASE NextLoop
    BY <1>2, NumbersStay DEF NextLoop
  <1>3. CASE NoLine
    BY <1>3, NumbersStay DEF NoLine, InLoop
  <1>4. CASE EndOfInput
    BY <1>4, NumbersStay DEF EndOfInput, Prompting, InLoop
  <1>5. ASSUME NEW n \in Numbers,
               SendCommand(n) \/ LossCommand(n) \/ ResyncCommand(n) \/ EocCommand(n) \/ ViewCommand(n)
        PROVE  NumbersInv'
    <2>1. phase = "read" /\ phase' \in {"read", "send", "undefined"}
      BY <1>5 DEF SendCommand, LossCommand, ResyncCommand, EocCommand, ToCommand, ViewCommand,
                  Line, Prompting, InLoop
    <2>2. UNCHANGED <<clock, origin, stamped, base, adv>>
      BY <1>5 DEF SendCommand, LossCommand, ResyncCommand, EocCommand, ToCommand, ViewCommand
    <2> QED BY <2>1, <2>2, NumbersStay
  <1>6. ASSUME NEW n \in Numbers, ChangeCommand(n) PROVE NumbersInv'
    <2>1. /\ phase = "read" /\ phase' = "read"
          /\ tp' = tp /\ base' = base /\ adv' = adv /\ stamped' = stamped
      BY <1>6 DEF ChangeCommand, Line, Prompting, InLoop
    <2>2. origin'.seq = "changed" /\ origin'.ts = origin.ts
      BY <1>6 DEF ChangeCommand, TypeOK
    <2> QED BY <2>1, <2>2 DEF NumbersInv
  <1>7. CASE FrameCommand \/ OtherLine
    BY <1>7, NumbersStay DEF FrameCommand, OtherLine, Line, Prompting, InLoop
  <1>8. CASE RestartCommand
    BY <1>8 DEF RestartCommand, FromBase, Prompting, InLoop, NumbersInv
  <1>9. CASE TerminateCommand
    BY <1>9 DEF TerminateCommand, NumbersInv
  <1>10. CASE Interrupted \/ SendFails
    BY <1>10 DEF Interrupted, SendFails, NumbersInv
  <1>11. CASE Send
    <2> DEFINE M == packets[p + 1].M
    <2>1. /\ tp' = advance_tp(M) /\ exseq' = (exseq + 1) % RawSeq /\ adv' = adv
          /\ stamped' = [seq |-> exseq % SeqModulus, ts |-> tp % TsMod, M |-> M,
                         lost |-> ignore_count # 0]
          /\ origin' = FromLast /\ phase' # "load"
      BY <1>11 DEF Send
    <2>2. tp \in Nat /\ exseq \in 0 .. RawSeq - 1
      BY DEF TypeOK
    <2> HIDE DEF M
    <2>3. exseq' % SeqModulus = (stamped'.seq + 1) % SeqModulus
      <3>1. ((exseq % SeqModulus) + 1) % SeqModulus = (exseq + 1) % SeqModulus
        BY <2>2, Constants, ModNext
      <3>2. CASE exseq + 1 < RawSeq
        <4>1. (exseq + 1) % RawSeq = exseq + 1
          BY <2>2, <3>2, Constants
        <4> QED BY <2>1, <3>1, <4>1
      <3>3. CASE exseq + 1 = RawSeq
        <4>1. exseq' = 0
          BY <2>1, <3>3, Constants
        <4>2. RawSeq % SeqModulus = 0 /\ 0 % SeqModulus = 0
          BY SenderAssumption, Constants
        <4> QED BY <2>1, <3>1, <3>3, <4>1, <4>2
      <3> QED BY <2>2, <3>2, <3>3, Constants
    <2>4. tp' % TsMod = (stamped'.ts + IF stamped'.M THEN adv' ELSE 0) % TsMod
      <3>1. ((tp % TsMod) + 0) % TsMod = tp % TsMod
        BY <2>2, Constants, ModMod
      <3> QED BY <2>1, <3>1 DEF advance_tp
    <2> QED BY <2>1, <2>3, <2>4 DEF NumbersInv, FromLast
  <1>12. CASE UNCHANGED vars
    BY <1>12 DEF vars, NumbersInv
  <1> QED BY <1>1, <1>2, <1>3, <1>4, <1>5, <1>6, <1>7, <1>8, <1>9, <1>10, <1>11, <1>12 DEF Next

LEMMA FollowsStep ==
    TypeOK /\ NumbersInv /\ [Next]_vars => [p' > p => Follows(stamped, stamped')]_vars
  <1> SUFFICES ASSUME TypeOK, NumbersInv, Next, p' > p PROVE Follows(stamped, stamped')
    OBVIOUS
  <1> USE DEF loaded, place, clock, counters, history
  <1>1. p \in Nat /\ base.ts \in 0 .. TsMod - 1 /\ base.seq \in 0 .. SeqModulus - 1
        /\ origin.ts \in {"base", "last"}
    BY DEF TypeOK, Blocks
  <1>2. Send
    <2>1. ~(p > p) /\ ~(0 > p)
      BY <1>1
    <2>2. \A n \in Numbers : ~(SendCommand(n) \/ LossCommand(n) \/ ResyncCommand(n)
              \/ EocCommand(n) \/ ChangeCommand(n) \/ ViewCommand(n))
      BY <2>1 DEF SendCommand, LossCommand, ResyncCommand, EocCommand, ToCommand,
                  ChangeCommand, ViewCommand
    <2>3. ~Load /\ ~NextLoop /\ ~NoLine /\ ~EndOfInput
      BY <2>1 DEF Load, NextLoop, NoLine, EndOfInput
    <2>4. ~FrameCommand /\ ~RestartCommand /\ ~OtherLine /\ ~TerminateCommand
      BY <2>1 DEF FrameCommand, RestartCommand, OtherLine, TerminateCommand
    <2>5. ~Interrupted /\ ~SendFails
      BY <2>1 DEF Interrupted, SendFails
    <2> QED BY <2>2, <2>3, <2>4, <2>5 DEF Next
  <1>3. phase = "send" /\ stamped'.seq = exseq % SeqModulus /\ stamped'.ts = tp % TsMod
    BY <1>2 DEF Send
  <1>4. base.ts % TsMod = base.ts /\ base.seq % SeqModulus = base.seq
    BY <1>1, Constants
  <1> QED BY <1>1, <1>3, <1>4 DEF NumbersInv, Follows

\* For every recording the numbers of the packets on the wire follow each
\* other, over the end of the recording and the wrap of both counters.
THEOREM SenderNumbersFollow == Spec => NumbersFollow
  <1>1. Init => NumbersInv
    BY DEF Init, NumbersInv
  <1> QED BY <1>1, TypeInit, TypeStep, NumbersStep, FollowsStep, PTL DEF Spec, NumbersFollow
-----------------------------------------------------------------------------
(* The counters of packet_sender and the place in the recording.           *)

\* The frames that end among the first k packets.
EndsUpTo(k) == {e \in FrameEnds(packets) : e <= k}

\* The counters are the place; and 'f' does not look past the end in the
\* first loop over a recording that ends with a frame.
CountersInv ==
    /\ phase = "load" => place = <<0, 0>> /\ counters = <<0, 0, 0, 0>> /\ asked.c = "none"
    /\ phase \in {"read", "send", "ended"} =>
        /\ send_call = i * N + p
        /\ sent_frame = i * Cardinality(FrameEnds(packets)) + Cardinality(EndsUpTo(p))
        /\ sent_f_packet <= send_call
        /\ \A k \in EndsUpTo(p) : i * N + k <= sent_f_packet
    /\ (phase \in {"read", "send"} /\ asked.c = "f") => Prompting
    /\ (phase = "undefined" /\ asked.c = "f") => i > 0 \/ ~packets[N].M

LEMMA EndsOf ==
    ASSUME NEW s \in Seq(Blocks)
    PROVE  /\ Len(s) \in Nat /\ FrameEnds(s) = {k \in 1 .. Len(s) : s[k].M}
           /\ IsFiniteSet(FrameEnds(s)) /\ Cardinality(FrameEnds(s)) \in Nat
           /\ {e \in FrameEnds(s) : e <= 0} = {}
  <1>1. Len(s) \in Nat /\ FrameEnds(s) = {k \in 1 .. Len(s) : s[k].M}
    BY DEF FrameEnds
  <1>2. IsFiniteSet(FrameEnds(s))
    <2>1. IsFiniteSet(1 .. Len(s))
      BY <1>1, FS_Interval
    <2> QED BY <1>1, <2>1, FS_Subset
  <1> QED BY <1>1, <1>2, FS_CardinalityType

LEMMA FrameEndsFinite ==
    ASSUME TypeOK
    PROVE  /\ N \in Nat /\ FrameEnds(packets) = {k \in 1 .. N : packets[k].M}
           /\ IsFiniteSet(FrameEnds(packets)) /\ Cardinality(FrameEnds(packets)) \in Nat
           /\ \A k \in Nat : IsFiniteSet(EndsUpTo(k)) /\ Cardinality(EndsUpTo(k)) \in Nat
           /\ EndsUpTo(0) = {} /\ EndsUpTo(N) = FrameEnds(packets)
  <1>1. packets \in Seq(Blocks) /\ N = Len(packets)
    BY DEF TypeOK, N
  <1>2. N \in Nat /\ FrameEnds(packets) = {k \in 1 .. N : packets[k].M}
    BY <1>1, EndsOf
  <1>4. IsFiniteSet(FrameEnds(packets))
    BY <1>1, EndsOf
  <1>5. \A k \in Nat : IsFiniteSet(EndsUpTo(k)) /\ Cardinality(EndsUpTo(k)) \in Nat
    BY <1>4, FS_Subset, FS_CardinalityType DEF EndsUpTo
  <1>6. EndsUpTo(0) = {} /\ EndsUpTo(N) = FrameEnds(packets)
    <2>1. \A e \in FrameEnds(packets) : 1 <= e /\ e <= N /\ e \in Nat
      BY <1>2
    <2> QED BY <2>1 DEF EndsUpTo
  <1> QED BY <1>2, <1>4, <1>5, <1>6, FS_CardinalityType

\* New numbers in a packet leave what marks the ends of frames and the resync
\* points.
LEMMA WriteMarks ==
    ASSUME TypeOK, p < N, packets' = Write(p + 1)
    PROVE  /\ N' = N
           /\ \A k \in 1 .. N : packets'[k].M = packets[k].M /\ packets'[k].flag = packets[k].flag
           /\ FrameEnds(packets)' = FrameEnds(packets)
  <1>1. N' = N /\ N \in Nat /\ packets' \in Seq(Blocks) /\ packets \in Seq(Blocks)
    BY WriteType DEF N, TypeOK
  <1>2. \A k \in 1 .. N : packets'[k].M = packets[k].M /\ packets'[k].flag = packets[k].flag
    <2> TAKE k \in 1 .. N
    <2>1. packets[k] \in Blocks
      BY <1>1 DEF N
    <2> QED BY <1>1, <2>1 DEF Write, Blocks, N
  <1>3. DOMAIN packets = 1 .. N /\ DOMAIN packets' = 1 .. N
    BY <1>1 DEF N
  <1> QED BY <1>1, <1>2, <1>3 DEF FrameEnds

\* A step that leaves the place and the counters, and is no 'f'.
LEMMA CountersStay ==
    ASSUME CountersInv, phase \in {"read", "send"}, phase' # "load", asked'.c # "f",
           UNCHANGED <<place, counters>>, N' = N, FrameEnds(packets)' = FrameEnds(packets)
    PROVE  CountersInv'
  BY DEF CountersInv, place, counters, EndsUpTo

LEMMA CountersStep == TypeOK /\ CountersInv /\ [Next]_vars => CountersInv'
  <1> SUFFICES ASSUME TypeOK, CountersInv, [Next]_vars PROVE CountersInv'
    OBVIOUS
  <1> USE DEF loaded, place, clock, counters, history
  <1>0. /\ N \in Nat /\ i \in Nat /\ p \in 0 .. N /\ send_call \in Nat /\ sent_frame \in Nat
        /\ sent_f_packet \in Nat
    BY SenderAssumption, FrameEndsFinite DEF TypeOK
  <1>1. CASE Load
    <2>1. CASE phase' = "read"
      <3>1. /\ packets' \in Seq(Blocks) /\ i' = 0 /\ p' = 0 /\ asked'.c = "none"
            /\ send_call' = 0 /\ sent_frame' = 0 /\ sent_f_packet' = 0
        BY <1>1, <2>1, SenderAssumption DEF Load, CountersInv, TypeOK
      <3>2. /\ Len(packets') \in Nat /\ Cardinality(FrameEnds(packets')) \in Nat
            /\ {e \in FrameEnds(packets') : e <= 0} = {} /\ Cardinality({}) = 0
        BY <3>1, EndsOf, FS_EmptySet
      <3>3. send_call' = i' * Len(packets') + p'
        BY <3>1, <3>2
      <3>4. EndsUpTo(p)' = {}
        BY <3>1, <3>2 DEF EndsUpTo
      <3>5. sent_frame' = i' * Cardinality(FrameEnds(packets')) + Cardinality(EndsUpTo(p)')
        <4> DEFINE F == Cardinality(FrameEnds(packets'))
        <4>1. F \in Nat
          BY <3>2
        <4> HIDE DEF F
        <4>2. 0 * F + 0 = 0
          BY <4>1
        <4> QED BY <3>1, <3>2, <3>4, <4>2 DEF F
      <3> QED BY <2>1, <3>1, <3>3, <3>4, <3>5 DEF CountersInv, N
    <2>2. CASE phase' # "read"
      BY <1>1, <2>2 DEF Load, CountersInv
    <2> QED BY <2>1, <2>2
  <1>2. CASE NextLoop
    <2>1. asked.c # "f" /\ phase = "read"
      BY <1>2 DEF NextLoop, CountersInv, Prompting, InLoop, TypeOK
    <2>2. CASE i = loops
      BY <1>2, <2>1, <2>2 DEF NextLoop, CountersInv, EndsUpTo, N
    <2>3. CASE i # loops
      <3> DEFINE F == Cardinality(FrameEnds(packets))
      <3>1. p = N /\ i' = i + 1 /\ p' = 0 /\ phase' = "read" /\ N' = N
            /\ UNCHANGED <<packets, counters, asked>>
        BY <1>2, <2>3 DEF NextLoop, N
      <3>2. F \in Nat /\ Cardinality(EndsUpTo(N)) = F /\ Cardinality({}) = 0 /\ EndsUpTo(0) = {}
        BY FrameEndsFinite, FS_EmptySet
      <3>3. send_call = i * N + N /\ sent_frame = i * F + F /\ sent_f_packet <= send_call
        BY <2>1, <3>1, <3>2 DEF CountersInv
      <3> HIDE DEF F
      <3>4. (i + 1) * N = i * N + N /\ (i + 1) * F = i * F + F
        BY <1>0, <3>2
      <3>5. EndsUpTo(p)' = {} /\ F = Cardinality(FrameEnds(packets))'
        BY <3>1, <3>2 DEF EndsUpTo, F
      <3>6. (i + 1) * N + 0 = (i + 1) * N /\ (i + 1) * F + 0 = (i + 1) * F
        BY <1>0, <3>2
      <3>7. send_call' = (i' * N + p')
        BY <3>1, <3>3, <3>4, <3>6
      <3>8. sent_frame' = i' * F + Cardinality(EndsUpTo(p)')
        BY <3>1, <3>2, <3>3, <3>4, <3>5, <3>6
      <3> QED BY <2>1, <3>1, <3>3, <3>5, <3>7, <3>8 DEF CountersInv
    <2> QED BY <2>2, <2>3
  <1>3. CASE NoLine
    <2>1. asked.c # "f"
      BY <1>3 DEF NoLine, InLoop, CountersInv
    <2> QED BY <1>3, <2>1, CountersStay DEF NoLine, InLoop, N
  <1>4. CASE EndOfInput
    BY <1>4, CountersStay DEF EndOfInput, Prompting, InLoop, Typed, N
  <1>5. ASSUME NEW n \in Numbers,
               SendCommand(n) \/ LossCommand(n) \/ ResyncCommand(n) \/ EocCommand(n) \/ ChangeCommand(n)
        PROVE  CountersInv'
    <2>0. PICK c \in {"s", "l", "r", "e", "c"} : Line(c, n)
      BY <1>5 DEF SendCommand, LossCommand, ResyncCommand, EocCommand, ToCommand, ChangeCommand
    <2>3. phase = "read" /\ asked'.c = c
      BY <2>0 DEF Line, Prompting, InLoop, Typed
    <2>4. phase' \in {"read", "send", "undefined"}
      <3>1. CASE ChangeCommand(n)
        BY <2>3, <3>1 DEF ChangeCommand
      <3>2. CASE ~ChangeCommand(n)
        BY <1>5, <3>2 DEF SendCommand, LossCommand, ResyncCommand, EocCommand, ToCommand
      <3> QED BY <3>1, <3>2
    <2>1. phase = "read" /\ phase' \in {"read", "send", "undefined"} /\ asked'.c # "f"
      BY <2>3, <2>4
    <2>2. UNCHANGED <<packets, place, counters>>
      BY <1>5 DEF SendCommand, LossCommand, ResyncCommand, EocCommand, ToCommand, ChangeCommand
    <2> QED BY <2>1, <2>2, CountersStay DEF N
  <1>6. ASSUME NEW n \in Numbers, ViewCommand(n) PROVE CountersInv'
    <2>1. phase = "read" /\ phase' \in {"read", "undefined"} /\ asked'.c # "f" /\ p < N
          /\ packets' = Write(p + 1) /\ UNCHANGED <<place, counters>>
      BY <1>6 DEF ViewCommand, Line, Prompting, InLoop, Typed
    <2> QED BY <2>1, WriteMarks, CountersStay
  <1>7. CASE FrameCommand
    <2>1. /\ Prompting /\ phase = "read" /\ i < loops /\ p < N /\ asked'.c = "f"
          /\ UNCHANGED <<packets, loaded, place, counters, cli_ignore>> /\ phase' \in {"read", "undefined"}
      BY <1>7 DEF FrameCommand, Line, Prompting, InLoop, Typed
    <2>2. phase' = "read" => Prompting'
      BY <2>1 DEF Prompting, InLoop, N
    <2>3. ASSUME phase' = "undefined", i = 0 PROVE ~packets[N].M
      <3>1. \A k \in FrameEnds(packets) : ~(k > sent_f_packet)
        BY <1>7, <2>3, <2>1 DEF FrameCommand
      <3>2. send_call = p /\ sent_f_packet <= send_call
        <4>1. 0 * N + p = p
          BY <1>0
        <4> QED BY <2>1, <2>3, <4>1 DEF CountersInv
      <3>3. N \notin FrameEnds(packets)
        BY <1>0, <2>1, <3>1, <3>2
      <3> QED BY <1>0, <2>1, <3>3, FrameEndsFinite
    <2> QED BY <1>0, <2>1, <2>2, <2>3 DEF CountersInv, EndsUpTo, N
  <1>8. CASE RestartCommand
    <2>1. /\ phase' = "read" /\ i' = 0 /\ p' = 0 /\ asked'.c = "none" /\ packets' = packets
          /\ send_call' = 0 /\ sent_frame' = 0 /\ sent_f_packet' = 0
      BY <1>8 DEF RestartCommand, clear, Prompting, InLoop, NoCommand
    <2>2. /\ EndsUpTo(0) = {} /\ Cardinality({}) = 0 /\ Cardinality(FrameEnds(packets)) \in Nat
      BY FrameEndsFinite, FS_EmptySet
    <2>3. 0 * N + 0 = 0 /\ 0 * Cardinality(FrameEnds(packets)) + 0 = 0
      BY <1>0, <2>2
    <2>4. N' = N /\ FrameEnds(packets)' = FrameEnds(packets) /\ EndsUpTo(p)' = {}
      BY <2>1, <2>2 DEF EndsUpTo, N
    <2> QED BY <2>1, <2>2, <2>3, <2>4 DEF CountersInv
  <1>9. CASE OtherLine
    <2>1. PICK end \in {"quit", "read", "exit"} : Line(end, 1) /\ phase' = end
      BY <1>9 DEF OtherLine
    <2>2. phase = "read" /\ phase' # "load" /\ asked'.c # "f"
      BY <2>1 DEF Line, Prompting, InLoop, Typed
    <2> QED BY <1>9, <2>2, CountersStay DEF OtherLine, N
  <1>10. CASE TerminateCommand \/ Interrupted \/ SendFails
    <2>1. phase' \in {"terminated", "interrupted", "exit"}
      BY <1>10 DEF TerminateCommand, Interrupted, SendFails
    <2> QED BY <2>1 DEF CountersInv
  <1>11. CASE Send
    <2> DEFINE M == packets[p + 1].M
               F == Cardinality(FrameEnds(packets))
               C == Cardinality(EndsUpTo(p))
    <2>1. /\ phase = "send" /\ phase' \in {"undefined", "read"} /\ p' = p + 1 /\ i' = i
          /\ packets' = Write(p + 1) /\ asked' = asked /\ send_call' = send_call + 1
          /\ IF M THEN sent_frame' = sent_frame + 1 /\ sent_f_packet' = send_call + 1
             ELSE sent_frame' = sent_frame /\ sent_f_packet' = sent_f_packet
      BY <1>11 DEF Send, Passes
    <2>2. p < N /\ p + 1 \in 1 .. N
      BY <1>0, <2>1 DEF TypeOK
    <2>3. N' = N /\ FrameEnds(packets)' = FrameEnds(packets)
      BY <2>1, <2>2, WriteMarks
    <2>4. asked.c # "f"
      BY <2>1 DEF CountersInv, Prompting, InLoop
    <2>5. /\ send_call = i * N + p /\ sent_frame = i * F + C /\ sent_f_packet <= send_call
          /\ \A k \in EndsUpTo(p) : i * N + k <= sent_f_packet
      BY <2>1 DEF CountersInv
    <2>6. EndsUpTo(p)' = IF M THEN EndsUpTo(p) \cup {p + 1} ELSE EndsUpTo(p)
      BY <1>0, <2>1, <2>2, <2>3, FrameEndsFinite DEF EndsUpTo
    <2>7. F \in Nat /\ C \in Nat /\ IsFiniteSet(EndsUpTo(p)) /\ p + 1 \notin EndsUpTo(p)
      BY <1>0, FrameEndsFinite DEF EndsUpTo
    <2>8. Cardinality(EndsUpTo(p)') = IF M THEN C + 1 ELSE C
      BY <2>6, <2>7, FS_AddElement
    <2>9. i * N \in Nat /\ i * F \in Nat
      BY <1>0, <2>7
    <2>10. F = Cardinality(FrameEnds(packets))'
      BY <2>3
    <2> HIDE DEF F, C, M
    <2>11. send_call' = i' * N' + p' /\ sent_frame' = i' * F + Cardinality(EndsUpTo(p)')
           /\ sent_f_packet' <= send_call'
      BY <1>0, <2>1, <2>3, <2>5, <2>7, <2>8, <2>9
    <2>12. \A k \in EndsUpTo(p)' : i' * N' + k <= sent_f_packet'
      <3> SUFFICES ASSUME NEW k \in EndsUpTo(p)' PROVE i * N + k <= sent_f_packet'
        BY <2>1, <2>3
      <3>1. k \in Nat
        BY <1>0, <2>3, FrameEndsFinite DEF EndsUpTo
      <3>2. CASE k \in EndsUpTo(p)
        BY <1>0, <2>1, <2>5, <2>9, <3>1, <3>2
      <3>3. CASE k = p + 1 /\ M
        BY <1>0, <2>1, <2>5, <2>9, <3>3
      <3> QED BY <2>6, <3>2, <3>3
    <2> QED BY <2>1, <2>4, <2>10, <2>11, <2>12 DEF CountersInv
  <1>12. CASE UNCHANGED vars
    BY <1>12 DEF vars, CountersInv, EndsUpTo, Prompting, InLoop, N
  <1> QED BY <1>1, <1>2, <1>3, <1>4, <1>5, <1>6, <1>7, <1>8, <1>9, <1>10, <1>11, <1>12 DEF Next

\* The counters of packet_sender are the place in the recording, for every
\* recording and over all its loops and restarts.
THEOREM SenderCountersAgree == Spec => []CountersAgree
  <1>1. Init => CountersInv
    BY DEF Init, CountersInv, place, counters, NoCommand
  <1>2. TypeOK /\ CountersInv => CountersAgree
    <2> SUFFICES ASSUME TypeOK, CountersInv PROVE CountersAgree
      OBVIOUS
    <2>1. EndsUpTo(p) = {k \in FrameEnds(packets) : k <= p}
      BY DEF EndsUpTo
    <2>2. \A k \in 1 .. N : (packets[k].M /\ k <= p) => k \in EndsUpTo(p)
      BY FrameEndsFinite DEF EndsUpTo
    <2> QED BY <2>1, <2>2 DEF CountersInv, CountersAgree
  <1> QED BY <1>1, <1>2, TypeInit, TypeStep, CountersStep, PTL DEF Spec
-----------------------------------------------------------------------------
(* What a command does before it asks for the next.                        *)

\* The packets handled since the last command, those it has still to handle,
\* and the packets at which 'r' and 'e' may stop.
Did == send_call - asked.call
ToDo == cli_ignore + IF phase = "send" THEN 1 ELSE 0
Stops(c, k) == IF c = "r" THEN packets[k].flag ELSE packets[k].M
Stopping(c) == {k \in 1 .. N : Stops(c, k)}

\* The last packet handled; at the start of a loop that is the end of the
\* recording, if any was.
Reached == IF p = 0 /\ Did > 0 THEN N ELSE p

\* Handled and still to handle make up what was asked for; 'r' and 'e' will
\* have passed n stopping packets, the last of them at the end, before the
\* recording begins anew.
CommandInv ==
    /\ N < Word
    /\ (phase \in {"load", "read", "send"} /\ asked.n > 0) =>
        /\ enter /\ phase # "load" /\ Did >= 0
        /\ asked.c \in {"s", "l"} => Did + ToDo = asked.n
        /\ asked.c \in {"c", "v", "f", "read"} => Did = 0 /\ ToDo = 0
        /\ asked.c \in {"r", "e"} =>
              /\ Did <= Reached /\ Did + ToDo > 0
              /\ p = 0 /\ Did > 0 => ToDo = 0
              /\ Reached + ToDo \in Stopping(asked.c)
              /\ Cardinality(Stopping(asked.c) \cap (Reached - Did + 1 .. Reached + ToDo)) = asked.n

\* Counting from the packet at hand, as the program does, or along the
\* recording.
LEMMA AheadCount ==
    ASSUME NEW a \in Nat, NEW k \in Nat, NEW S, S \subseteq Nat
    PROVE  Cardinality({j \in 0 .. k : a + j + 1 \in S}) = Cardinality(S \cap (a + 1 .. a + k + 1))
  <1> DEFINE A == {j \in 0 .. k : a + j + 1 \in S}
             B == S \cap (a + 1 .. a + k + 1)
             f == [j \in A |-> a + j + 1]
  <1>1. IsFiniteSet(A)
    <2>1. IsFiniteSet(0 .. k)
      BY FS_Interval
    <2> QED BY <2>1, FS_Subset
  <1>2. f \in [A -> B]
    OBVIOUS
  <1>3. \A x, y \in A : f[x] = f[y] => x = y
    OBVIOUS
  <1>4. \A y \in B : \E x \in A : f[x] = y
    <2> TAKE y \in B
    <2>1. y - a - 1 \in A /\ f[y - a - 1] = y
      OBVIOUS
    <2> QED BY <2>1
  <1> HIDE DEF A, B, f
  <1>5. f \in Bijection(A, B)
    <2>1. f \in Injection(A, B)
      BY <1>2, <1>3 DEF Injection, IsInjective
    <2>2. f \in Surjection(A, B)
      BY <1>2, <1>4 DEF Surjection
    <2> QED BY <2>1, <2>2 DEF Bijection
  <1>6. ExistsBijection(A, B)
    BY <1>5 DEF ExistsBijection
  <1> QED BY <1>1, <1>6, FS_Bijection DEF A, B

\* A command that leaves the place and the counters and is not carried out
\* packet by packet.
LEMMA AsksAgain ==
    ASSUME TypeOK, CommandInv, NEW c \in {"c", "v", "f", "read"}, NEW n \in Nat, Line(c, n),
           send_call' = send_call, cli_ignore' = cli_ignore, enter' = enter,
           phase' \in {"read", "undefined"}, N' = N
    PROVE  CommandInv'
  <1>1. /\ asked' = [c |-> c, n |-> n, call |-> send_call, lost |-> lost_packet]
        /\ enter /\ cli_ignore = 0 /\ send_call \in Nat
    BY DEF Line, Typed, Prompting, TypeOK
  <1>2. Did' = 0
    BY <1>1 DEF Did
  <1>3. phase' = "read" => ToDo' = 0
    BY <1>1 DEF ToDo
  <1> QED BY <1>1, <1>2, <1>3 DEF CommandInv

\* A command that handles the next n packets.
LEMMA HandlesNext ==
    ASSUME TypeOK, CommandInv, NEW c \in {"s", "l"}, NEW n \in Nat, Prompting,
           asked' = Typed(c, n), phase' = "send", n > 0 => cli_ignore' = n - 1,
           send_call' = send_call, enter' = enter, N' = N
    PROVE  CommandInv'
  <1>1. /\ asked' = [c |-> c, n |-> n, call |-> send_call, lost |-> lost_packet]
        /\ enter /\ send_call \in Nat
    BY DEF Typed, Prompting, TypeOK
  <1>2. Did' = 0
    BY <1>1 DEF Did
  <1>3. n > 0 => ToDo' = n
    BY <1>1 DEF ToDo
  <1> QED BY <1>1, <1>2, <1>3 DEF CommandInv

\* A command that goes up to the n-th stopping packet.
LEMMA GoesTo ==
    ASSUME TypeOK, CommandInv, NEW c \in {"r", "e"}, NEW n \in Nat, Line(c, n),
           UNCHANGED <<packets, p, send_call, enter>>, phase' \in {"send", "undefined"},
           (phase' = "send" /\ n > 0) =>
                \E k \in Ahead : /\ Stops(c, p + k + 1) /\ cli_ignore' = set_ignore(k + 1)
                                 /\ Cardinality({j \in 0 .. k : Stops(c, p + j + 1)}) = n
    PROVE  CommandInv'
  <1>1. /\ asked' = [c |-> c, n |-> n, call |-> send_call, lost |-> lost_packet]
        /\ enter /\ send_call \in Nat /\ p \in Nat /\ N \in Nat /\ N < Word /\ N' = N
    BY DEF Line, Typed, Prompting, TypeOK, CommandInv, N
  <1>2. Did' = 0
    BY <1>1 DEF Did
  <1>3. ASSUME phase' = "send", n > 0 PROVE CommandInv'
    <2>1. PICK k \in Ahead : /\ Stops(c, p + k + 1) /\ cli_ignore' = set_ignore(k + 1)
                             /\ Cardinality({j \in 0 .. k : Stops(c, p + j + 1)}) = n
      BY <1>3
    <2>2. k \in Nat /\ p + k + 1 \in 1 .. N
      BY <1>1 DEF Ahead
    <2>3. set_ignore(k + 1) = k
      <3>1. (k + 1) - 1 = k /\ k \in 0 .. Word - 1
        BY <1>1, <2>2, Constants
      <3> QED BY <2>2, <3>1, Constants DEF set_ignore
    <2>4. ToDo' = k + 1
      BY <1>3, <2>1, <2>2, <2>3 DEF ToDo
    <2>5. Reached' = p
      BY <1>2, <1>1 DEF Reached
    <2>6. Stopping(c)' = Stopping(c)
      BY <1>1 DEF Stopping, Stops
    <2>7. p + k + 1 \in Stopping(c) /\ Stopping(c) \subseteq Nat
      BY <2>1, <2>2 DEF Stopping
    <2>8. {j \in 0 .. k : Stops(c, p + j + 1)} = {j \in 0 .. k : p + j + 1 \in Stopping(c)}
      <3>1. \A j \in 0 .. k : p + j + 1 \in 1 .. N
        BY <1>1, <2>2
      <3> QED BY <3>1 DEF Stopping
    <2>9. Cardinality(Stopping(c) \cap (p + 1 .. p + k + 1)) = n
      <3> DEFINE S == Stopping(c)
      <3>1. S \subseteq Nat /\ Cardinality({j \in 0 .. k : p + j + 1 \in S}) = n
        BY <2>1, <2>7, <2>8
      <3> HIDE DEF S
      <3>2. Cardinality(S \cap (p + 1 .. p + k + 1)) = n
        BY <1>1, <2>2, <3>1, AheadCount
      <3> QED BY <3>2 DEF S
    <2>10. asked'.c = c /\ asked'.n = n /\ Did' >= 0 /\ enter' /\ c \notin {"s", "l", "c", "v", "f", "read"}
      BY <1>1, <1>2
    <2>11. p - 0 + 1 = p + 1 /\ p + (k + 1) = p + k + 1
      BY <1>1, <2>2
    <2>12. Cardinality(Stopping(c)' \cap (Reached' - Did' + 1 .. Reached' + ToDo')) = n
      BY <1>2, <2>4, <2>5, <2>6, <2>9, <2>11
    <2>13. Reached' + ToDo' \in Stopping(c)' /\ Did' <= Reached' /\ Did' + ToDo' > 0 /\ ~(Did' > 0)
      BY <1>1, <1>2, <2>2, <2>4, <2>5, <2>6, <2>7, <2>11
    <2>14. Stopping(asked.c)' = Stopping(c)'
      BY <2>10 DEF Stopping, Stops
    <2> QED BY <1>1, <1>3, <2>10, <2>12, <2>13, <2>14 DEF CommandInv
  <1> QED BY <1>1, <1>3 DEF CommandInv

\* A step that handles no packet.
LEMMA CommandStays ==
    ASSUME CommandInv, phase \in {"read", "send"}, phase' \in {"read", "send"}, ToDo' = ToDo,
           UNCHANGED <<packets, p, send_call, enter, asked>>
    PROVE  CommandInv'
  <1>1. Did' = Did /\ N' = N /\ Reached' = Reached /\ Stopping(asked.c)' = Stopping(asked.c)
    BY DEF Did, N, Reached, Stopping, Stops
  <1> QED BY <1>1 DEF CommandInv

LEMMA CommandStep == TypeOK /\ CommandInv /\ [Next]_vars => CommandInv'
  <1> SUFFICES ASSUME TypeOK, CommandInv, [Next]_vars PROVE CommandInv'
    OBVIOUS
  <1> USE DEF loaded, place, clock, counters, history
  <1>0. /\ N \in Nat /\ p \in 0 .. N /\ send_call \in Nat /\ cli_ignore \in Nat
        /\ Numbers \subseteq Nat /\ asked.n \in Nat /\ asked.call \in Nat
        /\ \A n \in Numbers : n > 0 => set_ignore(n) = n - 1
    <2>1. \A n \in 0 .. Word - 1 : n > 0 => (n - 1) % Word = n - 1
      BY Constants
    <2>2. Numbers \subseteq 0 .. Word - 1
      BY SenderAssumption
    <2>3. \A n \in Numbers : n > 0 => set_ignore(n) = n - 1
      BY <2>1, <2>2 DEF set_ignore
    <2>4. Numbers \subseteq Nat /\ SIZE_MAX \in Nat
      BY <2>2, Constants DEF SIZE_MAX
    <2>5. cli_ignore \in Nat
      BY <2>4 DEF TypeOK
    <2> QED BY <2>3, <2>4, <2>5, FrameEndsFinite DEF TypeOK
  <1>1. CASE Load
    <2>1. ~(asked.n > 0) /\ asked' = asked
      BY <1>1 DEF Load, CommandInv
    <2>2. N' < Word
      BY <1>1, SenderAssumption DEF Load, CommandInv, N, TypeOK
    <2> QED BY <2>1, <2>2 DEF CommandInv
  <1>2. CASE NextLoop
    <2>1. CASE i = loops
      BY <1>2, <2>1 DEF NextLoop, CommandInv, N
    <2>2. CASE i # loops
      <3>1. /\ phase = "read" /\ phase' = "read" /\ p = N /\ p' = 0
            /\ UNCHANGED <<packets, send_call, enter, asked, cli_ignore>>
        BY <1>2, <2>2 DEF NextLoop
      <3>2. Did' = Did /\ N' = N /\ ToDo' = ToDo /\ Stopping(asked.c)' = Stopping(asked.c)
            /\ Did \in Int /\ ToDo \in Nat
        BY <1>0, <3>1 DEF Did, N, ToDo, Stopping, Stops
      <3>3. Reached = N
        BY <3>1 DEF Reached
      <3>4. ASSUME asked.n > 0, asked.c \in {"r", "e"}
            PROVE  ToDo = 0 /\ Did > 0 /\ Reached' = N
        <4>1. N + ToDo \in 1 .. N /\ Did + ToDo > 0
          BY <3>1, <3>3, <3>4 DEF CommandInv, Stopping
        <4>2. ToDo = 0 /\ Did > 0
          BY <1>0, <3>2, <4>1
        <4> QED BY <3>1, <3>2, <4>2 DEF Reached
      <3> QED BY <3>1, <3>2, <3>3, <3>4 DEF CommandInv
    <2> QED BY <2>1, <2>2
  <1>3. CASE NoLine
    <2>1. /\ phase = "read" /\ phase' = "send" /\ (enter => cli_ignore # 0)
          /\ cli_ignore' = IF enter THEN cli_ignore - 1 ELSE cli_ignore
          /\ UNCHANGED <<packets, p, send_call, enter, asked>>
      BY <1>3 DEF NoLine, Prompting, InLoop
    <2>2. CASE enter
      <3>1. ToDo' = ToDo
        BY <1>0, <2>1, <2>2 DEF ToDo
      <3> QED BY <2>1, <3>1, CommandStays
    <2>3. CASE ~enter
      BY <1>0, <2>1, <2>3 DEF CommandInv, N
    <2> QED BY <2>2, <2>3
  <1>4. CASE EndOfInput
    <2>1. Prompting /\ asked' = Typed("s", 1) /\ phase' = "send" /\ cli_ignore' = 1 - 1
          /\ send_call' = send_call /\ enter' = enter /\ N' = N
      BY <1>4 DEF EndOfInput, Prompting, N
    <2> QED BY <2>1, HandlesNext
  <1>5. ASSUME NEW n \in Numbers, SendCommand(n) PROVE CommandInv'
    <2>1. Prompting /\ asked' = Typed("s", n) /\ phase' = "send" /\ cli_ignore' = set_ignore(n)
          /\ send_call' = send_call /\ enter' = enter /\ N' = N
      BY <1>5 DEF SendCommand, Line, N
    <2> QED BY <1>0, <2>1, HandlesNext
  <1>6. ASSUME NEW n \in Numbers, LossCommand(n) PROVE CommandInv'
    <2>1. Prompting /\ asked' = Typed("l", n) /\ phase' = "send" /\ cli_ignore' = set_ignore(n)
          /\ send_call' = send_call /\ enter' = enter /\ N' = N
      BY <1>6 DEF LossCommand, Line, N
    <2> QED BY <1>0, <2>1, HandlesNext
  <1>7. ASSUME NEW n \in Numbers, ResyncCommand(n) PROVE CommandInv'
    <2>1. Line("r", n) /\ UNCHANGED <<packets, p, send_call, enter>> /\ n \in Nat
      BY <1>0, <1>7 DEF ResyncCommand, ToCommand
    <2>2. /\ phase' \in {"send", "undefined"}
          /\ (phase' = "send" /\ n > 0) =>
                \E k \in Ahead : /\ At(k).flag /\ cli_ignore' = set_ignore(k + 1)
                                 /\ Cardinality({j \in 0 .. k : At(j).flag}) = n
      <3>1. \/ \E k \in Ahead : /\ At(k).flag /\ cli_ignore' = set_ignore(k + 1) /\ phase' = "send"
                               /\ Cardinality({j \in 0 .. k : At(j).flag}) = n
            \/ n = 0 /\ phase' = "send"
            \/ phase' = "undefined"
        BY <1>7, Zenon DEF ResyncCommand, ToCommand
      <3>2. n > 0 => n # 0
        BY <2>1
      <3>3. "send" # "undefined"
        OBVIOUS
      <3> QED BY <3>1, <3>2, <3>3, Zenon
    <2>3. \A j : Stops("r", p + j + 1) = At(j).flag
      BY DEF Stops, At
    <2> QED BY <2>1, <2>2, <2>3, GoesTo
  <1>8. ASSUME NEW n \in Numbers, EocCommand(n) PROVE CommandInv'
    <2>1. Line("e", n) /\ UNCHANGED <<packets, p, send_call, enter>> /\ n \in Nat
      BY <1>0, <1>8 DEF EocCommand, ToCommand
    <2>2. /\ phase' \in {"send", "undefined"}
          /\ (phase' = "send" /\ n > 0) =>
                \E k \in Ahead : /\ At(k).M /\ cli_ignore' = set_ignore(k + 1)
                                 /\ Cardinality({j \in 0 .. k : At(j).M}) = n
      <3>1. \/ \E k \in Ahead : /\ At(k).M /\ cli_ignore' = set_ignore(k + 1) /\ phase' = "send"
                               /\ Cardinality({j \in 0 .. k : At(j).M}) = n
            \/ n = 0 /\ phase' = "send"
            \/ phase' = "undefined"
        BY <1>8, Zenon DEF EocCommand, ToCommand
      <3>2. n > 0 => n # 0
        BY <2>1
      <3>3. "send" # "undefined"
        OBVIOUS
      <3> QED BY <3>1, <3>2, <3>3, Zenon
    <2>3. \A j : Stops("e", p + j + 1) = At(j).M
      BY DEF Stops, At
    <2> QED BY <2>1, <2>2, <2>3, GoesTo
  <1>9. ASSUME NEW n \in Numbers, ChangeCommand(n) PROVE CommandInv'
    <2>1. Line("c", n) /\ UNCHANGED <<packets, send_call, enter, cli_ignore, phase>> /\ n \in Nat
      BY <1>0, <1>9 DEF ChangeCommand
    <2>2. phase' = "read" /\ N' = N
      BY <2>1 DEF Line, Prompting, InLoop, N
    <2> QED BY <2>1, <2>2, AsksAgain
  <1>10. ASSUME NEW n \in Numbers, ViewCommand(n) PROVE CommandInv'
    <2>1. Line("v", n) /\ UNCHANGED <<send_call, enter, cli_ignore>> /\ n \in Nat
      BY <1>0, <1>10 DEF ViewCommand
    <2>2. p < N /\ phase = "read"
      BY <2>1 DEF Line, Prompting, InLoop
    <2>3. phase' \in {"read", "undefined"} /\ N' = N
      BY <1>10, <2>2, WriteMarks DEF ViewCommand
    <2> QED BY <2>1, <2>3, AsksAgain
  <1>11. CASE FrameCommand
    <2>1. /\ Line("f", 1) /\ UNCHANGED <<send_call, enter, cli_ignore>> /\ N' = N
          /\ phase' \in {"read", "undefined"}
      BY <1>11 DEF FrameCommand, Line, Prompting, InLoop, N
    <2> QED BY <2>1, AsksAgain
  <1>12. CASE RestartCommand
    <2>1. asked'.n = 0 /\ N' = N
      BY <1>12 DEF RestartCommand, NoCommand, N
    <2> QED BY <2>1 DEF CommandInv
  <1>13. CASE OtherLine
    <2>1. PICK end \in {"quit", "read", "exit"} : Line(end, 1) /\ phase' = end
      BY <1>13 DEF OtherLine
    <2>2. UNCHANGED <<send_call, enter, cli_ignore>> /\ N' = N
      BY <1>13 DEF OtherLine, N
    <2>3. CASE end = "read"
      BY <2>1, <2>2, <2>3, AsksAgain
    <2>4. CASE end # "read"
      BY <2>1, <2>2, <2>4 DEF CommandInv
    <2> QED BY <2>3, <2>4
  <1>14. CASE TerminateCommand \/ Interrupted \/ SendFails
    <2>1. phase' \in {"terminated", "interrupted", "exit"} /\ N' = N
      BY <1>14 DEF TerminateCommand, Interrupted, SendFails, N
    <2> QED BY <2>1 DEF CommandInv
  <1>15. CASE Send
    <2>1. /\ phase = "send" /\ phase' \in {"undefined", "read"} /\ p' = p + 1
          /\ packets' = Write(p + 1) /\ send_call' = send_call + 1
          /\ UNCHANGED <<enter, cli_ignore, asked>>
      BY <1>15 DEF Send, Passes
    <2>2. p < N
      BY <2>1 DEF TypeOK
    <2>3. N' = N /\ Stopping(asked.c)' = Stopping(asked.c)
      BY <2>1, <2>2, WriteMarks DEF Stopping, Stops
    <2>4. ToDo \in Nat /\ ToDo > 0 /\ Did \in Int /\ Did' = Did + 1 /\ (phase' = "read" => ToDo' = ToDo - 1)
      BY <1>0, <2>1 DEF ToDo, Did
    <2>5. Reached' = p + 1 /\ ((p = 0 /\ Did > 0) \/ Reached = p)
      BY <1>0, <2>1, <2>4 DEF Reached
    <2>6. CASE phase' = "undefined" \/ ~(asked.n > 0)
      BY <2>1, <2>3, <2>6 DEF CommandInv
    <2>7. CASE phase' = "read" /\ asked.n > 0
      <3>1. /\ enter /\ Did >= 0
            /\ asked.c \in {"s", "l"} => Did + ToDo = asked.n
            /\ asked.c \in {"c", "v", "f", "read"} => Did = 0 /\ ToDo = 0
        BY <2>1, <2>7 DEF CommandInv
      <3>2. ASSUME asked.c \in {"r", "e"}
            PROVE  /\ Did' <= Reached' /\ Did' + ToDo' > 0 /\ p' # 0
                   /\ Reached' + ToDo' \in Stopping(asked.c)
                   /\ Cardinality(Stopping(asked.c) \cap (Reached' - Did' + 1 .. Reached' + ToDo')) = asked.n
        <4>1. /\ Did <= Reached /\ Did + ToDo > 0
              /\ p = 0 /\ Did > 0 => ToDo = 0
              /\ Reached + ToDo \in Stopping(asked.c)
              /\ Cardinality(Stopping(asked.c) \cap (Reached - Did + 1 .. Reached + ToDo)) = asked.n
          BY <2>1, <2>7, <3>2 DEF CommandInv
        <4>2. Reached = p
          BY <2>4, <2>5, <4>1
        <4>3. Reached' - Did' + 1 = Reached - Did + 1 /\ Reached' + ToDo' = Reached + ToDo
          BY <1>0, <2>4, <2>5, <2>7, <4>2
        <4>4. Did' <= Reached' /\ Did' + ToDo' > 0 /\ p' # 0
          BY <1>0, <2>1, <2>4, <2>5, <2>7, <4>1, <4>2
        <4> QED BY <4>1, <4>3, <4>4
      <3>3. Did' >= 0 /\ Did' + ToDo' = Did + ToDo
        BY <2>4, <2>7, <3>1
      <3>4. asked.c \notin {"c", "v", "f", "read"}
        BY <2>4, <3>1
      <3> QED BY <2>1, <2>3, <2>7, <3>1, <3>2, <3>3, <3>4 DEF CommandInv
    <2> QED BY <2>1, <2>6, <2>7
  <1>16. CASE UNCHANGED vars
    <2>1. UNCHANGED <<packets, p, send_call, enter, asked, phase, cli_ignore>>
      BY <1>16 DEF vars
    <2>2. Did' = Did /\ N' = N /\ Reached' = Reached /\ Stopping(asked.c)' = Stopping(asked.c) /\ ToDo' = ToDo
      BY <2>1 DEF Did, N, Reached, Stopping, Stops, ToDo
    <2> QED BY <2>1, <2>2 DEF CommandInv
  <1> QED BY <1>1, <1>2, <1>3, <1>4, <1>5, <1>6, <1>7, <1>8, <1>9, <1>10, <1>11, <1>12, <1>13,
             <1>14, <1>15, <1>16 DEF Next

\* When it asks again it has done what the last command said, for every
\* recording and every number typed.
THEOREM SenderCommandDone == Spec => []CommandDone
  <1>1. Init => CommandInv
    <2> SUFFICES ASSUME Init PROVE CommandInv
      OBVIOUS
    <2>1. N = 0 /\ 0 < Word /\ ~(asked.n > 0)
      BY Constants DEF Init, N, NoCommand
    <2> QED BY <2>1 DEF CommandInv
  <1>2. TypeOK /\ CommandInv => CommandDone
    <2> SUFFICES ASSUME TypeOK, CommandInv, Prompting, asked.n > 0 PROVE CommandDone
      BY DEF CommandDone
    <2> DEFINE end == IF p = 0 THEN N ELSE p
    <2>1. phase = "read" /\ cli_ignore = 0 /\ p \in Nat /\ N \in Nat /\ p < N
      BY FrameEndsFinite DEF Prompting, InLoop, TypeOK
    <2>2. ToDo = 0 /\ Did \in Int
      BY <2>1 DEF ToDo, Did, TypeOK
    <2>3. ASSUME asked.c \in {"r", "e"}
          PROVE  /\ Stops(asked.c, end)
                 /\ Cardinality({k \in end - Did + 1 .. end : Stops(asked.c, k)}) = asked.n
      <3>1. /\ Did <= Reached /\ Did + ToDo > 0 /\ Reached + ToDo \in Stopping(asked.c)
            /\ Cardinality(Stopping(asked.c) \cap (Reached - Did + 1 .. Reached + ToDo)) = asked.n
        BY <2>1, <2>3 DEF CommandInv
      <3>2. Reached = end /\ end \in 1 .. N /\ Did <= end /\ Reached + ToDo = end
        BY <2>1, <2>2, <3>1 DEF Reached
      <3>3. Stopping(asked.c) \cap (end - Did + 1 .. end) = {k \in end - Did + 1 .. end : Stops(asked.c, k)}
        <4>1. \A k \in end - Did + 1 .. end : k \in 1 .. N
          BY <2>1, <2>2, <3>2
        <4> QED BY <4>1 DEF Stopping
      <3> QED BY <3>1, <3>2, <3>3 DEF Stopping
    <2>4. /\ asked.c \in {"s", "l"} => Did = asked.n
          /\ asked.c \in {"c", "v", "f", "read"} => Did = 0
      BY <2>1, <2>2 DEF CommandInv
    <2>5. \A k : Stops("r", k) = packets[k].flag /\ Stops("e", k) = packets[k].M
      BY DEF Stops
    <2>6. asked.c = "r" => /\ packets[end].flag
                           /\ Cardinality({k \in end - Did + 1 .. end : packets[k].flag}) = asked.n
      BY <2>3, <2>5
    <2>7. asked.c = "e" => /\ packets[end].M
                           /\ Cardinality({k \in end - Did + 1 .. end : packets[k].M}) = asked.n
      BY <2>3, <2>5
    <2> QED BY <2>4, <2>6, <2>7 DEF CommandDone, Did
  <1> QED BY <1>1, <1>2, TypeInit, TypeStep, CommandStep, PTL DEF Spec
-----------------------------------------------------------------------------
\* RTP_show and filep find the frames they are asked for, in recordings of any
\* length: the loop over the packets, defined from one packet to the next, in
\* terms of where frames begin and end.

\* The number of the frame packet k is in: the main headers up to it.
Frame(r, k) == Cardinality({j \in 1 .. k : r[j].MH})

Packets == [MH: BOOLEAN, M: BOOLEAN]

LEMMA FrameNumbers ==
    ASSUME NEW r \in Seq(Packets)
    PROVE  /\ Frame(r, 0) = 0
           /\ \A k \in 0 .. Len(r) : Frame(r, k) \in Nat
           /\ \A k \in 1 .. Len(r) : Frame(r, k) = Frame(r, k - 1) + IF r[k].MH THEN 1 ELSE 0
  <1> DEFINE Mains(k) == {j \in 1 .. k : r[j].MH}
  <1>0. Len(r) \in Nat
    BY LenProperties
  <1>1. \A k \in 0 .. Len(r) : IsFiniteSet(Mains(k)) /\ Cardinality(Mains(k)) \in Nat
    <2> TAKE k \in 0 .. Len(r)
    <2>1. IsFiniteSet(1 .. k) /\ Mains(k) \subseteq 1 .. k
      BY <1>0, FS_Interval
    <2> QED  BY <2>1, FS_Subset, FS_CardinalityType
  <1>2. Cardinality(Mains(0)) = 0
    <2>1. Mains(0) = {}
      OBVIOUS
    <2> QED  BY <2>1, FS_EmptySet
  <1>3. ASSUME NEW k \in 1 .. Len(r)
        PROVE  Cardinality(Mains(k)) = Cardinality(Mains(k - 1)) + IF r[k].MH THEN 1 ELSE 0
    <2>1. k - 1 \in 0 .. Len(r) /\ k \notin Mains(k - 1)
      BY <1>0
    <2>2. Mains(k) = IF r[k].MH THEN Mains(k - 1) \cup {k} ELSE Mains(k - 1)
      BY <1>0
    <2>3. IsFiniteSet(Mains(k - 1)) /\ Cardinality(Mains(k - 1)) \in Nat
      BY <1>1, <2>1
    <2> HIDE DEF Mains
    <2>4. Cardinality(Mains(k - 1) \cup {k}) = Cardinality(Mains(k - 1)) + 1
      BY <2>1, <2>3, FS_AddElement
    <2> QED  BY <2>2, <2>3, <2>4
  <1> QED  BY <1>1, <1>2, <1>3 DEF Frame

LEMMA FrameMonotone ==
    ASSUME NEW r \in Seq(Packets), NEW j \in 0 .. Len(r), NEW k \in j .. Len(r)
    PROVE  Frame(r, j) <= Frame(r, k)
  <1> DEFINE S == {m \in 0 .. k - j : Frame(r, j) <= Frame(r, j + m)}
  <1>0. Len(r) \in Nat /\ k - j \in Nat /\ j \in Nat
    BY LenProperties
  <1>1. 0 \in S
    <2>1. j + 0 = j /\ Frame(r, j) \in Nat /\ 0 \in 0 .. k - j
      BY <1>0, FrameNumbers
    <2> QED  BY <2>1
  <1>2. ASSUME NEW m \in 0 .. (k - j) - 1, m \in S PROVE m + 1 \in S
    <2>1. /\ j + (m + 1) \in 1 .. Len(r) /\ (j + (m + 1)) - 1 = j + m
          /\ j + m \in 0 .. Len(r) /\ m + 1 \in 0 .. k - j
      BY <1>0
    <2>2. /\ Frame(r, j + (m + 1)) = Frame(r, j + m) + IF r[j + (m + 1)].MH THEN 1 ELSE 0
          /\ Frame(r, j + m) \in Nat /\ Frame(r, j) \in Nat
      BY <2>1, FrameNumbers
    <2> QED  BY <1>2, <2>1, <2>2
  <1> HIDE DEF S
  <1>3. \A m \in 0 .. k - j : m \in S
    BY <1>0, <1>1, <1>2, UpTo
  <1>4. k - j \in S /\ j + (k - j) = k
    BY <1>0, <1>3
  <1> QED  BY <1>4 DEF S

\* Frame a begins at packet s, and frame b ends at packet e.
Opens(r, a, s) ==
    /\ s \in 1 .. Len(r) /\ r[s].MH /\ Frame(r, s) = a
    /\ \A k \in 1 .. s - 1 : Frame(r, k) < a
    /\ \A k \in s .. Len(r) : Frame(r, k) >= a
    /\ \A k \in 1 .. Len(r) : r[k].MH /\ Frame(r, k) = a => k = s

Closes(r, b, e) ==
    /\ e \in 1 .. Len(r) /\ r[e].M /\ Frame(r, e) = b
    /\ \A k \in 1 .. e : Frame(r, k) <= b
    /\ \A k \in e + 1 .. Len(r) : Frame(r, k) > b
    /\ \A k \in 1 .. Len(r) : r[k].M /\ Frame(r, k) = b => k = e

LEMMA FirstOfFrame ==
    ASSUME NEW r \in Seq(Packets), NEW a \in Nat \ {0}, a <= Frame(r, Len(r))
    PROVE  \E s \in 1 .. Len(r) : Opens(r, a, s)
  <1> DEFINE S == {k \in 0 .. Len(r) : a <= Frame(r, k)}
  <1>0. Len(r) \in Nat /\ \A k \in 0 .. Len(r) : Frame(r, k) \in Nat
    BY LenProperties, FrameNumbers
  <1>1. S \subseteq Nat /\ Len(r) \in S
    BY <1>0
  <1>2. PICK s \in S : \A k \in S : s <= k
    <2> HIDE DEF S
    <2> QED  BY <1>1, LeastElement
  <1>3. s # 0
    BY <1>2, FrameNumbers
  <1>4. s \in 1 .. Len(r) /\ s - 1 \in 0 .. Len(r) /\ s - 1 \notin S
    BY <1>0, <1>2, <1>3
  <1>5. Frame(r, s) = Frame(r, s - 1) + (IF r[s].MH THEN 1 ELSE 0)
    BY <1>4, FrameNumbers
  <1>6. r[s].MH /\ Frame(r, s) = a
    <2>1. a <= Frame(r, s) /\ ~(a <= Frame(r, s - 1))
      BY <1>2, <1>4
    <2> HIDE DEF S
    <2> QED  BY <1>0, <1>4, <1>5, <2>1
  <1>7. \A k \in 1 .. s - 1 : Frame(r, k) < a
    <2> TAKE k \in 1 .. s - 1
    <2>1. k \in 0 .. Len(r) /\ ~(s <= k)
      BY <1>0, <1>4
    <2> QED  BY <1>0, <1>2, <2>1
  <1>8. \A k \in s .. Len(r) : Frame(r, k) >= a
    <2> TAKE k \in s .. Len(r)
    <2>1. s \in 0 .. Len(r) /\ k \in 0 .. Len(r)
      BY <1>0, <1>4
    <2>2. Frame(r, s) <= Frame(r, k)
      BY <2>1, FrameMonotone
    <2> QED  BY <1>6, <2>2
  <1>9. ASSUME NEW k \in 1 .. Len(r), r[k].MH, Frame(r, k) = a PROVE k = s
    <2>1. ~(k \in 1 .. s - 1)
      BY <1>0, <1>7, <1>9
    <2>2. ~(k \in s + 1 .. Len(r))
      <3>1. SUFFICES ASSUME k \in s + 1 .. Len(r) PROVE FALSE
        OBVIOUS
      <3>2. k - 1 \in s .. Len(r) /\ k - 1 \in 0 .. Len(r)
        BY <1>0, <1>4, <3>1
      <3>3. Frame(r, k) = Frame(r, k - 1) + 1
        BY <1>9, FrameNumbers
      <3>4. Frame(r, k - 1) >= a /\ Frame(r, k - 1) \in Nat
        BY <1>0, <1>8, <3>2
      <3> QED  BY <1>9, <3>3, <3>4
    <2> QED  BY <1>0, <1>4, <2>1, <2>2
  <1> QED  BY <1>4, <1>6, <1>7, <1>8, <1>9 DEF Opens

LEMMA LastOfFrame ==
    ASSUME NEW r \in Seq(Packets), Whole(r), NEW e \in 1 .. Len(r), r[e].M
    PROVE  Closes(r, Frame(r, e), e)
  <1> DEFINE b == Frame(r, e)
  <1>0. /\ Len(r) \in Nat /\ DOMAIN r = 1 .. Len(r)
        /\ \A k \in 0 .. Len(r) : Frame(r, k) \in Nat
    BY LenProperties, FrameNumbers
  \* What follows the last packet of a frame is in a later one.
  <1>1. ASSUME NEW x \in 1 .. Len(r), r[x].M, NEW k \in x + 1 .. Len(r)
        PROVE  Frame(r, k) > Frame(r, x)
    <2>0. Len(r) \in Nat /\ x \in 1 .. Len(r) /\ k \in x + 1 .. Len(r)
      BY <1>0, <1>1
    <2>1. /\ x + 1 \in 1 .. Len(r) /\ x + 1 \in 0 .. Len(r) /\ (x + 1) - 1 = x
          /\ x # Len(r) /\ x \in 0 .. Len(r) /\ k \in 0 .. Len(r)
          /\ k \in x + 1 .. Len(r)
      BY <2>0
    <2>2. r[x + 1].MH
      BY <1>0, <1>1, <2>1 DEF Whole
    <2>3. Frame(r, x + 1) = Frame(r, x) + 1
      BY <2>1, <2>2, FrameNumbers
    <2>4. Frame(r, x + 1) <= Frame(r, k)
      BY <2>1, FrameMonotone
    <2>5. Frame(r, x) \in Nat /\ Frame(r, k) \in Nat
      BY <1>0, <2>1
    <2> QED  BY <2>3, <2>4, <2>5
  <1>2. \A k \in 1 .. e : Frame(r, k) <= b
    <2> TAKE k \in 1 .. e
    <2>1. k \in 0 .. Len(r) /\ e \in k .. Len(r)
      BY <1>0
    <2> QED  BY <2>1, FrameMonotone
  <1>3. ASSUME NEW k \in 1 .. Len(r), r[k].M, Frame(r, k) = b PROVE k = e
    <2>1. ~(k \in e + 1 .. Len(r))
      BY <1>0, <1>1, <1>3
    <2>2. ~(e \in k + 1 .. Len(r))
      BY <1>0, <1>1, <1>3
    <2> QED  BY <1>0, <2>1, <2>2
  <1>4. \A k \in e + 1 .. Len(r) : Frame(r, k) > b
    BY <1>1
  <1>5. \A k \in 1 .. Len(r) : r[k].M /\ Frame(r, k) = b => k = e
    BY <1>3
  <1> HIDE DEF b
  <1>6. r[e].M /\ Frame(r, e) = b
    BY DEF b
  <1>7. Closes(r, b, e)
    BY <1>2, <1>4, <1>5, <1>6 DEF Closes
  <1> QED  BY <1>7 DEF b

\* The loop's state after k packets, for the frames a to b that begin at
\* packet s and end at packet e.
After(r, s, e, k) ==
    [frm |-> Frame(r, IF k <= e THEN k ELSE e), done |-> k >= e,
     first |-> IF k >= s THEN s ELSE 1,
     last |-> IF k >= e THEN e ELSE 0,
     num_frame |-> IF k >= s THEN Frame(r, s) - 1 ELSE 0,
     num_packet |-> IF k >= s THEN s ELSE 0]

NoFrame == [frm |-> 0, first |-> 1, last |-> 0, num_frame |-> 0, num_packet |-> 0, done |-> FALSE]

\* The loop's body takes that state to the next.
LEMMA ScanStep ==
    ASSUME NEW r \in Seq(Packets), NEW a \in Nat \ {0}, NEW b \in Nat, NEW s, NEW e,
           Opens(r, a, s), Closes(r, b, e), s <= e,
           NEW k \in 1 .. Len(r)
    PROVE  After(r, s, e, k) =
              IF After(r, s, e, k - 1).done THEN After(r, s, e, k - 1)
              ELSE Scanned([first |-> a, last |-> b], After(r, s, e, k - 1), r[k], k)
  <1>0. /\ Len(r) \in Nat /\ s \in 1 .. Len(r) /\ e \in 1 .. Len(r) /\ k \in Nat
        /\ Frame(r, s) = a /\ Frame(r, e) = b
    BY LenProperties DEF Opens, Closes
  <1>1. CASE k - 1 >= e
    <2>1. /\ k >= e /\ k >= s /\ k - 1 >= s
          /\ (IF k <= e THEN k ELSE e) = e /\ (IF k - 1 <= e THEN k - 1 ELSE e) = e
      BY <1>0, <1>1
    <2>2. After(r, s, e, k) = After(r, s, e, k - 1)
      BY <1>1, <2>1 DEF After
    <2>3. After(r, s, e, k - 1).done
      BY <1>1 DEF After
    <2> QED  BY <2>2, <2>3
  <1>2. CASE k - 1 < e
    <2> DEFINE t == After(r, s, e, k - 1)
               inv == [first |-> a, last |-> b]
    <2>0. k <= e /\ k - 1 <= e /\ ~(k - 1 >= e)
      BY <1>0, <1>2
    <2>1. Frame(r, k) = Frame(r, k - 1) + (IF r[k].MH THEN 1 ELSE 0)
      BY FrameNumbers
    <2>2. t.frm = Frame(r, k - 1) /\ ~t.done
      BY <2>0 DEF After
    <2>3. Counted(t.frm, r[k]) = Frame(r, k)
      BY <2>1, <2>2 DEF Counted
    <2>4. (r[k].MH /\ Frame(r, k) = inv.first) <=> k = s
      BY <1>0 DEF Opens
    <2>5. (r[k].M /\ Frame(r, k) = inv.last) <=> k = e
      BY <1>0 DEF Closes
    <2>6. /\ t.first = (IF k - 1 >= s THEN s ELSE 1) /\ t.last = 0
          /\ t.num_frame = (IF k - 1 >= s THEN Frame(r, s) - 1 ELSE 0)
          /\ t.num_packet = (IF k - 1 >= s THEN s ELSE 0)
      BY <2>0 DEF After
    <2> HIDE DEF t, inv
    <2>7. Scanned(inv, t, r[k], k) =
             [frm |-> Frame(r, k), done |-> k = e,
              first |-> IF k = s THEN k ELSE t.first,
              num_frame |-> IF k = s THEN Frame(r, k) - 1 ELSE t.num_frame,
              num_packet |-> IF k = s THEN k ELSE t.num_packet,
              last |-> IF k = e THEN k ELSE t.last]
      <3>1. Counted(t.frm, r[k]) = Frame(r, k)
        BY <2>3
      <3> QED  BY <2>4, <2>5, <3>1, Zenon DEF Scanned
    <2>8. /\ k >= e <=> k = e
          /\ k >= s <=> k = s \/ k - 1 >= s
      BY <1>0, <2>0
    <2>9. After(r, s, e, k) =
             [frm |-> Frame(r, k), done |-> k = e,
              first |-> IF k = s \/ k - 1 >= s THEN s ELSE 1,
              last |-> IF k = e THEN e ELSE 0,
              num_frame |-> IF k = s \/ k - 1 >= s THEN Frame(r, s) - 1 ELSE 0,
              num_packet |-> IF k = s \/ k - 1 >= s THEN s ELSE 0]
      BY <2>0, <2>8 DEF After
    <2>10. After(r, s, e, k) = Scanned(inv, t, r[k], k)
      BY <2>6, <2>7, <2>9
    <2> QED  BY <2>2, <2>10 DEF t, inv
  <1> QED  BY <1>0, <1>1, <1>2

\* What the loop finds.
LEMMA RangeFound ==
    ASSUME NEW r \in Seq(Packets), NEW a \in Nat \ {0}, NEW b \in Nat, NEW s, NEW e,
           Opens(r, a, s), Closes(r, b, e), s <= e
    PROVE  frame_range(r, [first |-> a, last |-> b]) = After(r, s, e, Len(r))
  <1> DEFINE inv == [first |-> a, last |-> b]
             n == Len(r)
             Then(t, k) == IF t.done THEN t ELSE Scanned(inv, t, r[k], k)
             f == CHOOSE f : f = [k \in 0 .. n |-> IF k = 0 THEN NoFrame
                                  ELSE IF f[k - 1].done THEN f[k - 1]
                                  ELSE Scanned(inv, f[k - 1], r[k], k)]
             g == [k \in 0 .. n |-> After(r, s, e, k)]
  <1>0. n \in Nat /\ s \in 1 .. n /\ e \in 1 .. n
    BY LenProperties DEF Opens, Closes
  <1>1. frame_range(r, inv) = f[n]
    BY DEF frame_range, NoFrame
  <1>2. After(r, s, e, 0) = NoFrame
    <2>1. /\ (IF 0 <= e THEN 0 ELSE e) = 0 /\ ~(0 >= e) /\ ~(0 >= s)
      BY <1>0
    <2>2. Frame(r, IF 0 <= e THEN 0 ELSE e) = 0
      BY <2>1, FrameNumbers
    <2>3. /\ (0 >= e) = FALSE /\ (IF 0 >= e THEN e ELSE 0) = 0
          /\ (IF 0 >= s THEN s ELSE 1) = 1
          /\ (IF 0 >= s THEN Frame(r, s) - 1 ELSE 0) = 0
          /\ (IF 0 >= s THEN s ELSE 0) = 0
      BY <2>1
    <2> QED  BY <2>2, <2>3, Zenon DEF After, NoFrame
  <1>3. \A k \in 1 .. n : After(r, s, e, k) = Then(After(r, s, e, k - 1), k)
    BY ScanStep
  <1> HIDE DEF inv
  <1>4. \A k \in 0 .. n : k = 0 \/ (k \in 1 .. n /\ k - 1 \in 0 .. n)
    BY <1>0
  <1>5. f = [k \in 0 .. n |-> IF k = 0 THEN NoFrame ELSE Then(f[k - 1], k)]
    <2>1. \A k \in 0 .. n : g[k] = IF k = 0 THEN NoFrame ELSE Then(g[k - 1], k)
      <3> TAKE k \in 0 .. n
      <3>1. g[k] = After(r, s, e, k) /\ (k # 0 => g[k - 1] = After(r, s, e, k - 1))
        BY <1>4
      <3> HIDE DEF g, Then
      <3> QED  BY <1>2, <1>3, <1>4, <3>1
    <2>2. g = [k \in 0 .. n |-> g[k]]
      OBVIOUS
    <2> HIDE DEF g
    <2>3. g = [k \in 0 .. n |-> IF k = 0 THEN NoFrame ELSE IF g[k - 1].done THEN g[k - 1]
                                ELSE Scanned(inv, g[k - 1], r[k], k)]
      BY <2>1, <2>2
    <2> QED  BY <2>3
  <1> HIDE DEF f, Then
  <1>6. \A k \in 0 .. n : f[k] = IF k = 0 THEN NoFrame ELSE Then(f[k - 1], k)
    BY <1>5
  <1>7. f[n] = After(r, s, e, n)
    <2> DEFINE S == {k \in 0 .. n : f[k] = After(r, s, e, k)}
    <2>1. 0 \in S
      BY <1>0, <1>2, <1>6
    <2>2. ASSUME NEW k \in 0 .. n - 1, k \in S PROVE k + 1 \in S
      <3>1. k + 1 \in 1 .. n /\ k + 1 \in 0 .. n /\ k + 1 # 0 /\ (k + 1) - 1 = k
        BY <1>0
      <3> QED  BY <1>3, <1>6, <2>2, <3>1
    <2> HIDE DEF S
    <2>3. \A k \in 0 .. n : k \in S
      BY <1>0, <2>1, <2>2, UpTo
    <2>4. n \in S
      BY <1>0, <2>3
    <2> QED  BY <2>4 DEF S
  <1> QED  BY <1>1, <1>7 DEF inv

\* Between them the packets of the range are those of frames a to b, and the
\* main headers counted from its first packet number them.
LEMMA MainsCounted ==
    ASSUME NEW r \in Seq(Packets), NEW s \in 1 .. Len(r), NEW k \in s .. Len(r)
    PROVE  Cardinality({j \in s .. k : r[j].MH}) = Frame(r, k) - Frame(r, s - 1)
  <1> DEFINE S == {j \in 1 .. s - 1 : r[j].MH}
             T == {j \in s .. k : r[j].MH}
  <1>0. Len(r) \in Nat
    BY LenProperties
  <1>1. IsFiniteSet(S) /\ IsFiniteSet(T)
    <2>1. IsFiniteSet(1 .. s - 1) /\ IsFiniteSet(s .. k)
      BY <1>0, FS_Interval
    <2> QED  BY <2>1, FS_Subset, S \in SUBSET (1 .. s - 1), T \in SUBSET (s .. k)
  <1>2. {j \in 1 .. k : r[j].MH} = S \cup T /\ S \cap T = {}
    BY <1>0
  <1> HIDE DEF S, T
  <1>3. Cardinality(S) \in Nat /\ Cardinality(T) \in Nat
    BY <1>1, FS_CardinalityType
  <1>4. Cardinality(S \cup T) = Cardinality(S) + Cardinality(T) - Cardinality(S \cap T)
    BY <1>1, FS_Union
  <1>5. Cardinality({}) = 0
    BY FS_EmptySet
  <1>6. Cardinality(S \cup T) = Cardinality(S) + Cardinality(T)
    <2>1. Cardinality(S \cap T) = 0
      BY <1>2, <1>5, Zenon
    <2> QED  BY <1>3, <1>4, <2>1
  <1>7. Frame(r, k) = Cardinality(S \cup T) /\ Frame(r, s - 1) = Cardinality(S)
    BY <1>2 DEF Frame, S
  <1>8. Cardinality(T) = Frame(r, k) - Frame(r, s - 1)
    BY <1>3, <1>6, <1>7
  <1> QED  BY <1>8 DEF T

\* What is printed for frames a to b, of a recording that ends them.
LEMMA FramesPrinted ==
    ASSUME NEW r \in Seq(Packets), NEW a \in Nat \ {0}, NEW b \in Nat, a <= b,
           NEW s, NEW e, Opens(r, a, s), Closes(r, b, e)
    PROVE  LET shown == Printed(r, [first |-> a, last |-> b])
           IN  /\ DOMAIN shown = {k \in DOMAIN r : Frame(r, k) \in a .. b}
               /\ \A k \in DOMAIN shown :
                     shown[k].num_frame = Frame(r, k) /\ shown[k].num_packet = k
  <1> DEFINE inv == [first |-> a, last |-> b]
             n == Len(r)
             found == frame_range(r, inv)
             shown == Printed(r, inv)
  <1>0. /\ n \in Nat /\ DOMAIN r = 1 .. n /\ s \in 1 .. n /\ e \in 1 .. n
        /\ \A k \in 0 .. n : Frame(r, k) \in Nat
    BY LenProperties, FrameNumbers DEF Opens, Closes
  <1>1. s <= e
    <2>1. e < s => Frame(r, e) < a
      BY <1>0 DEF Opens
    <2>2. Frame(r, e) = b
      BY DEF Closes
    <2> QED  BY <1>0, <2>1, <2>2
  <1>2. found = After(r, s, e, n)
    BY <1>1, RangeFound
  <1>3. found.first = s /\ found.last = e /\ found.num_frame = Frame(r, s) - 1 /\ found.num_packet = s
    BY <1>0, <1>2 DEF After
  <1> HIDE DEF found
  <1>4. shown = [k \in s .. e |-> [num_frame |-> (Frame(r, s) - 1) + Cardinality({j \in s .. k : r[j].MH}),
                                   num_packet |-> s + k - s]]
    BY <1>3 DEF Printed, found
  <1> HIDE DEF inv, shown
  <1>5. DOMAIN shown = s .. e
    BY <1>4
  \* Packets before the first are of earlier frames, those after the last of later ones.
  <1>6. \A k \in 1 .. n : k \in s .. e <=> Frame(r, k) \in a .. b
    <2> TAKE k \in 1 .. n
    <2>1. CASE k < s
      BY <1>0, <2>1 DEF Opens
    <2>2. CASE k > e
      BY <1>0, <2>2 DEF Closes
    <2>3. CASE k \in s .. e
      <3>1. k \in s .. n /\ k \in 1 .. e /\ Frame(r, k) \in Nat
        BY <1>0, <2>3
      <3>2. Frame(r, k) >= a
        BY <3>1 DEF Opens
      <3>3. Frame(r, k) <= b
        BY <3>1 DEF Closes
      <3> QED  BY <2>3, <3>1, <3>2, <3>3
    <2> QED  BY <1>0, <2>1, <2>2, <2>3
  <1>7. s .. e = {k \in DOMAIN r : Frame(r, k) \in a .. b}
    BY <1>0, <1>6
  <1>8. ASSUME NEW k \in s .. e
        PROVE  shown[k].num_frame = Frame(r, k) /\ shown[k].num_packet = k
    <2>0. k \in s .. n /\ k \in 0 .. n /\ s - 1 \in 0 .. n /\ s + k - s = k
      BY <1>0
    <2>1. Cardinality({j \in s .. k : r[j].MH}) = Frame(r, k) - Frame(r, s - 1)
      BY <1>0, <2>0, MainsCounted
    <2>2. Frame(r, s) = Frame(r, s - 1) + 1
      BY <1>0, FrameNumbers DEF Opens
    <2>3. Frame(r, k) \in Nat /\ Frame(r, s - 1) \in Nat
      BY <1>0, <2>0
    <2>4. (Frame(r, s) - 1) + Cardinality({j \in s .. k : r[j].MH}) = Frame(r, k)
      BY <2>1, <2>2, <2>3
    <2> QED  BY <1>4, <2>0, <2>4
  <1> QED  BY <1>5, <1>7, <1>8 DEF shown, inv

\* The frames asked for are found and printed with their numbers, in every
\* recording of whole frames: the loop of RTP_show and filep, which must not
\* miss a packet, add one of another frame or count a frame where it ends.
THEOREM FramesFoundCorrect == Spec => []FramesFound
  <1>1. ASSUME NEW r \in Recordings, Whole(r),
               NEW b \in 1 .. Frame(r, Len(r)),
               \E k \in DOMAIN r : Frame(r, k) = b /\ r[k].M,
               NEW a \in 1 .. b
        PROVE  LET shown == Printed(r, [first |-> a, last |-> b])
               IN  /\ DOMAIN shown = {k \in DOMAIN r : Frame(r, k) \in a .. b}
                   /\ \A k \in DOMAIN shown :
                         shown[k].num_frame = Frame(r, k) /\ shown[k].num_packet = k
    <2>1. r \in Seq(Packets)
      BY RecordingsAssumption DEF Packets
    <2>2. Len(r) \in Nat /\ DOMAIN r = 1 .. Len(r) /\ Frame(r, Len(r)) \in Nat
      BY <2>1, LenProperties, FrameNumbers
    <2>3. a \in Nat \ {0} /\ b \in Nat /\ a <= b /\ a <= Frame(r, Len(r))
      BY <2>2
    <2>4. PICK s \in 1 .. Len(r) : Opens(r, a, s)
      BY <2>1, <2>3, FirstOfFrame
    <2>5. PICK e \in DOMAIN r : Frame(r, e) = b /\ r[e].M
      BY <1>1
    <2>6. Closes(r, Frame(r, e), e)
      BY <1>1, <2>1, <2>2, <2>5, LastOfFrame
    <2>7. Closes(r, b, e)
      BY <2>5, <2>6
    <2> QED  BY <2>1, <2>3, <2>4, <2>7, FramesPrinted
  <1>2. FramesFound
    BY <1>1 DEF FramesFound, Frame
  <1> QED  BY <1>2, PTL

=============================================================================
