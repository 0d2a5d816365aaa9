------------------------------ MODULE RTPSender ------------------------------
(***************************************************************************)
(* The sender RTPsender2: RTP_file, cli_parser, packet_os, packet_sender   *)
(* (RTPsender2.hpp) and the loops of main (RTPsender2.cpp). It reads a     *)
(* recorded stream into memory and sends it number_of_loop times with new  *)
(* sequence numbers and timestamps; with --Enter it asks for a command     *)
(* before a packet, to send, lose or look at some.                         *)
(***************************************************************************)
EXTENDS Integers, Sequences, FiniteSets, FiniteSetsExt

CONSTANTS
    Files,          \* recordings: sequences of blocks [ok, cut, M, main, flag, ts, seq]
    Loops,          \* values of -l
    Rates,          \* values of -f, SIZE_MAX where it is not given
    Numbers,        \* numbers typed after a command
    MaxLines,       \* bound: lines typed in one run
    SeqModulus,     \* 2^24, the extended sequence numbers
    RawSeq,         \* 2^32, the word range_wrap_t keeps them in
    TsMod,          \* 2^32, the timestamps
    Word,           \* 2^64, of size_t
    Clock           \* media_clock_Hz

Blocks == [ok: BOOLEAN, cut: BOOLEAN, M: BOOLEAN, flag: BOOLEAN,
           ts: 0 .. TsMod - 1, seq: 0 .. SeqModulus - 1]

\* RTP_file::load: the packets up to one that is cut off by the end of the
\* file; it fails at a block without its mark 0xFFFF.
load(f) == SelectSeq(f, LAMBDA b : ~b.cut)
Loads(f) == f # <<>> /\ \A k \in DOMAIN f : f[k].ok

ASSUME SenderAssumption ==
    /\ {MaxLines, SeqModulus, RawSeq, TsMod, Word, Clock} \subseteq Nat \ {0}
    /\ RawSeq % SeqModulus = 0
    /\ Numbers \subseteq 0 .. Word - 1
    /\ Loops \subseteq Nat /\ Rates \subseteq Nat
    /\ \A f \in Files : load(f) \in Seq(Blocks) /\ Len(load(f)) < Word

SIZE_MAX == Word - 1

VARIABLES
    file,               \* the recording
    packets,            \* the packets of RTP_file, rewritten where they lie
    enter, loops, fps,  \* --Enter, -l and -f
    phase,              \* "load", "read" a line, "send", or how it ended
    i, p,               \* the two loops of main
    cli_ignore,         \* cli_parser::ignore_count
    ignore_count,       \* packet_sender: packets still to lose
    tp, exseq, base,    \* packet_os: the next numbers, not wrapped around
                        \* yet, and the packet it started from
    adv,                \* adv_tp_v
    send_call, sent_f_packet, lost_packet, sent_frame,
    lines,              \* lines typed
    asked,              \* history: the last command, and send_call and
                        \* lost_packet when it was typed
    stamped, origin     \* history: the last packet stamped, and what the
                        \* numbers of the next one follow from

loaded == <<file, packets, enter, loops, fps, adv, base>>
place == <<i, p>>
clock == <<tp, exseq>>
counters == <<send_call, sent_f_packet, lost_packet, sent_frame>>
history == <<asked, stamped, origin>>
vars == <<loaded, place, phase, cli_ignore, ignore_count, clock, counters, lines, history>>

Ended == {"ended", "quit", "interrupted", "terminated", "exit", "undefined"}

N == Len(packets)

Commands == {"none", "s", "l", "c", "v", "f", "r", "e", "E", "quit", "read", "exit"}

NoPacket == [seq |-> 0, ts |-> 0, M |-> FALSE, lost |-> FALSE]
NoCommand == [c |-> "none", n |-> 0, call |-> 0, lost |-> 0]
NoBlock == [ok |-> TRUE, cut |-> FALSE, M |-> FALSE, flag |-> FALSE, ts |-> 0, seq |-> 0]
FromBase == [seq |-> "base", ts |-> "base"]
FromLast == [seq |-> "last", ts |-> "last"]

TypeOK ==
    /\ file \in Files /\ enter \in BOOLEAN /\ loops \in Loops /\ fps \in Rates
    /\ packets \in Seq(Blocks) /\ base \in Blocks
    /\ phase \in {"load", "read", "send"} \cup Ended
    /\ i \in 0 .. loops /\ p \in 0 .. N
    /\ phase = "send" => p < N
    /\ phase = "load" => p = 0
    /\ cli_ignore \in 0 .. SIZE_MAX /\ ignore_count \in Nat
    /\ tp \in Nat /\ adv \in Nat /\ exseq \in 0 .. RawSeq - 1
    /\ send_call \in Nat /\ sent_f_packet \in Nat /\ lost_packet \in Nat /\ sent_frame \in Nat
    /\ lines \in Nat
    /\ asked \in [c: Commands, n: Nat, call: Nat, lost: Nat]
    /\ stamped \in [seq: 0 .. SeqModulus - 1, ts: 0 .. TsMod - 1, M: BOOLEAN, lost: BOOLEAN]
    /\ origin \in [seq: {"base", "last", "changed"}, ts: {"base", "last"}]

Init ==
    /\ file \in Files /\ enter \in BOOLEAN /\ loops \in Loops /\ fps \in Rates
    /\ packets = <<>> /\ base = NoBlock /\ adv = 0
    /\ phase = "load"
    /\ i = 0 /\ p = 0
    /\ cli_ignore = 0 /\ ignore_count = 0
    /\ tp = 0 /\ exseq = 0
    /\ send_call = 0 /\ sent_f_packet = 0 /\ lost_packet = 0 /\ sent_frame = 0
    /\ lines = 0 /\ asked = NoCommand
    /\ stamped = NoPacket /\ origin = FromBase

-----------------------------------------------------------------------------
(* Start.                                                                  *)

FrameEnds(s) == {k \in DOMAIN s : s[k].M}

\* The period of the frames, from -f or from the first packets of the first
\* two frames.
FrameRate(rate) == IF rate \in 1 .. Clock THEN Clock \div rate ELSE SIZE_MAX
AdvanceOf(s, rate) ==
    IF FrameRate(rate) # SIZE_MAX THEN FrameRate(rate)
    ELSE (s[Min(FrameEnds(s)) + 1].ts - s[1].ts) % TsMod

\* Without a frame's end the recording is read past its own, and without a
\* second frame too, unless -f gives the period.
ReadsPast(s, rate) ==
    \/ FrameEnds(s) = {}
    \/ FrameRate(rate) = SIZE_MAX /\ Min(FrameEnds(s)) = Len(s)

\* set_clock: how often the frame rate is printed, in frames; the division
\* by a period of 0 has no value.
OutFrame(t) == (2 * Clock + t) \div (2 * t)

\* The objects main constructs: a file that does not load ends it.
Load ==
    /\ phase = "load"
    /\ LET s == load(file)
       IN  IF ~Loads(file)
           THEN phase' = "exit" /\ UNCHANGED <<packets, base, clock, adv>>
           ELSE IF ReadsPast(s, fps) \/ AdvanceOf(s, fps) = 0
           THEN phase' = "undefined" /\ UNCHANGED <<packets, base, clock, adv>>
           ELSE /\ phase' = "read"
                /\ packets' = s /\ base' = s[1]
                /\ tp' = s[1].ts /\ exseq' = s[1].seq
                /\ adv' = AdvanceOf(s, fps)
    /\ UNCHANGED <<file, enter, loops, fps, place, cli_ignore, ignore_count, counters, lines, history>>

-----------------------------------------------------------------------------
(* One turn of the inner loop: read_line, the command, the packet.         *)

InLoop == phase = "read" /\ i < loops /\ p < N
Prompting == InLoop /\ enter /\ cli_ignore = 0

\* Mutant: the outer loop does not count.
NextLoopAgain ==
    /\ phase = "read" /\ loops > 0 /\ p = N /\ p' = 0
    /\ UNCHANGED <<loaded, i, phase, cli_ignore, ignore_count, clock, counters, lines, history>>

\* The end of the recording, and of the last loop over it.
NextLoop ==
    /\ phase = "read"
    /\ i = loops \/ p = N
    /\ IF i = loops THEN phase' = "ended" /\ UNCHANGED place
       ELSE i' = i + 1 /\ p' = 0 /\ UNCHANGED phase
    /\ UNCHANGED <<loaded, cli_ignore, ignore_count, clock, counters, lines, history>>

\* read_line returns false: not active, or packets to go until it asks.
NoLine ==
    /\ InLoop /\ ~Prompting
    /\ phase' = "send"
    /\ cli_ignore' = IF enter THEN cli_ignore - 1 ELSE cli_ignore
    /\ UNCHANGED <<loaded, place, ignore_count, clock, counters, lines, history>>

Typed(c, n) == [c |-> c, n |-> n, call |-> send_call, lost |-> lost_packet]

\* read_line at the end of its input: false for every packet from here on.
\* The bound MaxLines ends the input too.
EndOfInput ==
    /\ Prompting
    /\ phase' = "send"
    /\ lines' = MaxLines
    /\ asked' = Typed("s", 1)
    /\ UNCHANGED <<loaded, place, cli_ignore, ignore_count, clock, counters, stamped, origin>>

\* A line with the command c and the number n, 1 where it has none. Digits
\* alone are 's', and so is an empty line; a sign is not looked at.
Line(c, n) ==
    /\ Prompting
    /\ lines < MaxLines
    /\ lines' = lines + 1
    /\ asked' = Typed(c, n)

\* Mutant: the packet sent at once is not counted.
set_ignoreAll(n) == n

\* cli_parser::set_ignore
set_ignore(n) == (n - 1) % Word

SendCommand(n) ==
    /\ Line("s", n)
    /\ cli_ignore' = set_ignore(n)
    /\ phase' = "send"
    /\ UNCHANGED <<loaded, place, ignore_count, clock, counters, stamped, origin>>

\* Mutant: the same offset as in the other class.
loseLess(n) == (n - 1) % Word

\* packet_sender::set_ignore
lose(n) == n

LossCommand(n) ==
    /\ Line("l", n)
    /\ cli_ignore' = set_ignore(n)
    /\ ignore_count' = lose(n)
    /\ phase' = "send"
    /\ UNCHANGED <<loaded, place, clock, counters, stamped, origin>>

\* 'r' and 'e': to the n-th packet from here that is a resync point, or the
\* last of a frame. A main packet has another flag at that bit. Without n of
\* them up to the end of the recording it is read past its end.
At(k) == packets[p + k + 1]
Ahead == 0 .. N - p - 1

ToCommand(c, Stop(_), n) ==
    LET Stops(upto) == Cardinality({k \in 0 .. upto : Stop(At(k))})
    IN  /\ Line(c, n)
        /\ \/ \E k \in Ahead : /\ Stop(At(k)) /\ Stops(k) = n
                              /\ cli_ignore' = set_ignore(k + 1) /\ phase' = "send"
           \/ n = 0 /\ cli_ignore' = set_ignore(0) /\ phase' = "send"
           \/ n > Stops(N - p - 1) /\ phase' = "undefined" /\ UNCHANGED cli_ignore
        /\ UNCHANGED <<loaded, place, ignore_count, clock, counters, stamped, origin>>

ResyncCommand(n) == ToCommand("r", LAMBDA k : k.flag, n)
EocCommand(n) == ToCommand("e", LAMBDA k : k.M, n)

\* 'c': the next sequence number; it asks again.
ChangeCommand(n) ==
    /\ Line("c", n)
    /\ exseq' = n % RawSeq
    /\ origin' = [origin EXCEPT !.seq = "changed"]
    /\ UNCHANGED <<loaded, place, phase, cli_ignore, ignore_count, tp, counters, stamped>>

\* packet_os::write and the advance functions: the numbers in the packet.
Write(k) == [packets EXCEPT ![k].ts = tp % TsMod, ![k].seq = exseq % SeqModulus]

\* 'v' writes the numbers into the packet, PTSTAMP (left out here) too, and
\* shows n packets from send_call on; that is past the end of the recording
\* when there are more than that from the second loop on.
ViewCommand(n) ==
    /\ Line("v", n)
    /\ packets' = Write(p + 1)
    /\ phase' = IF \E s \in 1 .. n - 1 : send_call + s >= N /\ s >= N
                THEN "undefined" ELSE phase
    /\ UNCHANGED <<file, enter, loops, fps, adv, base, place, cli_ignore, ignore_count, clock, counters, stamped, origin>>

\* 'f' looks from the packet after the last frame end for the next one.
FrameCommand ==
    /\ Line("f", 1)
    /\ phase' = IF \E k \in FrameEnds(packets) : k > sent_f_packet THEN phase ELSE "undefined"
    /\ UNCHANGED <<loaded, place, cli_ignore, ignore_count, clock, counters, stamped, origin>>

\* Mutant: the count at the last frame end is left as it was.
clearCalls ==
    /\ send_call' = 0 /\ lost_packet' = 0 /\ sent_frame' = 0
    /\ UNCHANGED sent_f_packet

\* packet_sender::clear
clear ==
    /\ send_call' = 0 /\ lost_packet' = 0 /\ sent_frame' = 0
    /\ sent_f_packet' = 0

\* 'R': from the first packet of the first loop, with the first numbers.
RestartCommand ==
    /\ Prompting
    /\ lines < MaxLines
    /\ lines' = lines + 1
    /\ asked' = NoCommand
    /\ i' = 0 /\ p' = 0
    /\ tp' = base.ts /\ exseq' = base.seq
    /\ origin' = FromBase
    /\ clear
    /\ UNCHANGED <<loaded, phase, cli_ignore, ignore_count, stamped>>

\* 'q'; 'h' or no command, after which it asks again; and a line of blanks
\* or a number too large for an int, which end the program.
OtherLine ==
    /\ \E end \in {"quit", "read", "exit"} : Line(end, 1) /\ phase' = end
    /\ UNCHANGED <<loaded, place, cli_ignore, ignore_count, clock, counters, stamped, origin>>

\* packet_sender::send(pkt): a packet to lose is not passed on to the socket.
\* ends is what get_M reads of it.
Passes(ends) ==
    /\ send_call' = send_call + 1
    /\ IF ignore_count # 0
       THEN ignore_count' = ignore_count - 1 /\ lost_packet' = lost_packet + 1
       ELSE UNCHANGED <<ignore_count, lost_packet>>
    /\ IF ends
       THEN sent_frame' = sent_frame + 1 /\ sent_f_packet' = send_call + 1
       ELSE UNCHANGED <<sent_frame, sent_f_packet>>

\* 'E': a datagram of one byte, whose second byte get_M reads all the same.
TerminateCommand ==
    /\ Line("E", 1)
    /\ \E ends \in BOOLEAN : Passes(ends)
    /\ phase' = "terminated"
    /\ stamped' = [stamped EXCEPT !.lost = ignore_count # 0]
    /\ UNCHANGED <<loaded, place, cli_ignore, clock, origin>>

\* SIGINT was caught: found before the next packet.
Interrupted ==
    /\ phase = "send"
    /\ phase' = "interrupted"
    /\ UNCHANGED <<loaded, place, cli_ignore, ignore_count, clock, counters, lines, history>>

\* Mutant: the timestamp moves on with every packet.
advance_tpAlways(M) == (tp % TsMod) + adv

\* packet_os::advance_tp, after the timestamp is written
advance_tp(M) == IF M THEN (tp % TsMod) + adv ELSE tp

\* The numbers are written into the packet, the packet is sent. The division
\* that decides what to print at a frame end fails for a period over twice
\* the media clock. A failing sendto ends the program.
Send ==
    /\ phase = "send"
    /\ LET pkt == packets[p + 1]
       IN  /\ packets' = Write(p + 1)
           /\ tp' = advance_tp(pkt.M)
           /\ exseq' = (exseq + 1) % RawSeq
           /\ Passes(pkt.M)
           /\ phase' = IF pkt.M /\ OutFrame(adv) = 0 THEN "undefined" ELSE "read"
           /\ stamped' = [seq |-> exseq % SeqModulus, ts |-> tp % TsMod, M |-> pkt.M,
                          lost |-> ignore_count # 0]
    /\ p' = p + 1
    /\ origin' = FromLast
    /\ UNCHANGED <<file, enter, loops, fps, adv, base, i, cli_ignore, lines, asked>>

SendFails ==
    /\ phase = "send" /\ ignore_count = 0
    /\ phase' = "exit"
    /\ UNCHANGED <<loaded, place, cli_ignore, ignore_count, clock, counters, lines, history>>

Next ==
    \/ Load \/ NextLoop \/ NoLine \/ EndOfInput
    \/ \E n \in Numbers : \/ SendCommand(n) \/ LossCommand(n) \/ ResyncCommand(n)
                          \/ EocCommand(n) \/ ChangeCommand(n) \/ ViewCommand(n)
    \/ FrameCommand \/ RestartCommand \/ OtherLine \/ TerminateCommand
    \/ Interrupted \/ Send \/ SendFails

Spec == Init /\ [][Next]_vars /\ WF_vars(Next)
-----------------------------------------------------------------------------
(* Properties.                                                             *)

\* When the program asks for the next command it has done what the last one
\* said, no packet more and no packet less, over the end of the recording
\* too: 's n' and 'l n' handled n packets, 'r n' and 'e n' went up to the
\* n-th resync point or frame end. (A number 0, which the comment in
\* RTPsender2.cpp calls invalid, never asks again.)
CommandDone ==
    (Prompting /\ asked.n > 0) =>
        LET did == send_call - asked.call
            end == IF p = 0 THEN N ELSE p
            Upto(Stop(_)) ==
                /\ Stop(packets[end])
                /\ Cardinality({k \in end - did + 1 .. end : Stop(packets[k])}) = asked.n
        IN  /\ asked.c \in {"s", "l"} => did = asked.n
            /\ asked.c = "r" => Upto(LAMBDA k : k.flag)
            /\ asked.c = "e" => Upto(LAMBDA k : k.M)
            /\ asked.c \in {"c", "v", "f", "read"} => did = 0

\* The two classes count the packets to lose apart, one from the packet at
\* hand and one before it; they finish together. So 'l n' loses n packets and
\* no other packet is lost, the one that ends the transmission least of all.
LossExact ==
    /\ Prompting => lost_packet - asked.lost = IF asked.c = "l" THEN asked.n ELSE 0
    /\ phase = "terminated" => ~stamped.lost

\* The counters the prompt, 'v' and 'f' take for the place in the recording
\* are the place, over loops and restarts. So 'f' finds the end of the frame
\* it shows in the first loop over a recording that ends with a frame.
CountersAgree ==
    /\ (phase = "undefined" /\ asked.c = "f") => i > 0 \/ ~packets[N].M
    /\ phase \in {"read", "send", "ended"} =>
        /\ send_call = i * N + p
        /\ sent_frame = i * Cardinality(FrameEnds(packets))
                          + Cardinality({k \in FrameEnds(packets) : k <= p})
        /\ sent_f_packet <= send_call
        /\ \A k \in 1 .. N : (packets[k].M /\ k <= p) => i * N + k <= sent_f_packet

\* What the receiver sees: every packet is numbered one after the packet
\* before it, the lost ones counted, over the end of the recording as well,
\* and the timestamp is that of the packet before, a frame's period later
\* after a frame's last packet; from the first numbers of the recording at
\* the start and after 'R', and only 'c' breaks the count.
Follows(old, new) ==
    /\ origin.seq = "last" => new.seq = (old.seq + 1) % SeqModulus
    /\ origin.seq = "base" => new.seq = base.seq
    /\ new.ts = IF origin.ts = "base" THEN base.ts
                ELSE (old.ts + IF old.M THEN adv ELSE 0) % TsMod

NumbersFollow == [][p' > p => Follows(stamped, stamped')]_vars

\* Without --Enter the program ends.
SenderEnds == ~enter ~> phase \in Ended
=============================================================================
