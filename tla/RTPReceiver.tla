------------------------------ MODULE RTPReceiver ------------------------------
(***************************************************************************)
(* RTPReceiver: the packet loader of the analysis thread.  It pops RTP     *)
(* packets, watches the extended sequence number, collects in j2k_packets  *)
(* the segments of code-stream data up to the next resynchronisation point *)
(* and, after a loss, discards up to such a point.                         *)
(*                                                                         *)
(* The sender's stream is a fixed sequence of packets.  What the network   *)
(* and a full ring lose, and what the network repeats, is chosen by the    *)
(* action that pops, within the budgets MaxLoss and MaxRepeat.             *)
(***************************************************************************)
EXTENDS Integers, Sequences, SequencesExt

CONSTANTS
    Layout,             \* the RTP packets of one frame, in sending order
    Frames,             \* bound: frames sent
    FirstSequence,      \* extended sequence number of the first packet
    ex_sequence_max,    \* largest extended sequence number
    PIDModulus,         \* 2 to the number of PID bits get_body_PID keeps
    BufferLength,       \* buffer->get_buffer_length()
    Capacity,           \* capacity of j2k_packets
    MaxLoss,            \* bound: packets lost
    MaxRepeat           \* bound: packets repeated by the network

ASSUME BoundsAssumption ==
    {Frames, BufferLength, Capacity, PIDModulus} \subseteq Nat \ {0}
ASSUME SequenceAssumption ==
    /\ {FirstSequence, ex_sequence_max, MaxLoss, MaxRepeat} \subseteq Nat
    /\ FirstSequence <= ex_sequence_max

(* A packet of Layout: is it a main header (MH), does it hold a resync      *)
(* point (ORDB), does it end the frame (M), which precinct starts at the    *)
(* resync point (PID), and the chunks of code-stream data before (head) and *)
(* from (tail) that point.                                                  *)
PacketType == [MH : BOOLEAN, ORDB : BOOLEAN, M : BOOLEAN, PID : Nat,
               head : Seq(Int), tail : Seq(Int)]

ASSUME LayoutAssumption == Layout \in Seq(PacketType) \ {<<>>}

(* The one-byte packet that ends the stream comes after the last of them.   *)
StreamLength == Frames * Len(Layout)
Terminator == StreamLength + 1

FrameOf(i) == ((i - 1) \div Len(Layout)) + 1
PlaceOf(i) == ((i - 1) % Len(Layout)) + 1
Pkt(i) == Layout[PlaceOf(i)]
get_extended_sequence_number(i) == (FirstSequence + i - 1) % (ex_sequence_max + 1)
get_body_PID(i) == Pkt(i).PID % PIDModulus

(* parse_rtp_header: the segment of packet i that starts behind both        *)
(* headers (MAIN_PACKET, BODY_NO_RESYNC), ends at POS (RESYNC_HEAD) or      *)
(* starts there (RESYNC_TAIL).  Every chunk is tagged with its frame.       *)
Tag(i, chunks) == [k \in DOMAIN chunks |-> <<FrameOf(i), chunks[k]>>]

parse_rtp_header(i, type) ==
    CASE type \in {"MAIN_PACKET", "BODY_NO_RESYNC"} -> Tag(i, Pkt(i).head \o Pkt(i).tail)
      [] type = "BODY_RESYNC_HEAD" -> Tag(i, Pkt(i).head)
      [] type = "BODY_RESYNC_TAIL" -> Tag(i, Pkt(i).tail)

VARIABLES
    next,                   \* the packet of the stream that comes next
    losses,                 \* packets that may still be lost
    repeats,                \* packets that may still be repeated
    damaged,                \* history: the frames that lost a packet
    call,                   \* the function the analysis thread is in
    result,                 \* how the last call ended
    j2k_packets,            \* the segments collected
    pre_sequence_number,
    PID,
    unnoticed,              \* history: a gap passed check_rtp_sequence
    headless                \* history: load_main_packet returned without the
                            \* main header and first body packet of one frame

networkVars == <<next, losses, repeats, damaged>>
receiverVars == <<call, result, j2k_packets, pre_sequence_number, PID>>
gapVars == <<unnoticed, headless>>
rtpVars == <<networkVars, receiverVars, gapVars>>

(* "aborted": an assertion failed, or push_back on a full j2k_packets threw *)
(* std::bad_alloc, which nothing catches.                                   *)
RTPTypeOK ==
    /\ next \in 1 .. Terminator
    /\ losses \in 0 .. MaxLoss
    /\ repeats \in 0 .. MaxRepeat
    /\ damaged \subseteq 1 .. Frames
    /\ call \in {"load_main_packet", "load_body_packet", "discard", "none"}
    /\ result \in {"none", "MAIN_HEADER", "SUCCESS", "FAILURE", "FINISH",
                   "buffer_leak", "aborted"}
    /\ j2k_packets \in Seq(Seq((1 .. Frames) \X Int))
    /\ Len(j2k_packets) <= Capacity
    /\ pre_sequence_number \in 0 .. ex_sequence_max
    /\ PID \in 0 .. PIDModulus - 1
    /\ unnoticed \in BOOLEAN
    /\ headless \in BOOLEAN

RTPInit ==
    /\ next = 1
    /\ losses = MaxLoss
    /\ repeats = MaxRepeat
    /\ damaged = {}
    /\ call = "load_main_packet"
    /\ result = "none"
    /\ j2k_packets = <<>>
    /\ pre_sequence_number = 0
    /\ PID = 0
    /\ unnoticed = FALSE
    /\ headless = FALSE

--------------------------------------------------------------------------------
(* buffer->pop(): packet i is handed out.  Packets next .. i - 1 are lost,  *)
(* or the packet handed out last comes once more.  The terminator is pushed *)
(* by the receive thread itself and cannot be lost.                         *)
BufferPop(i) ==
    \/ /\ i \in next .. Terminator
       /\ i - next <= losses
       /\ next' = IF i = Terminator THEN i ELSE i + 1
       /\ losses' = losses - (i - next)
       /\ damaged' = damaged \cup {FrameOf(k) : k \in next .. i - 1}
       /\ UNCHANGED repeats
    \/ /\ repeats > 0
       /\ i = next - 1
       /\ i > 0
       /\ repeats' = repeats - 1
       /\ UNCHANGED <<next, losses, damaged>>

Return(r) ==
    /\ call' = "none"
    /\ result' = r

(* push_back of segments; the fixed_capacity_vector throws when it is full. *)
PushBack(segments, andThen) ==
    IF Len(j2k_packets) + Len(segments) > Capacity
    THEN Return("aborted") /\ UNCHANGED j2k_packets
    ELSE andThen /\ j2k_packets' = j2k_packets \o segments

HeadAndTail(i) ==
    <<parse_rtp_header(i, "BODY_RESYNC_HEAD"), parse_rtp_header(i, "BODY_RESYNC_TAIL")>>

Stay == UNCHANGED <<call, result>>

Finish(i) ==
    /\ i = Terminator
    /\ Return("FINISH")
    /\ UNCHANGED <<j2k_packets, pre_sequence_number, PID, gapVars>>

(* load_main_packet: one turn of its loop.  No look at the sequence number. *)
LoadMainPacket(i) ==
    /\ call = "load_main_packet"
    /\ BufferPop(i)
    /\ \/ Finish(i)
       \/ /\ i # Terminator
          /\ pre_sequence_number' = get_extended_sequence_number(i)
          /\ UNCHANGED unnoticed
          /\ IF Pkt(i).MH
             THEN /\ IF j2k_packets # <<>>
                     THEN Return("aborted") /\ UNCHANGED j2k_packets
                     ELSE PushBack(<<parse_rtp_header(i, "MAIN_PACKET")>>, Stay)
                  /\ UNCHANGED <<PID, headless>>
             ELSE IF Pkt(i).ORDB
             THEN /\ PushBack(HeadAndTail(i), Return("MAIN_HEADER"))
                  /\ PID' = get_body_PID(i)
                  /\ headless' = ~(i > 1 /\ Pkt(i - 1).MH /\
                                   j2k_packets = <<parse_rtp_header(i - 1, "MAIN_PACKET")>>)
             ELSE Stay /\ UNCHANGED <<j2k_packets, PID, headless>>

(* Mutants: everything is kept; nothing is kept. *)
EraseNothing == j2k_packets
EraseAll == <<>>

(* The call of load_body_packet: all segments but the last are erased. *)
EraseAllButLast ==
    IF j2k_packets = <<>> THEN <<>> ELSE <<Last(j2k_packets)>>

(* static bool check_rtp_sequence *)
check_rtp_sequence(prev, current) ==
    \/ current = prev + 1
    \/ prev = 0 /\ current = 1
    \/ prev = ex_sequence_max \/ current = 0

(* The PID the packet leaves: the last packet of a frame resets it, so that *)
(* the analysis goes to the end of the table.                               *)
NextPID(i) == IF Pkt(i).M THEN 0 ELSE IF Pkt(i).ORDB THEN get_body_PID(i) ELSE PID

(* The packet extends the sequence. *)
InSequence(i) ==
    /\ unnoticed' = (unnoticed \/ i # next)
    /\ UNCHANGED headless
    /\ IF Pkt(i).MH
       THEN /\ IF j2k_packets # <<>>
               THEN Return("aborted") /\ UNCHANGED j2k_packets
               ELSE PushBack(<<parse_rtp_header(i, "MAIN_PACKET")>>, Return("MAIN_HEADER"))
            /\ UNCHANGED PID
       ELSE /\ IF Pkt(i).ORDB
               THEN PushBack(HeadAndTail(i), Return("SUCCESS"))
               ELSE PushBack(<<parse_rtp_header(i, "BODY_NO_RESYNC")>>,
                             IF Pkt(i).M THEN Return("SUCCESS") ELSE Stay)
            /\ PID' = NextPID(i)

(* It does not: terminate(), and discard from here, unless more is missing  *)
(* than the ring could have held.  num_lost_packet is a uint32_t, so a      *)
(* number that goes backwards counts as a huge loss.                        *)
LossTooLarge(prev, current) ==
    current # 0 /\ (current < prev + 1 \/ current - (prev + 1) >= BufferLength)

OutOfSequence(i) ==
    /\ j2k_packets' = <<>>
    /\ IF LossTooLarge(pre_sequence_number, get_extended_sequence_number(i))
       THEN Return("buffer_leak")
       ELSE call' = "discard" /\ UNCHANGED result
    /\ UNCHANGED <<PID, gapVars>>

(* load_body_packet: one turn of its outer loop. *)
LoadBodyPacket(i) ==
    /\ call = "load_body_packet"
    /\ BufferPop(i)
    /\ \/ Finish(i)
       \/ /\ i # Terminator
          /\ pre_sequence_number' = get_extended_sequence_number(i)
          /\ IF check_rtp_sequence(pre_sequence_number, get_extended_sequence_number(i))
             THEN InSequence(i)
             ELSE OutOfSequence(i)

(* The inner loop: discard up to a body packet with a resync point. *)
Discard(i) ==
    /\ call = "discard"
    /\ BufferPop(i)
    /\ \/ Finish(i)
       \/ /\ i # Terminator
          /\ UNCHANGED gapVars
          /\ IF ~Pkt(i).MH /\ Pkt(i).ORDB
             THEN /\ pre_sequence_number' = get_extended_sequence_number(i)
                  /\ PID' = get_body_PID(i)
                  /\ PushBack(<<parse_rtp_header(i, "BODY_RESYNC_TAIL")>>, Return("FAILURE"))
             ELSE Stay /\ UNCHANGED <<pre_sequence_number, PID, j2k_packets>>

Load(i) == LoadMainPacket(i) \/ LoadBodyPacket(i) \/ Discard(i)

================================================================================
