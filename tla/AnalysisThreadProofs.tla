-------------------------- MODULE AnalysisThreadProofs --------------------------
(***************************************************************************)
(* The types of AnalysisThread, and its safety properties for every stream *)
(* that is cut the way CutForReceiver says, whatever is lost and repeated: *)
(* the frame count, the assertions, and what the parser is handed.         *)
(***************************************************************************)
EXTENDS AnalysisThread, CommonLemmas, TLAPS

L == Len(Layout)

(* Packet 0 stands for the last packet of a frame before the first.         *)
Place == PlaceOf(next - 1)
FrameNow == FrameOf(next - 1)

--------------------------------------------------------------------------------
(* The inductive invariants. *)

(* Which function the thread is in, in each phase of its loop.              *)
CallInv ==
    /\ call # "none" => result = "none"
    /\ phase = "main header" =>
          /\ call \in {"load_main_packet", "none"}
          /\ result \in {"none", "MAIN_HEADER", "FINISH", "aborted"}
          /\ table_index = 0
    /\ call = "load_main_packet" => phase = "main header" /\ ~unnoticed /\ ~headless
    /\ phase \in {"dest", "finished", "aborted"} => call = "none"
    /\ phase = "dest" => result = "none"

(* A resync point, or the end of a frame, was the last thing handed out.    *)
AtResyncPoint == Layout[Place].ORDB /\ PID = Layout[Place].PID % PIDModulus

ResyncInv ==
    /\ result = "SUCCESS" => AtResyncPoint \/ (Place = L /\ PID = 0)
    /\ result = "FAILURE" => AtResyncPoint

(* Entry e of frame f + 1 does not lie beyond packet i.                     *)
Within(f, e, i) ==
    \/ f < FrameOf(i) - 1
    \/ f = FrameOf(i) - 1 /\ (PlaceOf(i) = L \/ e <= Entry(PlaceOf(i)))
    \/ f = FrameOf(i) /\ PlaceOf(i) = L /\ e = 0

NotAhead == Within(analysis_frame, table_index, next - 1)

OrderInv == CallInv /\ ResyncInv /\ NotAhead

(* The table entry the packet at place k of a frame leaves to be parsed.    *)
Here(k) == IF k = L THEN 0 ELSE Entry(k)

(* Between calls and while load_body_packet runs: the loop's place in the   *)
(* table is that of the stream.                                             *)
Loading ==
    /\ table_index = Here(Place)
    /\ Place = L => j2k_packets = <<>>
    /\ Place # L => Len(j2k_packets) <= 1 + Place - LastParse(Place)

AlignedInv ==
    /\ phase = "main header" /\ result = "MAIN_HEADER" => Place = 2
    /\ phase = "body" =>
          /\ result # "aborted"
          /\ call = "load_body_packet" => Loading
          /\ call = "discard" => j2k_packets = <<>>
          /\ result = "MAIN_HEADER" => Place = 1 /\ table_index = 0
          /\ result = "SUCCESS" => Place # 1 /\ table_index = Entry(Place - 1)
          /\ result = "FAILURE" => Place \notin {1, L}

(* The first chunk of every packet, and where the last one ends.            *)
Start == CHOOSE start \in Starts : CarriedFrom(start)

(* The segments hold the chunks of frame f from entry e to chunk c - 1.     *)
Chunks(f, from, c) == [n \in 1 .. c - from |-> <<f, from + n - 1>>]
HoldsUpTo(c) ==
    /\ FirstChunk[table_index] <= c
    /\ FlattenSeq(j2k_packets) = Chunks(FrameNow, FirstChunk[table_index], c)

KeepsTail == j2k_packets # <<>> /\ Last(j2k_packets) = Tag(next - 1, Layout[Place].tail)

DataInv ==
    /\ ~garbage
    /\ phase = "main header" /\ result = "MAIN_HEADER" =>
          StartsWithMainHeader(FlattenSeq(j2k_packets)) /\ KeepsTail
    /\ phase = "body" =>
          /\ call = "load_body_packet" /\ Place \notin {1, L} =>
                HoldsUpTo(Start[Place + 1])
          /\ result = "SUCCESS" =>
                /\ Place # 2 => HoldsUpTo(Start[Place + 1])
                /\ Place # L => KeepsTail
          /\ result = "FAILURE" => KeepsTail

(* The entries before e of frame f are parsed, or a packet of it is lost.   *)
Done(f, e) == f \in damaged \/ {f} \X (0 .. e - 1) \subseteq parsed
Ended(f) == Done(f, TableSize)

ParsedInv ==
    /\ \A f \in 1 .. FrameNow - 1 : Ended(f)
    /\ call = "load_body_packet" \/ result \in {"MAIN_HEADER", "SUCCESS", "FAILURE"} =>
          pre_sequence_number = get_extended_sequence_number(next - 1)
    /\ call = "load_main_packet" => Place = 1 \/ FrameNow \in damaged \cup {0}
    /\ result = "FINISH" \/ phase = "finished" => \A f \in 1 .. Frames : Ended(f)
    /\ phase = "body" =>
          /\ call = "load_body_packet" =>
                IF Place = L THEN Ended(FrameNow) ELSE Done(FrameNow, table_index)
          /\ result = "SUCCESS" => Done(FrameNow, table_index)
          /\ call = "discard" => Place = 1 \/ FrameNow \in damaged
          /\ result = "FAILURE" => Place = 2 \/ FrameNow \in damaged
    /\ phase # "dest"

--------------------------------------------------------------------------------
(* Where a packet stands. *)

LEMMA Constants ==
    /\ L \in Nat \ {0} /\ TableSize \in Nat \ {0}
    /\ Frames \in Nat \ {0} /\ Capacity \in Nat \ {0} /\ PIDModulus \in Nat \ {0}
    /\ BufferLength \in Nat \ {0}
    /\ ex_sequence_max \in Nat /\ FirstSequence \in Nat
    /\ MaxLoss \in Nat /\ MaxRepeat \in Nat
    /\ \A k \in 1 .. L : Layout[k] \in PacketType
    /\ \A e \in Index : table(e) \in Nat
    /\ FirstChunk \in [0 .. TableSize -> Nat]
  <1>1. L \in Nat \ {0} /\ \A k \in 1 .. L : Layout[k] \in PacketType
    BY LayoutAssumption DEF L
  <1>2. TableSize \in Nat \ {0} /\ \A k \in 1 .. TableSize : Table[k] \in Nat
    BY TableAssumption DEF TableSize
  <1>3. \A e \in Index : table(e) \in Nat
    BY <1>2 DEF Index, table
  <1> QED  BY <1>1, <1>2, <1>3, BoundsAssumption, SequenceAssumption, TableAssumption

LEMMA Sizes ==
    /\ TableSize \in Nat \ {0} /\ Index = 0 .. TableSize - 1
    /\ 0 \in Index /\ Index \subseteq 0 .. TableSize /\ 0 \in 0 .. TableSize
    /\ \A e \in 0 .. TableSize : e # TableSize => e \in Index
    /\ PIDModulus \in Nat \ {0} /\ Capacity \in Nat \ {0} /\ Frames \in Nat \ {0}
    /\ ex_sequence_max \in Nat /\ MaxLoss \in Nat /\ MaxRepeat \in Nat
  <1>1. TableSize \in Nat \ {0}
    BY Constants
  <1>2. /\ 0 \in 0 .. TableSize - 1 /\ 0 .. TableSize - 1 \subseteq 0 .. TableSize
        /\ 0 \in 0 .. TableSize
        /\ \A e \in 0 .. TableSize : e # TableSize => e \in 0 .. TableSize - 1
    BY <1>1
  <1> QED  BY <1>1, <1>2, Constants DEF Index

LEMMA PlaceIs ==
    ASSUME NEW i \in Int
    PROVE  /\ PlaceOf(i) \in 1 .. L /\ FrameOf(i) \in Int
           /\ i = L * (FrameOf(i) - 1) + PlaceOf(i)
  <1> DEFINE j == i - 1
             d == j \div L
             r == j % L
  <1>1. d \in Int /\ r \in 0 .. L - 1 /\ j = L * d + r
    <2> HIDE DEF j
    <2> QED  BY Constants, DivMod, j \in Int DEF j
  <1>2. FrameOf(i) = d + 1 /\ PlaceOf(i) = r + 1
    BY DEF FrameOf, PlaceOf, L
  <1> HIDE DEF d, r
  <1>3. FrameOf(i) - 1 = d
    BY <1>1, <1>2
  <1> QED  BY <1>1, <1>2, <1>3, Constants

(* A packet is known by its frame and its place.                            *)
LEMMA PlaceUnique ==
    ASSUME NEW i \in Int, NEW f \in Int, NEW k \in 1 .. L, i = L * (f - 1) + k
    PROVE  FrameOf(i) = f /\ PlaceOf(i) = k
  <1> DEFINE j == i - 1
             q == f - 1
  <1>1. j \div L = q
    <2>1. L * q <= j /\ j < L * q + L /\ q \in Int /\ j \in Int
      BY Constants
    <2> HIDE DEF j, q
    <2> QED  BY <2>1, Constants, DivUnique
  <1>2. FrameOf(i) = f
    BY <1>1 DEF FrameOf, L
  <1>3. i = L * (f - 1) + PlaceOf(i) /\ PlaceOf(i) \in Int
    BY <1>2, PlaceIs, Constants
  <1> HIDE DEF j, q
  <1>4. L * (f - 1) \in Int
    BY Constants
  <1> QED  BY <1>2, <1>3, <1>4

LEMMA NextPlace ==
    ASSUME NEW i \in Int
    PROVE  IF PlaceOf(i) = L
           THEN PlaceOf(i + 1) = 1 /\ FrameOf(i + 1) = FrameOf(i) + 1
           ELSE PlaceOf(i + 1) = PlaceOf(i) + 1 /\ FrameOf(i + 1) = FrameOf(i)
  <1> DEFINE f == FrameOf(i)
             k == PlaceOf(i)
  <1>1. f \in Int /\ k \in 1 .. L /\ i = L * (f - 1) + k
    BY PlaceIs
  <1> HIDE DEF f, k
  <1>2. CASE k = L
    <2>1. i + 1 = L * ((f + 1) - 1) + 1
      BY <1>1, <1>2, Constants, L * ((f + 1) - 1) = L * (f - 1) + L
    <2>2. f + 1 \in Int /\ 1 \in 1 .. L /\ i + 1 \in Int
      BY <1>1, Constants
    <2>3. FrameOf(i + 1) = f + 1 /\ PlaceOf(i + 1) = 1
      BY <2>1, <2>2, PlaceUnique
    <2> QED  BY <1>2, <2>3 DEF f, k
  <1>3. CASE k # L
    <2>1. i + 1 = L * (f - 1) + (k + 1) /\ k + 1 \in 1 .. L
      BY <1>1, <1>3, Constants
    <2> QED  BY <1>1, <1>3, <2>1, PlaceUnique DEF f, k
  <1> QED  BY <1>2, <1>3

LEMMA PlaceOrder ==
    ASSUME NEW i \in Int, NEW j \in Int, i <= j
    PROVE  FrameOf(i) < FrameOf(j) \/ (FrameOf(i) = FrameOf(j) /\ PlaceOf(i) <= PlaceOf(j))
  <1> DEFINE a == FrameOf(i) - 1
             b == FrameOf(j) - 1
  <1>1. /\ a \in Int /\ b \in Int
        /\ PlaceOf(i) \in 1 .. L /\ PlaceOf(j) \in 1 .. L
        /\ i = L * a + PlaceOf(i) /\ j = L * b + PlaceOf(j)
        /\ FrameOf(i) = a + 1 /\ FrameOf(j) = b + 1
    BY PlaceIs
  <1> HIDE DEF a, b
  <1>2. ~(b + 1 <= a)
    <2>1. SUFFICES ASSUME b + 1 <= a PROVE FALSE
      OBVIOUS
    <2>2. L * (b + 1) <= L * a /\ L * (b + 1) = L * b + L
      BY <2>1, <1>1, MulMono, Constants
    <2>3. L * b \in Int /\ L * a \in Int
      BY <1>1, Constants
    <2> DEFINE x == L * a
               y == L * b
    <2>4. j = y + PlaceOf(j) /\ i = x + PlaceOf(i) /\ y + L <= x /\ x \in Int /\ y \in Int
      BY <1>1, <2>2, <2>3
    <2>5. L \in Nat /\ PlaceOf(i) \in 1 .. L /\ PlaceOf(j) \in 1 .. L
      BY <1>1, Constants
    <2>6. PlaceOf(i) >= 1 /\ PlaceOf(j) <= L /\ PlaceOf(i) \in Int /\ PlaceOf(j) \in Int
      BY <2>5
    <2> HIDE DEF x, y
    <2>7. y + PlaceOf(j) <= x
      BY <2>4, <2>5, <2>6
    <2>8. j < i
      BY <2>4, <2>6, <2>7
    <2> QED  BY <2>8
  <1>3. CASE a = b
    BY <1>1, <1>3, Constants
  <1> QED  BY <1>1, <1>2, <1>3

LEMMA Ends ==
    /\ PlaceOf(0) = L /\ FrameOf(0) = 0
    /\ PlaceOf(StreamLength) = L /\ FrameOf(StreamLength) = Frames
    /\ StreamLength \in Nat \ {0} /\ Terminator \in Nat /\ Terminator = StreamLength + 1
  <1>1. StreamLength = L * (Frames - 1) + L /\ StreamLength \in Nat \ {0}
    BY Constants, L * (Frames - 1) + L = L * Frames, L * Frames = Frames * L DEF StreamLength, L
  <1>2. 0 = L * (0 - 1) + L
    BY Constants
  <1>3. L \in 1 .. L /\ 0 \in Int /\ Frames \in Int
    BY Constants
  <1>4. PlaceOf(0) = L /\ FrameOf(0) = 0
    BY <1>2, <1>3, PlaceUnique
  <1>5. PlaceOf(StreamLength) = L /\ FrameOf(StreamLength) = Frames
    BY <1>1, <1>3, PlaceUnique
  <1> QED  BY <1>1, <1>4, <1>5 DEF Terminator

LEMMA FrameRange ==
    ASSUME NEW i \in 1 .. StreamLength
    PROVE  FrameOf(i) \in 1 .. Frames
  <1>1. FrameOf(i) \in Int /\ FrameOf(StreamLength) = Frames /\ Frames \in Int
    BY PlaceIs, Ends, Constants
  <1>2. FrameOf(i) <= Frames
    <2>1. i \in Int /\ StreamLength \in Int /\ i <= StreamLength
      BY Ends
    <2>2. FrameOf(i) < FrameOf(StreamLength) \/ FrameOf(i) = FrameOf(StreamLength)
      BY <2>1, PlaceOrder
    <2> QED  BY <1>1, <2>2
  <1>3. PlaceOf(1) = 1 /\ FrameOf(1) = 1
    BY NextPlace, Ends
  <1>4. FrameOf(1) <= FrameOf(i)
    BY PlaceOrder, <1>1, <1>3
  <1> QED  BY <1>1, <1>2, <1>3, <1>4

--------------------------------------------------------------------------------
(* Types. *)

Chunk == (1 .. Frames) \X Int

LEMMA PacketFields ==
    ASSUME NEW i \in Int
    PROVE  /\ Pkt(i) = Layout[PlaceOf(i)] /\ Pkt(i) \in PacketType
           /\ Pkt(i).head \in Seq(Int) /\ Pkt(i).tail \in Seq(Int)
           /\ get_extended_sequence_number(i) \in 0 .. ex_sequence_max
           /\ get_body_PID(i) \in 0 .. PIDModulus - 1
  <1>1. Pkt(i) = Layout[PlaceOf(i)] /\ Pkt(i) \in PacketType
    <2>1. PlaceOf(i) \in 1 .. L
      BY PlaceIs
    <2> QED  BY <2>1, Constants DEF Pkt
  <1>2. Pkt(i).head \in Seq(Int) /\ Pkt(i).tail \in Seq(Int) /\ Pkt(i).PID \in Nat
    BY <1>1 DEF PacketType
  <1>3. \A a \in Int, b \in Nat \ {0} : a % b \in 0 .. b - 1
    BY DivMod
  <1>4. get_extended_sequence_number(i) \in 0 .. ex_sequence_max
    <2>1. FirstSequence + i - 1 \in Int /\ ex_sequence_max + 1 \in Nat \ {0}
      BY Constants
    <2>2. (ex_sequence_max + 1) - 1 = ex_sequence_max
      BY Constants
    <2> QED  BY <1>3, <2>1, <2>2 DEF get_extended_sequence_number
  <1>5. get_body_PID(i) \in 0 .. PIDModulus - 1
    <2> DEFINE p == Pkt(i).PID
    <2>1. p \in Int /\ PIDModulus \in Nat \ {0}
      BY <1>2, Constants
    <2> HIDE DEF p
    <2>2. p % PIDModulus \in 0 .. PIDModulus - 1
      BY <1>3, <2>1
    <2> QED  BY <2>2 DEF get_body_PID, p
  <1> QED  BY <1>1, <1>2, <1>4, <1>5

LEMMA TagType ==
    ASSUME NEW i \in 1 .. StreamLength, NEW chunks \in Seq(Int)
    PROVE  Tag(i, chunks) \in Seq(Chunk) /\ Len(Tag(i, chunks)) = Len(chunks)
  <1>1. DOMAIN chunks = 1 .. Len(chunks) /\ Len(chunks) \in Nat
    OBVIOUS
  <1>2. \A k \in 1 .. Len(chunks) : <<FrameOf(i), chunks[k]>> \in Chunk
    BY FrameRange DEF Chunk
  <1> QED  BY <1>1, <1>2 DEF Tag

LEMMA SegmentType ==
    ASSUME NEW i \in 1 .. StreamLength
    PROVE  /\ <<parse_rtp_header(i, "MAIN_PACKET")>> \in Seq(Seq(Chunk))
           /\ <<parse_rtp_header(i, "BODY_NO_RESYNC")>> \in Seq(Seq(Chunk))
           /\ <<parse_rtp_header(i, "BODY_RESYNC_TAIL")>> \in Seq(Seq(Chunk))
           /\ HeadAndTail(i) \in Seq(Seq(Chunk))
           /\ Len(HeadAndTail(i)) = 2
  <1>1. i \in Int
    BY Ends
  <1>2. Pkt(i).head \in Seq(Int) /\ Pkt(i).tail \in Seq(Int)
    BY <1>1, PacketFields
  <1>3. Pkt(i).head \o Pkt(i).tail \in Seq(Int)
    BY <1>2
  <1>4. /\ Tag(i, Pkt(i).head) \in Seq(Chunk) /\ Tag(i, Pkt(i).tail) \in Seq(Chunk)
        /\ Tag(i, Pkt(i).head \o Pkt(i).tail) \in Seq(Chunk)
    BY <1>2, <1>3, TagType
  <1>5. /\ parse_rtp_header(i, "MAIN_PACKET") = Tag(i, Pkt(i).head \o Pkt(i).tail)
        /\ parse_rtp_header(i, "BODY_NO_RESYNC") = Tag(i, Pkt(i).head \o Pkt(i).tail)
        /\ parse_rtp_header(i, "BODY_RESYNC_HEAD") = Tag(i, Pkt(i).head)
        /\ parse_rtp_header(i, "BODY_RESYNC_TAIL") = Tag(i, Pkt(i).tail)
    BY DEF parse_rtp_header
  <1> QED  BY <1>4, <1>5 DEF HeadAndTail

LEMMA PopIs ==
    ASSUME RTPTypeOK, NEW i \in 1 .. Terminator, BufferPop(i)
    PROVE  /\ next' \in 1 .. Terminator /\ losses' \in 0 .. MaxLoss
           /\ repeats' \in 0 .. MaxRepeat /\ damaged' \subseteq 1 .. Frames
           /\ damaged \subseteq damaged'
           /\ \/ /\ i \in next .. Terminator
                 /\ next' = (IF i = Terminator THEN i ELSE i + 1)
                 /\ damaged' = damaged \cup {FrameOf(k) : k \in next .. i - 1}
              \/ i = next - 1 /\ next' = next /\ damaged' = damaged
  <1>1. next \in 1 .. Terminator /\ Terminator = StreamLength + 1 /\ StreamLength \in Nat
    BY Ends DEF RTPTypeOK
  <1>2. {FrameOf(k) : k \in next .. i - 1} \subseteq 1 .. Frames
    <2>1. \A k \in next .. i - 1 : k \in 1 .. StreamLength
      BY <1>1
    <2> QED  BY <2>1, FrameRange
  <1> DEFINE gone == {FrameOf(k) : k \in next .. i - 1}
  <1>3. /\ losses \in 0 .. MaxLoss /\ repeats \in 0 .. MaxRepeat
        /\ damaged \subseteq 1 .. Frames /\ gone \subseteq 1 .. Frames
    BY <1>2 DEF RTPTypeOK
  <1>4. \/ /\ i \in next .. Terminator /\ i - next <= losses
           /\ next' = (IF i = Terminator THEN i ELSE i + 1)
           /\ losses' = losses - (i - next)
           /\ damaged' = damaged \cup gone /\ UNCHANGED repeats
        \/ /\ repeats > 0 /\ i = next - 1 /\ repeats' = repeats - 1
           /\ UNCHANGED <<next, losses, damaged>>
    BY DEF BufferPop
  <1>5. next' \in 1 .. Terminator
    BY <1>1, <1>4
  <1>6. losses' \in 0 .. MaxLoss /\ repeats' \in 0 .. MaxRepeat
    <2> HIDE DEF gone
    <2> QED  BY <1>1, <1>3, <1>4, Constants
  <1>7. damaged' \subseteq 1 .. Frames /\ damaged \subseteq damaged'
    <2> HIDE DEF gone
    <2> QED  BY <1>3, <1>4
  <1> QED  BY <1>4, <1>5, <1>6, <1>7

(* What push_back leaves behind, full or not.                               *)
Pushed(segments) ==
    \/ UNCHANGED j2k_packets
    \/ /\ ~(Len(j2k_packets) + Len(segments) > Capacity)
       /\ j2k_packets' = j2k_packets \o segments

LEMMA PushedType ==
    ASSUME RTPTypeOK, NEW segments \in Seq(Seq(Chunk)), Pushed(segments)
    PROVE  j2k_packets' \in Seq(Seq(Chunk)) /\ Len(j2k_packets') <= Capacity
  <1> DEFINE S == Seq(Chunk)
  <1>1. j2k_packets \in Seq(S) /\ Len(j2k_packets) <= Capacity
    BY DEF RTPTypeOK, Chunk
  <1>2. segments \in Seq(S)
    OBVIOUS
  <1> HIDE DEF S
  <1>3. CASE UNCHANGED j2k_packets
    BY <1>1, <1>3 DEF S
  <1>4. CASE /\ ~(Len(j2k_packets) + Len(segments) > Capacity)
             /\ j2k_packets' = j2k_packets \o segments
    <2>1. j2k_packets' \in Seq(S) /\ Len(j2k_packets') = Len(j2k_packets) + Len(segments)
      BY <1>1, <1>2, <1>4
    <2>2. Len(j2k_packets) \in Nat /\ Len(segments) \in Nat
      BY <1>1, <1>2
    <2> QED  BY <1>4, <2>1, <2>2, Constants DEF S
  <1> QED  BY <1>3, <1>4 DEF Pushed

LEMMA EmptyType == <<>> \in Seq(Seq(Chunk)) /\ Len(<<>>) <= Capacity
  BY Constants

LEMMA LoadMainType ==
    ASSUME RTPTypeOK, NEW i \in 1 .. Terminator, LoadMainPacket(i)
    PROVE  RTPTypeOK'
  <1>1. /\ next' \in 1 .. Terminator /\ losses' \in 0 .. MaxLoss
        /\ repeats' \in 0 .. MaxRepeat /\ damaged' \subseteq 1 .. Frames
    BY PopIs DEF LoadMainPacket
  <1>2. CASE Finish(i)
    BY <1>1, <1>2 DEF LoadMainPacket, Finish, Return, RTPTypeOK, gapVars
  <1>3. CASE ~Finish(i)
    <2>1. i \in 1 .. StreamLength /\ i \in Int
      BY <1>3, Ends DEF LoadMainPacket
    <2> DEFINE main == <<parse_rtp_header(i, "MAIN_PACKET")>>
               both == HeadAndTail(i)
    <2>2. main \in Seq(Seq(Chunk)) /\ both \in Seq(Seq(Chunk))
      BY <2>1, SegmentType
    <2> HIDE DEF main, both
    <2>3. Pushed(main) \/ Pushed(both)
      BY <1>3 DEF LoadMainPacket, PushBack, Pushed, main, both
    <2>4. j2k_packets' \in Seq(Seq(Chunk)) /\ Len(j2k_packets') <= Capacity
      BY <2>2, <2>3, PushedType
    <2>5. pre_sequence_number' \in 0 .. ex_sequence_max /\ PID' \in 0 .. PIDModulus - 1
      BY <1>3, <2>1, PacketFields DEF LoadMainPacket, RTPTypeOK
    <2>6. /\ call' \in {"load_main_packet", "load_body_packet", "discard", "none"}
          /\ result' \in {"none", "MAIN_HEADER", "SUCCESS", "FAILURE", "FINISH",
                          "buffer_leak", "aborted"}
          /\ unnoticed' \in BOOLEAN /\ headless' \in BOOLEAN
      BY <1>3 DEF LoadMainPacket, RTPTypeOK, PushBack, Return, Stay, main, both
    <2> QED  BY <1>1, <2>4, <2>5, <2>6 DEF RTPTypeOK, Chunk
  <1> QED  BY <1>2, <1>3

LEMMA LoadBodyType ==
    ASSUME RTPTypeOK, NEW i \in 1 .. Terminator, LoadBodyPacket(i)
    PROVE  RTPTypeOK'
  <1>1. /\ next' \in 1 .. Terminator /\ losses' \in 0 .. MaxLoss
        /\ repeats' \in 0 .. MaxRepeat /\ damaged' \subseteq 1 .. Frames
    BY PopIs DEF LoadBodyPacket
  <1>2. CASE Finish(i)
    BY <1>1, <1>2 DEF LoadBodyPacket, Finish, Return, RTPTypeOK, gapVars
  <1>3. CASE ~Finish(i)
    <2>1. /\ i \in 1 .. StreamLength /\ i \in Int
          /\ pre_sequence_number' = get_extended_sequence_number(i)
      BY <1>3, Ends DEF LoadBodyPacket
    <2>2. pre_sequence_number' \in 0 .. ex_sequence_max
      BY <2>1, PacketFields
    <2>3. CASE InSequence(i)
      <3> DEFINE main == <<parse_rtp_header(i, "MAIN_PACKET")>>
                 plain == <<parse_rtp_header(i, "BODY_NO_RESYNC")>>
                 both == HeadAndTail(i)
      <3>1. main \in Seq(Seq(Chunk)) /\ plain \in Seq(Seq(Chunk)) /\ both \in Seq(Seq(Chunk))
        BY <2>1, SegmentType
      <3> HIDE DEF main, plain, both
      <3>2. Pushed(main) \/ Pushed(plain) \/ Pushed(both)
        BY <2>3 DEF InSequence, PushBack, Pushed, main, plain, both
      <3>3. j2k_packets' \in Seq(Seq(Chunk)) /\ Len(j2k_packets') <= Capacity
        BY <3>1, <3>2, PushedType
      <3>4. PID' \in 0 .. PIDModulus - 1
        <4>1. PID' \in {0, get_body_PID(i), PID}
          BY <2>3 DEF InSequence, NextPID
        <4>2. get_body_PID(i) \in 0 .. PIDModulus - 1
          BY <2>1, PacketFields
        <4> QED  BY <4>1, <4>2, Constants DEF RTPTypeOK
      <3>5. /\ call' \in {"load_main_packet", "load_body_packet", "discard", "none"}
            /\ result' \in {"none", "MAIN_HEADER", "SUCCESS", "FAILURE", "FINISH",
                            "buffer_leak", "aborted"}
        BY <2>3 DEF InSequence, RTPTypeOK, PushBack, Return, Stay, main, plain, both
      <3>6. unnoticed' \in BOOLEAN /\ headless' \in BOOLEAN
        BY <2>3 DEF InSequence, RTPTypeOK
      <3> QED  BY <1>1, <2>2, <3>3, <3>4, <3>5, <3>6 DEF RTPTypeOK, Chunk
    <2>4. CASE OutOfSequence(i)
      <3>1. j2k_packets' = <<>> /\ UNCHANGED <<PID, unnoticed, headless>>
        BY <2>4 DEF OutOfSequence, gapVars
      <3>2. /\ call' \in {"none", "discard"}
            /\ result' \in {"buffer_leak", result}
        BY <2>4 DEF OutOfSequence, Return
      <3> QED  BY <1>1, <2>2, <3>1, <3>2, EmptyType DEF RTPTypeOK, Chunk
    <2> QED  BY <1>3, <2>3, <2>4 DEF LoadBodyPacket
  <1> QED  BY <1>2, <1>3

LEMMA DiscardType ==
    ASSUME RTPTypeOK, NEW i \in 1 .. Terminator, Discard(i)
    PROVE  RTPTypeOK'
  <1>1. /\ next' \in 1 .. Terminator /\ losses' \in 0 .. MaxLoss
        /\ repeats' \in 0 .. MaxRepeat /\ damaged' \subseteq 1 .. Frames
    BY PopIs DEF Discard
  <1>2. CASE Finish(i)
    BY <1>1, <1>2 DEF Discard, Finish, Return, RTPTypeOK, gapVars
  <1>3. CASE ~Finish(i)
    <2>1. i \in 1 .. StreamLength /\ i \in Int
      BY <1>3, Ends DEF Discard
    <2> DEFINE tail == <<parse_rtp_header(i, "BODY_RESYNC_TAIL")>>
    <2>2. tail \in Seq(Seq(Chunk))
      BY <2>1, SegmentType
    <2> HIDE DEF tail
    <2>3. Pushed(tail)
      BY <1>3 DEF Discard, PushBack, Pushed, tail
    <2>4. j2k_packets' \in Seq(Seq(Chunk)) /\ Len(j2k_packets') <= Capacity
      BY <2>2, <2>3, PushedType
    <2>5. pre_sequence_number' \in 0 .. ex_sequence_max /\ PID' \in 0 .. PIDModulus - 1
      BY <1>3, <2>1, PacketFields DEF Discard, RTPTypeOK
    <2>6. /\ call' \in {"load_main_packet", "load_body_packet", "discard", "none"}
          /\ result' \in {"none", "MAIN_HEADER", "SUCCESS", "FAILURE", "FINISH",
                          "buffer_leak", "aborted"}
          /\ unnoticed' \in BOOLEAN /\ headless' \in BOOLEAN
      BY <1>3 DEF Discard, RTPTypeOK, PushBack, Return, Stay, gapVars, tail
    <2> QED  BY <1>1, <2>4, <2>5, <2>6 DEF RTPTypeOK, Chunk
  <1> QED  BY <1>2, <1>3

LEMMA FirstWithPIDIs ==
    ASSUME NEW k \in 0 .. TableSize, NEW pid
    PROVE  LET t == FirstWithPID(k, pid)
           IN  /\ t \in k .. TableSize
               /\ t = TableSize \/ table(t) = pid
               /\ \A u \in k .. t - 1 : table(u) # pid
  <1> DEFINE S == {t \in k .. TableSize : t = TableSize \/ table(t) = pid}
             Q(t) == /\ t = TableSize \/ table(t) = pid
                     /\ \A u \in k .. t - 1 : table(u) # pid
  <1>1. S \subseteq Nat /\ TableSize \in S
    BY Constants
  <1>2. PICK x \in S : \A y \in S : x <= y
    <2> HIDE DEF S
    <2> QED  BY <1>1, LeastElement
  <1>3. \A u \in k .. x - 1 : table(u) # pid
    <2>1. SUFFICES ASSUME NEW u \in k .. x - 1, table(u) = pid PROVE FALSE
      OBVIOUS
    <2>2. x \in k .. TableSize
      OBVIOUS
    <2>3. u \in S
      BY <2>1, <2>2, Constants
    <2> QED  BY <1>2, <2>1, <2>2, <2>3, Constants
  <1>4. \E t \in k .. TableSize : Q(t)
    BY <1>3
  <1>5. FirstWithPID(k, pid) = CHOOSE t \in k .. TableSize : Q(t)
    BY DEF FirstWithPID
  <1> HIDE DEF Q
  <1>6. FirstWithPID(k, pid) \in k .. TableSize /\ Q(FirstWithPID(k, pid))
    BY <1>4, <1>5
  <1> QED  BY <1>6 DEF Q

LEMMA FirstInTable ==
    ASSUME NEW k \in 0 .. TableSize, NEW pid
    PROVE  FirstWithPID(k, pid) \in 0 .. TableSize /\ k <= FirstWithPID(k, pid)
  <1> DEFINE t == FirstWithPID(k, pid)
  <1>1. t \in k .. TableSize
    BY FirstWithPIDIs
  <1> HIDE DEF t
  <1>2. t \in 0 .. TableSize /\ k <= t
    BY <1>1, Sizes
  <1> QED  BY <1>2 DEF t

LEMMA EraseType ==
    ASSUME RTPTypeOK
    PROVE  EraseAllButLast \in Seq(Seq(Chunk)) /\ Len(EraseAllButLast) <= Capacity
  <1> DEFINE S == Seq(Chunk)
  <1>1. j2k_packets \in Seq(S)
    BY DEF RTPTypeOK, Chunk
  <1> HIDE DEF S
  <1>2. CASE j2k_packets = <<>>
    BY <1>2, Constants DEF EraseAllButLast, S
  <1>3. CASE j2k_packets # <<>>
    <2>1. Last(j2k_packets) \in S
      BY <1>1, <1>3 DEF Last
    <2> QED  BY <1>3, <2>1, Constants DEF EraseAllButLast, S
  <1> QED  BY <1>2, <1>3

LEMMA CallType ==
    ASSUME RTPTypeOK, NEW s \in Seq(Seq(Chunk)), Len(s) <= Capacity,
           j2k_packets' = s, call' = "load_body_packet", result' = "none",
           UNCHANGED <<networkVars, pre_sequence_number, PID, gapVars>>
    PROVE  RTPTypeOK'
  BY DEF RTPTypeOK, Chunk, networkVars, gapVars

LEMMA InitType == Init => TypeOK
  <1> SUFFICES ASSUME Init PROVE TypeOK
    OBVIOUS
  <1>1. RTPTypeOK
    <2>1. 1 \in 1 .. Terminator
      BY Ends
    <2>2. MaxLoss \in 0 .. MaxLoss /\ MaxRepeat \in 0 .. MaxRepeat
          /\ 0 \in 0 .. ex_sequence_max /\ 0 \in 0 .. PIDModulus - 1
      BY Sizes
    <2> QED  BY <2>1, <2>2, EmptyType DEF Init, RTPInit, RTPTypeOK, Chunk
  <1> QED  BY <1>1, Sizes DEF Init, TypeOK

LEMMA SuccessType ==
    ASSUME TypeOK, Success
    PROVE  TypeOK'
  <1> DEFINE t == FirstWithPID(table_index, PID)
             fs == {f \in 1 .. Frames : Holds(FlattenSeq(j2k_packets), f, table_index, t)}
  <1>1. t \in 0 .. TableSize /\ table_index \in Index /\ analysis_frame \in Nat
    BY FirstInTable, Sizes DEF TypeOK
  <1>2. fs \X (table_index .. t - 1) \subseteq (1 .. Frames) \X Index
    <2>1. fs \subseteq 1 .. Frames
      OBVIOUS
    <2> HIDE DEF fs, t
    <2>2. /\ Index = 0 .. TableSize - 1 /\ TableSize \in Int /\ t \in Int
          /\ table_index \in Int /\ 0 <= table_index /\ t <= TableSize
      BY <1>1, Sizes
    <2>3. (table_index .. t - 1) \subseteq Index
      BY <2>2
    <2> QED  BY <2>1, <2>3
  <1>3. /\ UNCHANGED <<networkVars, pre_sequence_number, PID, gapVars>>
        /\ parsed' = parsed \/ parsed' = parsed \cup (fs \X (table_index .. t - 1))
        /\ leaked' \in BOOLEAN /\ garbage' \in BOOLEAN
        /\ \/ ParsedUpTo(t) /\ phase' = "body"
           \/ /\ phase' \in {"dest", "aborted"}
              /\ call' \in {"none", call} /\ result' \in {"none", result}
              /\ UNCHANGED <<table_index, analysis_frame, j2k_packets>>
    BY DEF Success, Leaked, ParsedUpTo, CallLoadBody, TypeOK
  <1> HIDE DEF t, fs
  <1>4. parsed' \subseteq (1 .. Frames) \X Index
    BY <1>2, <1>3 DEF TypeOK
  <1>5. CASE ParsedUpTo(t) /\ phase' = "body"
    <2>1. table_index' \in Index /\ analysis_frame' \in Nat
      <3>1. \/ table_index' = 0 /\ analysis_frame' = analysis_frame + 1
            \/ t # TableSize /\ table_index' = t /\ analysis_frame' = analysis_frame
        BY <1>5 DEF ParsedUpTo
      <3> QED  BY <1>1, <3>1, Sizes
    <2>2. CallLoadBody(<<>>) \/ CallLoadBody(EraseAllButLast)
      BY <1>5 DEF ParsedUpTo
    <2>3. RTPTypeOK'
      BY <1>3, <2>2, CallType, EraseType, EmptyType DEF CallLoadBody, TypeOK
    <2> QED  BY <1>3, <1>4, <1>5, <2>1, <2>3 DEF TypeOK
  <1>6. CASE /\ phase' \in {"dest", "aborted"}
             /\ call' \in {"none", call} /\ result' \in {"none", result}
             /\ UNCHANGED <<table_index, analysis_frame, j2k_packets>>
    <2>1. RTPTypeOK'
      BY <1>3, <1>6 DEF TypeOK, RTPTypeOK, networkVars, gapVars
    <2> QED  BY <1>3, <1>4, <1>6, <2>1 DEF TypeOK
  <1> QED  BY <1>3, <1>5, <1>6

LEMMA SkipType ==
    ASSUME table_index \in Index, analysis_frame \in Nat, SkipToPID
    PROVE  table_index' \in Index /\ analysis_frame' \in Nat
  <1> DEFINE a == FirstWithPID(table_index, PID)
             b == FirstWithPID(0, PID)
  <1>1. table_index \in 0 .. TableSize /\ 0 \in 0 .. TableSize
    BY Sizes
  <1>2. a \in 0 .. TableSize /\ b \in 0 .. TableSize
    BY <1>1, FirstInTable
  <1>3. \/ a < TableSize /\ table_index' = a /\ analysis_frame' = analysis_frame
        \/ b < TableSize /\ table_index' = b /\ analysis_frame' = analysis_frame + 1
    BY DEF SkipToPID, SkipFrom
  <1> HIDE DEF a, b
  <1>4. (a < TableSize => a \in Index) /\ (b < TableSize => b \in Index)
    BY <1>2, Sizes
  <1> QED  BY <1>3, <1>4

LEMMA StepType == TypeOK /\ [Next]_vars => TypeOK'
  <1> SUFFICES ASSUME TypeOK, [Next]_vars PROVE TypeOK'
    OBVIOUS
  <1> USE DEF TypeOK
  <1>1. CASE LoadPacket
    BY <1>1, LoadMainType, LoadBodyType, DiscardType DEF LoadPacket, Load, loopVars, parseVars
  <1>2. CASE ReadMainHeader
    <2>1. RTPTypeOK'
      <3>1. CASE CallLoadBody(EraseAllButLast)
        BY <1>2, <3>1, CallType, EraseType DEF ReadMainHeader, CallLoadBody
      <3>2. CASE UNCHANGED <<call, result, j2k_packets>>
        BY <1>2, <3>2 DEF ReadMainHeader, RTPTypeOK, networkVars, gapVars
      <3> QED  BY <1>2, <3>1, <3>2 DEF ReadMainHeader
    <2> QED  BY <1>2, <2>1 DEF ReadMainHeader, CallLoadBody
  <1>3. CASE Success
    BY <1>3, SuccessType
  <1>4. CASE MainHeader
    <2>1. RTPTypeOK'
      BY <1>4, CallType, EraseType DEF MainHeader, CallLoadBody
    <2> QED  BY <1>4, <2>1 DEF MainHeader, CallLoadBody, parseVars
  <1>5. CASE Failure
    <2>1. RTPTypeOK'
      BY <1>5, CallType, EraseType DEF Failure, CallLoadBody
    <2>2. table_index' \in Index /\ analysis_frame' \in Nat
      BY <1>5, SkipType DEF Failure
    <2> QED  BY <1>5, <2>1, <2>2 DEF Failure, CallLoadBody, parseVars
  <1>6. CASE Catch
    BY <1>6 DEF Catch, Leaked, RTPTypeOK, networkVars, gapVars
  <1>7. CASE Dest
    <2>1. PICK i \in 1 .. Terminator :
             /\ BufferPop(i)
             /\ \/ /\ i = Terminator
                   /\ phase' = "finished"
                   /\ table_index' = 0
                   /\ UNCHANGED <<call, result, j2k_packets>>
                \/ /\ i # Terminator /\ Pkt(i).MH
                   /\ table_index' = 0
                   /\ CallLoadBody(EraseAllButLast)
                \/ /\ i # Terminator /\ ~Pkt(i).MH
                   /\ UNCHANGED <<phase, table_index, call, result, j2k_packets>>
      BY <1>7 DEF Dest
    <2>2. /\ next' \in 1 .. Terminator /\ losses' \in 0 .. MaxLoss
          /\ repeats' \in 0 .. MaxRepeat /\ damaged' \subseteq 1 .. Frames
      BY <2>1, PopIs
    <2>3. UNCHANGED <<pre_sequence_number, PID, gapVars, analysis_frame, parseVars>>
      BY <1>7 DEF Dest
    <2>4. table_index' \in Index /\ phase' \in {"finished", "body", phase}
      BY <2>1, Sizes DEF CallLoadBody
    <2>5. RTPTypeOK'
      <3>1. CASE CallLoadBody(EraseAllButLast)
        BY <2>2, <2>3, <3>1, EraseType DEF CallLoadBody, RTPTypeOK, Chunk, gapVars
      <3>2. CASE UNCHANGED <<call, result, j2k_packets>>
        BY <2>2, <2>3, <3>2 DEF RTPTypeOK, gapVars
      <3> QED  BY <2>1, <3>1, <3>2
    <2> QED  BY <2>3, <2>4, <2>5 DEF parseVars
  <1>8. CASE Finished
    BY <1>8 DEF Finished, RTPTypeOK, rtpVars, networkVars, receiverVars, gapVars, parseVars
  <1>9. CASE Abort
    BY <1>9 DEF Abort, RTPTypeOK, rtpVars, networkVars, receiverVars, gapVars, parseVars
  <1>10. CASE UNCHANGED vars
    <2>1. UNCHANGED rtpVars /\ UNCHANGED <<analysis_frame, table_index, phase, parseVars>>
      BY <1>10 DEF vars, loopVars
    <2>2. UNCHANGED parseVars
      BY <2>1
    <2>3. RTPTypeOK'
      BY <2>1 DEF rtpVars, networkVars, receiverVars, gapVars, RTPTypeOK
    <2> QED  BY <2>1, <2>2, <2>3 DEF parseVars
  <1> QED  BY <1>1, <1>2, <1>3, <1>4, <1>5, <1>6, <1>7, <1>8, <1>9, <1>10 DEF Next

(* Every variable keeps its type, whatever the stream and the network.      *)
THEOREM AnalysisTypeCorrect == Spec => []TypeOK
  BY InitType, StepType, PTL DEF Spec

--------------------------------------------------------------------------------
(* The loop's place in the table and the packets' place in the stream. *)

LEMMA EntryIs ==
    ASSUME NEW k \in Int
    PROVE  /\ Entry(k) \in Index /\ 0 <= Entry(k) /\ Entry(k) < TableSize
           /\ Entry(k) = 0 \/ \E j \in 1 .. k :
                 Layout[j].ORDB /\ table(Entry(k)) = Layout[j].PID % PIDModulus
           /\ \A e \in Index, j \in 1 .. k :
                 Layout[j].ORDB /\ table(e) = Layout[j].PID % PIDModulus => e <= Entry(k)
  <1> DEFINE Q(e) == \E j \in 1 .. k :
                Layout[j].ORDB /\ table(e) = Layout[j].PID % PIDModulus
             S == {0} \cup {e \in Index : Q(e)}
  <1> HIDE DEF Q
  <1>1. S \subseteq 0 .. TableSize - 1 /\ 0 \in S /\ TableSize - 1 \in Nat
    BY Sizes
  <1>2. PICK x \in S : \A y \in S : x >= y
    <2> HIDE DEF S
    <2> QED  BY <1>1, GreatestElement
  <1>3. Max(S) \in S /\ \A y \in S : Max(S) >= y
    <2> HIDE DEF S
    <2> QED  BY <1>2 DEF Max
  <1>4. Entry(k) = Max(S)
    BY DEF Entry, Q
  <1>5. Entry(k) \in S /\ \A y \in S : y <= Entry(k)
    BY <1>3, <1>4, <1>1
  <1>6. Entry(k) \in Index /\ 0 <= Entry(k) /\ Entry(k) < TableSize
    BY <1>1, <1>5, Sizes
  <1>7. Entry(k) = 0 \/ Q(Entry(k))
    BY <1>5
  <1>8. \A e \in Index : Q(e) => e <= Entry(k)
    BY <1>5
  <1> QED  BY <1>6, <1>7, <1>8 DEF Q

LEMMA EntryGrows ==
    ASSUME NEW j \in Int, NEW k \in Int, j <= k
    PROVE  Entry(j) <= Entry(k)
  <1>1. CASE Entry(j) = 0
    BY <1>1, EntryIs
  <1>2. CASE Entry(j) # 0
    <2>1. PICK h \in 1 .. j : Layout[h].ORDB /\ table(Entry(j)) = Layout[h].PID % PIDModulus
      BY <1>2, EntryIs
    <2>2. h \in 1 .. k /\ Entry(j) \in Index
      BY EntryIs
    <2> QED  BY <2>1, <2>2, EntryIs
  <1> QED  BY <1>1, <1>2

LEMMA WithinLater ==
    ASSUME NEW f \in Nat, NEW e \in Index, NEW i \in Int, NEW j \in Int, i <= j,
           Within(f, e, i)
    PROVE  Within(f, e, j)
  <1> DEFINE fi == FrameOf(i)
             fj == FrameOf(j)
             ki == PlaceOf(i)
             kj == PlaceOf(j)
  <1>1. fi \in Int /\ fj \in Int /\ ki \in 1 .. L /\ kj \in 1 .. L /\ L \in Nat
    BY PlaceIs, Constants
  <1>2. fi < fj \/ (fi = fj /\ ki <= kj)
    BY PlaceOrder
  <1>3. ki <= kj => Entry(ki) <= Entry(kj)
    BY <1>1, EntryGrows
  <1>4. Entry(ki) \in Nat /\ Entry(kj) \in Nat /\ e \in Nat
    BY <1>1, EntryIs, Sizes
  <1>5. \/ f < fi - 1
        \/ f = fi - 1 /\ (ki = L \/ e <= Entry(ki))
        \/ f = fi /\ ki = L /\ e = 0
    BY DEF Within
  <1> HIDE DEF fi, fj, ki, kj
  <1>6. \/ f < fj - 1
        \/ f = fj - 1 /\ (kj = L \/ e <= Entry(kj))
        \/ f = fj /\ kj = L /\ e = 0
    BY <1>1, <1>2, <1>3, <1>4, <1>5
  <1> QED  BY <1>6 DEF Within, fi, fj, ki, kj

(* The entry the PID of a resync point leads to is not beyond that point.   *)
LEMMA FirstBefore ==
    ASSUME NEW e \in Index, NEW d \in Index, e <= d
    PROVE  /\ FirstWithPID(e, table(d)) <= d
           /\ FirstWithPID(e, table(d)) \in Index
           /\ table(FirstWithPID(e, table(d))) = table(d)
  <1> DEFINE t == FirstWithPID(e, table(d))
  <1>1. e \in 0 .. TableSize /\ d \in Nat /\ e \in Nat /\ d < TableSize /\ TableSize \in Nat
    BY Sizes
  <1>2. /\ t \in 0 .. TableSize /\ \A u \in e .. t - 1 : table(u) # table(d)
        /\ t = TableSize \/ table(t) = table(d)
    BY <1>1, FirstInTable, FirstWithPIDIs
  <1> HIDE DEF t
  <1>3. t <= d
    BY <1>1, <1>2
  <1>4. t # TableSize
    BY <1>1, <1>2, <1>3
  <1> QED  BY <1>1, <1>2, <1>3, <1>4, Sizes DEF t

(* Parsing up to entry t takes the loop there, over the end of the table or *)
(* not.                                                                     *)
LEMMA ParseWithin ==
    ASSUME NEW f \in Nat, NEW e \in Index, NEW i \in Int, NEW pid, Within(f, e, i),
           \/ /\ PlaceOf(i) # L
              /\ pid = table(Entry(PlaceOf(i)))
           \/ PlaceOf(i) = L /\ pid = 0 /\ table(0) = 0
    PROVE  LET t == FirstWithPID(e, pid)
           IN  IF t = TableSize THEN Within(f + 1, 0, i) ELSE Within(f, t, i)
  <1> DEFINE t == FirstWithPID(e, pid)
             fi == FrameOf(i)
             k == PlaceOf(i)
             d == Entry(k)
  <1>1. fi \in Int /\ k \in 1 .. L /\ d \in Index /\ 0 <= d /\ d \in Nat /\ e \in Nat
    <2>1. fi \in Int /\ k \in 1 .. L
      BY PlaceIs
    <2> HIDE DEF fi, k
    <2>2. k \in Int
      BY <2>1
    <2>3. d \in Index /\ 0 <= d
      BY <2>2, EntryIs
    <2>4. d \in Nat /\ e \in Nat
      BY <2>3, Sizes
    <2> QED  BY <2>1, <2>3, <2>4
  <1>2. t \in 0 .. TableSize /\ TableSize \in Nat \ {0}
    BY FirstInTable, Sizes
  <1>3. \/ f < fi - 1
        \/ f = fi - 1 /\ (k = L \/ e <= d)
        \/ f = fi /\ k = L /\ e = 0
    BY DEF Within
  <1>4. k # L /\ e <= d => t <= d /\ t # TableSize
    BY <1>1, FirstBefore, Sizes
  <1>5. k = L /\ e = 0 => t = 0
    <2>1. SUFFICES ASSUME k = L, e = 0 PROVE t = 0
      OBVIOUS
    <2>2. pid = 0 /\ table(0) = 0 /\ 0 \in 0 .. TableSize
      BY <2>1, Sizes
    <2>3. \A u \in 0 .. t - 1 : table(u) # pid
      BY <2>1, <2>2, FirstWithPIDIs
    <2> HIDE DEF t
    <2> QED  BY <1>2, <2>2, <2>3
  <1> HIDE DEF t, fi, k, d
  <1>6. CASE t = TableSize
    <2>1. \/ f + 1 < fi - 1
          \/ f + 1 = fi - 1 /\ (k = L \/ 0 <= d)
          \/ f + 1 = fi /\ k = L /\ 0 = 0
      BY <1>1, <1>2, <1>3, <1>4, <1>5, <1>6
    <2> QED  BY <1>6, <2>1 DEF Within, t, fi, k, d
  <1>7. CASE t # TableSize
    <2>1. \/ f < fi - 1
          \/ f = fi - 1 /\ (k = L \/ t <= d)
          \/ f = fi /\ k = L /\ t = 0
      BY <1>1, <1>2, <1>3, <1>4, <1>5, <1>7
    <2> QED  BY <1>7, <2>1 DEF Within, t, fi, k, d
  <1> QED  BY <1>6, <1>7

(* The packet popped is the one before next, except the terminator.         *)
LEMMA PoppedIs ==
    ASSUME RTPTypeOK, NEW i \in 1 .. Terminator, BufferPop(i)
    PROVE  /\ next \in Int /\ next' \in Int /\ i \in Int
           /\ next - 1 <= next' - 1
           /\ i # Terminator => /\ i = next' - 1
                                /\ PlaceOf(next' - 1) = PlaceOf(i)
                                /\ FrameOf(next' - 1) = FrameOf(i)
  <1>1. next \in 1 .. Terminator /\ Terminator \in Nat
    BY Ends DEF RTPTypeOK
  <1>2. \/ i \in next .. Terminator /\ next' = (IF i = Terminator THEN i ELSE i + 1)
        \/ i = next - 1 /\ next' = next
    BY PopIs
  <1>3. next \in Int /\ next' \in Int /\ i \in Int /\ next - 1 <= next' - 1
    BY <1>1, <1>2
  <1>4. i # Terminator => i = next' - 1
    BY <1>1, <1>2
  <1> QED  BY <1>3, <1>4

LEMMA TypeIs ==
    ASSUME TypeOK
    PROVE  /\ RTPTypeOK
           /\ next \in Int /\ next - 1 \in Int /\ next - 1 \in 0 .. StreamLength
           /\ analysis_frame \in Nat /\ table_index \in Index
  <1>1. RTPTypeOK /\ analysis_frame \in Nat /\ table_index \in Index
    BY DEF TypeOK
  <1>2. next \in 1 .. Terminator
    BY <1>1 DEF RTPTypeOK
  <1>3. next \in Int /\ next - 1 \in Int /\ next - 1 \in 0 .. StreamLength
    BY <1>2, Ends
  <1> QED  BY <1>1, <1>3

LEMMA LoadCalls ==
    ASSUME RTPTypeOK, CallInv, NEW i \in 1 .. Terminator, Load(i),
           UNCHANGED loopVars
    PROVE  CallInv'
  <1>1. call # "none" /\ result = "none" /\ call' \in {call, "none", "discard"}
        /\ (call' = "none" \/ result' = "none")
    BY DEF CallInv, Load, LoadMainPacket, LoadBodyPacket, Discard, Finish, Return, PushBack,
           Stay, InSequence, OutOfSequence
  <1>2. phase \in {"main header", "body"} \/ phase \notin {"dest", "finished", "aborted", "main header"}
    BY <1>1 DEF CallInv
  <1>3. phase = "main header" =>
           /\ call' \in {"load_main_packet", "none"}
           /\ result' \in {"none", "MAIN_HEADER", "FINISH", "aborted"}
    <2>1. SUFFICES ASSUME phase = "main header"
                   PROVE  /\ call' \in {"load_main_packet", "none"}
                          /\ result' \in {"none", "MAIN_HEADER", "FINISH", "aborted"}
      OBVIOUS
    <2>2. call = "load_main_packet" /\ result = "none"
      BY <1>1, <2>1 DEF CallInv
    <2>3. LoadMainPacket(i)
      BY <2>2 DEF Load, LoadBodyPacket, Discard
    <2> QED  BY <2>2, <2>3 DEF LoadMainPacket, Finish, Return, PushBack, Stay
  <1>4. call' = "load_main_packet" => phase = "main header" /\ ~unnoticed' /\ ~headless'
    <2>1. SUFFICES ASSUME call' = "load_main_packet"
                   PROVE  phase = "main header" /\ ~unnoticed' /\ ~headless'
      OBVIOUS
    <2>2. call = "load_main_packet" /\ phase = "main header" /\ ~unnoticed /\ ~headless
      BY <1>1, <2>1 DEF CallInv
    <2>3. LoadMainPacket(i)
      BY <2>2 DEF Load, LoadBodyPacket, Discard
    <2>4. UNCHANGED unnoticed
      BY <2>3 DEF LoadMainPacket, Finish, gapVars
    <2>5. UNCHANGED headless
      <3>1. ASSUME PushBack(HeadAndTail(i), Return("MAIN_HEADER"))  PROVE FALSE
        BY <2>1, <3>1 DEF PushBack, Return
      <3> QED  BY <2>3, <3>1 DEF LoadMainPacket, Finish, gapVars
    <2> QED  BY <2>2, <2>4, <2>5
  <1> QED  BY <1>1, <1>2, <1>3, <1>4 DEF CallInv, loopVars

LEMMA CallStep == TypeOK /\ CallInv /\ [Next]_vars => CallInv'
  <1> SUFFICES ASSUME TypeOK, CallInv, [Next]_vars PROVE CallInv'
    OBVIOUS
  <1>1. CASE LoadPacket
    BY <1>1, LoadCalls DEF LoadPacket, TypeOK
  <1>2. CASE ReadMainHeader
    BY <1>2 DEF ReadMainHeader, CallLoadBody, CallInv
  <1>3. CASE Success
    BY <1>3 DEF Success, ParsedUpTo, CallLoadBody, Leaked, CallInv
  <1>4. CASE MainHeader
    BY <1>4 DEF MainHeader, CallLoadBody, CallInv
  <1>5. CASE Failure
    BY <1>5 DEF Failure, CallLoadBody, CallInv
  <1>6. CASE Catch
    BY <1>6 DEF Catch, Leaked, CallInv
  <1>7. CASE Dest
    BY <1>7 DEF Dest, CallLoadBody, CallInv
  <1>8. CASE Finished \/ Abort
    BY <1>8 DEF Finished, Abort, CallInv, rtpVars, receiverVars
  <1>9. CASE UNCHANGED vars
    BY <1>9 DEF vars, rtpVars, receiverVars, gapVars, loopVars, CallInv
  <1> QED  BY <1>1, <1>2, <1>3, <1>4, <1>5, <1>6, <1>7, <1>8, <1>9 DEF Next

LEMMA LoadResync ==
    ASSUME InTableOrder, RTPTypeOK, CallInv, NEW i \in 1 .. Terminator, Load(i)
    PROVE  ResyncInv'
  <1>1. result = "none"
    BY DEF CallInv, Load, LoadMainPacket, LoadBodyPacket, Discard
  <1>2. CASE result' \notin {"SUCCESS", "FAILURE"}
    BY <1>2 DEF ResyncInv
  <1>3. CASE result' \in {"SUCCESS", "FAILURE"}
    <2>1. i # Terminator /\ BufferPop(i)
      BY <1>1, <1>3 DEF Load, LoadMainPacket, LoadBodyPacket, Discard, Finish, Return
    <2>2. Pkt(i) = Layout[Place'] /\ Place' = PlaceOf(i) /\ Place' \in 1 .. L
      BY <2>1, PoppedIs, PlaceIs DEF Place, Pkt
    <2>3. /\ Layout[Place'].M <=> Place' = L
          /\ Layout[Place'].ORDB => Place' # L
      BY <2>2 DEF InTableOrder, L
    <2>4. \/ result' = "SUCCESS" /\ InSequence(i) /\ (Pkt(i).ORDB \/ Pkt(i).M)
          \/ result' = "FAILURE" /\ Pkt(i).ORDB /\ PID' = get_body_PID(i)
      BY <1>1, <1>3, <2>1 DEF Load, LoadMainPacket, LoadBodyPacket, Discard, Finish, Return,
                              PushBack, Stay, InSequence, OutOfSequence
    <2>5. CASE InSequence(i) /\ result' = "SUCCESS" /\ (Pkt(i).ORDB \/ Pkt(i).M)
      <3>1. PID' = NextPID(i)
        BY <2>5, <1>1 DEF InSequence, PushBack, Return
      <3> QED  BY <2>2, <2>3, <2>5, <3>1 DEF NextPID, ResyncInv, AtResyncPoint, get_body_PID
    <2>6. CASE result' = "FAILURE" /\ Pkt(i).ORDB /\ PID' = get_body_PID(i)
      BY <2>2, <2>6 DEF ResyncInv, AtResyncPoint, get_body_PID
    <2> QED  BY <2>4, <2>5, <2>6
  <1> QED  BY <1>2, <1>3

LEMMA ResyncStep == InTableOrder /\ TypeOK /\ CallInv /\ ResyncInv /\ [Next]_vars => ResyncInv'
  <1> SUFFICES ASSUME InTableOrder, TypeOK, CallInv, ResyncInv, [Next]_vars PROVE ResyncInv'
    OBVIOUS
  <1>1. CASE LoadPacket
    BY <1>1, LoadResync DEF LoadPacket, TypeOK
  <1>2. CASE result' = "none"
    BY <1>2 DEF ResyncInv
  <1>3. CASE UNCHANGED <<next, result, PID>>
    BY <1>3 DEF ResyncInv, AtResyncPoint, Place
  <1>4. CASE ReadMainHeader
    BY <1>2, <1>3, <1>4 DEF ReadMainHeader, CallLoadBody, networkVars
  <1>5. CASE Success
    BY <1>2, <1>3, <1>5 DEF Success, ParsedUpTo, CallLoadBody, Leaked, networkVars
  <1>6. CASE MainHeader \/ Failure \/ Catch
    BY <1>2, <1>6 DEF MainHeader, Failure, Catch, CallLoadBody, Leaked
  <1>7. CASE Dest
    BY <1>2, <1>7 DEF Dest, CallLoadBody, CallInv
  <1>8. CASE Finished \/ Abort \/ UNCHANGED vars
    BY <1>3, <1>8 DEF Finished, Abort, vars, rtpVars, networkVars, receiverVars
  <1> QED  BY <1>1, <1>4, <1>5, <1>6, <1>7, <1>8 DEF Next

LEMMA NotAheadStep ==
    InTableOrder /\ TypeOK /\ ResyncInv /\ NotAhead /\ [Next]_vars => NotAhead'
  <1> SUFFICES ASSUME InTableOrder, TypeOK, ResyncInv, NotAhead, [Next]_vars PROVE NotAhead'
    OBVIOUS
  <1> DEFINE f == analysis_frame
             e == table_index
             i == next - 1
  <1>0. /\ f \in Nat /\ e \in Index /\ next \in Int /\ i \in Int /\ 0 \in Index
        /\ Within(f, e, i)
    BY TypeIs, Sizes DEF NotAhead
  <1>1. ASSUME NEW g \in Nat, NEW h \in Index, Within(g, h, i), analysis_frame' = g,
               table_index' = h, next' \in Int, i <= next' - 1
        PROVE  NotAhead'
    <2> DEFINE j == next' - 1
    <2>0. next' \in Int => j \in Int
      OBVIOUS
    <2>1. j \in Int /\ i <= j /\ i \in Int
      BY <1>0, <1>1, <2>0
    <2> HIDE DEF j, i
    <2>2. Within(g, h, j)
      BY <1>1, <2>1, WithinLater
    <2> QED  BY <1>1, <2>2 DEF NotAhead, j
  <1>2. CASE UNCHANGED <<analysis_frame, table_index, next>>
    BY <1>2 DEF NotAhead
  <1>3. Within(f, 0, i)
    <2>1. e \in Nat /\ 0 <= e
      BY <1>0, Sizes
    <2>2. Entry(PlaceOf(i)) \in Nat
      <3>1. PlaceOf(i) \in Int
        <4>1. PlaceOf(i) \in 1 .. L
          BY <1>0, PlaceIs
        <4> QED  BY <4>1
      <3>2. Entry(PlaceOf(i)) \in 0 .. TableSize - 1
        BY <3>1, EntryIs, Sizes
      <3> QED  BY <3>2
    <2> QED  BY <1>0, <2>1, <2>2 DEF Within
  <1>4. CASE LoadPacket
    BY <1>0, <1>1, <1>4, PoppedIs DEF LoadPacket, Load, LoadMainPacket, LoadBodyPacket, Discard,
                                 loopVars, TypeOK
  <1>5. ASSUME result \in {"SUCCESS", "FAILURE"}
        PROVE  \/ /\ PlaceOf(i) # L
                  /\ PID = table(Entry(PlaceOf(i)))
               \/ /\ result # "FAILURE"
                  /\ PlaceOf(i) = L /\ PID = 0 /\ table(0) = 0
    <2>1. Place \in 1 .. L /\ Place = PlaceOf(i)
      BY <1>0, PlaceIs DEF Place
    <2>2. /\ table(0) = 0
          /\ Layout[Place].ORDB => Place # L /\ table(Entry(Place)) = Layout[Place].PID % PIDModulus
      BY <2>1 DEF InTableOrder, L
    <2> QED  BY <1>5, <2>1, <2>2 DEF ResyncInv, AtResyncPoint
  <1>6. CASE Success
    <2> DEFINE t == FirstWithPID(e, PID)
    <2>1. IF t = TableSize THEN Within(f + 1, 0, i) ELSE Within(f, t, i)
      BY <1>0, <1>5, <1>6, ParseWithin DEF Success
    <2>2. t \in 0 .. TableSize
      BY <1>0, FirstInTable, Sizes
    <2>3. next' = next /\ (ParsedUpTo(t) \/ UNCHANGED <<analysis_frame, table_index>>)
      BY <1>6 DEF Success, networkVars
    <2> HIDE DEF t
    <2>4. CASE ParsedUpTo(t)
      <3>1. CASE t = TableSize
        <4>1. analysis_frame' = f + 1 /\ table_index' = 0
          BY <2>4, <3>1 DEF ParsedUpTo
        <4> QED  BY <1>0, <1>1, <2>1, <2>3, <3>1, <4>1
      <3>2. CASE t # TableSize
        <4>1. analysis_frame' = f /\ table_index' = t /\ t \in Index
          BY <2>2, <2>4, <3>2, Sizes DEF ParsedUpTo
        <4> QED  BY <1>0, <1>1, <2>1, <2>3, <3>2, <4>1
      <3> QED  BY <3>1, <3>2
    <2> QED  BY <1>2, <2>3, <2>4
  <1>7. CASE Failure
    <2> DEFINE t == FirstWithPID(e, PID)
               u == FirstWithPID(0, PID)
    <2>1. PlaceOf(i) # L /\ PID = table(Entry(PlaceOf(i))) /\ next' = next
      BY <1>5, <1>7 DEF Failure, networkVars
    <2>2. IF t = TableSize THEN Within(f + 1, 0, i) ELSE Within(f, t, i)
      BY <1>0, <2>1, ParseWithin
    <2>3. t \in 0 .. TableSize /\ u <= Entry(PlaceOf(i)) /\ u \in Index
      <3>1. Entry(PlaceOf(i)) \in Index /\ 0 <= Entry(PlaceOf(i))
        BY <1>0, PlaceIs, EntryIs
      <3> QED  BY <1>0, <2>1, <3>1, FirstInTable, FirstBefore, Sizes
    <2>4. \/ t < TableSize /\ table_index' = t /\ analysis_frame' = f
          \/ ~(t < TableSize) /\ table_index' = u /\ analysis_frame' = f + 1
      BY <1>7 DEF Failure, SkipToPID, SkipFrom
    <2> HIDE DEF t, u
    <2>5. CASE t < TableSize /\ table_index' = t /\ analysis_frame' = f
      <3>1. t \in Index /\ t # TableSize
        BY <2>3, <2>5, Sizes
      <3> QED  BY <1>0, <1>1, <2>1, <2>2, <2>5, <3>1
    <2>6. CASE ~(t < TableSize) /\ table_index' = u /\ analysis_frame' = f + 1
      <3>1. t = TableSize
        BY <2>3, <2>6, Sizes
      <3>2. Within(f + 1, u, i)
        BY <2>1, <2>2, <2>3, <3>1 DEF Within
      <3>3. f + 1 \in Nat /\ i <= i /\ next' - 1 = i
        BY <1>0, <2>1
      <3> QED  BY <1>0, <1>1, <2>1, <2>3, <2>6, <3>2, <3>3
    <2> QED  BY <2>4, <2>5, <2>6
  <1>8. CASE Dest
    <2>1. PICK j \in 1 .. Terminator : BufferPop(j)
      BY <1>8 DEF Dest
    <2>2. next' \in Int /\ i <= next' - 1
      BY <2>1, PoppedIs DEF TypeOK
    <2>3. analysis_frame' = f /\ (table_index' = 0 \/ table_index' = e)
      BY <1>8 DEF Dest
    <2> QED  BY <1>0, <1>1, <1>3, <2>2, <2>3
  <1>9. CASE ReadMainHeader \/ MainHeader \/ Catch \/ Finished \/ Abort \/ UNCHANGED vars
    BY <1>2, <1>9 DEF ReadMainHeader, MainHeader, Catch, Finished, Abort, vars, rtpVars,
                      networkVars, loopVars
  <1> QED  BY <1>4, <1>6, <1>7, <1>8, <1>9 DEF Next

LEMMA InitOrder == Init => OrderInv
  <1> SUFFICES ASSUME Init PROVE OrderInv
    OBVIOUS
  <1>1. next - 1 = 0 /\ result = "none" /\ analysis_frame = 0 /\ table_index = 0
    <2>1. next = 1 /\ result = "none" /\ analysis_frame = 0 /\ table_index = 0
      BY DEF Init, RTPInit
    <2> QED  BY <2>1
  <1>2. Within(0, 0, 0)
    BY Ends DEF Within
  <1>3. CallInv /\ ResyncInv
    BY <1>1 DEF Init, RTPInit, CallInv, ResyncInv
  <1> QED  BY <1>1, <1>2, <1>3 DEF OrderInv, NotAhead

(* frame_update never runs ahead of the stream, whatever is lost, repeated, *)
(* thrown or wrongly taken for in sequence, as long as the precincts come   *)
(* in the table's order.                                                    *)
THEOREM FrameCountCorrect == InTableOrder => (Spec => []FrameCountNotAhead)
  <1> SUFFICES ASSUME InTableOrder PROVE Spec => []FrameCountNotAhead
    OBVIOUS
  <1>1. Init => TypeOK /\ OrderInv
    BY InitType, InitOrder
  <1>2. TypeOK /\ OrderInv /\ [Next]_vars => TypeOK' /\ OrderInv'
    BY StepType, CallStep, ResyncStep, NotAheadStep DEF OrderInv
  <1>3. TypeOK /\ OrderInv => FrameCountNotAhead
    <2> SUFFICES ASSUME TypeOK, OrderInv PROVE FrameCountNotAhead
      OBVIOUS
    <2>1. next - 1 \in Int /\ analysis_frame \in Nat
      BY TypeIs
    <2>2. FrameOf(next - 1) \in Int
      BY <2>1, PlaceIs
    <2> QED  BY <2>1, <2>2 DEF OrderInv, NotAhead, Within, FrameCountNotAhead
  <1> QED  BY <1>1, <1>2, <1>3, PTL DEF Spec

--------------------------------------------------------------------------------
(* The assertions on j2k_packets. *)

LEMMA LastParseIs ==
    ASSUME CutForReceiver, NEW k \in 1 .. L
    PROVE  /\ LastParse(k) \in 1 .. k
           /\ Layout[k].MH \/ Layout[k].ORDB => LastParse(k) = k
           /\ ~(Layout[k].MH \/ Layout[k].ORDB) => k > 1 /\ LastParse(k) = LastParse(k - 1)
  <1> DEFINE Q(j) == Layout[j].MH \/ Layout[j].ORDB
             S == {j \in 1 .. k : Q(j)}
             T == {j \in 1 .. k - 1 : Q(j)}
  <1>0. 1 \in 1 .. L
    BY Constants
  <1>1. Q(1)
    BY <1>0 DEF CutForReceiver, L
  <1> HIDE DEF Q
  <1>2. S \subseteq 0 .. k /\ 1 \in S
    BY <1>1
  <1>3. PICK x \in S : \A y \in S : x >= y
    <2> HIDE DEF S
    <2>1. k \in Nat /\ S # {}
      BY <1>2
    <2> QED  BY <1>2, <2>1, GreatestElement
  <1>4. Max(S) \in S /\ \A y \in S : Max(S) >= y
    <2> HIDE DEF S
    <2> QED  BY <1>3 DEF Max
  <1>5. LastParse(k) = Max(S) /\ LastParse(k - 1) = Max(T)
    BY DEF LastParse, Q
  <1>6. Q(k) => LastParse(k) = k
    BY <1>4, <1>5
  <1>7. ~Q(k) => k > 1 /\ S = T
    BY <1>1
  <1> QED  BY <1>4, <1>5, <1>6, <1>7 DEF Q

LEMMA CutIs ==
    ASSUME CutForReceiver
    PROVE  /\ InTableOrder /\ table(0) = 0 /\ L > 2 /\ L \in Nat
           /\ \A d, e \in Index : table(d) = table(e) => d = e
           /\ \A k \in 1 .. L : /\ Layout[k].MH <=> k = 1
                                /\ Layout[k].M <=> k = L
                                /\ Layout[k].ORDB => k \notin {1, L}
                                /\ Layout[k].ORDB => table(Entry(k)) = Layout[k].PID % PIDModulus
           /\ Layout[2].ORDB /\ Entry(1) = 0 /\ Entry(2) = 0
           /\ \A k \in 2 .. L : ~Layout[k].ORDB => Entry(k) = Entry(k - 1)
           /\ Entry(L - 1) > 0
           /\ \A k \in 2 .. L :
                 k - LastParse(k - 1) + (IF Layout[k].ORDB THEN 2 ELSE 1) <= Capacity
  <1>1. InTableOrder /\ table(0) = 0 /\ L > 2 /\ L \in Nat
    BY Constants DEF CutForReceiver, InTableOrder, L
  <1>2. \A k \in 1 .. L : /\ Layout[k].MH <=> k = 1
                          /\ Layout[k].M <=> k = L
                          /\ Layout[k].ORDB => k \notin {1, L}
                          /\ Layout[k].ORDB => table(Entry(k)) = Layout[k].PID % PIDModulus
    BY DEF CutForReceiver, InTableOrder, L
  <1>3. Entry(1) = 0
    <2>1. ~Layout[1].ORDB
      BY <1>1, <1>2
    <2> QED  BY <2>1, EntryIs
  <1>4. ASSUME NEW k \in 2 .. L, ~Layout[k].ORDB
        PROVE  Entry(k) = Entry(k - 1)
    <2> DEFINE Q(e, j) == Layout[j].ORDB /\ table(e) = Layout[j].PID % PIDModulus
    <2>1. \A e : ~Q(e, k)
      BY <1>4
    <2> HIDE DEF Q
    <2>2. \A e : (\E j \in 1 .. k : Q(e, j)) <=> (\E j \in 1 .. k - 1 : Q(e, j))
      BY <2>1
    <2> QED  BY <2>2 DEF Entry, Q
  <1>5. Entry(L - 1) > 0
    <2>1. L \in 2 .. L /\ ~Layout[L].ORDB /\ Entry(L) > 0
      BY <1>1, <1>2 DEF CutForReceiver, L
    <2> QED  BY <1>4, <2>1
  <1> QED  BY <1>1, <1>2, <1>3, <1>4, <1>5 DEF CutForReceiver, L

(* A resync point leads to its own precinct, the end of a frame to the end  *)
(* of the table.                                                            *)
LEMMA ToOwnEntry ==
    ASSUME CutForReceiver, NEW e \in Index, NEW k \in 1 .. L, k # L,
           FirstWithPID(e, table(Entry(k))) # TableSize
    PROVE  FirstWithPID(e, table(Entry(k))) = Entry(k)
  <1> DEFINE d == Entry(k)
             t == FirstWithPID(e, table(d))
  <1>1. d \in Index
    BY EntryIs
  <1>2. t \in 0 .. TableSize /\ (t = TableSize \/ table(t) = table(d))
    BY FirstInTable, FirstWithPIDIs, Sizes
  <1>3. t \in Index /\ table(t) = table(d)
    BY <1>2, Sizes
  <1> HIDE DEF t, d
  <1>4. t = d
    BY <1>1, <1>3, CutIs
  <1> QED  BY <1>4 DEF t, d

LEMMA ToTableEnd ==
    ASSUME CutForReceiver, NEW e \in Index, e > 0
    PROVE  FirstWithPID(e, 0) = TableSize
  <1> DEFINE t == FirstWithPID(e, 0)
  <1>1. e \in 0 .. TableSize /\ e \in Nat
    BY Sizes
  <1>2. t \in 0 .. TableSize /\ e <= t /\ (t = TableSize \/ table(t) = 0)
    BY <1>1, FirstInTable, FirstWithPIDIs
  <1> HIDE DEF t
  <1>3. SUFFICES ASSUME t # TableSize PROVE FALSE
    BY DEF t
  <1>4. t \in Index /\ 0 \in Index /\ table(t) = table(0)
    BY <1>2, <1>3, CutIs, Sizes
  <1>5. t = 0
    BY <1>4, CutIs
  <1> QED  BY <1>1, <1>2, <1>5

LEMMA EraseLeavesOne == RTPTypeOK => Len(EraseAllButLast) \in {0, 1}
  BY DEF EraseAllButLast

(* A packet that is in sequence, and really is: what load_body_packet does  *)
(* with it at each place of the frame.                                      *)
LEMMA InSequenceIs ==
    ASSUME CutForReceiver, RTPTypeOK, AlignedInv, phase = "body",
           NEW i \in 1 .. Terminator, LoadBodyPacket(i), i # Terminator,
           InSequence(i), ~unnoticed'
    PROVE  /\ i = next /\ i = next' - 1 /\ i \in Int /\ damaged' = damaged
           /\ Place \in 1 .. L /\ Place' \in 1 .. L /\ Loading
           /\ Pkt(i) = Layout[Place']
           /\ \/ /\ Place = L /\ Place' = 1 /\ FrameNow' = FrameNow + 1
                 /\ call' = "none" /\ result' = "MAIN_HEADER"
                 /\ j2k_packets' = <<parse_rtp_header(i, "MAIN_PACKET")>>
              \/ /\ Place # L /\ Place' = Place + 1 /\ FrameNow' = FrameNow
                 /\ Layout[Place'].ORDB /\ Place' # L
                 /\ call' = "none" /\ result' = "SUCCESS"
                 /\ j2k_packets' = j2k_packets \o HeadAndTail(i)
              \/ /\ Place # L /\ Place' = Place + 1 /\ FrameNow' = FrameNow
                 /\ ~Layout[Place'].ORDB
                 /\ IF Place' = L THEN call' = "none" /\ result' = "SUCCESS"
                    ELSE UNCHANGED <<call, result>>
                 /\ j2k_packets' = j2k_packets \o <<parse_rtp_header(i, "BODY_NO_RESYNC")>>
  <1>1. i = next
    BY DEF InSequence
  <1>2. i # Terminator /\ BufferPop(i) /\ call = "load_body_packet"
    BY DEF LoadBodyPacket
  <1>3. /\ i = next' - 1 /\ i \in Int /\ next - 1 \in Int /\ i = (next - 1) + 1
        /\ PlaceOf(next' - 1) = PlaceOf(i) /\ FrameOf(next' - 1) = FrameOf(i)
    BY <1>1, <1>2, PoppedIs
  <1>4. /\ Place \in 1 .. L /\ Place' \in 1 .. L /\ FrameNow \in Int
        /\ Place' = PlaceOf(i) /\ FrameNow' = FrameOf(i)
    BY <1>3, PlaceIs DEF Place, FrameNow
  <1>5. IF Place = L THEN Place' = 1 /\ FrameNow' = FrameNow + 1
        ELSE Place' = Place + 1 /\ FrameNow' = FrameNow
    BY <1>3, <1>4, NextPlace DEF Place, FrameNow
  <1>6. damaged' = damaged
    <2>1. {FrameOf(k) : k \in next .. i - 1} = {}
      <3>1. next .. i - 1 = {}
        BY <1>1, <1>3
      <3> QED  BY <3>1
    <2> QED  BY <1>2, <2>1, PopIs
  <1>7. Loading
    BY <1>2 DEF AlignedInv
  <1>8. Pkt(i) = Layout[Place']
    BY <1>4 DEF Pkt
  <1>9. /\ Layout[Place'].MH <=> Place' = 1
        /\ Layout[Place'].M <=> Place' = L
        /\ Layout[Place'].ORDB => Place' # L
        /\ L \in Nat /\ L > 2 /\ Capacity \in Nat \ {0}
    BY <1>4, CutIs, Sizes
  <1> DEFINE n == Len(j2k_packets)
  <1>10. n \in Nat /\ Len(HeadAndTail(i)) = 2
    BY DEF RTPTypeOK, HeadAndTail
  <1> HIDE DEF n
  <1>11. CASE Place = L
    <2>1. Place' = 1 /\ j2k_packets = <<>> /\ Pkt(i).MH
      BY <1>5, <1>7, <1>8, <1>9, <1>11 DEF Loading
    <2>2. PushBack(<<parse_rtp_header(i, "MAIN_PACKET")>>, Return("MAIN_HEADER"))
      BY <2>1 DEF InSequence
    <2>3. ~(Len(<<>>) + Len(<<parse_rtp_header(i, "MAIN_PACKET")>>) > Capacity)
      BY <1>9
    <2>4. Return("MAIN_HEADER") /\ j2k_packets' = <<>> \o <<parse_rtp_header(i, "MAIN_PACKET")>>
      BY <2>1, <2>2, <2>3 DEF PushBack
    <2>5. j2k_packets' = <<parse_rtp_header(i, "MAIN_PACKET")>>
      BY <2>4
    <2> QED  BY <1>1, <1>3, <1>4, <1>5, <1>6, <1>7, <1>8, <1>11, <2>1, <2>4, <2>5 DEF Return
  <1>12. CASE Place # L
    <2> DEFINE k == Place'
    <2>1. /\ k = Place + 1 /\ FrameNow' = FrameNow /\ k \in 2 .. L /\ k - 1 = Place /\ ~Pkt(i).MH
      BY <1>4, <1>5, <1>8, <1>9, <1>12
    <2>2. n <= 1 + Place - LastParse(Place)
      BY <1>7, <1>12 DEF Loading, n
    <2>3. k - LastParse(k - 1) + (IF Layout[k].ORDB THEN 2 ELSE 1) <= Capacity
      <3> HIDE DEF k
      <3> QED  BY <2>1, CutIs
    <2>4. LastParse(Place) \in Int
      BY <1>4, LastParseIs
    <2>5. n + (IF Layout[k].ORDB THEN 2 ELSE 1) <= Capacity
      BY <1>4, <1>9, <1>10, <2>1, <2>2, <2>3, <2>4
    <2>6. CASE Pkt(i).ORDB
      <3>1. PushBack(HeadAndTail(i), Return("SUCCESS"))
        BY <2>1, <2>6 DEF InSequence
      <3>2. ~(Len(j2k_packets) + Len(HeadAndTail(i)) > Capacity)
        BY <1>8, <1>9, <1>10, <2>5, <2>6 DEF n
      <3>3. Return("SUCCESS") /\ j2k_packets' = j2k_packets \o HeadAndTail(i)
        BY <3>1, <3>2 DEF PushBack
      <3> QED  BY <1>1, <1>3, <1>4, <1>6, <1>7, <1>8, <1>9, <1>12, <2>1, <2>6, <3>3 DEF Return
    <2>7. CASE ~Pkt(i).ORDB
      <3> DEFINE plain == <<parse_rtp_header(i, "BODY_NO_RESYNC")>>
      <3>1. PushBack(plain, IF Pkt(i).M THEN Return("SUCCESS") ELSE Stay)
        BY <2>1, <2>7 DEF InSequence
      <3>2. ~(Len(j2k_packets) + Len(plain) > Capacity)
        <4>1. Len(plain) = 1
          OBVIOUS
        <4> QED  BY <1>8, <1>9, <1>10, <2>5, <2>7, <4>1 DEF n
      <3>3. /\ IF Pkt(i).M THEN Return("SUCCESS") ELSE Stay
            /\ j2k_packets' = j2k_packets \o plain
        BY <3>1, <3>2 DEF PushBack
      <3> QED  BY <1>1, <1>3, <1>4, <1>6, <1>7, <1>8, <1>9, <1>12, <2>1, <2>7, <3>3 DEF Return, Stay
    <2> QED  BY <2>6, <2>7
  <1> QED  BY <1>11, <1>12

LEMMA SuccessIs ==
    ASSUME CutForReceiver, TypeOK, ResyncInv, AlignedInv, phase = "body", result = "SUCCESS"
    PROVE  LET t == FirstWithPID(table_index, PID)
           IN  /\ Place \in 2 .. L /\ table_index = Entry(Place - 1)
               /\ IF Place = L THEN t = TableSize
                  ELSE Layout[Place].ORDB /\ t = Entry(Place) /\ t # TableSize
  <1> DEFINE t == FirstWithPID(table_index, PID)
  <1>1. Place \in 1 .. L /\ Place # 1 /\ table_index = Entry(Place - 1) /\ table_index \in Index
    BY TypeIs, PlaceIs DEF AlignedInv, Place
  <1>2. CASE Place = L
    <2>1. PID = 0
      BY <1>1, <1>2, CutIs DEF ResyncInv, AtResyncPoint
    <2>2. table_index > 0
      BY <1>1, <1>2, CutIs
    <2>3. t = TableSize
      BY <1>1, <2>1, <2>2, ToTableEnd
    <2> QED  BY <1>1, <1>2, <2>3
  <1>3. CASE Place # L
    <2>1. Layout[Place].ORDB /\ PID = table(Entry(Place))
      BY <1>1, <1>3, CutIs DEF ResyncInv, AtResyncPoint
    <2>2. /\ Entry(Place) \in Index /\ table_index <= Entry(Place)
          /\ Place - 1 \in Int /\ Place \in Int /\ Place - 1 <= Place
      BY <1>1, EntryIs, EntryGrows
    <2>3. t # TableSize
      BY <1>1, <2>1, <2>2, FirstBefore, Sizes
    <2>4. t = Entry(Place)
      BY <1>1, <1>3, <2>1, <2>3, ToOwnEntry
    <2> QED  BY <1>1, <1>3, <2>1, <2>3, <2>4
  <1> QED  BY <1>2, <1>3

LEMMA FailureIs ==
    ASSUME CutForReceiver, TypeOK, ResyncInv, AlignedInv, phase = "body", result = "FAILURE",
           SkipToPID
    PROVE  /\ Place \in 2 .. L - 1 /\ Layout[Place].ORDB
           /\ table_index' = Entry(Place)
  <1>1. Place \in 1 .. L /\ Place \notin {1, L} /\ table_index \in Index /\ 0 \in Index
    BY TypeIs, PlaceIs, Sizes DEF AlignedInv, Place
  <1>2. Layout[Place].ORDB /\ PID = table(Entry(Place))
    BY <1>1, CutIs DEF ResyncInv, AtResyncPoint
  <1> DEFINE a == FirstWithPID(table_index, PID)
             b == FirstWithPID(0, PID)
  <1>3. \/ a < TableSize /\ table_index' = a
        \/ b < TableSize /\ table_index' = b
    BY DEF SkipToPID, SkipFrom
  <1>4. (a # TableSize => a = Entry(Place)) /\ (b # TableSize => b = Entry(Place))
    BY <1>1, <1>2, ToOwnEntry
  <1> HIDE DEF a, b
  <1>5. table_index' = Entry(Place)
    BY <1>3, <1>4, Sizes
  <1> QED  BY <1>1, <1>2, <1>5, Constants

LEMMA LoadMainAligned ==
    ASSUME CutForReceiver, TypeOK, CallInv, NEW i \in 1 .. Terminator, LoadMainPacket(i),
           UNCHANGED loopVars, ~headless'
    PROVE  AlignedInv'
  <1>1. phase = "main header" /\ phase' = phase /\ result = "none"
    BY DEF CallInv, LoadMainPacket, loopVars
  <1>2. SUFFICES ASSUME result' = "MAIN_HEADER" PROVE Place' = 2
    BY <1>1 DEF AlignedInv
  <1>3. i # Terminator /\ BufferPop(i) /\ i > 1 /\ Pkt(i - 1).MH
    BY <1>1, <1>2 DEF LoadMainPacket, Finish, Return, PushBack, Stay
  <1>4. i \in Int /\ Place' = PlaceOf(i)
    BY <1>3, PoppedIs, TypeIs DEF Place
  <1>5. PlaceOf(i - 1) = 1
    <2>1. PlaceOf(i - 1) \in 1 .. L /\ Pkt(i - 1) = Layout[PlaceOf(i - 1)]
      BY <1>4, PlaceIs DEF Pkt
    <2> QED  BY <1>3, <2>1, CutIs
  <1>6. PlaceOf((i - 1) + 1) = 2
    BY <1>4, <1>5, NextPlace, CutIs
  <1> QED  BY <1>4, <1>6

LEMMA LoadBodyAligned ==
    ASSUME CutForReceiver, TypeOK, CallInv, AlignedInv, NEW i \in 1 .. Terminator,
           LoadBodyPacket(i), UNCHANGED loopVars, ~unnoticed'
    PROVE  AlignedInv'
  <1>0. CASE phase # "body"
    BY <1>0 DEF CallInv, LoadBodyPacket, AlignedInv, loopVars
  <1> SUFFICES ASSUME phase = "body" PROVE AlignedInv'
    BY <1>0
  <1>1. RTPTypeOK /\ phase' = "body" /\ call = "load_body_packet" /\ result = "none"
        /\ table_index' = table_index
    BY TypeIs DEF CallInv, LoadBodyPacket, loopVars
  <1>2. CASE Finish(i)
    BY <1>1, <1>2 DEF Finish, Return, AlignedInv
  <1>3. CASE OutOfSequence(i)
    BY <1>1, <1>3 DEF OutOfSequence, Return, AlignedInv
  <1>4. CASE i # Terminator /\ InSequence(i)
    <2>0. /\ Place \in 1 .. L /\ Place' \in 1 .. L /\ Loading /\ L > 2 /\ L \in Nat
          /\ j2k_packets \in Seq(Seq(Chunk))
      BY <1>1, <1>4, InSequenceIs, CutIs DEF RTPTypeOK, Chunk
    <2>1. CASE /\ Place = L /\ Place' = 1
               /\ call' = "none" /\ result' = "MAIN_HEADER"
      <3>1. table_index = 0
        BY <2>0, <2>1 DEF Loading, Here
      <3> QED  BY <1>1, <2>1, <3>1 DEF AlignedInv
    <2>2. CASE /\ Place # L /\ Place' = Place + 1 /\ call' = "none" /\ result' = "SUCCESS"
      <3>1. table_index = Entry(Place) /\ Place' # 1 /\ Place' - 1 = Place
        BY <2>0, <2>2 DEF Loading, Here
      <3> QED  BY <1>1, <2>2, <3>1 DEF AlignedInv
    <2>3. CASE /\ Place # L /\ Place' = Place + 1 /\ Place' # L /\ ~Layout[Place'].ORDB
               /\ UNCHANGED <<call, result>>
               /\ j2k_packets' = j2k_packets \o <<parse_rtp_header(i, "BODY_NO_RESYNC")>>
      <3> DEFINE k == Place'
                 seg == <<parse_rtp_header(i, "BODY_NO_RESYNC")>>
                 n == Len(j2k_packets)
      <3>1. k \in 2 .. L /\ k \in 1 .. L /\ k - 1 = Place /\ ~Layout[k].ORDB /\ ~Layout[k].MH
        BY <2>0, <2>3, CutIs
      <3>2. Entry(k) = Entry(Place) /\ LastParse(k) = LastParse(Place) /\ LastParse(Place) \in Int
        <4> HIDE DEF k
        <4>1. Entry(k) = Entry(k - 1)
          BY <3>1, CutIs
        <4>2. LastParse(k) = LastParse(k - 1)
          BY <3>1, LastParseIs
        <4>3. LastParse(Place) \in Int
          BY <2>0, LastParseIs
        <4> QED  BY <3>1, <4>1, <4>2, <4>3
      <3>3. Len(j2k_packets') = n + 1 /\ n \in Nat
        <4>1. Len(seg) = 1
          OBVIOUS
        <4> HIDE DEF seg
        <4> QED  BY <2>0, <2>3, <4>1 DEF seg
      <3>4. table_index = Entry(Place) /\ n <= 1 + Place - LastParse(Place)
        BY <2>0, <2>3 DEF Loading, Here
      <3> HIDE DEF n
      <3>5. table_index' = Here(k) /\ Len(j2k_packets') <= 1 + k - LastParse(k)
        BY <1>1, <2>0, <2>3, <3>1, <3>2, <3>3, <3>4 DEF Here
      <3>6. Loading'
        BY <2>3, <3>5 DEF Loading, Here
      <3> QED  BY <1>1, <2>3, <3>6 DEF AlignedInv
    <2> QED  BY <1>1, <1>4, <2>1, <2>2, <2>3, InSequenceIs
  <1> QED  BY <1>2, <1>3, <1>4 DEF LoadBodyPacket

LEMMA DiscardAligned ==
    ASSUME CutForReceiver, TypeOK, CallInv, AlignedInv, NEW i \in 1 .. Terminator,
           Discard(i), UNCHANGED loopVars
    PROVE  AlignedInv'
  <1>0. CASE phase # "body"
    BY <1>0 DEF CallInv, Discard, AlignedInv, loopVars
  <1> SUFFICES ASSUME phase = "body" PROVE AlignedInv'
    BY <1>0
  <1>1. phase' = "body" /\ call = "discard" /\ result = "none" /\ j2k_packets = <<>>
    BY DEF CallInv, Discard, AlignedInv, loopVars
  <1>2. CASE Finish(i)
    BY <1>1, <1>2 DEF Finish, Return, AlignedInv
  <1>3. CASE i # Terminator /\ ~(~Pkt(i).MH /\ Pkt(i).ORDB)
    BY <1>1, <1>3 DEF Discard, Finish, Stay, AlignedInv
  <1>4. CASE i # Terminator /\ ~Pkt(i).MH /\ Pkt(i).ORDB
    <2> DEFINE tail == <<parse_rtp_header(i, "BODY_RESYNC_TAIL")>>
    <2>1. PushBack(tail, Return("FAILURE")) /\ BufferPop(i)
      BY <1>4 DEF Discard, Finish
    <2>2. ~(Len(<<>>) + Len(tail) > Capacity)
      BY Sizes
    <2>3. call' = "none" /\ result' = "FAILURE"
      BY <1>1, <2>1, <2>2 DEF PushBack, Return
    <2>4. Place' \in 1 .. L /\ Pkt(i) = Layout[Place']
      BY <1>4, <2>1, PoppedIs, TypeIs, PlaceIs DEF Place, Pkt
    <2>5. Place' \notin {1, L}
      BY <1>4, <2>4, CutIs
    <2> QED  BY <1>1, <2>3, <2>5 DEF AlignedInv
  <1> QED  BY <1>2, <1>3, <1>4 DEF Discard, Finish

(* What load_body_packet is called with, wherever it is called.             *)
LEMMA CallAligned ==
    ASSUME CutForReceiver, NEW k \in 1 .. L - 1, Place' = k, table_index' = Entry(k),
           phase' = "body", call' = "load_body_packet", result' = "none",
           Len(j2k_packets') \in {0, 1}
    PROVE  AlignedInv'
  <1>1. k \in 1 .. L /\ k # L /\ L \in Nat
    BY CutIs
  <1>2. LastParse(k) \in 1 .. k
    BY <1>1, LastParseIs
  <1>3. Len(j2k_packets') <= 1 + k - LastParse(k)
    <2> DEFINE p == LastParse(k)
               n == Len(j2k_packets')
    <2>1. p \in 1 .. k /\ n \in {0, 1}
      BY <1>2
    <2> HIDE DEF p, n
    <2>2. n <= 1 + k - p
      BY <1>1, <2>1
    <2> QED  BY <2>2 DEF p, n
  <1>4. Loading'
    BY <1>1, <1>3 DEF Loading, Here
  <1> QED  BY <1>4 DEF AlignedInv

Aligned == ~unnoticed /\ ~headless => AlignedInv

LEMMA AlignedStep ==
    CutForReceiver /\ TypeOK /\ CallInv /\ ResyncInv /\ Aligned /\ [Next]_vars => Aligned'
  <1> SUFFICES ASSUME CutForReceiver, TypeOK, CallInv, ResyncInv, Aligned, [Next]_vars,
                      ~unnoticed', ~headless'
               PROVE  AlignedInv'
    BY DEF Aligned
  <1>0. RTPTypeOK /\ Place \in 1 .. L /\ 0 \in Index
        /\ Len(EraseAllButLast) \in {0, 1} /\ L > 2 /\ L \in Nat
    BY TypeIs, PlaceIs, EraseLeavesOne, CutIs, Sizes DEF Place
  <1>1. CASE LoadPacket
    <2>1. PICK i \in 1 .. Terminator : Load(i)
      BY <1>1 DEF LoadPacket
    <2>2. UNCHANGED loopVars
      BY <1>1 DEF LoadPacket
    <2>3. CASE LoadMainPacket(i)
      BY <2>2, <2>3, LoadMainAligned
    <2>4. CASE LoadBodyPacket(i)
      <3>1. ~unnoticed /\ ~headless
        BY <2>4 DEF LoadBodyPacket, Finish, InSequence, OutOfSequence, gapVars
      <3> QED  BY <2>2, <2>4, <3>1, LoadBodyAligned DEF Aligned
    <2>5. CASE Discard(i)
      <3>1. ~unnoticed /\ ~headless
        BY <2>5 DEF Discard, Finish, gapVars
      <3> QED  BY <2>2, <2>5, <3>1, DiscardAligned DEF Aligned
    <2> QED  BY <2>1, <2>3, <2>4, <2>5 DEF Load
  <1>2. CASE ~LoadPacket
    <2>0. AlignedInv
      <3>1. UNCHANGED gapVars
        BY <1>2 DEF Next, ReadMainHeader, Success, MainHeader, Failure, Catch, Dest, Finished,
                    Abort, vars, rtpVars
      <3> QED  BY <3>1 DEF Aligned, gapVars
    <2>1. CASE phase' \in {"dest", "finished", "aborted"}
      BY <2>1 DEF AlignedInv
    <2>2. CASE ReadMainHeader
      <3>1. SUFFICES ASSUME CallLoadBody(EraseAllButLast) PROVE AlignedInv'
        BY <2>1, <2>2 DEF ReadMainHeader
      <3>2. Place' = 2 /\ table_index' = 0 /\ UNCHANGED next
        BY <2>0, <2>2 DEF ReadMainHeader, AlignedInv, CallInv, Place, networkVars
      <3>3. 2 \in 1 .. L - 1 /\ Entry(2) = 0
        BY CutIs
      <3> QED  BY <1>0, <3>1, <3>2, <3>3, CallAligned DEF CallLoadBody
    <2>3. CASE Success
      <3> DEFINE t == FirstWithPID(table_index, PID)
      <3>1. phase = "body" /\ result = "SUCCESS" /\ Place' = Place
        BY <2>3 DEF Success, networkVars, Place
      <3>2. /\ Place \in 2 .. L /\ table_index = Entry(Place - 1)
            /\ IF Place = L THEN t = TableSize
               ELSE Layout[Place].ORDB /\ t = Entry(Place) /\ t # TableSize
        BY <2>0, <3>1, SuccessIs
      <3>3. phase' \in {"dest", "aborted"} \/ ParsedUpTo(t)
        BY <2>3 DEF Success, Leaked
      <3> HIDE DEF t
      <3>4. CASE ParsedUpTo(t) /\ Place = L
        <4>1. /\ phase' = "body" /\ call' = "load_body_packet" /\ result' = "none"
              /\ table_index' = 0 /\ j2k_packets' = <<>>
          BY <3>2, <3>4 DEF ParsedUpTo, CallLoadBody
        <4> QED  BY <3>1, <3>4, <4>1 DEF AlignedInv, Loading, Here
      <3>5. CASE ParsedUpTo(t) /\ Place # L
        <4>1. /\ phase' = "body" /\ call' = "load_body_packet" /\ result' = "none"
              /\ table_index' = Entry(Place) /\ j2k_packets' = EraseAllButLast
          BY <3>2, <3>5 DEF ParsedUpTo, CallLoadBody
        <4>2. Place \in 1 .. L - 1
          BY <1>0, <3>5
        <4> QED  BY <1>0, <3>1, <4>1, <4>2, CallAligned
      <3> QED  BY <2>1, <3>3, <3>4, <3>5
    <2>4. CASE MainHeader
      <3>1. /\ phase' = "body" /\ call' = "load_body_packet" /\ result' = "none"
            /\ j2k_packets' = EraseAllButLast /\ Place' = 1 /\ table_index' = 0
        BY <2>0, <2>4 DEF MainHeader, CallLoadBody, AlignedInv, networkVars, Place
      <3>2. 1 \in 1 .. L - 1 /\ Entry(1) = 0
        BY CutIs
      <3> QED  BY <1>0, <3>1, <3>2, CallAligned
    <2>5. CASE Failure
      <3>1. Place \in 2 .. L - 1 /\ table_index' = Entry(Place)
        BY <2>0, <2>5, FailureIs DEF Failure
      <3>2. /\ phase' = "body" /\ call' = "load_body_packet" /\ result' = "none"
            /\ j2k_packets' = EraseAllButLast /\ Place' = Place
        BY <2>5 DEF Failure, CallLoadBody, networkVars, Place
      <3>3. Place \in 1 .. L - 1
        BY <3>1
      <3> QED  BY <1>0, <3>1, <3>2, <3>3, CallAligned
    <2>6. CASE Catch
      BY <2>1, <2>6 DEF Catch, Leaked
    <2>7. CASE Dest
      <3>1. PICK i \in 1 .. Terminator :
               /\ BufferPop(i)
               /\ \/ i = Terminator /\ phase' = "finished"
                  \/ /\ i # Terminator /\ Pkt(i).MH
                     /\ table_index' = 0
                     /\ CallLoadBody(EraseAllButLast)
                  \/ UNCHANGED phase
        BY <2>7 DEF Dest
      <3>2. CASE i # Terminator /\ Pkt(i).MH /\ table_index' = 0 /\ CallLoadBody(EraseAllButLast)
        <4>1. Place' = PlaceOf(i) /\ Place' \in 1 .. L /\ Pkt(i) = Layout[Place']
          BY <1>0, <3>1, <3>2, PoppedIs, PlaceIs DEF Place, Pkt
        <4>2. Place' = 1 /\ 1 \in 1 .. L - 1 /\ Entry(1) = 0
          BY <3>2, <4>1, CutIs
        <4> QED  BY <1>0, <3>2, <4>2, CallAligned DEF CallLoadBody
      <3> QED  BY <2>1, <2>7, <3>1, <3>2 DEF Dest
    <2>8. CASE Finished \/ Abort
      BY <2>1, <2>8 DEF Finished, Abort
    <2>9. CASE UNCHANGED vars
      BY <2>0, <2>9 DEF vars, rtpVars, networkVars, receiverVars, loopVars, AlignedInv, Loading,
                        Place
    <2> QED  BY <1>2, <2>2, <2>3, <2>4, <2>5, <2>6, <2>7, <2>8, <2>9 DEF Next
  <1> QED  BY <1>1, <1>2

--------------------------------------------------------------------------------
(* The parser is handed what it expects. *)

LEMMA StartIs ==
    ASSUME CutForReceiver, CarriesCodestream
    PROVE  /\ \A k \in 2 .. L + 1 : Start[k] \in Nat
           /\ Start[L + 1] = FirstChunk[TableSize] + 1
           /\ \A k \in 2 .. L :
                 /\ Start[k] <= Start[k + 1]
                 /\ Layout[k].head \o Layout[k].tail
                       = [c \in 1 .. Start[k + 1] - Start[k] |-> Start[k] + c - 1]
                 /\ Layout[k].ORDB => FirstChunk[Entry(k)] = Start[k] + Len(Layout[k].head)
  <1>1. Start \in Starts /\ CarriedFrom(Start)
    BY DEF Start, CarriesCodestream
  <1>2. FirstChunk[TableSize] \in Nat
    BY Constants
  <1>3. \A k \in 2 .. L + 1 : Start[k] \in Nat
    BY <1>1, <1>2 DEF Starts, L
  <1> QED  BY <1>1, <1>3 DEF CarriedFrom, L

LEMMA ChunksLonger ==
    ASSUME NEW f, NEW from \in Nat, NEW c \in Nat, NEW d \in Nat, from <= c, c <= d
    PROVE  /\ Chunks(f, from, d) = Chunks(f, from, c) \o Chunks(f, c, d)
           /\ Len(Chunks(f, from, d)) = d - from
  <1> DEFINE new == Chunks(f, c, d)
             old == Chunks(f, from, c)
             all == Chunks(f, from, d)
  <1>1. /\ old \in Seq({f} \X Int) /\ Len(old) = c - from
        /\ \A n \in 1 .. c - from : old[n] = <<f, from + n - 1>>
    BY DEF Chunks
  <1>2. /\ new \in Seq({f} \X Int) /\ Len(new) = d - c
        /\ \A n \in 1 .. d - c : new[n] = <<f, c + n - 1>>
    BY DEF Chunks
  <1>3. /\ all \in Seq({f} \X Int) /\ Len(all) = d - from
        /\ \A n \in 1 .. d - from : all[n] = <<f, from + n - 1>>
    BY DEF Chunks
  <1> DEFINE S == {f} \X Int
             both == old \o new
  <1> HIDE DEF new, old, all, S
  <1>3a. /\ both \in Seq(S) /\ Len(both) = Len(old) + Len(new)
         /\ \A n \in 1 .. Len(old) + Len(new) :
               both[n] = IF n <= Len(old) THEN old[n] ELSE new[n - Len(old)]
    BY <1>1, <1>2, ConcatProperties DEF S
  <1> HIDE DEF both
  <1>4. Len(both) = d - from /\ both \in Seq(S)
    BY <1>1, <1>2, <1>3a
  <1>5. \A n \in 1 .. d - from : both[n] = all[n]
    <2> TAKE n \in 1 .. d - from
    <2>1. CASE n <= c - from
      <3>1. n \in 1 .. c - from
        BY <2>1
      <3>2. both[n] = old[n]
        BY <1>1, <1>2, <1>3a, <2>1
      <3> QED  BY <1>1, <1>3, <3>1, <3>2
    <2>2. CASE n > c - from
      <3>1. n - (c - from) \in 1 .. d - c
        BY <2>2
      <3>2. both[n] = new[n - (c - from)]
        BY <1>1, <1>2, <1>3a, <2>2
      <3>3. new[n - (c - from)] = <<f, c + (n - (c - from)) - 1>>
        BY <1>2, <3>1
      <3>4. c + (n - (c - from)) - 1 = from + n - 1
        OBVIOUS
      <3>5. all[n] = <<f, from + n - 1>>
        BY <1>3
      <3> QED  BY <3>2, <3>3, <3>4, <3>5
    <2> QED  BY <2>1, <2>2
  <1>6. both = all
    BY <1>3, <1>4, <1>5, SeqEqual DEF S
  <1> QED  BY <1>3, <1>6 DEF old, new, all, both

(* The segments of a packet in terms of the code-stream's chunks.           *)
LEMMA SegmentsAre ==
    ASSUME CutForReceiver, CarriesCodestream, NEW i \in 1 .. StreamLength, PlaceOf(i) # 1
    PROVE  LET k == PlaceOf(i)
               whole == Chunks(FrameOf(i), Start[k], Start[k + 1])
           IN  /\ k \in 2 .. L
               /\ Tag(i, Layout[k].head \o Layout[k].tail) = whole
               /\ Tag(i, Layout[k].head) \o Tag(i, Layout[k].tail) = whole
               /\ Layout[k].ORDB =>
                     /\ FirstChunk[Entry(k)] \in Nat /\ FirstChunk[Entry(k)] <= Start[k + 1]
                     /\ Tag(i, Layout[k].tail)
                           = Chunks(FrameOf(i), FirstChunk[Entry(k)], Start[k + 1])
  <1> DEFINE k == PlaceOf(i)
             f == FrameOf(i)
             h == Layout[k].head
             t == Layout[k].tail
             a == Start[k]
             b == Start[k + 1]
             whole == Chunks(f, a, b)
  <1>1. i \in Int /\ k \in 2 .. L
    BY Ends, PlaceIs, CutIs
  <1>2. h \in Seq(Int) /\ t \in Seq(Int)
    BY <1>1, PacketFields
  <1>3. /\ a \in Nat /\ b \in Nat /\ a <= b
        /\ h \o t = [c \in 1 .. b - a |-> a + c - 1]
        /\ Layout[k].ORDB => FirstChunk[Entry(k)] = a + Len(h)
    <2>1. k \in 2 .. L + 1 /\ k + 1 \in 2 .. L + 1
      BY <1>1, CutIs
    <2> HIDE DEF k
    <2> QED  BY <1>1, <2>1, StartIs
  <1> HIDE DEF k, f, h, t, a, b
  <1>4. Tag(i, h \o t) = whole
    <2> DEFINE s == h \o t
    <2>1. DOMAIN s = 1 .. b - a /\ \A n \in 1 .. b - a : s[n] = a + n - 1
      BY <1>3
    <2> HIDE DEF s
    <2>2. Tag(i, s) = [n \in 1 .. b - a |-> <<f, a + n - 1>>]
      BY <2>1 DEF Tag, f
    <2> QED  BY <2>2 DEF Chunks, s
  <1>5. Len(h) + Len(t) = b - a /\ Len(h) \in Nat /\ Len(t) \in Nat
    <2>1. Len(h \o t) = Len(h) + Len(t)
      BY <1>2
    <2>2. Len(h \o t) = b - a
      BY <1>3
    <2> QED  BY <1>2, <2>1, <2>2
  <1>6. /\ Tag(i, h) \in Seq(Chunk) /\ Tag(i, t) \in Seq(Chunk)
        /\ Len(Tag(i, h)) = Len(h) /\ Len(Tag(i, t)) = Len(t)
        /\ \A n \in 1 .. Len(h) : Tag(i, h)[n] = <<f, h[n]>>
        /\ \A n \in 1 .. Len(t) : Tag(i, t)[n] = <<f, t[n]>>
    BY <1>2, TagType DEF Tag, f
  <1>7. /\ \A n \in 1 .. Len(h) : h[n] = a + n - 1
        /\ \A n \in 1 .. Len(t) : t[n] = a + Len(h) + n - 1
    <2>1. \A n \in 1 .. Len(h) : h[n] = (h \o t)[n] /\ n \in 1 .. b - a
      BY <1>2, <1>5
    <2>2. \A n \in 1 .. Len(t) : t[n] = (h \o t)[Len(h) + n] /\ Len(h) + n \in 1 .. b - a
      BY <1>2, <1>5
    <2>3. \A n \in 1 .. b - a : (h \o t)[n] = a + n - 1
      BY <1>3
    <2> DEFINE s == h \o t
               p == Len(h)
               q == Len(t)
    <2>4. /\ \A n \in 1 .. p : h[n] = s[n] /\ n \in 1 .. b - a
          /\ \A n \in 1 .. q : t[n] = s[p + n] /\ p + n \in 1 .. b - a
          /\ \A n \in 1 .. b - a : s[n] = a + n - 1
          /\ p \in Nat /\ q \in Nat
      BY <1>5, <2>1, <2>2, <2>3
    <2> HIDE DEF s, p, q
    <2>5. \A n \in 1 .. p : h[n] = a + n - 1
      BY <2>4
    <2>6. \A n \in 1 .. q : t[n] = a + p + n - 1
      BY <1>3, <2>4
    <2> QED  BY <2>5, <2>6 DEF p, q
  <1>8. Tag(i, h) \o Tag(i, t) = whole
    <2> DEFINE x == Tag(i, h)
               y == Tag(i, t)
               z == x \o y
    <2>1. /\ x \in Seq(Chunk) /\ y \in Seq(Chunk) /\ Len(x) + Len(y) = b - a
          /\ Len(x) \in Nat /\ Len(y) \in Nat
          /\ \A n \in 1 .. Len(x) : x[n] = <<f, a + n - 1>>
          /\ \A n \in 1 .. Len(y) : y[n] = <<f, a + Len(x) + n - 1>>
      BY <1>5, <1>6, <1>7
    <2> HIDE DEF x, y
    <2>2. /\ z \in Seq(Chunk) /\ Len(z) = b - a
          /\ \A n \in 1 .. b - a :
                z[n] = IF n <= Len(x) THEN x[n] ELSE y[n - Len(x)]
      BY <2>1, ConcatProperties
    <2> HIDE DEF z
    <2>3. \A n \in 1 .. b - a : z[n] = <<f, a + n - 1>>
      <3> TAKE n \in 1 .. b - a
      <3>1. CASE n <= Len(x)
        <4>1. n \in 1 .. Len(x)
          BY <2>1, <3>1
        <4> QED  BY <2>1, <2>2, <3>1, <4>1
      <3>2. CASE n > Len(x)
        <4>1. n - Len(x) \in 1 .. Len(y) /\ a + Len(x) + (n - Len(x)) - 1 = a + n - 1
          BY <1>3, <2>1, <3>2
        <4>2. z[n] = y[n - Len(x)]
          BY <2>1, <2>2, <3>2
        <4>3. y[n - Len(x)] = <<f, a + Len(x) + (n - Len(x)) - 1>>
          BY <2>1, <4>1
        <4> QED  BY <4>1, <4>2, <4>3
      <3> QED  BY <2>1, <3>1, <3>2
    <2>4. z = [n \in 1 .. b - a |-> <<f, a + n - 1>>]
      <3>1. DOMAIN z = 1 .. b - a /\ z \in [1 .. b - a -> Chunk]
        BY <2>2, LenProperties
      <3> QED  BY <2>3, <3>1
    <2> QED  BY <2>4 DEF Chunks, x, y, z
  <1>9. ASSUME Layout[k].ORDB
        PROVE  /\ FirstChunk[Entry(k)] \in Nat /\ FirstChunk[Entry(k)] <= b
               /\ Tag(i, t) = Chunks(f, FirstChunk[Entry(k)], b)
    <2> DEFINE c == FirstChunk[Entry(k)]
    <2>1. c = a + Len(h)
      BY <1>3, <1>9
    <2> HIDE DEF c
    <2>2. c \in Nat /\ c <= b /\ Len(t) = b - c
      BY <1>3, <1>5, <2>1
    <2> DEFINE y == Tag(i, t)
    <2>3. y \in Seq(Chunk) /\ Len(y) = b - c /\ \A n \in 1 .. b - c : y[n] = <<f, c + n - 1>>
      BY <1>6, <1>7, <2>1, <2>2
    <2> HIDE DEF y
    <2>4. y = [n \in 1 .. b - c |-> <<f, c + n - 1>>]
      <3>1. y \in [1 .. b - c -> Chunk]
        BY <2>3, LenProperties
      <3> QED  BY <2>3, <3>1
    <2> QED  BY <2>2, <2>4 DEF Chunks, c, y
  <1> QED  BY <1>1, <1>4, <1>8, <1>9 DEF k, f, h, t, a, b

(* What EraseAllButLast leaves of a packet with a resync point.             *)
LEMMA TailHolds ==
    ASSUME CutForReceiver, CarriesCodestream, TypeOK, KeepsTail, Layout[Place].ORDB,
           table_index' = Entry(Place), next' = next, j2k_packets' = EraseAllButLast
    PROVE  HoldsUpTo(Start[Place + 1])'
  <1> DEFINE i == next - 1
             c == FirstChunk[Entry(Place)]
             d == Start[Place + 1]
             a == Tag(i, Layout[Place].tail)
  <1>1. /\ i \in 1 .. StreamLength /\ Place # 1 /\ Place = PlaceOf(i) /\ FrameNow = FrameOf(i)
        /\ Place' = Place /\ FrameNow' = FrameNow
    <2>1. Place \in 1 .. L /\ i \in 0 .. StreamLength
      BY TypeIs, PlaceIs DEF Place
    <2>2. Place \notin {1, L}
      BY <2>1, CutIs
    <2>3. i # 0
      BY <2>2, Ends DEF Place
    <2> QED  BY <2>1, <2>2, <2>3, Ends DEF Place, FrameNow
  <1>2. c <= d /\ a = Chunks(FrameNow, c, d)
    BY <1>1, SegmentsAre
  <1>3. a \in Seq(Chunk)
    BY <1>1, PlaceIs, PacketFields, TagType, TypeIs
  <1>4. j2k_packets' = <<a>>
    BY DEF KeepsTail, EraseAllButLast
  <1>5. FirstChunk[table_index]' = c /\ Start[Place + 1]' = d
    BY <1>1
  <1> HIDE DEF a, c, d, i
  <1>6. FlattenSeq(j2k_packets') = a
    BY <1>3, <1>4, FlattenSimple
  <1> QED  BY <1>1, <1>2, <1>5, <1>6 DEF HoldsUpTo

(* A packet in sequence extends what the segments hold.                     *)
LEMMA PushedHolds ==
    ASSUME CutForReceiver, CarriesCodestream, RTPTypeOK, table_index \in Index,
           NEW i \in 1 .. StreamLength, Place \in 2 .. L - 1, Place' = Place + 1,
           Place' = PlaceOf(i), FrameNow' = FrameOf(i), FrameNow' = FrameNow,
           table_index' = table_index, HoldsUpTo(Start[Place + 1]),
           \/ j2k_packets' = j2k_packets \o HeadAndTail(i)
           \/ j2k_packets' = j2k_packets \o <<parse_rtp_header(i, "BODY_NO_RESYNC")>>
    PROVE  HoldsUpTo(Start[Place + 1])'
  <1> DEFINE k == PlaceOf(i)
             f == FrameOf(i)
             e == FirstChunk[table_index]
             c == Start[k]
             d == Start[k + 1]
             whole == Chunks(f, c, d)
             s == j2k_packets
             old == FlattenSeq(s)
  <1>1. /\ k = Place + 1 /\ k \in 2 .. L /\ k # 1 /\ k + 1 \in 2 .. L + 1 /\ k \in 2 .. L + 1
        /\ Start[Place + 1] = c /\ Start[Place + 1]' = d
        /\ FirstChunk[table_index]' = e
    BY CutIs
  <1>2. /\ c \in Nat /\ d \in Nat /\ c <= d
    <2> HIDE DEF k
    <2> QED  BY <1>1, StartIs
  <1>3. e \in Nat /\ e <= c /\ old = Chunks(f, e, c)
    BY <1>1, Constants, Sizes DEF HoldsUpTo
  <1>4. /\ Tag(i, Pkt(i).head \o Pkt(i).tail) = whole
        /\ Tag(i, Pkt(i).head) \o Tag(i, Pkt(i).tail) = whole
    BY <1>1, SegmentsAre DEF Pkt
  <1> DEFINE a == Tag(i, Pkt(i).head)
             b == Tag(i, Pkt(i).tail)
             w == Tag(i, Pkt(i).head \o Pkt(i).tail)
  <1>5. a \in Seq(Chunk) /\ b \in Seq(Chunk) /\ w \in Seq(Chunk)
    <2>1. i \in Int
      BY Ends
    <2>2. Pkt(i).head \in Seq(Int) /\ Pkt(i).tail \in Seq(Int)
      BY <2>1, PacketFields
    <2>3. Pkt(i).head \o Pkt(i).tail \in Seq(Int)
      BY <2>2
    <2> QED  BY <2>2, <2>3, TagType
  <1>6. s \in Seq(Seq(Chunk))
    BY DEF RTPTypeOK, Chunk
  <1>7. j2k_packets' = s \o <<a, b>> \/ j2k_packets' = s \o <<w>>
    BY DEF HeadAndTail, parse_rtp_header
  <1>7a. w = whole /\ a \o b = whole
    BY <1>4
  <1> HIDE DEF k, f, e, c, d, s, a, b, w, whole
  <1>8. FlattenSeq(j2k_packets') = old \o whole
    <2>1. FlattenSeq(s \o <<a, b>>) = old \o whole
      <3> DEFINE u == s \o <<a, b>>
      <3>1. Joined(u, s, <<a, b>>) /\ Joined(whole, a, b)
        BY <1>7a DEF Joined
      <3> HIDE DEF u
      <3>2. Joined(FlattenSeq(u), FlattenSeq(s), whole)
        BY <1>5, <1>6, <3>1, FlattenBoth
      <3> QED  BY <3>2 DEF Joined, u
    <2>2. FlattenSeq(s \o <<w>>) = old \o whole
      BY <1>5, <1>6, <1>7a, FlattenAppended
    <2> QED  BY <1>7, <2>1, <2>2
  <1> HIDE DEF old
  <1>9. Chunks(f, e, d) = old \o whole
    <2>1. Chunks(f, e, d) = Chunks(f, e, c) \o Chunks(f, c, d)
      BY <1>2, <1>3, ChunksLonger
    <2> QED  BY <1>3, <2>1 DEF whole
  <1>10. e <= d
    BY <1>2, <1>3
  <1> QED  BY <1>1, <1>8, <1>9, <1>10 DEF HoldsUpTo, f

LEMMA LoadBodyData ==
    ASSUME CutForReceiver, CarriesCodestream, TypeOK, CallInv, AlignedInv, DataInv,
           NEW i \in 1 .. Terminator, LoadBodyPacket(i), UNCHANGED <<loopVars, parseVars>>,
           ~unnoticed'
    PROVE  DataInv'
  <1>1. /\ RTPTypeOK /\ phase = "body" /\ phase' = "body" /\ call = "load_body_packet"
        /\ result = "none" /\ table_index' = table_index /\ ~garbage' /\ table_index \in Index
    BY TypeIs DEF TypeOK, CallInv, LoadBodyPacket, loopVars, parseVars, DataInv
  <1>2. CASE Finish(i)
    BY <1>1, <1>2 DEF Finish, Return, DataInv
  <1>3. CASE OutOfSequence(i)
    BY <1>1, <1>3 DEF OutOfSequence, Return, DataInv
  <1>4. CASE i # Terminator /\ InSequence(i)
    <2>1. /\ i = next' - 1 /\ i \in 1 .. StreamLength /\ L \in Nat /\ L > 2
          /\ Place \in 1 .. L /\ Place' \in 1 .. L /\ Pkt(i) = Layout[Place']
          /\ Place' = PlaceOf(i) /\ FrameNow' = FrameOf(i)
      <3>1. i \in 1 .. StreamLength /\ LoadBodyPacket(i) /\ RTPTypeOK /\ L \in Nat /\ L > 2
        BY <1>1, <1>4, Ends, CutIs
      <3>2. /\ i = next' - 1 /\ Place \in 1 .. L /\ Place' \in 1 .. L /\ Pkt(i) = Layout[Place']
        BY <1>1, <1>4, InSequenceIs
      <3>3. Place' = PlaceOf(i) /\ FrameNow' = FrameOf(i)
        BY <3>2 DEF Place, FrameNow
      <3> QED  BY <3>1, <3>2, <3>3
    <2>2. CASE call' = "none" /\ result' = "MAIN_HEADER"
      BY <1>1, <2>2 DEF DataInv
    <2>3. CASE /\ Place # L /\ Place' = Place + 1 /\ FrameNow' = FrameNow
               /\ \/ /\ Layout[Place'].ORDB /\ Place' # L
                     /\ call' = "none" /\ result' = "SUCCESS"
                     /\ j2k_packets' = j2k_packets \o HeadAndTail(i)
                  \/ /\ ~Layout[Place'].ORDB
                     /\ IF Place' = L THEN call' = "none" /\ result' = "SUCCESS"
                        ELSE UNCHANGED <<call, result>>
                     /\ j2k_packets' = j2k_packets \o <<parse_rtp_header(i, "BODY_NO_RESYNC")>>
      <3>1. CASE Place = 1
        <4>1. Layout[Place'].ORDB /\ Place' = 2
          BY <2>3, <3>1, CutIs
        <4>2. KeepsTail'
          <5> DEFINE s == j2k_packets
                     a == parse_rtp_header(i, "BODY_RESYNC_HEAD")
                     b == parse_rtp_header(i, "BODY_RESYNC_TAIL")
          <5>1. s \in Seq(Seq(Chunk)) /\ j2k_packets' = s \o <<a, b>>
            BY <1>1, <2>3, <4>1 DEF RTPTypeOK, Chunk, HeadAndTail
          <5>2. b = Tag(next' - 1, Layout[Place'].tail)
            BY <2>1 DEF parse_rtp_header
          <5> HIDE DEF s, a, b
          <5>3. Last(s \o <<a, b>>) = b /\ s \o <<a, b>> # <<>>
            BY <5>1 DEF Last
          <5> QED  BY <5>1, <5>2, <5>3 DEF KeepsTail
        <4> QED  BY <1>1, <2>1, <2>3, <4>1, <4>2 DEF DataInv
      <3>2. CASE Place # 1
        <4>1. Place \in 2 .. L - 1 /\ HoldsUpTo(Start[Place + 1])
          BY <1>1, <2>1, <2>3, <3>2 DEF DataInv
        <4>2. HoldsUpTo(Start[Place + 1])'
          BY <1>1, <2>1, <2>3, <4>1, PushedHolds
        <4>3. Layout[Place'].ORDB => KeepsTail'
          <5> SUFFICES ASSUME Layout[Place'].ORDB PROVE KeepsTail'
            OBVIOUS
          <5> DEFINE s == j2k_packets
                     a == parse_rtp_header(i, "BODY_RESYNC_HEAD")
                     b == parse_rtp_header(i, "BODY_RESYNC_TAIL")
          <5>1. s \in Seq(Seq(Chunk)) /\ j2k_packets' = s \o <<a, b>>
            BY <1>1, <2>3 DEF RTPTypeOK, Chunk, HeadAndTail
          <5>2. b = Tag(next' - 1, Layout[Place'].tail)
            BY <2>1 DEF parse_rtp_header
          <5> HIDE DEF s, a, b
          <5>3. Last(s \o <<a, b>>) = b /\ s \o <<a, b>> # <<>>
            BY <5>1 DEF Last
          <5> QED  BY <5>1, <5>2, <5>3 DEF KeepsTail
        <4> QED  BY <1>1, <2>3, <4>2, <4>3 DEF DataInv
      <3> QED  BY <3>1, <3>2
    <2> QED  BY <1>1, <1>4, <2>2, <2>3, InSequenceIs
  <1> QED  BY <1>2, <1>3, <1>4 DEF LoadBodyPacket

LEMMA LoadMainData ==
    ASSUME CutForReceiver, CarriesCodestream, TypeOK, CallInv, DataInv,
           NEW i \in 1 .. Terminator, LoadMainPacket(i), UNCHANGED <<loopVars, parseVars>>,
           ~headless'
    PROVE  DataInv'
  <1>1. RTPTypeOK /\ phase' = "main header" /\ result = "none" /\ ~garbage'
    BY TypeIs DEF CallInv, LoadMainPacket, loopVars, parseVars, DataInv
  <1>2. SUFFICES ASSUME result' = "MAIN_HEADER"
                 PROVE  StartsWithMainHeader(FlattenSeq(j2k_packets')) /\ KeepsTail'
    BY <1>1 DEF DataInv, StartsWithMainHeader
  <1> DEFINE a == parse_rtp_header(i, "BODY_RESYNC_HEAD")
             b == parse_rtp_header(i, "BODY_RESYNC_TAIL")
             m == parse_rtp_header(i - 1, "MAIN_PACKET")
  <1>3. /\ i # Terminator /\ BufferPop(i) /\ i > 1 /\ Pkt(i - 1).MH
        /\ j2k_packets = <<m>> /\ j2k_packets' = <<m>> \o <<a, b>>
    BY <1>1, <1>2 DEF LoadMainPacket, Finish, Return, PushBack, Stay, HeadAndTail
  <1>4. /\ i \in Int /\ i \in 1 .. StreamLength /\ i - 1 \in 1 .. StreamLength
        /\ i = next' - 1 /\ Place' = PlaceOf(i)
    <2>1. i = next' - 1 /\ i \in Int /\ Place' = PlaceOf(i)
      BY <1>1, <1>3, PoppedIs DEF Place
    <2>2. i \in 1 .. StreamLength /\ i - 1 \in 1 .. StreamLength
      BY <1>3, <2>1, Ends
    <2> QED  BY <2>1, <2>2
  <1>5. PlaceOf(i - 1) = 1 /\ Pkt(i - 1) = Layout[1]
    <2>1. i - 1 \in Int
      BY <1>4
    <2>2. PlaceOf(i - 1) \in 1 .. L /\ Pkt(i - 1) = Layout[PlaceOf(i - 1)]
      BY <2>1, PlaceIs DEF Pkt
    <2> QED  BY <1>3, <2>2, CutIs
  <1>6. a \in Seq(Chunk) /\ b \in Seq(Chunk) /\ m \in Seq(Chunk) /\ <<m>> \in Seq(Seq(Chunk))
    <2>1. <<m>> \in Seq(Seq(Chunk))
      BY <1>4, SegmentType
    <2>2. <<m>>[1] = m /\ Len(<<m>>) = 1
      OBVIOUS
    <2>3. m \in Seq(Chunk)
      <3> HIDE DEF m
      <3> QED  BY <2>1, <2>2, ElementOfSeq
    <2>4. Pkt(i).head \in Seq(Int) /\ Pkt(i).tail \in Seq(Int)
      BY <1>4, PacketFields
    <2>5. Tag(i, Pkt(i).head) \in Seq(Chunk) /\ Tag(i, Pkt(i).tail) \in Seq(Chunk)
      BY <1>4, <2>4, TagType
    <2> QED  BY <2>1, <2>3, <2>5 DEF parse_rtp_header
  <1>7. m # <<>> /\ m[1][2] = MainChunk
    <2> DEFINE data == Layout[1].head \o Layout[1].tail
    <2>1. data \in Seq(Int) /\ data # <<>> /\ data[1] = MainChunk
      <3>1. Layout[1].head \in Seq(Int) /\ Layout[1].tail \in Seq(Int)
        <4>1. 1 \in 1 .. L
          BY Constants
        <4>2. Layout[1] \in PacketType
          BY <4>1, Constants
        <4> QED  BY <4>2 DEF PacketType
      <3>2. data # <<>> /\ data[1] = MainChunk
        BY DEF CarriesCodestream
      <3>3. data \in Seq(Int)
        BY <3>1
      <3> HIDE DEF data
      <3> QED  BY <3>2, <3>3
    <2>2. m = Tag(i - 1, data)
      BY <1>5 DEF parse_rtp_header
    <2> HIDE DEF data, m
    <2>3. 1 \in DOMAIN data
      BY <2>1
    <2>4. m[1] = <<FrameOf(i - 1), MainChunk>> /\ DOMAIN m = DOMAIN data
      BY <2>1, <2>2, <2>3 DEF Tag
    <2> QED  BY <2>3, <2>4
  <1>8. KeepsTail'
    <2>1. b = Tag(next' - 1, Layout[Place'].tail)
      BY <1>4 DEF parse_rtp_header, Pkt
    <2> HIDE DEF a, b, m
    <2>2. Last(<<m>> \o <<a, b>>) = b /\ <<m>> \o <<a, b>> # <<>>
      BY <1>6 DEF Last
    <2> QED  BY <1>3, <2>1, <2>2 DEF KeepsTail
  <1> DEFINE w == a \o b
             s == <<m>>
             u == s \o <<a, b>>
  <1> HIDE DEF a, b, m
  <1>9. Joined(u, s, <<a, b>>) /\ Joined(w, a, b) /\ w \in Seq(Chunk)
    BY <1>6 DEF Joined
  <1>10. FlattenSeq(s) = m
    BY <1>6, FlattenSimple
  <1>11. j2k_packets' = u /\ s \in Seq(Seq(Chunk))
    BY <1>3, <1>6
  <1> HIDE DEF s, u, w
  <1>12. Joined(FlattenSeq(u), m, w)
    <2>1. Joined(FlattenSeq(u), FlattenSeq(s), w)
      BY <1>6, <1>9, <1>11, FlattenBoth
    <2> QED  BY <1>10, <2>1
  <1> DEFINE v == FlattenSeq(u)
  <1>13. v = m \o w
    BY <1>12 DEF Joined
  <1> HIDE DEF v
  <1>14. v # <<>> /\ v[1] = m[1]
    BY <1>6, <1>7, <1>9, <1>13
  <1>15. StartsWithMainHeader(v)
    BY <1>7, <1>14 DEF StartsWithMainHeader
  <1> QED  BY <1>8, <1>11, <1>15 DEF v

LEMMA DiscardData ==
    ASSUME CutForReceiver, CarriesCodestream, TypeOK, CallInv, AlignedInv, DataInv,
           NEW i \in 1 .. Terminator, Discard(i), UNCHANGED <<loopVars, parseVars>>
    PROVE  DataInv'
  <1>1. /\ RTPTypeOK /\ phase = "body" /\ phase' = "body" /\ call = "discard"
        /\ result = "none" /\ ~garbage' /\ j2k_packets = <<>>
    BY TypeIs DEF TypeOK, CallInv, Discard, AlignedInv, loopVars, parseVars, DataInv
  <1>2. CASE Finish(i)
    BY <1>1, <1>2 DEF Finish, Return, DataInv
  <1>3. CASE i # Terminator /\ ~(~Pkt(i).MH /\ Pkt(i).ORDB)
    BY <1>1, <1>3 DEF Discard, Finish, Stay, DataInv
  <1>4. CASE i # Terminator /\ ~Pkt(i).MH /\ Pkt(i).ORDB
    <2> DEFINE b == parse_rtp_header(i, "BODY_RESYNC_TAIL")
    <2>1. PushBack(<<b>>, Return("FAILURE")) /\ BufferPop(i)
      BY <1>4 DEF Discard, Finish
    <2>2. ~(Len(<<>>) + Len(<<b>>) > Capacity)
      BY Sizes
    <2>3. call' = "none" /\ result' = "FAILURE" /\ j2k_packets' = <<>> \o <<b>>
      BY <1>1, <2>1, <2>2 DEF PushBack, Return
    <2>4. i = next' - 1 /\ Pkt(i) = Layout[Place']
      BY <1>1, <1>4, <2>1, PoppedIs DEF Place, Pkt
    <2>5. b = Tag(next' - 1, Layout[Place'].tail)
      BY <2>4 DEF parse_rtp_header
    <2> HIDE DEF b
    <2>6. Last(<<>> \o <<b>>) = b /\ <<>> \o <<b>> # <<>>
      BY DEF Last
    <2>7. KeepsTail'
      BY <2>3, <2>5, <2>6 DEF KeepsTail
    <2> QED  BY <1>1, <2>3, <2>7 DEF DataInv
  <1> QED  BY <1>2, <1>3, <1>4 DEF Discard, Finish

(* On SUCCESS the data the parser asks for are those of the frame at hand.  *)
LEMMA SuccessHolds ==
    ASSUME CutForReceiver, CarriesCodestream, TypeOK, ResyncInv, AlignedInv, DataInv,
           phase = "body", result = "SUCCESS"
    PROVE  LET data == FlattenSeq(j2k_packets)
               t == FirstWithPID(table_index, PID)
               frames == {f \in 1 .. Frames : Holds(data, f, table_index, t)}
           IN  /\ frames # {} \/ ~(Needed(table_index, t) > 0)
               /\ Place # 2 /\ FrameNow \in 1 .. Frames => FrameNow \in frames
               /\ Place = 2 => t = 0
  <1> DEFINE data == FlattenSeq(j2k_packets)
             t == FirstWithPID(table_index, PID)
             frames == {f \in 1 .. Frames : Holds(data, f, table_index, t)}
             n == Needed(table_index, t)
             e == FirstChunk[table_index]
             d == Start[Place + 1]
  <1>1. /\ Place \in 2 .. L /\ table_index = Entry(Place - 1)
        /\ IF Place = L THEN t = TableSize
           ELSE Layout[Place].ORDB /\ t = Entry(Place) /\ t # TableSize
    BY SuccessIs
  <1>2. CASE Place = 2
    <2>1. t = 0 /\ table_index = 0 /\ t # TableSize
      BY <1>1, <1>2, CutIs
    <2>2. FirstChunk[0] \in Nat
      BY Constants, Sizes
    <2> HIDE DEF t
    <2>3. n = 0
      BY <2>1, <2>2 DEF Needed
    <2> HIDE DEF n, frames
    <2> QED  BY <1>2, <2>1, <2>3 DEF n, t
  <1>3. CASE Place # 2
    <2>1. e <= d /\ data = Chunks(FrameNow, e, d)
      BY <1>3 DEF DataInv, HoldsUpTo
    <2>2. e \in Nat /\ d \in Nat /\ FirstChunk[TableSize] \in Nat
      <3>1. Place + 1 \in 2 .. L + 1
        BY <1>1, CutIs
      <3>2. d \in Nat
        BY <3>1, StartIs
      <3>3. table_index \in 0 .. TableSize /\ TableSize \in 0 .. TableSize
        BY TypeIs, Sizes
      <3> QED  BY <3>2, <3>3, Constants
    <2>3. n \in Int /\ n <= d - e
      <3>1. CASE Place = L
        <4>1. t = TableSize /\ d = FirstChunk[TableSize] + 1
          BY <1>1, <3>1, StartIs
        <4> HIDE DEF t, d
        <4> QED  BY <2>2, <4>1 DEF Needed
      <3>2. CASE Place # L
        <4> DEFINE i == next - 1
        <4>1. /\ i \in 1 .. StreamLength /\ PlaceOf(i) = Place /\ PlaceOf(i) # 1
              /\ Layout[Place].ORDB /\ t = Entry(Place) /\ t # TableSize
          BY <1>1, <3>2, Ends, TypeIs DEF Place
        <4>2. FirstChunk[Entry(Place)] \in Nat /\ FirstChunk[Entry(Place)] <= d
          <5> HIDE DEF i
          <5> QED  BY <4>1, SegmentsAre
        <4> DEFINE c == FirstChunk[t]
        <4>3. c \in Nat /\ c <= d /\ n = c - e + 0
          BY <4>1, <4>2 DEF Needed
        <4> HIDE DEF c, n, d, e
        <4> QED  BY <2>2, <4>3
      <3> QED  BY <3>1, <3>2
    <2>4. Len(data) = d - e /\ \A c \in 1 .. d - e : data[c] = <<FrameNow, e + c - 1>>
      <3> HIDE DEF d, e, data
      <3>1. Len(data) = d - e
        <4>1. d - e \in Nat
          BY <2>1, <2>2
        <4> QED  BY <2>1, <4>1 DEF Chunks
      <3>2. \A c \in 1 .. d - e : data[c] = <<FrameNow, e + c - 1>>
        BY <2>1, <2>2 DEF Chunks
      <3> QED  BY <3>1, <3>2
    <2>5. Holds(data, FrameNow, table_index, t)
      <3>1. /\ Len(data) >= n
            /\ \A c \in 1 .. n : data[c] = <<FrameNow, e + c - 1>>
        <4> HIDE DEF d, e, data, n
        <4> QED  BY <2>2, <2>3, <2>4
      <3> QED  BY <3>1 DEF Holds
    <2>6. n > 0 => FrameNow \in 1 .. Frames
      <3> SUFFICES ASSUME n > 0 PROVE FrameNow \in 1 .. Frames
        OBVIOUS
      <3>1. data \in Seq(Chunk)
        <4>1. j2k_packets \in Seq(Seq(Chunk)) /\ <<>> \in Seq(Chunk)
          BY TypeIs DEF RTPTypeOK, Chunk
        <4> QED  BY <4>1, FlattenAppended
      <3> HIDE DEF d, e, data, n
      <3>2. 1 \in 1 .. Len(data) /\ 1 \in 1 .. d - e
        BY <2>2, <2>3, <2>4
      <3>3. data[1] \in Chunk /\ data[1] = <<FrameNow, e + 1 - 1>>
        BY <2>4, <3>1, <3>2, ElementOfSeq
      <3> QED  BY <3>3 DEF Chunk
    <2> HIDE DEF data, t, n
    <2> QED  BY <1>3, <2>5, <2>6 DEF n, data, t
  <1> QED  BY <1>2, <1>3

Readable == ~unnoticed /\ ~headless => DataInv

LEMMA DataStep ==
    CutForReceiver /\ CarriesCodestream /\ TypeOK /\ CallInv /\ ResyncInv /\ Aligned /\ Readable
        /\ [Next]_vars => Readable'
  <1> SUFFICES ASSUME CutForReceiver, CarriesCodestream, TypeOK, CallInv, ResyncInv, Aligned,
                      Readable, [Next]_vars, ~unnoticed', ~headless'
               PROVE  DataInv'
    BY DEF Readable
  <1>1. CASE LoadPacket
    <2>1. PICK i \in 1 .. Terminator : Load(i)
      BY <1>1 DEF LoadPacket
    <2>2. UNCHANGED <<loopVars, parseVars>>
      BY <1>1 DEF LoadPacket
    <2>3. CASE LoadMainPacket(i)
      <3>1. ~unnoticed /\ ~headless
        BY <2>3 DEF LoadMainPacket, CallInv
      <3> QED  BY <2>2, <2>3, <3>1, LoadMainData DEF Readable
    <2>4. CASE LoadBodyPacket(i)
      <3>1. ~unnoticed /\ ~headless
        BY <2>4 DEF LoadBodyPacket, Finish, InSequence, OutOfSequence, gapVars
      <3> QED  BY <2>2, <2>4, <3>1, LoadBodyData DEF Aligned, Readable
    <2>5. CASE Discard(i)
      <3>1. ~unnoticed /\ ~headless
        BY <2>5 DEF Discard, Finish, gapVars
      <3> QED  BY <2>2, <2>5, <3>1, DiscardData DEF Aligned, Readable
    <2> QED  BY <2>1, <2>3, <2>4, <2>5 DEF Load
  <1>2. CASE ~LoadPacket
    <2>0. AlignedInv /\ DataInv /\ ~garbage
      <3>1. UNCHANGED gapVars
        BY <1>2 DEF Next, ReadMainHeader, Success, MainHeader, Failure, Catch, Dest, Finished,
                    Abort, vars, rtpVars
      <3> QED  BY <3>1 DEF Aligned, Readable, DataInv, gapVars
    <2>1. CASE phase' \in {"dest", "finished", "aborted"} /\ garbage' = garbage
      BY <2>0, <2>1 DEF DataInv
    <2>2. CASE ReadMainHeader
      <3>1. StartsWithMainHeader(FlattenSeq(j2k_packets)) /\ KeepsTail /\ Place = 2
        BY <2>0, <2>2 DEF ReadMainHeader, DataInv, AlignedInv
      <3>2. ~garbage' /\ CallLoadBody(EraseAllButLast) /\ UNCHANGED <<next, table_index>>
        BY <2>2, <3>1 DEF ReadMainHeader, networkVars
      <3>3. table_index' = Entry(Place) /\ Layout[Place].ORDB
        BY <2>2, <3>1, <3>2, CutIs DEF CallInv, ReadMainHeader
      <3>4. HoldsUpTo(Start[Place + 1])'
        BY <3>1, <3>2, <3>3, TailHolds DEF CallLoadBody
      <3> QED  BY <3>2, <3>4 DEF CallLoadBody, DataInv
    <2>3. CASE Success
      <3> DEFINE t == FirstWithPID(table_index, PID)
                 frames == {f \in 1 .. Frames : Holds(FlattenSeq(j2k_packets), f, table_index, t)}
      <3>1. phase = "body" /\ result = "SUCCESS" /\ next' = next /\ Place' = Place
        BY <2>3 DEF Success, networkVars, Place
      <3>2. frames # {} \/ ~(Needed(table_index, t) > 0)
        BY <2>0, <3>1, SuccessHolds
      <3>3. garbage' = garbage /\ (ParsedUpTo(t) \/ phase' = "dest")
        BY <2>3, <3>2 DEF Success, Leaked
      <3>4. /\ Place \in 2 .. L
            /\ IF Place = L THEN t = TableSize
               ELSE Layout[Place].ORDB /\ t = Entry(Place) /\ t # TableSize
        BY <2>0, <3>1, SuccessIs
      <3> HIDE DEF t, frames
      <3>5. CASE ParsedUpTo(t) /\ Place = L
        <4>1. phase' = "body" /\ call' = "load_body_packet" /\ result' = "none"
          BY <3>4, <3>5 DEF ParsedUpTo, CallLoadBody
        <4> QED  BY <2>0, <3>1, <3>3, <3>5, <4>1 DEF DataInv
      <3>6. CASE ParsedUpTo(t) /\ Place # L
        <4>1. /\ phase' = "body" /\ call' = "load_body_packet" /\ result' = "none"
              /\ table_index' = Entry(Place) /\ j2k_packets' = EraseAllButLast
              /\ Layout[Place].ORDB
          BY <3>4, <3>6 DEF ParsedUpTo, CallLoadBody
        <4>2. KeepsTail
          BY <2>0, <3>1, <3>6 DEF DataInv
        <4>3. HoldsUpTo(Start[Place + 1])'
          BY <3>1, <4>1, <4>2, TailHolds
        <4> QED  BY <2>0, <3>3, <4>1, <4>3 DEF DataInv
      <3> QED  BY <2>1, <3>3, <3>5, <3>6
    <2>4. CASE MainHeader
      <3>1. /\ phase' = "body" /\ call' = "load_body_packet" /\ result' = "none"
            /\ Place' = 1 /\ garbage' = garbage
        BY <2>0, <2>4 DEF MainHeader, CallLoadBody, AlignedInv, networkVars, parseVars, Place
      <3> QED  BY <2>0, <3>1 DEF DataInv
    <2>5. CASE Failure
      <3>1. phase = "body" /\ result = "FAILURE" /\ SkipToPID /\ next' = next
            /\ CallLoadBody(EraseAllButLast) /\ garbage' = garbage
        BY <2>5 DEF Failure, networkVars, parseVars
      <3>2. Layout[Place].ORDB /\ table_index' = Entry(Place)
        BY <2>0, <3>1, FailureIs
      <3>3. KeepsTail
        BY <2>0, <3>1 DEF DataInv
      <3>4. HoldsUpTo(Start[Place + 1])'
        BY <3>1, <3>2, <3>3, TailHolds DEF CallLoadBody
      <3> QED  BY <2>0, <3>1, <3>4 DEF CallLoadBody, DataInv
    <2>6. CASE Catch
      BY <2>1, <2>6 DEF Catch, Leaked
    <2>7. CASE Dest
      <3>1. garbage' = garbage
        BY <2>7 DEF Dest, parseVars
      <3>2. PICK i \in 1 .. Terminator :
               /\ BufferPop(i)
               /\ \/ i = Terminator /\ phase' = "finished"
                  \/ i # Terminator /\ Pkt(i).MH /\ CallLoadBody(EraseAllButLast)
                  \/ UNCHANGED phase
        BY <2>7 DEF Dest
      <3>3. CASE i # Terminator /\ Pkt(i).MH /\ CallLoadBody(EraseAllButLast)
        <4>1. Place' = PlaceOf(i) /\ Place' \in 1 .. L /\ Pkt(i) = Layout[Place']
          BY <3>2, <3>3, PoppedIs, PlaceIs, TypeIs DEF Place, Pkt
        <4>2. Place' = 1
          BY <3>3, <4>1, CutIs
        <4> QED  BY <2>0, <3>1, <3>3, <4>2 DEF CallLoadBody, DataInv
      <3> QED  BY <2>1, <2>7, <3>1, <3>2, <3>3 DEF Dest
    <2>8. CASE Finished \/ Abort
      BY <2>1, <2>8 DEF Finished, Abort, parseVars
    <2>9. CASE UNCHANGED vars
      BY <2>0, <2>9 DEF vars, rtpVars, networkVars, receiverVars, loopVars, parseVars, DataInv,
                        HoldsUpTo, KeepsTail, Place, FrameNow
    <2> QED  BY <1>2, <2>2, <2>3, <2>4, <2>5, <2>6, <2>7, <2>8, <2>9 DEF Next
  <1> QED  BY <1>1, <1>2

(* A step out of the body loop ends the program neither by what the load    *)
(* returned nor at the EOC marker.                                          *)
LEMMA BodyStep ==
    CutForReceiver /\ CarriesCodestream /\ TypeOK /\ CallInv /\ ResyncInv /\ Aligned /\ Readable
        /\ [Next]_vars /\ phase = "body" /\ ~headless /\ ~unnoticed => phase' # "aborted"
  <1> SUFFICES ASSUME CutForReceiver, CarriesCodestream, TypeOK, CallInv, ResyncInv, Aligned,
                      Readable, [Next]_vars, phase = "body", ~headless, ~unnoticed
               PROVE  phase' # "aborted"
    OBVIOUS
  <1>1. AlignedInv /\ DataInv
    BY DEF Aligned, Readable
  <1>2. result # "aborted"
    BY <1>1 DEF AlignedInv
  <1>3. CASE LoadPacket
    BY <1>3 DEF LoadPacket, loopVars
  <1>4. CASE Success
    <2> DEFINE t == FirstWithPID(table_index, PID)
               frames == {f \in 1 .. Frames : Holds(FlattenSeq(j2k_packets), f, table_index, t)}
    <2>1. frames # {} \/ ~(Needed(table_index, t) > 0)
      BY <1>1, <1>4, SuccessHolds DEF Success
    <2>2. ParsedUpTo(t) \/ Leaked
      BY <1>4, <2>1 DEF Success
    <2> HIDE DEF t, frames
    <2>3. ParsedUpTo(t) => phase' = "body"
      BY DEF ParsedUpTo, CallLoadBody
    <2> QED  BY <2>2, <2>3 DEF Leaked
  <1>5. CASE Dest
    BY <1>5 DEF Dest
  <1>6. CASE ReadMainHeader \/ MainHeader \/ Failure \/ Catch \/ Finished \/ Abort
    BY <1>2, <1>6
    DEF ReadMainHeader, MainHeader, Failure, Catch, Finished, Abort, CallLoadBody, Leaked
  <1>7. CASE UNCHANGED vars
    BY <1>7 DEF vars, loopVars
  <1> QED  BY <1>3, <1>4, <1>5, <1>6, <1>7 DEF Next

(* On a stream cut for the receiver that carries the code-stream, neither    *)
(* assertion fails and j2k_packets does not overflow, once the stream is     *)
(* joined at its start and for as long as no gap went unnoticed.             *)
THEOREM BodyNeverAbortsCorrect ==
    CutForReceiver /\ CarriesCodestream => (Spec => BodyNeverAborts)
  <1> SUFFICES ASSUME CutForReceiver, CarriesCodestream PROVE Spec => BodyNeverAborts
    OBVIOUS
  <1>0. InTableOrder
    BY CutIs
  <1>1. Init => TypeOK /\ CallInv /\ ResyncInv /\ Aligned /\ Readable
    <2>1. Init => Aligned /\ Readable
      BY DEF Init, RTPInit, Aligned, AlignedInv, Readable, DataInv
    <2> QED  BY <2>1, InitType, InitOrder DEF OrderInv
  <1>2. TypeOK /\ CallInv /\ ResyncInv /\ Aligned /\ Readable /\ [Next]_vars
           => TypeOK' /\ CallInv' /\ ResyncInv' /\ Aligned' /\ Readable'
    BY <1>0, StepType, CallStep, ResyncStep, AlignedStep, DataStep
  <1>3. TypeOK /\ CallInv /\ ResyncInv /\ Aligned /\ Readable /\ [Next]_vars
           => [phase = "body" /\ ~headless /\ ~unnoticed => phase' # "aborted"]_vars
    BY BodyStep
  <1> QED  BY <1>1, <1>2, <1>3, PTL DEF Spec, BodyNeverAborts

(* The main header and every precinct are read from their own data, all of  *)
(* it and of one frame, whatever is lost, repeated or thrown, unless a gap  *)
(* went unnoticed or the stream was joined in the middle.                   *)
THEOREM NoGarbageCorrect ==
    CutForReceiver /\ CarriesCodestream => (Spec => []GarbageOnlyAfterGap)
  <1> SUFFICES ASSUME CutForReceiver, CarriesCodestream PROVE Spec => []GarbageOnlyAfterGap
    OBVIOUS
  <1>0. InTableOrder
    BY CutIs
  <1>1. Init => TypeOK /\ CallInv /\ ResyncInv /\ Aligned /\ Readable
    <2>1. Init => Aligned /\ Readable
      BY DEF Init, RTPInit, Aligned, AlignedInv, Readable, DataInv
    <2> QED  BY <2>1, InitType, InitOrder DEF OrderInv
  <1>2. TypeOK /\ CallInv /\ ResyncInv /\ Aligned /\ Readable /\ [Next]_vars
           => TypeOK' /\ CallInv' /\ ResyncInv' /\ Aligned' /\ Readable'
    BY <1>0, StepType, CallStep, ResyncStep, AlignedStep, DataStep
  <1>3. Readable => GarbageOnlyAfterGap
    BY DEF Readable, DataInv, GarbageOnlyAfterGap
  <1> QED  BY <1>1, <1>2, <1>3, PTL DEF Spec

--------------------------------------------------------------------------------
(* What is parsed of the frames of which nothing is lost. *)

(* The frames behind a packet popped with a gap are damaged: those between, *)
(* the one that was not at its end, and its own unless it begins there.     *)
LEMMA GapIs ==
    ASSUME RTPTypeOK, NEW i \in 1 .. Terminator, BufferPop(i)
    PROVE  /\ damaged \subseteq damaged' /\ FrameNow \in Int /\ FrameOf(i) \in Int
           /\ Place \in 1 .. L
           /\ \/ i = next - 1 /\ i # Terminator /\ next' = next /\ damaged' = damaged
              \/ /\ i \in next .. Terminator
                 /\ FrameNow <= FrameOf(i)
                 /\ \A f \in Int : FrameNow < f /\ f < FrameOf(i) => f \in damaged'
                 /\ FrameNow < FrameOf(i) /\ Place # L => FrameNow \in damaged'
                 /\ i # next /\ PlaceOf(i) # 1 => FrameOf(i) \in damaged'
                 /\ i = next => IF Place = L THEN PlaceOf(i) = 1
                                ELSE PlaceOf(i) = Place + 1 /\ FrameOf(i) = FrameNow
  <1> DEFINE gone == {FrameOf(k) : k \in next .. i - 1}
             n == next - 1
  <1>1. next \in 1 .. Terminator /\ Terminator \in Nat /\ i \in Int /\ n \in Int /\ next = n + 1
    BY Ends DEF RTPTypeOK
  <1>2. /\ damaged \subseteq damaged'
        /\ \/ /\ i \in next .. Terminator
              /\ damaged' = damaged \cup gone
           \/ i = next - 1 /\ next' = next /\ damaged' = damaged
    BY PopIs
  <1>3. FrameNow = FrameOf(n) /\ Place = PlaceOf(n) /\ FrameNow \in Int /\ Place \in 1 .. L
        /\ FrameOf(i) \in Int /\ PlaceOf(i) \in 1 .. L /\ L \in Nat
    BY <1>1, PlaceIs, Constants DEF FrameNow, Place
  <1>4. CASE i = next - 1 /\ next' = next /\ damaged' = damaged
    BY <1>1, <1>2, <1>3, <1>4
  <1>5. CASE i \in next .. Terminator /\ damaged' = damaged \cup gone
    <2>1. FrameNow <= FrameOf(i)
      <3>1. n <= i
        BY <1>1, <1>5
      <3> HIDE DEF n
      <3> QED  BY <1>1, <1>3, <3>1, PlaceOrder
    <2>2. IF Place = L THEN PlaceOf(next) = 1
          ELSE PlaceOf(next) = Place + 1 /\ FrameOf(next) = FrameNow
      <3> HIDE DEF n
      <3> QED  BY <1>1, <1>3, NextPlace
    <2>3. ASSUME NEW f \in Int, FrameNow < f, f < FrameOf(i)
          PROVE  f \in gone
      <3> DEFINE q == L * (f - 1)
                 k == q + 1
      <3>0. q \in Int /\ k \in Int /\ 1 \in 1 .. L
        BY <1>3, Constants
      <3>1. FrameOf(k) = f
        <4>1. k = L * (f - 1) + 1
          OBVIOUS
        <4> HIDE DEF k
        <4> QED  BY <3>0, <4>1, PlaceUnique
      <3> HIDE DEF q, k, n
      <3>2. ~(k <= n)
        <4> SUFFICES ASSUME k <= n PROVE FALSE
          OBVIOUS
        <4>1. FrameOf(k) <= FrameNow
          BY <1>1, <1>3, <3>0, <3>1, PlaceOrder
        <4> QED  BY <1>3, <2>3, <3>1, <4>1
      <3>3. ~(i <= k)
        <4> SUFFICES ASSUME i <= k PROVE FALSE
          OBVIOUS
        <4>1. FrameOf(i) <= FrameOf(k)
          BY <1>1, <1>3, <3>0, <3>1, PlaceOrder
        <4> QED  BY <1>3, <2>3, <3>1, <4>1
      <3>4. k \in next .. i - 1
        BY <1>1, <3>0, <3>2, <3>3
      <3> QED  BY <3>1, <3>4
    <2>4. ASSUME FrameNow < FrameOf(i), Place # L
          PROVE  FrameNow \in gone
      <3>1. FrameOf(next) = FrameNow /\ i # next
        BY <1>3, <2>2, <2>4
      <3>2. next \in next .. i - 1
        BY <1>1, <1>5, <3>1
      <3> QED  BY <3>1, <3>2
    <2>5. ASSUME i # next, PlaceOf(i) # 1
          PROVE  FrameOf(i) \in gone
      <3> DEFINE k == i - 1
      <3>1. k \in Int /\ k + 1 = i /\ k \in next .. i - 1
        BY <1>1, <1>5, <2>5
      <3> HIDE DEF k
      <3>2. FrameOf(k) = FrameOf(i)
        BY <2>5, <3>1, NextPlace
      <3> QED  BY <3>1, <3>2
    <2> HIDE DEF gone
    <2> QED  BY <1>2, <1>3, <1>5, <2>1, <2>2, <2>3, <2>4, <2>5
  <1> QED  BY <1>2, <1>4, <1>5

LEMMA TerminatorIs ==
    ASSUME RTPTypeOK, BufferPop(Terminator)
    PROVE  FrameOf(Terminator) = Frames + 1 /\ FrameNow' = Frames /\ Place' = L
  <1>1. next' = Terminator /\ Terminator - 1 = StreamLength /\ StreamLength \in Int
        /\ Terminator = StreamLength + 1
    <2>1. Terminator \in 1 .. Terminator
      BY Ends
    <2> QED  BY <2>1, PopIs, Ends DEF RTPTypeOK
  <1> QED  BY <1>1, Ends, NextPlace DEF FrameNow, Place

(* After any pop the frames before the packet's own are done with, if those *)
(* before this one were and this one was, or was not at its end.            *)
LEMMA EndedBefore ==
    ASSUME RTPTypeOK, NEW i \in 1 .. Terminator, BufferPop(i), parsed' = parsed,
           \A f \in 1 .. FrameNow - 1 : Ended(f),
           Place = L => FrameNow = 0 \/ Ended(FrameNow)
    PROVE  /\ \A f \in 1 .. FrameNow' - 1 : Ended(f)'
           /\ i = Terminator => \A f \in 1 .. Frames : Ended(f)'
  <1>0. /\ next' \in Int
        /\ i # Terminator => FrameNow' = FrameOf(i)
        /\ i = Terminator => FrameNow' = Frames /\ FrameOf(i) = Frames + 1
    BY PoppedIs, TerminatorIs DEF FrameNow
  <1>1. FrameNow \in Int /\ damaged \subseteq damaged' /\ Frames \in Nat /\ FrameOf(i) \in Int
    BY GapIs, Sizes
  <1>2. CASE i = next - 1 /\ i # Terminator /\ next' = next /\ damaged' = damaged
    <2>1. FrameNow' = FrameNow
      BY <1>2 DEF FrameNow
    <2> QED  BY <1>2, <2>1 DEF Ended, Done
  <1>3. CASE i \in next .. Terminator
    <2>0. CASE i = next - 1
      BY <2>0, <1>3, Ends DEF RTPTypeOK
    <2> SUFFICES ASSUME i # next - 1
                 PROVE  /\ \A f \in 1 .. FrameNow' - 1 : Ended(f)'
                        /\ i = Terminator => \A f \in 1 .. Frames : Ended(f)'
      BY <2>0
    <2>1. \A f \in 1 .. FrameOf(i) - 1 : Ended(f)'
      <3> SUFFICES ASSUME NEW f \in 1 .. FrameOf(i) - 1 PROVE Ended(f)'
        OBVIOUS
      <3>1. CASE f < FrameNow
        <4>1. Ended(f)
          BY <1>1, <3>1
        <4> QED  BY <1>1, <4>1 DEF Ended, Done
      <3>2. CASE f = FrameNow /\ Place = L
        BY <1>1, <3>2 DEF Ended, Done
      <3>3. CASE f = FrameNow /\ Place # L
        <4>1. FrameNow < FrameOf(i)
          BY <1>1, <3>3
        <4>2. f \in damaged'
          BY <3>3, <4>1, GapIs
        <4> QED  BY <4>2 DEF Ended, Done
      <3>4. CASE f > FrameNow
        <4>1. f \in Int /\ FrameNow < f /\ f < FrameOf(i)
          BY <1>1, <3>4
        <4>2. f \in damaged'
          BY <4>1, GapIs
        <4> QED  BY <4>2 DEF Ended, Done
      <3> QED  BY <1>1, <3>1, <3>2, <3>3, <3>4
    <2> QED  BY <1>0, <1>1, <2>1
  <1> QED  BY <1>2, <1>3, GapIs

LEMMA LoadMainParsed ==
    ASSUME CutForReceiver, TypeOK, CallInv, ParsedInv,
           NEW i \in 1 .. Terminator, LoadMainPacket(i), UNCHANGED <<loopVars, parseVars>>
    PROVE  ParsedInv'
  <1>1. /\ RTPTypeOK /\ call = "load_main_packet" /\ phase' = "main header" /\ result = "none"
        /\ parsed' = parsed /\ BufferPop(i) /\ L > 2 /\ L \in Nat
    BY TypeIs, CutIs DEF CallInv, LoadMainPacket, loopVars, parseVars
  <1>1a. next \in Int /\ Terminator \in Int
    BY TypeIs, Ends
  <1>2. Place = 1 \/ FrameNow \in damaged \cup {0}
    BY <1>1 DEF ParsedInv
  <1>3. /\ \A f \in 1 .. FrameNow' - 1 : Ended(f)'
        /\ i = Terminator => \A f \in 1 .. Frames : Ended(f)'
    <2>1. \A f \in 1 .. FrameNow - 1 : Ended(f)
      BY DEF ParsedInv
    <2>2. Place = L => FrameNow = 0 \/ Ended(FrameNow)
      <3> SUFFICES ASSUME Place = L PROVE FrameNow = 0 \/ Ended(FrameNow)
        OBVIOUS
      <3>0. L # 1
        <4>1. L \in Nat /\ L > 2
          BY CutIs
        <4> QED  BY <4>1
      <3>1. FrameNow \in damaged \/ FrameNow = 0
        BY <1>2, <3>0
      <3> QED  BY <3>1 DEF Ended, Done
    <2> QED  BY <1>1, <2>1, <2>2, EndedBefore
  <1>4. CASE i = Terminator
    <2>1. call' = "none" /\ result' = "FINISH"
      BY <1>4 DEF LoadMainPacket, Finish, Return
    <2> QED  BY <1>1, <1>3, <1>4, <2>1 DEF ParsedInv
  <1>5. CASE i # Terminator
    <2>1. /\ pre_sequence_number' = get_extended_sequence_number(next' - 1)
          /\ Place' = PlaceOf(i) /\ FrameNow' = FrameOf(i) /\ Pkt(i) = Layout[Place']
          /\ Place' \in 1 .. L
      <3>1. i = next' - 1 /\ next' - 1 \in Int
        BY <1>1, <1>5, PoppedIs
      <3> QED  BY <1>5, <3>1, PlaceIs DEF LoadMainPacket, Finish, Place, FrameNow, Pkt
    <2>2. result' # "FINISH"
      BY <1>1, <1>5 DEF LoadMainPacket, Finish, Return, PushBack, Stay
    <2>3. ASSUME call' = "load_main_packet"
          PROVE  Place' = 1 \/ FrameNow' \in damaged' \cup {0}
      <3>1. ~(~Pkt(i).MH /\ Pkt(i).ORDB)
        BY <1>5, <2>3 DEF LoadMainPacket, Finish, Return, PushBack, Stay
      <3>2. Place' # 2
        BY <2>1, <3>1, CutIs
      <3>3. CASE i = next - 1 /\ i # Terminator /\ next' = next /\ damaged' = damaged
        BY <1>2, <3>3 DEF Place, FrameNow
      <3>4. CASE i = next
        <4>1. IF Place = L THEN PlaceOf(i) = 1
              ELSE PlaceOf(i) = Place + 1 /\ FrameOf(i) = FrameNow
          <5>1. i # next - 1
            BY <1>1a, <3>4
          <5> QED  BY <1>1, <3>4, <5>1, GapIs
        <4>2. damaged \subseteq damaged' /\ Place \in 1 .. L
          BY <1>1, GapIs
        <4>3. CASE Place = L
          BY <2>1, <4>1, <4>3
        <4>4. CASE Place # L
          <5>1. Place # 1
            BY <2>1, <3>2, <4>1, <4>4
          <5> QED  BY <1>2, <2>1, <4>1, <4>2, <4>4, <5>1
        <4> QED  BY <4>3, <4>4
      <3>5. CASE i # next /\ i \in next .. Terminator
        <4>1. i # next - 1
          BY <1>1a, <3>5
        <4> QED  BY <1>1, <2>1, <3>5, <4>1, GapIs
      <3> QED  BY <1>1, <3>3, <3>4, <3>5, GapIs
    <2> QED  BY <1>1, <1>3, <2>1, <2>2, <2>3 DEF ParsedInv
  <1> QED  BY <1>4, <1>5

(* The packet that comes next is always taken for in sequence.              *)
LEMMA NextPasses ==
    ASSUME RTPTypeOK
    PROVE  check_rtp_sequence(get_extended_sequence_number(next - 1),
                              get_extended_sequence_number(next))
  <1> DEFINE m == ex_sequence_max + 1
             a == FirstSequence + (next - 1) - 1
             p == a % m
             q == (a + 1) % m
  <1>1. m \in Nat \ {0} /\ a \in Int /\ a + 1 \in Int /\ FirstSequence + next - 1 = a + 1
        /\ ex_sequence_max = m - 1 /\ ex_sequence_max \in Nat
    BY Constants, Ends DEF RTPTypeOK
  <1>2. get_extended_sequence_number(next - 1) = p /\ get_extended_sequence_number(next) = q
    BY <1>1 DEF get_extended_sequence_number
  <1> HIDE DEF m, a
  <1>3. p \in 0 .. m - 1 /\ a = m * (a \div m) + p /\ a \div m \in Int
    BY <1>1, DivMod
  <1>4. q \in 0 .. m - 1 /\ a + 1 = m * ((a + 1) \div m) + q /\ (a + 1) \div m \in Int
    BY <1>1, DivMod
  <1>5. CASE p = m - 1
    BY <1>1, <1>2, <1>5 DEF check_rtp_sequence
  <1>6. CASE p # m - 1
    <2> DEFINE d == a \div m
    <2>1. m * d <= a + 1 /\ a + 1 < m * d + m /\ d \in Int /\ m * d \in Int
      <3>1. d \in Int /\ m * d \in Int
        BY <1>1, <1>3
      <3> DEFINE x == m * d
      <3>2. a = x + p /\ x \in Int
        BY <1>3, <3>1
      <3> HIDE DEF x, p
      <3>3. x <= a + 1 /\ a + 1 < x + m
        BY <1>1, <1>3, <1>6, <3>2
      <3> QED  BY <3>1, <3>3 DEF x
    <2> HIDE DEF d
    <2>2. (a + 1) \div m = d
      BY <1>1, <2>1, DivUnique
    <2>3. a + 1 = m * d + q /\ a = m * d + p
      BY <1>3, <1>4, <2>2 DEF d
    <2> HIDE DEF p, q
    <2>4. q = p + 1
      <3> DEFINE x == m * d
      <3>1. a + 1 = x + q /\ a = x + p /\ x \in Int
        BY <2>1, <2>3
      <3> HIDE DEF x
      <3> QED  BY <1>1, <1>3, <1>4, <3>1
    <2> QED  BY <1>2, <2>4 DEF check_rtp_sequence
  <1> QED  BY <1>5, <1>6

LEMMA LoadBodyParsed ==
    ASSUME CutForReceiver, TypeOK, CallInv, AlignedInv, ParsedInv,
           NEW i \in 1 .. Terminator, LoadBodyPacket(i), UNCHANGED <<loopVars, parseVars>>,
           ~unnoticed'
    PROVE  ParsedInv'
  <1>1. /\ RTPTypeOK /\ phase = "body" /\ phase' = "body" /\ call = "load_body_packet"
        /\ result = "none" /\ table_index' = table_index /\ parsed' = parsed
        /\ BufferPop(i)
    BY DEF TypeOK, CallInv, LoadBodyPacket, loopVars, parseVars
  <1>1a. next \in Int /\ Terminator \in Int
    BY TypeIs, Ends
  <1>2. /\ pre_sequence_number = get_extended_sequence_number(next - 1)
        /\ IF Place = L THEN Ended(FrameNow) ELSE Done(FrameNow, table_index)
    BY <1>1 DEF ParsedInv
  <1>3. /\ \A f \in 1 .. FrameNow' - 1 : Ended(f)'
        /\ i = Terminator => \A f \in 1 .. Frames : Ended(f)'
    <2>1. \A f \in 1 .. FrameNow - 1 : Ended(f)
      BY DEF ParsedInv
    <2> QED  BY <1>1, <1>2, <2>1, EndedBefore
  <1>4. CASE Finish(i)
    <2>1. i = Terminator /\ call' = "none" /\ result' = "FINISH"
      BY <1>4 DEF Finish, Return
    <2> QED  BY <1>1, <1>3, <2>1 DEF ParsedInv
  <1>5. CASE i # Terminator /\ InSequence(i)
    <2>1. /\ pre_sequence_number' = get_extended_sequence_number(next' - 1)
          /\ damaged' = damaged /\ i = next' - 1
      BY <1>1, <1>5, InSequenceIs DEF LoadBodyPacket, Finish
    <2>2. CASE call' = "none" /\ result' = "MAIN_HEADER"
      BY <1>1, <1>3, <2>1, <2>2 DEF ParsedInv
    <2>3. CASE /\ Place # L /\ FrameNow' = FrameNow
               /\ \/ call' = "none" /\ result' = "SUCCESS"
                  \/ UNCHANGED <<call, result>> /\ Place' # L
      <3>1. Done(FrameNow, table_index)
        BY <1>2, <2>3
      <3>2. Done(FrameNow, table_index)'
        BY <1>1, <2>1, <2>3, <3>1 DEF Done
      <3> QED  BY <1>1, <1>3, <2>1, <2>3, <3>2 DEF ParsedInv
    <2> QED  BY <1>1, <1>5, <2>2, <2>3, InSequenceIs
  <1>6. CASE /\ i # Terminator /\ OutOfSequence(i)
             /\ pre_sequence_number' = get_extended_sequence_number(i)
             /\ ~check_rtp_sequence(pre_sequence_number, get_extended_sequence_number(i))
    <2> DEFINE c == get_extended_sequence_number(i)
    <2>0. result' \in {"none", "buffer_leak"} /\ (result' = "buffer_leak" => call' = "none")
          /\ call' \in {"none", "discard"}
          /\ (LossTooLarge(pre_sequence_number, c) => call' = "none")
      BY <1>1, <1>6 DEF OutOfSequence, Return
    <2>1. CASE i = next - 1
      <3>1. pre_sequence_number = c /\ c \in Nat
        BY <1>1, <1>2, <2>1, PacketFields, Constants
      <3>2. c # 0
        BY <1>6, <3>1 DEF check_rtp_sequence
      <3> HIDE DEF c
      <3>3. LossTooLarge(pre_sequence_number, c)
        BY <3>1, <3>2 DEF LossTooLarge
      <3> QED  BY <1>1, <1>3, <2>0, <3>3 DEF ParsedInv
    <2>2. CASE i = next
      BY <1>1, <1>2, <1>6, <2>2, NextPasses
    <2>3. CASE i # next - 1 /\ i # next
      <3>1. Place' = PlaceOf(i) /\ FrameNow' = FrameOf(i)
        BY <1>1, <1>6, PoppedIs DEF Place, FrameNow
      <3>2. Place' = 1 \/ FrameNow' \in damaged'
        BY <1>1, <2>3, <3>1, GapIs
      <3> QED  BY <1>1, <1>3, <2>0, <3>2 DEF ParsedInv
    <2> QED  BY <2>1, <2>2, <2>3
  <1> QED  BY <1>4, <1>5, <1>6 DEF LoadBodyPacket

LEMMA DiscardParsed ==
    ASSUME CutForReceiver, TypeOK, CallInv, ParsedInv,
           NEW i \in 1 .. Terminator, Discard(i), UNCHANGED <<loopVars, parseVars>>
    PROVE  ParsedInv'
  <1>1. /\ RTPTypeOK /\ phase = "body" /\ phase' = "body" /\ call = "discard"
        /\ result = "none" /\ parsed' = parsed /\ BufferPop(i) /\ L > 2 /\ L \in Nat
    BY CutIs DEF TypeOK, CallInv, Discard, loopVars, parseVars
  <1>1a. next \in Int /\ Terminator \in Int
    BY TypeIs, Ends
  <1>2. Place = 1 \/ FrameNow \in damaged
    BY <1>1 DEF ParsedInv
  <1>3. /\ \A f \in 1 .. FrameNow' - 1 : Ended(f)'
        /\ i = Terminator => \A f \in 1 .. Frames : Ended(f)'
    <2>1. \A f \in 1 .. FrameNow - 1 : Ended(f)
      BY DEF ParsedInv
    <2>2. Place = L => Ended(FrameNow)
      BY <1>1, <1>2 DEF Ended, Done
    <2> QED  BY <1>1, <2>1, <2>2, EndedBefore
  <1>4. CASE Finish(i)
    <2>1. i = Terminator /\ call' = "none" /\ result' = "FINISH"
      BY <1>4 DEF Finish, Return
    <2> QED  BY <1>1, <1>3, <2>1 DEF ParsedInv
  <1>5. CASE i # Terminator
    <2>1. /\ Place' = PlaceOf(i) /\ FrameNow' = FrameOf(i) /\ Pkt(i) = Layout[Place']
          /\ Place' \in 1 .. L /\ i = next' - 1
      <3>1. i = next' - 1 /\ next' - 1 \in Int
        BY <1>1, <1>5, PoppedIs
      <3> QED  BY <3>1, PlaceIs DEF Place, FrameNow, Pkt
    <2>2. Place' \in {1, 2} \/ FrameNow' \in damaged'
      <3>3. CASE i = next - 1 /\ i # Terminator /\ next' = next /\ damaged' = damaged
        BY <1>2, <3>3 DEF Place, FrameNow
      <3>4. CASE i = next
        <4>1. IF Place = L THEN PlaceOf(i) = 1
              ELSE PlaceOf(i) = Place + 1 /\ FrameOf(i) = FrameNow
          <5>1. i # next - 1
            BY <1>1a, <3>4
          <5> QED  BY <1>1, <3>4, <5>1, GapIs
        <4> QED  BY <1>1, <1>2, <2>1, <4>1, GapIs
      <3>5. CASE i # next /\ i \in next .. Terminator
        <4>1. i # next - 1
          BY <1>1a, <3>5
        <4> QED  BY <1>1, <2>1, <3>5, <4>1, GapIs
      <3> QED  BY <1>1, <3>3, <3>4, <3>5, GapIs
    <2>3. /\ Layout[Place'].MH <=> Place' = 1
          /\ Layout[Place'].ORDB => Place' # 1
          /\ Place' = 2 => Layout[Place'].ORDB
      BY <2>1, CutIs
    <2>4. CASE ~Pkt(i).MH /\ Pkt(i).ORDB
      <3>1. /\ pre_sequence_number' = get_extended_sequence_number(next' - 1)
            /\ call' = "none" /\ result' \in {"FAILURE", "aborted"}
        BY <1>5, <2>1, <2>4 DEF Discard, Finish, PushBack, Return
      <3> QED  BY <1>1, <1>3, <2>1, <2>2, <2>3, <2>4, <3>1 DEF ParsedInv
    <2>5. CASE ~(~Pkt(i).MH /\ Pkt(i).ORDB)
      <3>1. UNCHANGED <<call, result>>
        BY <1>5, <2>5 DEF Discard, Finish, Stay
      <3>2. Place' = 1 \/ FrameNow' \in damaged'
        BY <2>1, <2>2, <2>3, <2>5
      <3> QED  BY <1>1, <1>3, <3>1, <3>2 DEF ParsedInv
    <2> QED  BY <2>4, <2>5
  <1> QED  BY <1>4, <1>5 DEF Discard, Finish

(* On SUCCESS the entries up to the resync point are parsed, if the frame   *)
(* is intact.                                                               *)
LEMMA SuccessParsed ==
    ASSUME CutForReceiver, CarriesCodestream, TypeOK, ResyncInv, AlignedInv, DataInv, ParsedInv,
           Success, ~leaked'
    PROVE  LET t == FirstWithPID(table_index, PID)
           IN  /\ ParsedUpTo(t) /\ parsed \subseteq parsed'
               /\ FrameNow \in damaged \/ {FrameNow} \X (0 .. t - 1) \subseteq parsed'
  <1> DEFINE data == FlattenSeq(j2k_packets)
             t == FirstWithPID(table_index, PID)
             frames == {f \in 1 .. Frames : Holds(data, f, table_index, t)}
             n == Needed(table_index, t)
  <1>1. phase = "body" /\ result = "SUCCESS" /\ Done(FrameNow, table_index)
    BY DEF Success, ParsedInv
  <1>2. /\ frames # {} \/ ~(n > 0)
        /\ Place # 2 /\ FrameNow \in 1 .. Frames => FrameNow \in frames
        /\ Place = 2 => t = 0
    BY <1>1, SuccessHolds
  <1>3. ParsedUpTo(t) /\ parsed' = parsed \cup (frames \X (table_index .. t - 1))
    BY <1>2 DEF Success, Leaked
  <1>4. /\ Place \in 2 .. L /\ table_index = Entry(Place - 1) /\ table_index \in Index
        /\ next - 1 \in 0 .. StreamLength /\ t \in 0 .. TableSize /\ table_index <= t
    <2>1. table_index \in 0 .. TableSize
      BY TypeIs, Sizes
    <2> QED  BY <1>1, <2>1, SuccessIs, FirstInTable, TypeIs
  <1> HIDE DEF frames, t, n, data
  <1>5. CASE FrameNow \in damaged
    BY <1>3, <1>5 DEF t
  <1>6. CASE Place = 2
    BY <1>2, <1>3, <1>6 DEF t
  <1>7. CASE FrameNow \notin damaged /\ Place # 2
    <2>1. {FrameNow} \X (0 .. table_index - 1) \subseteq parsed
      BY <1>1, <1>7 DEF Done
    <2>2. FrameNow \in 1 .. Frames
      <3>1. CASE next - 1 = 0
        <4>1. FrameNow = 0 /\ Place = L
          BY <3>1, Ends DEF FrameNow, Place
        <4>2. table_index > 0 /\ table_index \in Nat
          BY <1>4, <4>1, CutIs, Sizes
        <4>3. <<FrameNow, 0>> \in parsed
          BY <2>1, <4>2
        <4>4. parsed \subseteq (1 .. Frames) \X Index
          BY DEF TypeOK
        <4> QED  BY <4>3, <4>4
      <3>2. CASE next - 1 # 0
        <4>1. next - 1 \in 1 .. StreamLength
          <5>1. StreamLength \in Nat
            BY Ends
          <5> DEFINE m == next - 1
          <5>2. m \in 0 .. StreamLength /\ m # 0
            BY <1>4, <3>2
          <5> HIDE DEF m
          <5>3. m \in 1 .. StreamLength
            BY <5>1, <5>2
          <5> QED  BY <5>3 DEF m
        <4>2. FrameOf(next - 1) \in 1 .. Frames
          BY <4>1, FrameRange
        <4> QED  BY <3>2, <4>2 DEF FrameNow
      <3> QED  BY <3>1, <3>2
    <2>3. FrameNow \in frames
      BY <1>2, <1>7, <2>2
    <2>4. 0 .. t - 1 \subseteq (0 .. table_index - 1) \cup (table_index .. t - 1)
      BY <1>4, Sizes
    <2>5. {FrameNow} \X (0 .. t - 1) \subseteq parsed'
      BY <1>3, <2>1, <2>3, <2>4
    <2> QED  BY <1>3, <2>5 DEF t
  <1> QED  BY <1>5, <1>6, <1>7

Complete == ~unnoticed /\ ~headless /\ ~leaked => ParsedInv

LEMMA ParsedStep ==
    CutForReceiver /\ CarriesCodestream /\ TypeOK /\ CallInv /\ ResyncInv /\ Aligned /\ Readable
        /\ Complete /\ [Next]_vars => Complete'
  <1> SUFFICES ASSUME CutForReceiver, CarriesCodestream, TypeOK, CallInv, ResyncInv, Aligned,
                      Readable, Complete, [Next]_vars, ~unnoticed', ~headless', ~leaked'
               PROVE  ParsedInv'
    BY DEF Complete
  <1>1. CASE LoadPacket
    <2>1. PICK i \in 1 .. Terminator : Load(i)
      BY <1>1 DEF LoadPacket
    <2>2. UNCHANGED <<loopVars, parseVars>> /\ ~leaked
      BY <1>1 DEF LoadPacket, parseVars
    <2>3. CASE LoadMainPacket(i)
      <3>1. ~unnoticed /\ ~headless
        BY <2>3 DEF LoadMainPacket, CallInv
      <3> QED  BY <2>2, <2>3, <3>1, LoadMainParsed DEF Complete
    <2>4. CASE LoadBodyPacket(i)
      <3>1. ~unnoticed /\ ~headless
        BY <2>4 DEF LoadBodyPacket, Finish, InSequence, OutOfSequence, gapVars
      <3> QED  BY <2>2, <2>4, <3>1, LoadBodyParsed DEF Aligned, Complete
    <2>5. CASE Discard(i)
      <3>1. ~unnoticed /\ ~headless
        BY <2>5 DEF Discard, Finish, gapVars
      <3> QED  BY <2>2, <2>5, <3>1, DiscardParsed DEF Complete
    <2> QED  BY <2>1, <2>3, <2>4, <2>5 DEF Load
  <1>2. CASE ~LoadPacket
    <2>0. AlignedInv /\ DataInv /\ ParsedInv /\ L > 2
      <3>1. UNCHANGED gapVars
        BY <1>2 DEF Next, ReadMainHeader, Success, MainHeader, Failure, Catch, Dest, Finished,
                    Abort, vars, rtpVars
      <3>2. leaked => leaked'
        <4>1. CASE Success
          BY <4>1 DEF Success, Leaked
        <4>2. CASE Catch
          BY <4>2 DEF Catch, Leaked
        <4>3. CASE ReadMainHeader \/ MainHeader \/ Failure
          BY <4>3 DEF ReadMainHeader, MainHeader, Failure, parseVars
        <4>4. CASE Dest \/ Finished \/ Abort \/ UNCHANGED vars
          BY <4>4 DEF Dest, Finished, Abort, vars, parseVars
        <4> QED  BY <1>2, <4>1, <4>2, <4>3, <4>4 DEF Next
      <3>3. L > 2
        BY CutIs
      <3> QED  BY <3>1, <3>2, <3>3 DEF Aligned, Readable, Complete, gapVars
    <2>1. ASSUME phase' = "body", call' = "load_body_packet", result' = "none", damaged' = damaged,
                 next' = next, pre_sequence_number' = pre_sequence_number,
                 parsed \subseteq parsed', result \in {"MAIN_HEADER", "SUCCESS", "FAILURE"},
                 FrameNow \in damaged
                    \/ {FrameNow} \X (0 .. (IF Place = L THEN TableSize ELSE table_index') - 1)
                          \subseteq parsed'
          PROVE  ParsedInv'
      <3>1. Place' = Place /\ FrameNow' = FrameNow
        BY <2>1 DEF Place, FrameNow
      <3>2. \A f \in 1 .. FrameNow' - 1 : Ended(f)'
        BY <2>0, <2>1, <3>1 DEF ParsedInv, Ended, Done
      <3>3. IF Place' = L THEN Ended(FrameNow)' ELSE Done(FrameNow, table_index)'
        BY <2>1, <3>1 DEF Ended, Done
      <3>4. pre_sequence_number' = get_extended_sequence_number(next' - 1)
        BY <2>0, <2>1 DEF ParsedInv
      <3> QED  BY <2>1, <3>2, <3>3, <3>4 DEF ParsedInv
    <2>2. CASE ReadMainHeader
      <3>1. StartsWithMainHeader(FlattenSeq(j2k_packets)) /\ Place = 2 /\ table_index = 0
        BY <2>0, <2>2 DEF ReadMainHeader, DataInv, AlignedInv, CallInv
      <3>1a. L # 2
        BY CutIs
      <3>1b. garbage' = FALSE
        BY <2>2, <3>1 DEF ReadMainHeader
      <3>2. /\ CallLoadBody(EraseAllButLast) /\ table_index' = 0 /\ Place # L
            /\ UNCHANGED <<networkVars, pre_sequence_number, parsed>> /\ result = "MAIN_HEADER"
        BY <2>2, <3>1, <3>1a, <3>1b DEF ReadMainHeader
      <3>3. {FrameNow} \X (0 .. 0 - 1) \subseteq parsed'
        OBVIOUS
      <3> QED  BY <2>1, <3>2, <3>3 DEF CallLoadBody, networkVars
    <2>3. CASE Success
      <3> DEFINE t == FirstWithPID(table_index, PID)
      <3>1. /\ ParsedUpTo(t) /\ parsed \subseteq parsed'
            /\ FrameNow \in damaged \/ {FrameNow} \X (0 .. t - 1) \subseteq parsed'
        BY <2>0, <2>3, SuccessParsed
      <3>2. /\ phase = "body" /\ result = "SUCCESS"
            /\ UNCHANGED <<networkVars, pre_sequence_number>>
        BY <2>3 DEF Success
      <3>3. IF Place = L THEN t = TableSize ELSE t # TableSize
        BY <2>0, <3>2, SuccessIs
      <3> HIDE DEF t
      <3>4. /\ phase' = "body" /\ call' = "load_body_packet" /\ result' = "none"
            /\ t # TableSize => table_index' = t
        BY <3>1 DEF ParsedUpTo, CallLoadBody
      <3>5. t = IF Place = L THEN TableSize ELSE table_index'
        BY <3>3, <3>4
      <3> QED  BY <2>1, <3>1, <3>2, <3>4, <3>5 DEF networkVars
    <2>4. CASE MainHeader
      <3>1. /\ CallLoadBody(EraseAllButLast) /\ table_index' = 0 /\ Place # L
            /\ UNCHANGED <<networkVars, pre_sequence_number, parsed>> /\ result = "MAIN_HEADER"
        BY <2>0, <2>4 DEF MainHeader, AlignedInv, parseVars
      <3>2. {FrameNow} \X (0 .. 0 - 1) \subseteq parsed'
        OBVIOUS
      <3> QED  BY <2>1, <3>1, <3>2 DEF CallLoadBody, networkVars
    <2>5. CASE Failure
      <3>1. /\ CallLoadBody(EraseAllButLast) /\ SkipToPID /\ phase = "body" /\ result = "FAILURE"
            /\ UNCHANGED <<networkVars, pre_sequence_number, parsed>>
        BY <2>5 DEF Failure, parseVars
      <3>2. /\ Place \in 2 .. L - 1 /\ table_index' = Entry(Place)
            /\ Place = 2 \/ FrameNow \in damaged
        BY <2>0, <3>1, FailureIs DEF ParsedInv
      <3>3. Place # L /\ (Place = 2 => table_index' = 0)
        BY <3>2, CutIs
      <3>4. {FrameNow} \X (0 .. 0 - 1) \subseteq parsed'
        OBVIOUS
      <3> QED  BY <2>1, <3>1, <3>2, <3>3, <3>4 DEF CallLoadBody, networkVars
    <2>6. CASE Catch
      BY <2>6 DEF Catch, Leaked
    <2>7. CASE Dest
      BY <2>0, <2>7 DEF Dest, ParsedInv
    <2>8. CASE Finished \/ Abort
      <3>1. UNCHANGED <<rtpVars, table_index, parseVars>>
        BY <2>8 DEF Finished, Abort
      <3>2. /\ phase' = "finished" => result = "FINISH"
            /\ phase' \in {"finished", "aborted"}
        BY <2>8 DEF Finished, Abort
      <3> QED  BY <2>0, <3>1, <3>2 DEF ParsedInv, Ended, Done, FrameNow, Place, rtpVars, networkVars,
                                      receiverVars, parseVars
    <2>9. CASE UNCHANGED vars
      BY <2>0, <2>9 DEF vars, rtpVars, networkVars, receiverVars, loopVars, parseVars, ParsedInv,
                        Ended, Done, Place, FrameNow
    <2> QED  BY <1>2, <2>2, <2>3, <2>4, <2>5, <2>6, <2>7, <2>8, <2>9 DEF Next
  <1> QED  BY <1>1, <1>2

(* A frame that lost no packet is parsed from its first precinct to its     *)
(* last, whatever was lost around it, unless a gap went unnoticed, the      *)
(* stream was joined in the middle or buffer_leak was thrown.               *)
THEOREM IntactFramesCorrect ==
    CutForReceiver /\ CarriesCodestream => (Spec => []IntactFramesAreParsed)
  <1> SUFFICES ASSUME CutForReceiver, CarriesCodestream PROVE Spec => []IntactFramesAreParsed
    OBVIOUS
  <1>0. InTableOrder
    BY CutIs
  <1>1. Init => /\ TypeOK /\ CallInv /\ ResyncInv /\ Aligned /\ Readable /\ Complete
    <2>1. Init => Aligned /\ Readable
      BY DEF Init, RTPInit, Aligned, AlignedInv, Readable, DataInv
    <2>2. Init => Complete
      <3> SUFFICES ASSUME Init PROVE ParsedInv
        BY DEF Complete
      <3>1. next = 1 /\ call = "load_main_packet" /\ result = "none" /\ phase = "main header"
        BY DEF Init, RTPInit
      <3>2. next = 1
        BY <3>1
      <3>3. FrameNow = 0
        BY <3>2, Ends DEF FrameNow, FrameOf
      <3>4. \A f \in 1 .. FrameNow - 1 : Ended(f)
        BY <3>3
      <3> QED  BY <3>1, <3>3, <3>4 DEF ParsedInv
    <2> QED  BY <2>1, <2>2, InitType, InitOrder DEF OrderInv
  <1>2. TypeOK /\ CallInv /\ ResyncInv /\ Aligned /\ Readable /\ Complete /\ [Next]_vars
           => TypeOK' /\ CallInv' /\ ResyncInv' /\ Aligned' /\ Readable' /\ Complete'
    BY <1>0, StepType, CallStep, ResyncStep, AlignedStep, DataStep, ParsedStep
  <1>3. Complete => IntactFramesAreParsed
    <2> SUFFICES ASSUME Complete, phase = "finished" /\ ~unnoticed /\ ~headless /\ ~leaked
                 PROVE  ((1 .. Frames) \ damaged) \X Index \subseteq parsed
      BY DEF IntactFramesAreParsed
    <2>1. \A f \in 1 .. Frames : Ended(f)
      BY DEF Complete, ParsedInv
    <2> QED  BY <2>1 DEF Ended, Done, Index
  <1> QED  BY <1>1, <1>2, <1>3, PTL DEF Spec

================================================================================
