------------------------------ MODULE BitReader ------------------------------
(***************************************************************************)
(* J2kBuf (codestream.hpp, codestream/j2kbuf.cpp): the bit and byte reader *)
(* over the RTP payloads a frame arrived in, and RTPReceiver::pop, which   *)
(* hands it the next payload.                                              *)
(*                                                                         *)
(* A reader is a record: segs, the payloads in arrival order; pos, how     *)
(* many of them pop has handed out; cur, the payload being read            *)
(* (buf_ptr, buf_length); byte_pos; bit_pos, a one-bit mask; bit_purge,    *)
(* the last byte fetched for bits; val, what the last read returned; and   *)
(* st: "ok", "leak" once buffer_leak was thrown, or "undefined" once the   *)
(* code has read outside a payload.  An operation on a reader that is not  *)
(* "ok" does not happen: the exception has left the caller.                *)
(***************************************************************************)
EXTENDS Integers, Sequences, SequencesExt, FiniteSetsExt

CONSTANT FollowLimit   \* payloads make_packet_data goes on into (5 in the code)

Msb == 128             \* 0x80, the mask of a byte not begun

\* J2kBuf buf(&rtp_recv): nothing popped yet, so the first read receives.
NewReader(segs) ==
    [segs |-> segs, pos |-> 0, cur |-> <<>>, byte_pos |-> 0, bit_pos |-> Msb,
     bit_purge |-> 0, val |-> 0, st |-> "ok"]

Ok(b) == b.st = "ok"
Leak(b) == [b EXCEPT !.st = "leak"]
Undefined(b) == [b EXCEPT !.st = "undefined"]

\* RTPReceiver::pop: one empty payload is skipped, the one after it is taken
\* without asking whether there is one.
pop(b) ==
    LET Take(n) == [b EXCEPT !.pos = n, !.cur = b.segs[n]]
    IN  IF b.pos >= Len(b.segs) THEN Leak(b)
        ELSE IF b.segs[b.pos + 1] # <<>> THEN Take(b.pos + 1)
        ELSE IF b.pos + 1 < Len(b.segs) THEN Take(b.pos + 2)
        ELSE Undefined(b)

\* Mutant: the last byte is forgotten at the end of a payload.
receiveForgetful(b) == pop([b EXCEPT !.byte_pos = 0, !.bit_pos = Msb, !.bit_purge = 0])

receive(b) == pop([b EXCEPT !.byte_pos = 0, !.bit_pos = Msb])

\* termination_check(): at most one payload is fetched, empty or not.
termination_check(b) == IF b.byte_pos < Len(b.cur) THEN b ELSE receive(b)

advance_byte_pos(b, n) == [b EXCEPT !.byte_pos = @ + n]
step(b, n) == IF Ok(b) THEN advance_byte_pos(b, n) ELSE b

\* The reader at a byte of its payload, after termination_check.
AtByte(b) == IF Ok(b) /\ b.byte_pos >= Len(b.cur) THEN Undefined(b) ELSE b
Reach(b) == IF Ok(b) THEN AtByte(termination_check(b)) ELSE b
Byte(b) == b.cur[b.byte_pos + 1]

\* A fetch for bits: after 0xFF the first bit of the next byte is stuffing.
Fetch(b) ==
    IF ~Ok(b) THEN b
    ELSE [b EXCEPT !.bit_pos = IF b.bit_purge = 255 THEN @ \div 2 ELSE @,
                   !.bit_purge = Byte(b)]

\* The bit under the mask; a payload position passed with the last one.
TakeBit(b) ==
    IF ~Ok(b) THEN b
    ELSE [b EXCEPT !.val = (b.bit_purge \div b.bit_pos) % 2,
                   !.bit_pos = IF @ = 1 THEN Msb ELSE @ \div 2,
                   !.byte_pos = IF b.bit_pos = 1 THEN @ + 1 ELSE @]

get_bit(b) == TakeBit(IF b.bit_pos = Msb THEN Fetch(Reach(b)) ELSE b)

\* Read(b) n times, the values put together most significant first.
Join(p, q, radix) == IF Ok(q) THEN [q EXCEPT !.val = p.val * radix + @] ELSE q
Repeat(b, n, Read(_), radix) ==
    LET More(p) == Join(p, Read(p), radix)
        f[i \in 0 .. n] == IF i = 0 THEN [b EXCEPT !.val = 0] ELSE More(f[i - 1])
    IN  f[n]

get_bits(b, n) == Repeat(b, n, get_bit, 2)

\* get_byte(): (bit_pos | 0x7F) is never 0, so a byte begun is read again
\* from its first bit.
TakeByte(b) ==
    IF Ok(b) THEN advance_byte_pos([b EXCEPT !.val = Byte(b)], 1) ELSE b
get_byte(b) == TakeByte(Reach([b EXCEPT !.bit_pos = Msb]))

get_bytes(b, n) == Repeat(b, n, get_byte, 256)

\* Mutant: the rest of a byte begun is not dropped.
r_fillNot(b) == b

r_fill(b) ==
    IF Ok(b) /\ b.bit_pos # Msb
    THEN advance_byte_pos([b EXCEPT !.bit_pos = Msb], 1) ELSE b

check_FF(b) == IF Ok(b) /\ b.bit_purge = 255 THEN get_bit(b) ELSE b

\* The payloads make_packet_data goes on into: cpd bytes of the code-block
\* are still to come, cplen of them were in the payload looked at last.
FollowOne(p) ==
    LET n == Min({p.cpd, Len(p.b.cur)})
    IN  IF ~p.more \/ ~Ok(p.b) THEN p
        ELSE [b |-> IF p.cpd - n # 0 THEN receive(p.b) ELSE p.b,
              cpd |-> p.cpd - n, cplen |-> n, more |-> p.cpd - n # 0]
Follow(b, len) ==
    LET here == Len(b.cur) - b.byte_pos
        f[i \in 0 .. FollowLimit] ==
          IF i = 0 THEN [b |-> receive(b), cpd |-> len - here, cplen |-> here, more |-> TRUE]
          ELSE FollowOne(f[i - 1])
    IN  f[FollowLimit]

PacketData(b, len) ==
    IF ~Ok(b) THEN b
    ELSE IF b.byte_pos + len <= Len(b.cur) THEN advance_byte_pos(b, len)
    ELSE LET e == Follow(b, len) IN step(e.b, e.cplen)

make_packet_data(b, len) == PacketData(r_fill(b), len)

-----------------------------------------------------------------------------
\* The stream the payloads carry, and where in it a reader stands, in bits.
Stream(segs) == FlattenSeq(segs)

OneSegment(segs) == IF Stream(segs) = <<>> THEN <<>> ELSE <<Stream(segs)>>

Offset(segs, n) == Len(Stream(SubSeq(segs, 1, n)))
Position(b) == (IF b.pos = 0 THEN 0 ELSE Offset(b.segs, b.pos - 1)) + b.byte_pos
BitsOf(m) == CHOOSE n \in 0 .. 7 : 2 ^ (7 - n) = m
Consumed(b) == 8 * Position(b) + BitsOf(b.bit_pos)

\* Payloads the program copes with: no two empty ones follow each other and
\* the last is not empty (pop skips one only), and their number is within
\* what make_packet_data follows.
NumNonEmpty(segs, n) == Cardinality({i \in 1 .. n : segs[i] # <<>>})
Within(segs) ==
    /\ \A i \in 1 .. Len(segs) : segs[i] = <<>> => (i < Len(segs) /\ segs[i + 1] # <<>>)
    /\ NumNonEmpty(segs, Len(segs)) <= FollowLimit + 1
=============================================================================
