----------------------------- MODULE BitReaderProofs -----------------------------
(***************************************************************************)
(* The bit reader and the packet reader over payloads: each operation does *)
(* the same on a stream however it is cut into payloads, within the limits *)
(* the program copes with.                                                 *)
(***************************************************************************)
EXTENDS PacketReader, CommonLemmas, FiniteSetTheorems, TLAPS

Payloads == Seq(Seq(Nat))

--------------------------------------------------------------------------------
(* Where the payloads are in the stream. *)

LEMMA SubSeqNext ==
    ASSUME NEW V, NEW P \in Seq(V), NEW n \in 0 .. Len(P) - 1
    PROVE  /\ SubSeq(P, 1, n) \in Seq(V) /\ P[n + 1] \in V
           /\ SubSeq(P, 1, n + 1) = SubSeq(P, 1, n) \o <<P[n + 1]>>
  <1> DEFINE s == SubSeq(P, 1, n)
             t == SubSeq(P, 1, n + 1)
             u == s \o <<P[n + 1]>>
  <1>1. Len(P) \in Nat /\ n + 1 \in 1 .. Len(P) /\ n \in 0 .. Len(P) /\ P[n + 1] \in V
    OBVIOUS
  <1>2. s \in Seq(V) /\ Len(s) = n /\ \A i \in 1 .. n : s[i] = P[i]
    BY <1>1
  <1>3. t \in Seq(V) /\ Len(t) = n + 1 /\ \A i \in 1 .. n + 1 : t[i] = P[i]
    BY <1>1
  <1> HIDE DEF s, t
  <1>4. /\ u \in Seq(V) /\ Len(u) = n + 1 /\ u[n + 1] = P[n + 1]
        /\ \A i \in 1 .. n : u[i] = P[i]
    BY <1>1, <1>2
  <1>5. \A i \in 1 .. n + 1 : u[i] = t[i]
    BY <1>3, <1>4
  <1> HIDE DEF u
  <1>6. u = t
    BY <1>3, <1>4, <1>5, SeqEqual
  <1> QED  BY <1>1, <1>2, <1>6 DEF s, t, u

LEMMA OffsetNext ==
    ASSUME NEW P \in Payloads, NEW n \in 0 .. Len(P) - 1
    PROVE  /\ Stream(SubSeq(P, 1, n)) \in Seq(Nat) /\ P[n + 1] \in Seq(Nat)
           /\ Stream(SubSeq(P, 1, n + 1)) = Stream(SubSeq(P, 1, n)) \o P[n + 1]
           /\ Offset(P, n) \in Nat /\ Offset(P, n + 1) = Offset(P, n) + Len(P[n + 1])
  <1> DEFINE s == SubSeq(P, 1, n)
             a == P[n + 1]
  <1>1. s \in Seq(Seq(Nat)) /\ a \in Seq(Nat) /\ SubSeq(P, 1, n + 1) = s \o <<a>>
    BY SubSeqNext DEF Payloads
  <1> HIDE DEF s, a
  <1>2. FlattenSeq(s) \in Seq(Nat) /\ FlattenSeq(s \o <<a>>) = FlattenSeq(s) \o a
    BY <1>1, FlattenAppended
  <1>3. Len(FlattenSeq(s)) \in Nat
        /\ Len(FlattenSeq(s) \o a) = Len(FlattenSeq(s)) + Len(a)
    BY <1>1, <1>2
  <1> QED  BY <1>1, <1>2, <1>3 DEF s, a, Stream, Offset

LEMMA OffsetEnds ==
    ASSUME NEW P \in Payloads
    PROVE  /\ Len(P) \in Nat /\ Stream(P) \in Seq(Nat) /\ Len(Stream(P)) \in Nat
           /\ Offset(P, 0) = 0 /\ Offset(P, Len(P)) = Len(Stream(P))
           /\ SubSeq(P, 1, Len(P)) = P
  <1>1. Len(P) \in Nat /\ SubSeq(P, 1, Len(P)) = P /\ SubSeq(P, 1, 0) = <<>>
    BY DEF Payloads
  <1>2. Stream(P) \in Seq(Nat)
    BY FlattenAppended, <<>> \in Seq(Nat) DEF Stream, Payloads
  <1>3. Stream(<<>>) = <<>>
    BY DEF Stream, FlattenSeq
  <1>4. Offset(P, 0) = 0 /\ Offset(P, Len(P)) = Len(Stream(P))
    <2>1. Len(<<>>) = 0
      OBVIOUS
    <2> QED  BY <1>1, <1>3, <2>1 DEF Offset
  <1>5. Len(Stream(P)) \in Nat
    BY <1>2, LenProperties
  <1> QED  BY <1>1, <1>2, <1>4, <1>5

Prefix(s, t) == Len(s) <= Len(t) /\ \A k \in 1 .. Len(s) : t[k] = s[k]

(* The stream of the first payloads is a prefix of that of more of them.    *)
LEMMA PrefixOf ==
    ASSUME NEW P \in Payloads, NEW n \in 0 .. Len(P), NEW m \in 0 .. Len(P), n <= m
    PROVE  Prefix(Stream(SubSeq(P, 1, n)), Stream(SubSeq(P, 1, m)))
  <1> DEFINE F(k) == Stream(SubSeq(P, 1, k))
             S == {d \in 0 .. Len(P) - n : Prefix(F(n), F(n + d))}
  <1>0. Len(P) \in Nat /\ Len(P) - n \in Nat /\ n \in Nat
    BY OffsetEnds
  <1>a. \A k \in 0 .. Len(P) : F(k) \in Seq(Nat)
    <2> TAKE k \in 0 .. Len(P)
    <2>1. k \in 0 .. Len(P) - 1 \/ k = Len(P)
      BY <1>0
    <2> QED  BY <2>1, OffsetNext, OffsetEnds
  <1>1. 0 \in S
    <2>1. n + 0 = n /\ F(n) \in Seq(Nat)
      BY <1>a, <1>0
    <2> HIDE DEF F
    <2>2. Prefix(F(n), F(n))
      BY <2>1 DEF Prefix
    <2> QED  BY <1>0, <2>1, <2>2
  <1>2. ASSUME NEW d \in 0 .. (Len(P) - n) - 1, d \in S PROVE d + 1 \in S
    <2>1. n + d \in 0 .. Len(P) - 1 /\ n + (d + 1) = (n + d) + 1 /\ n + d \in 0 .. Len(P)
      BY <1>0
    <2> DEFINE a == P[(n + d) + 1]
    <2>2. F((n + d) + 1) = F(n + d) \o a /\ a \in Seq(Nat)
      BY <2>1, OffsetNext
    <2>3. F(n) \in Seq(Nat) /\ F(n + d) \in Seq(Nat) /\ Prefix(F(n), F(n + d))
      BY <1>a, <1>2, <2>1
    <2> DEFINE x == F(n)
               y == F(n + d)
    <2>4. x \in Seq(Nat) /\ y \in Seq(Nat) /\ Prefix(x, y) /\ a \in Seq(Nat)
      BY <2>2, <2>3
    <2> HIDE DEF F, x, y, a
    <2>5. Prefix(x, y \o a)
      BY <2>4 DEF Prefix
    <2>6. Prefix(F(n), F(n + (d + 1)))
      BY <2>1, <2>2, <2>5 DEF x, y
    <2> QED  BY <1>2, <1>0, <2>6
  <1> HIDE DEF S
  <1>3. \A d \in 0 .. Len(P) - n : d \in S
    BY <1>0, <1>1, <1>2, UpTo
  <1>4. m - n \in 0 .. Len(P) - n /\ n + (m - n) = m
    BY <1>0
  <1> QED  BY <1>3, <1>4 DEF S

LEMMA OffsetGrows ==
    ASSUME NEW P \in Payloads, NEW n \in 0 .. Len(P), NEW m \in 0 .. Len(P), n <= m
    PROVE  Offset(P, n) \in Nat /\ Offset(P, n) <= Offset(P, m)
  <1>1. n \in 0 .. Len(P) - 1 \/ n = Len(P)
    BY OffsetEnds
  <1> QED  BY <1>1, PrefixOf, OffsetNext, OffsetEnds DEF Prefix, Offset

(* The bytes of a payload, in the stream.                                   *)
LEMMA ByteAt ==
    ASSUME NEW P \in Payloads, NEW n \in 0 .. Len(P) - 1, NEW k \in 1 .. Len(P[n + 1])
    PROVE  Stream(P)[Offset(P, n) + k] = P[n + 1][k]
  <1> DEFINE s == Stream(SubSeq(P, 1, n))
             a == P[n + 1]
             t == Stream(SubSeq(P, 1, n + 1))
  <1>1. s \in Seq(Nat) /\ a \in Seq(Nat) /\ t = s \o a /\ Offset(P, n) = Len(s)
    BY OffsetNext DEF Offset
  <1>2. Len(P) \in Nat /\ n + 1 \in 0 .. Len(P) /\ n + 1 <= Len(P) /\ Len(P) \in 0 .. Len(P)
    BY OffsetEnds
  <1>3. Prefix(t, Stream(P))
    BY <1>2, PrefixOf, OffsetEnds
  <1>4. k \in 1 .. Len(a)
    OBVIOUS
  <1> HIDE DEF s, a, t
  <1>5. Len(s) + k \in 1 .. Len(t) /\ t[Len(s) + k] = a[k]
    BY <1>1, <1>4
  <1> QED  BY <1>1, <1>3, <1>5 DEF Prefix, a

(* While a payload is left, so is a byte.                                   *)
LEMMA BytesLeft ==
    ASSUME NEW P \in Payloads, Within(P), NEW n \in 0 .. Len(P) - 1
    PROVE  Offset(P, n) < Len(Stream(P))
  <1>1. /\ Len(P) \in Nat /\ Len(P) - 1 \in 0 .. Len(P) - 1 /\ n <= Len(P) - 1
        /\ Len(P) - 1 \in 0 .. Len(P) /\ n \in 0 .. Len(P) /\ (Len(P) - 1) + 1 = Len(P)
        /\ Len(P) \in 1 .. Len(P)
    BY OffsetEnds
  <1>2. P[Len(P)] # <<>> /\ P[Len(P)] \in Seq(Nat)
    BY <1>1, ~(Len(P) < Len(P)) DEF Within, Payloads
  <1>3. Len(P[Len(P)]) > 0
    BY <1>2
  <1>4. Offset(P, Len(P) - 1) \in Nat
        /\ Offset(P, Len(P)) = Offset(P, Len(P) - 1) + Len(P[Len(P)])
    BY <1>1, OffsetNext
  <1>5. Offset(P, n) \in Nat /\ Offset(P, n) <= Offset(P, Len(P) - 1)
    BY <1>1, OffsetGrows
  <1>6. Len(P[Len(P)]) \in Nat /\ Offset(P, Len(P)) = Len(Stream(P))
    BY <1>2, OffsetEnds
  <1> QED  BY <1>3, <1>4, <1>5, <1>6

--------------------------------------------------------------------------------
(* Readers over payloads P, and where they stand. *)

Masks == {1, 2, 4, 8, 16, 32, 64, 128}

ReaderType(P) ==
    [segs : {P}, pos : 0 .. Len(P), cur : Seq(Nat), byte_pos : Nat, bit_pos : Masks,
     bit_purge : Nat, val : Nat, st : {"ok", "leak"}]

Readers(P) ==
    {b \in ReaderType(P) :
        /\ b.cur = IF b.pos = 0 THEN <<>> ELSE P[b.pos]
        /\ b.pos # 0 => b.cur # <<>>
        /\ b.byte_pos <= Len(b.cur)
        /\ b.bit_pos # Msb => b.byte_pos < Len(b.cur)}


LEMMA ReaderFields ==
    ASSUME NEW P \in Payloads, NEW b \in Readers(P)
    PROVE  /\ b \in ReaderType(P) /\ b.segs = P
           /\ b.pos \in 0 .. Len(P) /\ b.pos \in Nat
           /\ b.cur \in Seq(Nat) /\ b.cur = IF b.pos = 0 THEN <<>> ELSE P[b.pos]
           /\ Len(b.cur) \in Nat /\ b.pos # 0 => Len(b.cur) > 0
           /\ b.byte_pos \in Nat /\ b.byte_pos <= Len(b.cur)
           /\ b.bit_pos \in Masks /\ b.bit_pos \in Nat
           /\ b.bit_pos # Msb => b.byte_pos < Len(b.cur)
           /\ b.bit_purge \in Nat /\ b.val \in Nat /\ b.st \in {"ok", "leak"}
  <1>1. b \in ReaderType(P)
    BY DEF Readers
  <1>2. Len(P) \in Nat /\ b.pos \in 0 .. Len(P) /\ b.cur \in Seq(Nat) /\ b.bit_pos \in Masks
    BY <1>1, OffsetEnds DEF ReaderType
  <1>3. b.pos # 0 => b.cur # <<>>
    BY DEF Readers
  <1>4. Len(b.cur) \in Nat /\ (b.cur # <<>> => Len(b.cur) > 0)
    BY <1>2
  <1>5. b.bit_pos \in Nat
    BY <1>2 DEF Masks
  <1>6. /\ b.segs = P /\ b.byte_pos \in Nat /\ b.bit_purge \in Nat /\ b.val \in Nat
        /\ b.st \in {"ok", "leak"}
    BY <1>1 DEF ReaderType
  <1>7. /\ b.cur = IF b.pos = 0 THEN <<>> ELSE P[b.pos]
        /\ b.byte_pos <= Len(b.cur)
        /\ b.bit_pos # Msb => b.byte_pos < Len(b.cur)
    BY DEF Readers
  <1> QED  BY <1>1, <1>2, <1>3, <1>4, <1>5, <1>6, <1>7

(* A reader stands in the stream, in its payload's bytes.                   *)
LEMMA PositionIs ==
    ASSUME NEW P \in Payloads, NEW b \in Readers(P)
    PROVE  /\ Position(b) \in Nat /\ Position(b) <= Offset(P, b.pos)
           /\ Offset(P, b.pos) <= Len(Stream(P)) /\ Offset(P, b.pos) \in Nat
           /\ b.byte_pos = Len(b.cur) => Position(b) = Offset(P, b.pos)
           /\ b.byte_pos < Len(b.cur) => Position(b) < Offset(P, b.pos)
           /\ b.pos # 0 => /\ Position(b) = Offset(P, b.pos - 1) + b.byte_pos
                           /\ Offset(P, b.pos - 1) \in Nat
                           /\ Offset(P, b.pos) = Offset(P, b.pos - 1) + Len(b.cur)
           /\ b.byte_pos < Len(b.cur) => Byte(b) = Stream(P)[Position(b) + 1] /\ Byte(b) \in Nat
  <1>1. /\ b.segs = P /\ b.pos \in 0 .. Len(P) /\ b.cur \in Seq(Nat) /\ Len(b.cur) \in Nat
        /\ b.byte_pos \in Nat /\ b.byte_pos <= Len(b.cur)
        /\ b.cur = IF b.pos = 0 THEN <<>> ELSE P[b.pos]
    BY ReaderFields
  <1>2. Len(P) \in Nat /\ Offset(P, 0) = 0 /\ Offset(P, Len(P)) = Len(Stream(P))
    BY OffsetEnds
  <1>3. Offset(P, b.pos) \in Nat /\ Offset(P, b.pos) <= Len(Stream(P))
    <2>1. b.pos <= Len(P) /\ Len(P) \in 0 .. Len(P)
      BY <1>1, <1>2
    <2> QED  BY <1>1, <1>2, <2>1, OffsetGrows
  <1>4. CASE b.pos = 0
    <2>1. Position(b) = b.byte_pos /\ Len(b.cur) = 0
      BY <1>1, <1>4 DEF Position
    <2> QED  BY <1>1, <1>2, <1>3, <1>4, <2>1
  <1>5. CASE b.pos # 0
    <2> DEFINE n == b.pos - 1
    <2>1. n \in 0 .. Len(P) - 1 /\ n + 1 = b.pos /\ b.cur = P[n + 1]
      BY <1>1, <1>2, <1>5
    <2>2. Position(b) = Offset(P, n) + b.byte_pos
      BY <1>1, <1>5 DEF Position
    <2>3. Offset(P, n) \in Nat /\ Offset(P, n + 1) = Offset(P, n) + Len(b.cur)
      BY <2>1, OffsetNext
    <2>4. ASSUME b.byte_pos < Len(b.cur)
          PROVE  Byte(b) = Stream(P)[Position(b) + 1] /\ Byte(b) \in Nat
      <3> DEFINE k == b.byte_pos + 1
      <3>1. k \in 1 .. Len(P[n + 1]) /\ k \in 1 .. Len(b.cur)
        BY <1>1, <2>1, <2>4
      <3>2. Stream(P)[Offset(P, n) + k] = b.cur[k]
        BY <2>1, <3>1, ByteAt
      <3>3. Offset(P, n) + k = Position(b) + 1
        BY <1>1, <2>2, <2>3
      <3>4. b.cur[k] \in Nat
        <4>1. b.cur \in Seq(Nat)
          BY <1>1
        <4> HIDE DEF k
        <4> QED  BY <3>1, <4>1, ElementOfSeq
      <3> QED  BY <3>2, <3>3, <3>4 DEF Byte
    <2>5. Offset(P, n + 1) = Offset(P, b.pos)
      BY <2>1
    <2> HIDE DEF n
    <2>6. /\ Position(b) \in Nat /\ Position(b) <= Offset(P, b.pos)
          /\ b.byte_pos = Len(b.cur) => Position(b) = Offset(P, b.pos)
          /\ b.byte_pos < Len(b.cur) => Position(b) < Offset(P, b.pos)
      BY <1>1, <2>2, <2>3, <2>5
    <2> QED  BY <1>3, <1>5, <2>2, <2>3, <2>4, <2>5, <2>6 DEF n
  <1> QED  BY <1>4, <1>5

(* A payload that is not empty is one more.                                 *)
LEMMA NonEmptyNext ==
    ASSUME NEW P \in Payloads, NEW n \in 0 .. Len(P) - 1
    PROVE  /\ NumNonEmpty(P, n) \in Nat
           /\ NumNonEmpty(P, n + 1) = NumNonEmpty(P, n) + (IF P[n + 1] # <<>> THEN 1 ELSE 0)
  <1> DEFINE A == {i \in 1 .. n : P[i] # <<>>}
             B == {i \in 1 .. n + 1 : P[i] # <<>>}
  <1>1. n \in Nat
    BY OffsetEnds
  <1>2. IsFiniteSet(A) /\ n + 1 \notin A
    <2>1. A \subseteq 1 .. n /\ IsFiniteSet(1 .. n)
      BY <1>1, FS_Interval
    <2> QED  BY <1>1, <2>1, FS_Subset
  <1>3. B = IF P[n + 1] # <<>> THEN A \cup {n + 1} ELSE A
    BY <1>1
  <1>4. NumNonEmpty(P, n) = Cardinality(A) /\ NumNonEmpty(P, n + 1) = Cardinality(B)
    BY DEF NumNonEmpty
  <1> HIDE DEF A, B
  <1>5. Cardinality(A) \in Nat /\ Cardinality(A \cup {n + 1}) = Cardinality(A) + 1
    BY <1>2, FS_CardinalityType, FS_AddElement
  <1> QED  BY <1>3, <1>4, <1>5

LEMMA NonEmptyGrows ==
    ASSUME NEW P \in Payloads, NEW n \in 0 .. Len(P)
    PROVE  NumNonEmpty(P, n) \in Nat /\ NumNonEmpty(P, n) <= NumNonEmpty(P, Len(P))
  <1> DEFINE A == {i \in 1 .. n : P[i] # <<>>}
             B == {i \in 1 .. Len(P) : P[i] # <<>>}
  <1>1. n \in Nat /\ Len(P) \in Nat
    BY OffsetEnds
  <1>2. IsFiniteSet(B) /\ A \subseteq B
    <2>1. B \subseteq 1 .. Len(P) /\ IsFiniteSet(1 .. Len(P))
      BY <1>1, FS_Interval
    <2>2. A \subseteq B
      BY <1>1
    <2> QED  BY <2>1, <2>2, FS_Subset
  <1>3. NumNonEmpty(P, n) = Cardinality(A) /\ NumNonEmpty(P, Len(P)) = Cardinality(B)
    BY DEF NumNonEmpty
  <1> HIDE DEF A, B
  <1> QED  BY <1>2, <1>3, FS_Subset, FS_CardinalityType

--------------------------------------------------------------------------------
(* The next payload: taken, and standing where the one before ended. *)

Kept(b, r) == r.bit_purge = b.bit_purge /\ r.val = b.val

Taken(P, b, r) ==
    /\ Ok(r) /\ Kept(b, r) /\ r.pos # 0 /\ r.byte_pos = 0 /\ r.bit_pos = Msb
    /\ Position(r) = Offset(P, b.pos)
    /\ NumNonEmpty(P, r.pos) = NumNonEmpty(P, b.pos) + 1

Takes(P, b, n, r) == r = [b EXCEPT !.byte_pos = 0, !.bit_pos = Msb, !.pos = n, !.cur = P[n]]

LEMMA TakeIs ==
    ASSUME NEW P \in Payloads, NEW b \in Readers(P), Ok(b), NEW n \in 1 .. Len(P), P[n] # <<>>,
           NEW r, Takes(P, b, n, r)
    PROVE  /\ r \in Readers(P) /\ Ok(r) /\ Kept(b, r) /\ r.pos = n /\ r.byte_pos = 0
           /\ r.bit_pos = Msb /\ Position(r) = Offset(P, n - 1) /\ Offset(P, n - 1) \in Nat
  <1>1. b \in ReaderType(P) /\ Len(P) \in Nat /\ P[n] \in Seq(Nat) /\ n # 0 /\ n \in 0 .. Len(P)
    BY ReaderFields, OffsetEnds DEF Payloads
  <1>2. r \in ReaderType(P)
    <2>1. Msb \in Masks /\ 0 \in Nat
      BY DEF Msb, Masks
    <2> QED  BY <1>1, <2>1 DEF ReaderType, Takes
  <1>3. /\ r.byte_pos = 0 /\ r.bit_pos = Msb /\ r.pos = n /\ r.cur = P[n] /\ r.segs = b.segs
        /\ r.st = b.st /\ Kept(b, r)
    BY <1>1 DEF ReaderType, Kept, Takes
  <1>4. Len(P[n]) \in Nat
    BY <1>1, LenProperties
  <1>5. r \in Readers(P)
    <2>1. /\ r.cur = IF r.pos = 0 THEN <<>> ELSE P[r.pos]
          /\ r.pos # 0 => r.cur # <<>>
          /\ r.byte_pos <= Len(r.cur)
          /\ r.bit_pos # Msb => r.byte_pos < Len(r.cur)
      BY <1>1, <1>3, <1>4
    <2> QED  BY <1>2, <2>1 DEF Readers
  <1>6. n - 1 \in 0 .. Len(P)
    BY <1>1
  <1>7. Offset(P, n - 1) \in Nat
    <2> DEFINE m == n - 1
    <2>1. m \in 0 .. Len(P) /\ m <= m
      BY <1>6
    <2> HIDE DEF m
    <2>2. Offset(P, m) \in Nat
      BY <2>1, OffsetGrows
    <2> QED  BY <2>2 DEF m
  <1>8. b.segs = P
    BY ReaderFields
  <1>9. Position(r) = Offset(P, n - 1)
    BY <1>1, <1>3, <1>7, <1>8 DEF Position
  <1> QED  BY <1>3, <1>5, <1>7, <1>9 DEF Ok

LEMMA ReceiveIs ==
    ASSUME NEW P \in Payloads, Within(P), NEW b \in Readers(P), Ok(b)
    PROVE  /\ receive(b) \in Readers(P)
           /\ IF b.pos = Len(P) THEN receive(b).st = "leak" ELSE Taken(P, b, receive(b))
  <1> DEFINE c == [b EXCEPT !.byte_pos = 0, !.bit_pos = Msb]
             Take(n) == [c EXCEPT !.pos = n, !.cur = P[n]]
  <1>1. b \in ReaderType(P) /\ b.segs = P /\ b.pos \in 0 .. Len(P) /\ Len(P) \in Nat
    BY ReaderFields, OffsetEnds
  <1>2. c.pos = b.pos /\ c.segs = P
    BY <1>1 DEF ReaderType
  <1>3. receive(b) = IF b.pos >= Len(P) THEN Leak(c)
                     ELSE IF P[b.pos + 1] # <<>> THEN Take(b.pos + 1)
                     ELSE IF b.pos + 1 < Len(P) THEN Take(b.pos + 2)
                     ELSE Undefined(c)
    <2>1. receive(b) = pop(c)
      BY DEF receive
    <2> HIDE DEF c
    <2>2. pop(c) = IF b.pos >= Len(P) THEN Leak(c)
                   ELSE IF P[b.pos + 1] # <<>> THEN Take(b.pos + 1)
                   ELSE IF b.pos + 1 < Len(P) THEN Take(b.pos + 2)
                   ELSE Undefined(c)
      BY <1>2 DEF pop
    <2> QED  BY <2>1, <2>2
  <1>4. CASE b.pos = Len(P)
    <2>1. receive(b) = Leak(c)
      BY <1>1, <1>3, <1>4
    <2>2. Leak(c) \in ReaderType(P)
      <3>1. Msb \in Masks /\ 0 \in Nat
        BY DEF Msb, Masks
      <3> QED  BY <1>1, <3>1 DEF Leak, ReaderType
    <2>3. /\ Leak(c).pos = b.pos /\ Leak(c).cur = b.cur /\ Leak(c).byte_pos = 0
          /\ Leak(c).bit_pos = Msb /\ Leak(c).st = "leak"
      BY <1>1 DEF Leak, ReaderType
    <2>4. Leak(c) \in Readers(P)
      BY <2>2, <2>3, ReaderFields DEF Readers
    <2> QED  BY <1>4, <2>1, <2>3, <2>4
  <1>5. CASE b.pos # Len(P)
    <2> DEFINE n == b.pos
    <2>1. n \in 0 .. Len(P) - 1 /\ ~(n >= Len(P)) /\ n + 1 \in 1 .. Len(P) /\ n \in Nat
      BY <1>1, <1>5
    <2>2. NumNonEmpty(P, n) \in Nat
          /\ NumNonEmpty(P, n + 1) = NumNonEmpty(P, n) + (IF P[n + 1] # <<>> THEN 1 ELSE 0)
      BY <2>1, NonEmptyNext
    <2>3. CASE P[n + 1] # <<>>
      <3>1. receive(b) = [b EXCEPT !.byte_pos = 0, !.bit_pos = Msb, !.pos = n + 1,
                                   !.cur = P[n + 1]]
        BY <1>3, <2>1, <2>3
      <3>2. /\ receive(b) \in Readers(P) /\ Ok(receive(b)) /\ Kept(b, receive(b))
            /\ receive(b).pos = n + 1 /\ receive(b).byte_pos = 0 /\ receive(b).bit_pos = Msb
            /\ Position(receive(b)) = Offset(P, (n + 1) - 1)
        <4> DEFINE m == n + 1
                   r == receive(b)
        <4>1. m \in 1 .. Len(P) /\ P[m] # <<>>
          BY <2>1, <2>3
        <4>2. Takes(P, b, m, r)
          BY <3>1 DEF Takes
        <4> HIDE DEF m, r
        <4>3. /\ r \in Readers(P) /\ Ok(r) /\ Kept(b, r) /\ r.pos = m /\ r.byte_pos = 0
              /\ r.bit_pos = Msb /\ Position(r) = Offset(P, m - 1)
          BY <4>1, <4>2, TakeIs
        <4> QED  BY <4>3 DEF m, r
      <3>3. (n + 1) - 1 = n /\ n + 1 # 0
        BY <2>1
      <3> QED  BY <1>5, <2>2, <2>3, <3>2, <3>3 DEF Taken
    <2>4. CASE P[n + 1] = <<>>
      <3>1. n + 1 < Len(P) /\ P[(n + 1) + 1] # <<>>
        BY <2>1, <2>4 DEF Within
      <3>0. n \in Int /\ n >= 0 /\ Len(P) \in Nat /\ n + 1 < Len(P)
        BY <1>1, <2>1, <3>1
      <3> HIDE DEF n
      <3>2. n + 2 \in 1 .. Len(P) /\ n + 1 \in 0 .. Len(P) - 1 /\ (n + 1) + 1 = n + 2
            /\ (n + 2) - 1 = n + 1 /\ n + 2 # 0
        BY <3>0
      <3> USE DEF n
      <3>3. receive(b) = [b EXCEPT !.byte_pos = 0, !.bit_pos = Msb, !.pos = n + 2,
                                   !.cur = P[n + 2]]
        BY <1>3, <2>1, <2>4, <3>1
      <3>4. /\ receive(b) \in Readers(P) /\ Ok(receive(b)) /\ Kept(b, receive(b))
            /\ receive(b).pos = n + 2 /\ receive(b).byte_pos = 0 /\ receive(b).bit_pos = Msb
            /\ Position(receive(b)) = Offset(P, (n + 2) - 1)
        <4> DEFINE m == n + 2
                   r == receive(b)
        <4>1. m \in 1 .. Len(P) /\ P[m] # <<>>
          BY <3>1, <3>2
        <4>2. Takes(P, b, m, r)
          BY <3>3 DEF Takes
        <4> HIDE DEF m, r
        <4>3. /\ r \in Readers(P) /\ Ok(r) /\ Kept(b, r) /\ r.pos = m /\ r.byte_pos = 0
              /\ r.bit_pos = Msb /\ Position(r) = Offset(P, m - 1)
          BY <4>1, <4>2, TakeIs
        <4> QED  BY <4>3 DEF m, r
      <3>5. Offset(P, n + 1) = Offset(P, n)
        <4>1. Offset(P, n + 1) = Offset(P, n) + Len(P[n + 1]) /\ Offset(P, n) \in Nat
          BY <2>1, OffsetNext
        <4>2. Len(P[n + 1]) = 0
          BY <2>4
        <4> QED  BY <4>1, <4>2
      <3>6. NumNonEmpty(P, n + 2) = NumNonEmpty(P, n) + 1
        <4>1. NumNonEmpty(P, (n + 1) + 1) = NumNonEmpty(P, n + 1) + 1
          BY <3>1, <3>2, NonEmptyNext
        <4> QED  BY <2>2, <2>4, <3>2, <4>1
      <3> QED  BY <1>5, <3>2, <3>4, <3>5, <3>6 DEF Taken
    <2> QED  BY <2>3, <2>4
  <1> QED  BY <1>4, <1>5

(* termination_check finds the next byte of the stream, if there is one.    *)
AtNext(P, b, r) ==
    /\ Ok(r) /\ Kept(b, r) /\ r.pos # 0 /\ r.bit_pos = Msb /\ Position(r) = Position(b)
    /\ r.byte_pos < Len(r.cur)
    /\ Byte(r) = Stream(P)[Position(b) + 1] /\ Byte(r) \in Nat

LEMMA ReachIs ==
    ASSUME NEW P \in Payloads, Within(P), NEW b \in Readers(P), Ok(b), b.bit_pos = Msb
    PROVE  /\ Reach(b) \in Readers(P)
           /\ IF Position(b) < Len(Stream(P)) THEN AtNext(P, b, Reach(b))
              ELSE Reach(b).st = "leak"
  <1>1. /\ b.pos \in 0 .. Len(P) /\ Len(P) \in Nat /\ b.byte_pos \in Nat /\ Len(b.cur) \in Nat
        /\ b.byte_pos <= Len(b.cur) /\ b.cur = IF b.pos = 0 THEN <<>> ELSE P[b.pos]
    BY ReaderFields, OffsetEnds
  <1>2. Reach(b) = AtByte(termination_check(b))
    BY DEF Reach
  <1>3. CASE b.byte_pos < Len(b.cur)
    <2>1. Reach(b) = b
      BY <1>1, <1>2, <1>3 DEF termination_check, AtByte
    <2>2. b.pos # 0
      BY <1>1, <1>3
    <2>3. Position(b) < Len(Stream(P)) /\ Byte(b) = Stream(P)[Position(b) + 1] /\ Byte(b) \in Nat
      <3>1. /\ Position(b) < Offset(P, b.pos) /\ Offset(P, b.pos) <= Len(Stream(P))
            /\ Position(b) \in Nat /\ Offset(P, b.pos) \in Nat
            /\ Byte(b) = Stream(P)[Position(b) + 1] /\ Byte(b) \in Nat
        BY <1>3, PositionIs
      <3> QED  BY <3>1, OffsetEnds
    <2> QED  BY <1>3, <2>1, <2>2, <2>3 DEF AtNext, Kept
  <1>4. CASE ~(b.byte_pos < Len(b.cur))
    <2> DEFINE r == receive(b)
    <2>1. b.byte_pos = Len(b.cur) /\ Position(b) = Offset(P, b.pos)
      BY <1>1, <1>4, PositionIs
    <2>2. Reach(b) = AtByte(r)
      BY <1>2, <1>4 DEF termination_check
    <2>3. /\ r \in Readers(P)
          /\ IF b.pos = Len(P) THEN r.st = "leak" ELSE Taken(P, b, r)
      BY ReceiveIs
    <2> HIDE DEF r
    <2>4. CASE b.pos = Len(P)
      <3>1. Reach(b) = r /\ r.st = "leak"
        BY <2>2, <2>3, <2>4 DEF AtByte, Ok
      <3>2. ~(Position(b) < Len(Stream(P)))
        BY <2>1, <2>4, OffsetEnds
      <3> QED  BY <2>3, <3>1, <3>2
    <2>5. CASE b.pos # Len(P)
      <3>1. Taken(P, b, r)
        BY <2>3, <2>5
      <3>2. Len(r.cur) > 0 /\ r.byte_pos = 0 /\ Len(r.cur) \in Nat
        BY <2>3, <3>1, ReaderFields DEF Taken
      <3>3. Reach(b) = r
        BY <2>2, <3>2 DEF AtByte
      <3>4. b.pos \in 0 .. Len(P) - 1
        BY <1>1, <2>5
      <3>5. Position(b) < Len(Stream(P))
        BY <2>1, <3>4, BytesLeft
      <3>6. Byte(r) = Stream(P)[Position(r) + 1] /\ Byte(r) \in Nat
        BY <2>3, <3>2, PositionIs
      <3> QED  BY <2>1, <2>3, <3>1, <3>2, <3>3, <3>5, <3>6 DEF AtNext, Taken
    <2> QED  BY <2>4, <2>5
  <1> QED  BY <1>3, <1>4

--------------------------------------------------------------------------------
(* The readers of a stream S, however it is cut into payloads, and what two *)
(* of them have in common.                                                  *)

Cuts(S) == {P \in Payloads : Within(P) /\ Stream(P) = S}
ReadersOf(S) == UNION {Readers(P) : P \in Cuts(S)}

(* Readers that have a payload unless they failed to get one.               *)
Going(S) == {b \in ReadersOf(S) : Ok(b) => b.pos # 0}

At(b, position, bit_pos, bit_purge, val) ==
    /\ Ok(b) /\ Position(b) = position /\ b.bit_pos = bit_pos
    /\ b.bit_purge = bit_purge /\ b.val = val

Same(b, c) == b.st = c.st /\ (Ok(b) => At(c, Position(b), b.bit_pos, b.bit_purge, b.val))

LEMMA CutOf ==
    ASSUME NEW S, NEW b \in ReadersOf(S)
    PROVE  \E P \in Payloads : Within(P) /\ Stream(P) = S /\ b \in Readers(P)
  BY DEF ReadersOf, Cuts

LEMMA InAny ==
    ASSUME NEW S, NEW P \in Payloads, Within(P), Stream(P) = S, NEW b \in Readers(P)
    PROVE  /\ b \in ReadersOf(S)
           /\ (Ok(b) => b.pos # 0) => b \in Going(S)
  BY DEF ReadersOf, Cuts, Going

LEMMA AnyIs ==
    ASSUME NEW S, NEW b \in ReadersOf(S)
    PROVE  /\ S \in Seq(Nat) /\ Len(S) \in Nat
           /\ b.st \in {"ok", "leak"} /\ b.val \in Nat /\ b.bit_purge \in Nat
           /\ b.bit_pos \in Masks /\ Position(b) \in Nat /\ Position(b) <= Len(S)
           /\ b.bit_pos # Msb => (b.pos # 0 /\ Position(b) < Len(S))
  <1>1. PICK P \in Payloads : Within(P) /\ Stream(P) = S /\ b \in Readers(P)
    BY CutOf
  <1>2. /\ b.st \in {"ok", "leak"} /\ b.val \in Nat /\ b.bit_purge \in Nat
        /\ b.bit_pos \in Masks /\ b.byte_pos \in Nat /\ Len(b.cur) \in Nat
        /\ b.bit_pos # Msb => b.byte_pos < Len(b.cur)
        /\ b.pos = 0 => b.cur = <<>>
    BY <1>1, ReaderFields
  <1>3. /\ Position(b) \in Nat /\ Position(b) <= Offset(P, b.pos)
        /\ Offset(P, b.pos) <= Len(S) /\ Offset(P, b.pos) \in Nat
        /\ b.byte_pos < Len(b.cur) => Position(b) < Offset(P, b.pos)
    BY <1>1, PositionIs
  <1>4. S \in Seq(Nat) /\ Len(S) \in Nat
    BY <1>1, OffsetEnds
  <1>5. Position(b) <= Len(S) /\ (b.bit_pos # Msb => Position(b) < Len(S))
    BY <1>2, <1>3, <1>4
  <1>6. b.pos = 0 => Len(b.cur) = 0
    BY <1>2
  <1>7. b.bit_pos # Msb => b.pos # 0
    BY <1>2, <1>6
  <1> QED  BY <1>2, <1>3, <1>4, <1>5, <1>7

(* A reader whose place in its payload changed, and nothing else but what   *)
(* it holds.                                                                *)
Shifted(b, r, byte_pos, bit_pos, bit_purge, val) ==
    r = [b EXCEPT !.byte_pos = byte_pos, !.bit_pos = bit_pos, !.bit_purge = bit_purge, !.val = val]

LEMMA ShiftedIs ==
    ASSUME NEW S, NEW b \in ReadersOf(S),
           NEW byte_pos \in Nat, NEW bit_pos \in Masks, NEW bit_purge \in Nat, NEW val \in Nat,
           byte_pos <= Len(b.cur), bit_pos # Msb => byte_pos < Len(b.cur),
           NEW r, Shifted(b, r, byte_pos, bit_pos, bit_purge, val)
    PROVE  /\ r \in ReadersOf(S) /\ r.pos = b.pos /\ r.st = b.st
           /\ Ok(b) => At(r, Position(b) + (byte_pos - b.byte_pos), bit_pos, bit_purge, val)
  <1>1. PICK P \in Payloads : Within(P) /\ Stream(P) = S /\ b \in Readers(P)
    BY CutOf
  <1>2. b \in ReaderType(P) /\ b.segs = P /\ b.pos \in 0 .. Len(P) /\ b.byte_pos \in Nat
    BY <1>1, ReaderFields
  <1>3. r \in ReaderType(P)
    BY <1>2 DEF Shifted, ReaderType
  <1>4. /\ r.byte_pos = byte_pos /\ r.bit_pos = bit_pos /\ r.bit_purge = bit_purge
        /\ r.val = val /\ r.pos = b.pos /\ r.cur = b.cur /\ r.st = b.st /\ r.segs = b.segs
    BY <1>2 DEF Shifted, ReaderType
  <1>5. b.cur = (IF b.pos = 0 THEN <<>> ELSE P[b.pos]) /\ (b.pos # 0 => b.cur # <<>>)
    BY <1>1 DEF Readers
  <1>6. r \in Readers(P)
    <2>1. /\ r.cur = IF r.pos = 0 THEN <<>> ELSE P[r.pos]
          /\ r.pos # 0 => r.cur # <<>>
          /\ r.byte_pos <= Len(r.cur)
          /\ r.bit_pos # Msb => r.byte_pos < Len(r.cur)
      BY <1>4, <1>5
    <2> QED  BY <1>3, <2>1 DEF Readers
  <1>7. r \in ReadersOf(S)
    BY <1>1, <1>6, InAny
  <1>8. Position(r) = Position(b) + (byte_pos - b.byte_pos)
    <2> DEFINE o == IF b.pos = 0 THEN 0 ELSE Offset(P, b.pos - 1)
    <2>1. Position(b) = o + b.byte_pos /\ Position(r) = o + byte_pos
      BY <1>2, <1>4 DEF Position
    <2>2. o \in Nat
      <3>1. b.pos # 0 => Offset(P, b.pos - 1) \in Nat
        BY <1>1, PositionIs
      <3> QED  BY <3>1
    <2> HIDE DEF o
    <2> QED  BY <1>2, <2>1, <2>2
  <1> QED  BY <1>4, <1>7, <1>8 DEF At, Ok

LEMMA ReachAny ==
    ASSUME NEW S, NEW b \in ReadersOf(S), Ok(b), b.bit_pos = Msb
    PROVE  /\ Reach(b) \in Going(S)
           /\ IF Position(b) < Len(S)
              THEN /\ At(Reach(b), Position(b), Msb, b.bit_purge, b.val)
                   /\ Reach(b).byte_pos < Len(Reach(b).cur)
                   /\ Byte(Reach(b)) = S[Position(b) + 1] /\ Byte(Reach(b)) \in Nat
              ELSE Reach(b).st = "leak"
  <1>1. PICK P \in Payloads : Within(P) /\ Stream(P) = S /\ b \in Readers(P)
    BY CutOf
  <1> DEFINE r == Reach(b)
  <1>2. /\ r \in Readers(P)
        /\ IF Position(b) < Len(S) THEN AtNext(P, b, r) ELSE r.st = "leak"
    BY <1>1, ReachIs
  <1> HIDE DEF r
  <1>3. r \in Going(S)
    BY <1>1, <1>2, InAny DEF AtNext, Ok
  <1>4. AtNext(P, b, r) =>
            /\ At(r, Position(b), Msb, b.bit_purge, b.val)
            /\ r.byte_pos < Len(r.cur)
            /\ Byte(r) = S[Position(b) + 1] /\ Byte(r) \in Nat
    BY <1>1 DEF AtNext, At, Kept
  <1> QED  BY <1>2, <1>3, <1>4 DEF r

(* The bit a reader reads next: of the byte it holds or of the next one,    *)
(* and after 0xFF not the first.                                            *)
MaskOf(b) == IF b.bit_pos = Msb /\ b.bit_purge = 255 THEN 64 ELSE b.bit_pos
ByteOf(S, b) == IF b.bit_pos = Msb THEN S[Position(b) + 1] ELSE b.bit_purge

BitRead(S, b, r) ==
    IF b.bit_pos = Msb /\ Position(b) = Len(S) THEN r.st = "leak"
    ELSE At(r, Position(b) + (IF MaskOf(b) = 1 THEN 1 ELSE 0),
            IF MaskOf(b) = 1 THEN Msb ELSE MaskOf(b) \div 2,
            ByteOf(S, b), (ByteOf(S, b) \div MaskOf(b)) % 2)

LEMMA MaskFacts ==
    ASSUME NEW m \in Masks
    PROVE  /\ m \in Nat /\ m > 0
           /\ m # 1 => (m \div 2) \in Masks /\ (m \div 2) # Msb
  BY DEF Masks, Msb

LEMMA TakeBitIs ==
    ASSUME NEW S, NEW b \in ReadersOf(S), Ok(b), b.pos # 0, b.byte_pos < Len(b.cur)
    PROVE  /\ TakeBit(b) \in Going(S) /\ TakeBit(b).val \in {0, 1}
           /\ At(TakeBit(b), Position(b) + (IF b.bit_pos = 1 THEN 1 ELSE 0),
                 IF b.bit_pos = 1 THEN Msb ELSE b.bit_pos \div 2,
                 b.bit_purge, (b.bit_purge \div b.bit_pos) % 2)
  <1> DEFINE m == b.bit_pos
             v == (b.bit_purge \div m) % 2
             p == IF m = 1 THEN b.byte_pos + 1 ELSE b.byte_pos
             k == IF m = 1 THEN Msb ELSE m \div 2
             r == TakeBit(b)
  <1>1. PICK P \in Payloads : Within(P) /\ Stream(P) = S /\ b \in Readers(P)
    BY CutOf
  <1>2. /\ m \in Masks /\ b.bit_purge \in Nat /\ b.byte_pos \in Nat /\ Len(b.cur) \in Nat
        /\ b \in ReaderType(P)
    BY <1>1, ReaderFields
  <1>3. v \in {0, 1} /\ v \in Nat
    <2> DEFINE q == b.bit_purge \div m
    <2>1. q \in Int
      <3> HIDE DEF m
      <3>1. m \in Nat /\ m > 0 /\ b.bit_purge \in Int
        BY <1>2, MaskFacts
      <3> QED  BY <3>1, DivMod
    <2> HIDE DEF q
    <2>2. q % 2 \in 0 .. 1
      BY <2>1
    <2> QED  BY <2>2 DEF q
  <1>4. k \in Masks /\ (k # Msb => m # 1)
    <2> HIDE DEF m
    <2> QED  BY <1>2, MaskFacts DEF Masks, Msb
  <1>5. p \in Nat /\ p <= Len(b.cur) /\ (m # 1 => p < Len(b.cur))
    BY <1>2
  <1>6. Shifted(b, r, p, k, b.bit_purge, v)
    BY <1>2 DEF Shifted, TakeBit, ReaderType
  <1>7. p - b.byte_pos = IF m = 1 THEN 1 ELSE 0
    BY <1>2
  <1> HIDE DEF m, v, p, k, r
  <1>8. /\ r \in ReadersOf(S) /\ r.pos = b.pos
        /\ At(r, Position(b) + (p - b.byte_pos), k, b.bit_purge, v)
    BY <1>2, <1>3, <1>4, <1>5, <1>6, ShiftedIs
  <1>9. r \in Going(S) /\ r.val = v
    BY <1>8 DEF Going, At
  <1> QED  BY <1>3, <1>7, <1>8, <1>9 DEF m, v, p, k, r

LEMMA FetchIs ==
    ASSUME NEW S, NEW b \in ReadersOf(S), Ok(b), b.pos # 0, b.byte_pos < Len(b.cur), b.bit_pos = Msb
    PROVE  /\ Fetch(b) \in ReadersOf(S) /\ Fetch(b).pos # 0
           /\ Fetch(b).byte_pos < Len(Fetch(b).cur)
           /\ At(Fetch(b), Position(b), MaskOf(b), Byte(b), b.val)
  <1> DEFINE r == Fetch(b)
             m == MaskOf(b)
             p == Byte(b)
  <1>1. PICK P \in Payloads : Within(P) /\ Stream(P) = S /\ b \in Readers(P)
    BY CutOf
  <1>2. /\ b.byte_pos \in Nat /\ Len(b.cur) \in Nat /\ b \in ReaderType(P) /\ b.val \in Nat
        /\ Position(b) \in Nat
    BY <1>1, ReaderFields, PositionIs
  <1>3. m \in Masks /\ p \in Nat
    BY <1>1, PositionIs DEF MaskOf, Masks, Msb
  <1>4. Shifted(b, r, b.byte_pos, m, p, b.val)
    <2>1. r = [b EXCEPT !.bit_pos = m, !.bit_purge = p]
      <3>1. m = IF b.bit_purge = 255 THEN b.bit_pos \div 2 ELSE b.bit_pos
        BY DEF MaskOf, Msb
      <3> HIDE DEF m
      <3> QED  BY <1>2, <3>1 DEF Fetch, ReaderType
    <2> HIDE DEF m, p, r
    <2> QED  BY <1>2, <2>1 DEF Shifted, ReaderType
  <1>5. r.byte_pos = b.byte_pos /\ r.cur = b.cur
    BY <1>2 DEF Fetch, ReaderType
  <1>6. b.byte_pos - b.byte_pos = 0 /\ Position(b) + 0 = Position(b)
    BY <1>2
  <1> HIDE DEF m, p, r
  <1>7. /\ r \in ReadersOf(S) /\ r.pos = b.pos
        /\ At(r, Position(b) + (b.byte_pos - b.byte_pos), m, p, b.val)
    BY <1>2, <1>3, <1>4, ShiftedIs
  <1> QED  BY <1>5, <1>6, <1>7 DEF m, p, r

LEMMA BitIs ==
    ASSUME NEW S, NEW b \in ReadersOf(S)
    PROVE  /\ get_bit(b) \in Going(S)
           /\ IF Ok(b) THEN BitRead(S, b, get_bit(b)) ELSE get_bit(b).st = b.st
           /\ Ok(get_bit(b)) => get_bit(b).val \in {0, 1}
  <1> DEFINE r == get_bit(b)
  <1>1. S \in Seq(Nat) /\ Len(S) \in Nat /\ Position(b) \in Nat /\ Position(b) <= Len(S)
    BY AnyIs
  <1>2. CASE ~Ok(b)
    <2>1. r = b
      BY <1>2 DEF get_bit, TakeBit, Fetch, Reach
    <2> QED  BY <1>2, <2>1 DEF Going
  <1>3. CASE Ok(b) /\ b.bit_pos # Msb
    <2>1. r = TakeBit(b) /\ MaskOf(b) = b.bit_pos /\ ByteOf(S, b) = b.bit_purge
      BY <1>3 DEF get_bit, MaskOf, ByteOf
    <2>2. b.pos # 0 /\ b.byte_pos < Len(b.cur)
      <3>1. PICK P \in Payloads : Within(P) /\ Stream(P) = S /\ b \in Readers(P)
        BY CutOf
      <3>2. b.byte_pos < Len(b.cur)
        BY <1>3, <3>1, ReaderFields
      <3> QED  BY <1>3, <3>2, AnyIs
    <2>3. /\ r \in Going(S) /\ r.val \in {0, 1}
          /\ At(r, Position(b) + (IF b.bit_pos = 1 THEN 1 ELSE 0),
                IF b.bit_pos = 1 THEN Msb ELSE b.bit_pos \div 2,
                b.bit_purge, (b.bit_purge \div b.bit_pos) % 2)
      BY <1>3, <2>1, <2>2, TakeBitIs
    <2> HIDE DEF r
    <2> QED  BY <1>3, <2>1, <2>3 DEF BitRead, r
  <1>4. CASE Ok(b) /\ b.bit_pos = Msb
    <2> DEFINE a == Reach(b)
               c == Fetch(a)
    <2>1. r = TakeBit(c)
      BY <1>4 DEF get_bit
    <2>2. /\ a \in Going(S)
          /\ IF Position(b) < Len(S)
             THEN /\ At(a, Position(b), Msb, b.bit_purge, b.val)
                  /\ a.byte_pos < Len(a.cur)
                  /\ Byte(a) = S[Position(b) + 1] /\ Byte(a) \in Nat
             ELSE a.st = "leak"
      BY <1>4, ReachAny
    <2> HIDE DEF a, r
    <2>3. CASE Position(b) = Len(S)
      <3>1. a.st = "leak" /\ ~Ok(a)
        BY <1>1, <2>2, <2>3 DEF Ok
      <3>2. r = a
        BY <2>1, <3>1 DEF Fetch, TakeBit
      <3> QED  BY <1>4, <2>2, <2>3, <3>1, <3>2 DEF BitRead, r
    <2>4. CASE Position(b) # Len(S)
      <3>1. /\ a \in ReadersOf(S) /\ Ok(a) /\ a.pos # 0 /\ a.byte_pos < Len(a.cur)
            /\ a.bit_pos = Msb /\ a.bit_purge = b.bit_purge /\ Position(a) = Position(b)
            /\ Byte(a) = ByteOf(S, b)
        BY <1>1, <1>4, <2>2, <2>4 DEF At, Going, ByteOf
      <3>2. MaskOf(a) = MaskOf(b)
        BY <1>4, <3>1 DEF MaskOf
      <3>3. /\ c \in ReadersOf(S) /\ c.pos # 0 /\ c.byte_pos < Len(c.cur)
            /\ At(c, Position(b), MaskOf(b), ByteOf(S, b), a.val)
        BY <3>1, <3>2, FetchIs
      <3> HIDE DEF c
      <3>4. /\ r \in Going(S) /\ r.val \in {0, 1}
            /\ At(r, Position(c) + (IF c.bit_pos = 1 THEN 1 ELSE 0),
                  IF c.bit_pos = 1 THEN Msb ELSE c.bit_pos \div 2,
                  c.bit_purge, (c.bit_purge \div c.bit_pos) % 2)
        BY <2>1, <3>3, TakeBitIs DEF At
      <3>5. BitRead(S, b, r)
        BY <2>4, <3>3, <3>4 DEF At, BitRead
      <3> QED  BY <1>4, <3>4, <3>5 DEF r
    <2> QED  BY <2>3, <2>4
  <1> QED  BY <1>2, <1>3, <1>4

LEMMA BitSame ==
    ASSUME NEW S, NEW b \in ReadersOf(S), NEW c \in ReadersOf(S), Same(b, c)
    PROVE  Same(get_bit(b), get_bit(c))
  <1> DEFINE r == get_bit(b)
             q == get_bit(c)
  <1>1. /\ IF Ok(b) THEN BitRead(S, b, r) ELSE r.st = b.st
        /\ IF Ok(c) THEN BitRead(S, c, q) ELSE q.st = c.st
    BY BitIs
  <1> HIDE DEF r, q
  <1>2. CASE ~Ok(b)
    BY <1>1, <1>2 DEF Same, Ok, r, q
  <1>3. CASE Ok(b)
    <2>1. /\ Ok(c) /\ Position(c) = Position(b) /\ c.bit_pos = b.bit_pos
          /\ c.bit_purge = b.bit_purge
      BY <1>3 DEF Same, At
    <2>2. MaskOf(c) = MaskOf(b) /\ ByteOf(S, c) = ByteOf(S, b)
      BY <2>1 DEF MaskOf, ByteOf
    <2>3. BitRead(S, b, r) /\ BitRead(S, b, q)
      BY <1>1, <1>3, <2>1, <2>2 DEF BitRead
    <2>4. Same(r, q)
      BY <2>3 DEF BitRead, At, Same, Ok
    <2> QED  BY <2>4 DEF r, q
  <1> QED  BY <1>2, <1>3

Holding(b, v) == [b EXCEPT !.val = v]

LEMMA ValIs ==
    ASSUME NEW S, NEW b \in ReadersOf(S), NEW v \in Nat, NEW r, r = Holding(b, v)
    PROVE  /\ r \in ReadersOf(S) /\ r.pos = b.pos /\ r.st = b.st /\ r.val = v
           /\ Ok(b) => At(r, Position(b), b.bit_pos, b.bit_purge, v)
  <1>1. PICK P \in Payloads : Within(P) /\ Stream(P) = S /\ b \in Readers(P)
    BY CutOf
  <1>2. /\ b.byte_pos \in Nat /\ Len(b.cur) \in Nat /\ b \in ReaderType(P)
        /\ b.bit_pos \in Masks /\ b.bit_purge \in Nat /\ b.byte_pos <= Len(b.cur)
        /\ b.bit_pos # Msb => b.byte_pos < Len(b.cur)
    BY <1>1, ReaderFields
  <1>3. Shifted(b, r, b.byte_pos, b.bit_pos, b.bit_purge, v) /\ r.val = v
    BY <1>2 DEF Shifted, ReaderType, Holding
  <1>4. Position(b) + (b.byte_pos - b.byte_pos) = Position(b)
    BY <1>2, AnyIs
  <1>5. /\ r \in ReadersOf(S) /\ r.pos = b.pos /\ r.st = b.st
        /\ Ok(b) => At(r, Position(b) + (b.byte_pos - b.byte_pos), b.bit_pos, b.bit_purge, v)
    BY <1>2, <1>3, ShiftedIs
  <1> QED  BY <1>3, <1>4, <1>5

LEMMA HoldingIs ==
    ASSUME NEW S, NEW b \in ReadersOf(S), NEW v \in Nat
    PROVE  /\ Holding(b, v) \in ReadersOf(S) /\ Holding(b, v).st = b.st
           /\ Ok(b) => At(Holding(b, v), Position(b), b.bit_pos, b.bit_purge, v)
  <1> DEFINE r == Holding(b, v)
  <1>1. r = Holding(b, v)
    OBVIOUS
  <1> HIDE DEF r
  <1> QED  BY <1>1, ValIs DEF r

LEMMA ByteIs ==
    ASSUME NEW S, NEW b \in ReadersOf(S)
    PROVE  /\ get_byte(b) \in ReadersOf(S)
           /\ IF ~Ok(b) THEN get_byte(b).st = b.st
              ELSE IF Position(b) = Len(S) THEN get_byte(b).st = "leak"
              ELSE At(get_byte(b), Position(b) + 1, Msb, b.bit_purge, S[Position(b) + 1])
  <1> DEFINE a == [b EXCEPT !.bit_pos = Msb]
             c == Reach(a)
             r == get_byte(b)
  <1>1. S \in Seq(Nat) /\ Len(S) \in Nat /\ Position(b) \in Nat /\ Position(b) <= Len(S)
    BY AnyIs
  <1>2. a \in ReadersOf(S) /\ a.st = b.st /\ (Ok(b) => At(a, Position(b), Msb, b.bit_purge, b.val))
    <2>1. PICK P \in Payloads : Within(P) /\ Stream(P) = S /\ b \in Readers(P)
      BY CutOf
    <2>2. /\ b.byte_pos \in Nat /\ Len(b.cur) \in Nat /\ b \in ReaderType(P)
          /\ b.val \in Nat /\ b.bit_purge \in Nat /\ b.byte_pos <= Len(b.cur)
      BY <2>1, ReaderFields
    <2>3. Msb \in Masks
      BY DEF Masks, Msb
    <2>4. Shifted(b, a, b.byte_pos, Msb, b.bit_purge, b.val)
      BY <2>2 DEF Shifted, ReaderType
    <2> HIDE DEF a
    <2>5. Position(b) + (b.byte_pos - b.byte_pos) = Position(b)
      BY <1>1, <2>2
    <2>6. /\ a \in ReadersOf(S) /\ a.pos = b.pos /\ a.st = b.st
          /\ Ok(b) => At(a, Position(b) + (b.byte_pos - b.byte_pos), Msb, b.bit_purge, b.val)
      BY <2>2, <2>3, <2>4, ShiftedIs
    <2> QED  BY <2>5, <2>6
  <1>3. r = TakeByte(c)
    BY DEF get_byte
  <1>4. CASE ~Ok(b)
    <2>1. r = a
      BY <1>2, <1>3, <1>4 DEF Reach, TakeByte, Ok
    <2> QED  BY <1>2, <1>4, <2>1
  <1>5. CASE Ok(b)
    <2>1. Ok(a) /\ a.bit_pos = Msb /\ Position(a) = Position(b) /\ a.bit_purge = b.bit_purge
      BY <1>2, <1>5 DEF At
    <2>2. /\ c \in Going(S)
          /\ IF Position(b) < Len(S)
             THEN /\ At(c, Position(b), Msb, b.bit_purge, a.val)
                  /\ c.byte_pos < Len(c.cur)
                  /\ Byte(c) = S[Position(b) + 1] /\ Byte(c) \in Nat
             ELSE c.st = "leak"
      <3> HIDE DEF a
      <3> QED  BY <1>2, <2>1, ReachAny
    <2> HIDE DEF c, r
    <2>3. CASE Position(b) = Len(S)
      <3>1. c.st = "leak" /\ ~Ok(c)
        BY <1>1, <2>2, <2>3 DEF Ok
      <3>2. r = c
        BY <1>3, <3>1 DEF TakeByte
      <3> QED  BY <1>5, <2>2, <2>3, <3>1, <3>2 DEF Going, r
    <2>4. CASE Position(b) # Len(S)
      <3> DEFINE v == S[Position(b) + 1]
      <3>1. /\ c \in ReadersOf(S) /\ At(c, Position(b), Msb, b.bit_purge, a.val)
            /\ c.byte_pos < Len(c.cur) /\ Byte(c) = v /\ v \in Nat
        BY <1>1, <2>2, <2>4 DEF Going
      <3>2. PICK P \in Payloads : Within(P) /\ Stream(P) = S /\ c \in Readers(P)
        BY <3>1, CutOf
      <3>3. /\ c.byte_pos \in Nat /\ Len(c.cur) \in Nat /\ c \in ReaderType(P)
            /\ c.bit_purge \in Nat /\ c.bit_pos \in Masks
        BY <3>2, ReaderFields
      <3> HIDE DEF v
      <3>4. Shifted(c, r, c.byte_pos + 1, c.bit_pos, c.bit_purge, v)
        BY <1>3, <3>1, <3>3 DEF Shifted, TakeByte, advance_byte_pos, ReaderType, At
      <3>5. /\ c.byte_pos + 1 \in Nat /\ c.byte_pos + 1 <= Len(c.cur)
            /\ c.bit_pos = Msb /\ Ok(c) /\ Position(c) = Position(b) /\ c.bit_purge = b.bit_purge
            /\ (c.byte_pos + 1) - c.byte_pos = 1
        BY <3>1, <3>3 DEF At
      <3> DEFINE n == c.byte_pos + 1
      <3> HIDE DEF n
      <3>6. Shifted(c, r, n, c.bit_pos, c.bit_purge, v) /\ n \in Nat /\ n <= Len(c.cur)
            /\ n - c.byte_pos = 1
        BY <3>4, <3>5 DEF n
      <3>7. r \in ReadersOf(S) /\ At(r, Position(c) + (n - c.byte_pos), c.bit_pos, c.bit_purge, v)
        BY <3>1, <3>3, <3>5, <3>6, ShiftedIs
      <3>8. r \in ReadersOf(S) /\ At(r, Position(b) + 1, Msb, b.bit_purge, v)
        BY <3>5, <3>6, <3>7
      <3> QED  BY <1>5, <2>4, <3>8 DEF v, r
    <2> QED  BY <2>3, <2>4
  <1> QED  BY <1>4, <1>5

LEMMA ByteSame ==
    ASSUME NEW S, NEW b \in ReadersOf(S), NEW c \in ReadersOf(S), Same(b, c)
    PROVE  Same(get_byte(b), get_byte(c))
  <1> DEFINE r == get_byte(b)
             q == get_byte(c)
  <1>1. /\ IF ~Ok(b) THEN r.st = b.st
           ELSE IF Position(b) = Len(S) THEN r.st = "leak"
           ELSE At(r, Position(b) + 1, Msb, b.bit_purge, S[Position(b) + 1])
        /\ IF ~Ok(c) THEN q.st = c.st
           ELSE IF Position(c) = Len(S) THEN q.st = "leak"
           ELSE At(q, Position(c) + 1, Msb, c.bit_purge, S[Position(c) + 1])
    BY ByteIs
  <1> HIDE DEF r, q
  <1>2. Same(r, q)
    BY <1>1 DEF Same, At, Ok
  <1> QED  BY <1>2 DEF r, q

LEMMA FillIs ==
    ASSUME NEW S, NEW b \in Going(S)
    PROVE  /\ r_fill(b) \in Going(S) /\ r_fill(b).st = b.st
           /\ Ok(b) => At(r_fill(b), IF b.bit_pos = Msb THEN Position(b) ELSE Position(b) + 1,
                          Msb, b.bit_purge, b.val)
  <1> DEFINE r == r_fill(b)
             n == b.byte_pos + 1
  <1>1. b \in ReadersOf(S) /\ Position(b) \in Nat /\ (Ok(b) => b.pos # 0)
    BY AnyIs DEF Going
  <1>2. CASE ~(Ok(b) /\ b.bit_pos # Msb)
    <2>1. r = b
      BY <1>2 DEF r_fill
    <2> QED  BY <1>2, <2>1 DEF At
  <1>3. CASE Ok(b) /\ b.bit_pos # Msb
    <2>1. PICK P \in Payloads : Within(P) /\ Stream(P) = S /\ b \in Readers(P)
      BY <1>1, CutOf
    <2>2. /\ b.byte_pos \in Nat /\ Len(b.cur) \in Nat /\ b \in ReaderType(P)
          /\ b.val \in Nat /\ b.bit_purge \in Nat /\ b.byte_pos < Len(b.cur)
      BY <1>3, <2>1, ReaderFields
    <2>3. Shifted(b, r, n, Msb, b.bit_purge, b.val)
      BY <1>3, <2>2 DEF Shifted, r_fill, advance_byte_pos, ReaderType
    <2>4. n \in Nat /\ n <= Len(b.cur) /\ n - b.byte_pos = 1 /\ Msb \in Masks
      BY <2>2 DEF Masks, Msb
    <2> HIDE DEF n, r
    <2>5. /\ r \in ReadersOf(S) /\ r.pos = b.pos /\ r.st = b.st
          /\ Ok(b) => At(r, Position(b) + (n - b.byte_pos), Msb, b.bit_purge, b.val)
      BY <1>1, <2>2, <2>3, <2>4, ShiftedIs
    <2>6. r \in Going(S)
      BY <1>1, <1>3, <2>5 DEF Going
    <2> QED  BY <1>3, <2>4, <2>5, <2>6 DEF r
  <1> QED  BY <1>2, <1>3

LEMMA FillSame ==
    ASSUME NEW S, NEW b \in Going(S), NEW c \in Going(S), Same(b, c)
    PROVE  Same(r_fill(b), r_fill(c))
  BY FillIs DEF Same, At, Ok

LEMMA CheckIs ==
    ASSUME NEW S, NEW b \in Going(S)
    PROVE  check_FF(b) \in Going(S)
  BY BitIs DEF check_FF, Going

LEMMA CheckSame ==
    ASSUME NEW S, NEW b \in Going(S), NEW c \in Going(S), Same(b, c)
    PROVE  Same(check_FF(b), check_FF(c))
  <1>1. Same(get_bit(b), get_bit(c))
    BY BitSame DEF Going
  <1> QED  BY <1>1 DEF check_FF, Same, At, Ok

--------------------------------------------------------------------------------
(* The data of a code-block: passed over in the payload it starts in, or    *)
(* followed into the next ones.                                             *)

LEMMA MinIs ==
    ASSUME NEW x \in Int, NEW y \in Int
    PROVE  Min({x, y}) = IF x <= y THEN x ELSE y
  <1> DEFINE m == IF x <= y THEN x ELSE y
  <1>1. m \in {x, y} /\ \A z \in {x, y} : m <= z
    OBVIOUS
  <1>2. \A w \in {x, y} : (\A z \in {x, y} : w <= z) => w = m
    OBVIOUS
  <1> QED  BY <1>1, <1>2 DEF Min

LEMMA ReceiveFacts ==
    ASSUME NEW P \in Payloads, Within(P), NEW b \in Readers(P), Ok(b)
    PROVE  /\ receive(b) \in Readers(P)
           /\ IF Ok(receive(b))
              THEN b.pos # Len(P) /\ Taken(P, b, receive(b))
              ELSE b.pos = Len(P) /\ receive(b).st = "leak"
  <1>1. /\ receive(b) \in Readers(P)
        /\ IF b.pos = Len(P) THEN receive(b).st = "leak" ELSE Taken(P, b, receive(b))
    BY ReceiveIs
  <1> QED  BY <1>1 DEF Ok, Taken

Following(P) == [b : Readers(P), cpd : Int, cplen : Int, more : BOOLEAN]

(* Of a code-block that ends at T: either it goes on in the payload at      *)
(* hand, the one after i + 1 others that are not empty, or it ends in it,   *)
(* or the payloads are over before it does.                                 *)
Goes(P, c, T, i, p) ==
    /\ p \in Following(P)
    /\ IF ~Ok(p.b) THEN T > Len(Stream(P))
       ELSE /\ p.b.pos # 0 /\ p.b.byte_pos = 0 /\ p.b.bit_pos = Msb /\ Kept(c, p.b)
            /\ IF p.more
               THEN /\ p.cpd > 0 /\ Position(p.b) + p.cpd = T
                    /\ NumNonEmpty(P, p.b.pos) >= i + 2
               ELSE /\ 0 <= p.cplen /\ p.cplen <= Len(p.b.cur)
                    /\ Position(p.b) + p.cplen = T

LEMMA GoesFirst ==
    ASSUME NEW P \in Payloads, Within(P), NEW c \in Readers(P), Ok(c), c.pos # 0,
           NEW len \in Nat, c.byte_pos + len > Len(c.cur),
           NEW p, p = [b |-> receive(c), cpd |-> len - (Len(c.cur) - c.byte_pos),
                       cplen |-> Len(c.cur) - c.byte_pos, more |-> TRUE]
    PROVE  Goes(P, c, Position(c) + len, 0, p)
  <1> DEFINE r == receive(c)
             here == Len(c.cur) - c.byte_pos
             T == Position(c) + len
  <1>1. /\ r \in Readers(P)
        /\ IF Ok(r) THEN c.pos # Len(P) /\ Taken(P, c, r) ELSE c.pos = Len(P) /\ r.st = "leak"
    BY ReceiveFacts
  <1>2. /\ Len(c.cur) \in Nat /\ c.byte_pos \in Nat /\ c.byte_pos <= Len(c.cur)
        /\ c.pos \in 0 .. Len(P) /\ c.cur = P[c.pos] /\ Len(c.cur) > 0
    BY ReaderFields
  <1>3. /\ Position(c) = Offset(P, c.pos - 1) + c.byte_pos /\ Offset(P, c.pos - 1) \in Nat
        /\ Offset(P, c.pos) = Offset(P, c.pos - 1) + Len(c.cur)
    BY PositionIs
  <1>4. /\ here \in Int /\ len - here > 0 /\ len - here \in Int
        /\ Offset(P, c.pos) + (len - here) = T /\ T > Offset(P, c.pos)
    <2> DEFINE o == Offset(P, c.pos - 1)
               k == Len(c.cur)
               e == c.byte_pos
    <2>1. /\ k \in Nat /\ e \in Nat /\ o \in Nat /\ e + len > k /\ here = k - e
          /\ Offset(P, c.pos) = o + k /\ T = (o + e) + len
      BY <1>2, <1>3
    <2> HIDE DEF o, k, e, here, T
    <2> QED  BY <2>1
  <1>5. NumNonEmpty(P, c.pos) >= 1 /\ NumNonEmpty(P, c.pos) \in Nat
    <2> DEFINE n == c.pos - 1
    <2>1. n \in 0 .. Len(P) - 1 /\ n + 1 = c.pos /\ P[n + 1] # <<>>
      BY <1>2, OffsetEnds
    <2> HIDE DEF n
    <2>2. NumNonEmpty(P, n) \in Nat
          /\ NumNonEmpty(P, n + 1) = NumNonEmpty(P, n) + (IF P[n + 1] # <<>> THEN 1 ELSE 0)
      BY <2>1, NonEmptyNext
    <2> QED  BY <2>1, <2>2
  <1> HIDE DEF r, here
  <1>6. /\ p.b = r /\ p.cpd = len - here /\ p.cplen = here /\ p.more = TRUE
        /\ p \in Following(P)
    BY <1>1, <1>4 DEF Following, r, here
  <1> HIDE DEF T
  <1>7. CASE ~Ok(r)
    <2>1. T > Len(Stream(P))
      BY <1>1, <1>4, <1>7, OffsetEnds
    <2> QED  BY <1>6, <1>7, <2>1 DEF Goes, T
  <1>8. CASE Ok(r)
    <2>1. /\ r.pos # 0 /\ r.byte_pos = 0 /\ r.bit_pos = Msb /\ Kept(c, r)
          /\ Position(r) = Offset(P, c.pos)
          /\ NumNonEmpty(P, r.pos) = NumNonEmpty(P, c.pos) + 1
      BY <1>1, <1>8 DEF Taken
    <2>2. p.cpd > 0 /\ Position(r) + p.cpd = T /\ NumNonEmpty(P, r.pos) >= 0 + 2
      BY <1>4, <1>5, <1>6, <2>1
    <2> QED  BY <1>6, <1>8, <2>1, <2>2 DEF Goes, T
  <1> QED  BY <1>7, <1>8

LEMMA FollowOneIn ==
    ASSUME NEW P \in Payloads, Within(P), NEW p \in Following(P)
    PROVE  FollowOne(p) \in Following(P)
  <1> DEFINE n == Min({p.cpd, Len(p.b.cur)})
  <1>1. p.b \in Readers(P) /\ p.cpd \in Int
    BY DEF Following
  <1>2. Len(p.b.cur) \in Int
    BY <1>1, ReaderFields
  <1>3. n \in Int
    BY <1>1, <1>2, MinIs
  <1>4. Ok(p.b) => receive(p.b) \in Readers(P)
    BY <1>1, ReceiveFacts
  <1> HIDE DEF n
  <1>5. FollowOne(p) = IF ~p.more \/ ~Ok(p.b) THEN p
                       ELSE [b |-> IF p.cpd - n # 0 THEN receive(p.b) ELSE p.b,
                             cpd |-> p.cpd - n, cplen |-> n, more |-> p.cpd - n # 0]
    BY DEF FollowOne, n
  <1> QED  BY <1>1, <1>3, <1>4, <1>5 DEF Following

LEMMA GoesNext ==
    ASSUME NEW P \in Payloads, Within(P), NEW c \in Readers(P), NEW T \in Nat, NEW i \in Nat,
           NEW p, Goes(P, c, T, i, p)
    PROVE  Goes(P, c, T, i + 1, FollowOne(p))
  <1> DEFINE n == Min({p.cpd, Len(p.b.cur)})
             q == FollowOne(p)
             r == receive(p.b)
  <1>1. p \in Following(P) /\ p.b \in Readers(P) /\ p.cpd \in Int
    BY DEF Goes, Following
  <1>2. q \in Following(P)
    BY <1>1, FollowOneIn
  <1>3. q = IF ~p.more \/ ~Ok(p.b) THEN p
            ELSE [b |-> IF p.cpd - n # 0 THEN r ELSE p.b,
                  cpd |-> p.cpd - n, cplen |-> n, more |-> p.cpd - n # 0]
    BY DEF FollowOne
  <1>4. CASE ~p.more \/ ~Ok(p.b)
    BY <1>3, <1>4 DEF Goes
  <1>5. CASE p.more /\ Ok(p.b)
    <2>1. /\ p.b.pos # 0 /\ p.b.byte_pos = 0 /\ p.b.bit_pos = Msb /\ Kept(c, p.b)
          /\ p.cpd > 0 /\ Position(p.b) + p.cpd = T /\ NumNonEmpty(P, p.b.pos) >= i + 2
      BY <1>5 DEF Goes
    <2>2. /\ Len(p.b.cur) \in Nat /\ p.b.pos \in 0 .. Len(P)
      BY <1>1, ReaderFields
    <2>3. /\ Position(p.b) = Offset(P, p.b.pos - 1) + 0 /\ Offset(P, p.b.pos - 1) \in Nat
          /\ Offset(P, p.b.pos) = Offset(P, p.b.pos - 1) + Len(p.b.cur)
          /\ Position(p.b) \in Nat
      BY <1>1, <2>1, PositionIs
    <2>4. n = IF p.cpd <= Len(p.b.cur) THEN p.cpd ELSE Len(p.b.cur)
      <3>1. p.cpd \in Int /\ Len(p.b.cur) \in Int
        BY <1>1, <2>2
      <3> QED  BY <3>1, MinIs
    <2> HIDE DEF n, q, r
    <2>5. CASE p.cpd <= Len(p.b.cur)
      <3>1. n = p.cpd /\ p.cpd - n = 0
        BY <1>1, <2>4, <2>5
      <3>2. q.b = p.b /\ q.cplen = p.cpd /\ q.more = FALSE
        BY <1>3, <1>5, <3>1
      <3> QED  BY <1>1, <1>2, <1>5, <2>1, <2>5, <3>2 DEF Goes, q
    <2>6. CASE ~(p.cpd <= Len(p.b.cur))
      <3>1. n = Len(p.b.cur) /\ p.cpd - n # 0 /\ p.cpd - n > 0
        BY <1>1, <2>2, <2>4, <2>6
      <3>2. q.b = r /\ q.cpd = p.cpd - Len(p.b.cur) /\ q.more = TRUE
        BY <1>3, <1>5, <3>1
      <3>3. Offset(P, p.b.pos) + q.cpd = T /\ q.cpd > 0 /\ T > Offset(P, p.b.pos)
        <4> DEFINE here == Offset(P, p.b.pos - 1)
                   next == Offset(P, p.b.pos)
                   size == Len(p.b.cur)
                   cpd == p.cpd
        <4>1. /\ here \in Nat /\ size \in Nat /\ cpd \in Int
              /\ here + cpd = T /\ next = here + size /\ q.cpd = cpd - size /\ cpd - size > 0
          <5>1. cpd - size > 0
            BY <3>1
          <5>2. here + cpd = T
            BY <1>1, <2>1, <2>3
          <5> QED  BY <1>1, <2>2, <2>3, <3>2, <5>1, <5>2
        <4> HIDE DEF here, next, size, cpd
        <4>2. next + q.cpd = T /\ q.cpd > 0 /\ T > next
          BY <4>1
        <4> QED  BY <4>2 DEF next
      <3>4. /\ r \in Readers(P)
            /\ IF Ok(r) THEN p.b.pos # Len(P) /\ Taken(P, p.b, r)
               ELSE p.b.pos = Len(P) /\ r.st = "leak"
        BY <1>1, <1>5, ReceiveFacts DEF r
      <3>5. CASE ~Ok(r)
        <4>1. T > Len(Stream(P))
          BY <3>3, <3>4, <3>5, OffsetEnds
        <4> QED  BY <1>2, <3>2, <3>5, <4>1 DEF Goes, q
      <3>6. CASE Ok(r)
        <4>1. /\ r.pos # 0 /\ r.byte_pos = 0 /\ r.bit_pos = Msb /\ Kept(c, r)
              /\ Position(r) = Offset(P, p.b.pos)
              /\ NumNonEmpty(P, r.pos) = NumNonEmpty(P, p.b.pos) + 1
          BY <2>1, <3>4, <3>6 DEF Taken, Kept
        <4>2. NumNonEmpty(P, p.b.pos) \in Nat
          BY <2>2, NonEmptyGrows
        <4>3. Position(r) + q.cpd = T /\ NumNonEmpty(P, r.pos) >= (i + 1) + 2
          BY <2>1, <3>3, <4>1, <4>2
        <4> QED  BY <1>2, <3>2, <3>3, <3>6, <4>1, <4>3 DEF Goes, q
      <3> QED  BY <3>5, <3>6
    <2> QED  BY <2>5, <2>6
  <1> QED  BY <1>4, <1>5

(* How the payloads gone on into are looked at one after the other.         *)
LEMMA FollowIs ==
    ASSUME FollowLimit \in Nat, NEW P \in Payloads, Within(P), NEW c \in Readers(P), Ok(c),
           c.pos # 0, NEW len \in Nat, c.byte_pos + len > Len(c.cur)
    PROVE  Goes(P, c, Position(c) + len, FollowLimit, Follow(c, len))
  <1> DEFINE V == Following(P)
             N == FollowLimit
             T == Position(c) + len
             here == Len(c.cur) - c.byte_pos
             a == [b |-> receive(c), cpd |-> len - here, cplen |-> here, more |-> TRUE]
             G == [q \in (1 .. N) \X V |-> FollowOne(q[2])]
             Is(f) == f = [i \in 0 .. N |-> IF i = 0 THEN a ELSE FollowOne(f[i - 1])]
             g == CHOOSE f : Is(f)
             S == {i \in 0 .. N : Goes(P, c, T, i, g[i])}
  <1>1. Goes(P, c, T, 0, a) /\ T \in Nat
    <2>1. Goes(P, c, T, 0, a)
      BY GoesFirst
    <2>2. Position(c) \in Nat
      BY PositionIs
    <2> QED  BY <2>1, <2>2
  <1>2. Follow(c, len) = g[N]
    BY DEF Follow
  <1> HIDE DEF a, T
  <1>3. a \in V
    BY <1>1 DEF Goes
  <1>4. G \in [(1 .. N) \X V -> V]
    BY FollowOneIn
  <1>5. Is(g)
    <2>1. HasRecursive(V, a, G, N)
      <3> HIDE DEF V, G
      <3> QED  BY <1>3, <1>4, RecursiveExists
    <2>2. PICK h \in [0 .. N -> V] : Recursive(h, a, G, N)
      BY <2>1 DEF HasRecursive
    <2>3. h = [i \in 0 .. N |-> IF i = 0 THEN a ELSE G[<<i, h[i - 1]>>]]
      BY <2>2 DEF Recursive
    <2>4. \A i \in 1 .. N : G[<<i, h[i - 1]>>] = FollowOne(h[i - 1])
      <3> TAKE i \in 1 .. N
      <3>1. h[i - 1] \in V
        BY <2>2
      <3> HIDE DEF V
      <3> QED  BY <3>1
    <2> HIDE DEF V, G
    <2>5. Is(h)
      <3>1. \A i \in 0 .. N : i # 0 => i \in 1 .. N
        OBVIOUS
      <3> QED  BY <2>3, <2>4, <3>1
    <2> HIDE DEF Is
    <2> QED  BY <2>5
  <1> HIDE DEF g
  <1>6. g[0] = a /\ \A i \in 0 .. N - 1 : g[i + 1] = FollowOne(g[i])
    <2>1. 0 \in 0 .. N /\ \A i \in 0 .. N - 1 : i + 1 \in 0 .. N /\ i + 1 # 0 /\ (i + 1) - 1 = i
      OBVIOUS
    <2> QED  BY <1>5, <2>1
  <1>7. 0 \in S
    BY <1>1, <1>6
  <1>8. ASSUME NEW m \in 0 .. N - 1, m \in S PROVE m + 1 \in S
    <2>1. Goes(P, c, T, m, g[m]) /\ m + 1 \in 0 .. N /\ m \in Nat
      BY <1>8
    <2>2. Goes(P, c, T, m + 1, g[m + 1])
      BY <1>1, <1>6, <2>1, GoesNext
    <2> QED  BY <2>1, <2>2
  <1> HIDE DEF S
  <1>9. \A m \in 0 .. N : m \in S
    BY <1>7, <1>8, UpTo
  <1>10. N \in S /\ N \in 0 .. N
    BY <1>9
  <1> QED  BY <1>2, <1>10 DEF S, T

(* Where a code-block of len bytes leaves the reader.                       *)
DataRead(S, b, len, r) ==
    IF Position(b) + len <= Len(S)
    THEN At(r, Position(b) + len, Msb, b.bit_purge, b.val)
    ELSE r.st = "leak"

LEMMA DataIs ==
    ASSUME FollowLimit \in Nat, NEW S, NEW b \in Going(S), Ok(b), b.bit_pos = Msb, NEW len \in Nat
    PROVE  PacketData(b, len) \in Going(S) /\ DataRead(S, b, len, PacketData(b, len))
  <1> DEFINE r == PacketData(b, len)
             e == Follow(b, len)
             T == Position(b) + len
  <1>1. PICK P \in Payloads : Within(P) /\ Stream(P) = S /\ b \in Readers(P)
    BY CutOf DEF Going
  <1>2. /\ b.byte_pos \in Nat /\ Len(b.cur) \in Nat /\ b \in ReaderType(P)
        /\ b.val \in Nat /\ b.bit_purge \in Nat /\ b.byte_pos <= Len(b.cur)
        /\ b \in ReadersOf(S) /\ b.pos # 0 /\ Msb \in Masks
    BY <1>1, ReaderFields DEF Going, Masks, Msb
  <1>3. /\ Position(b) = Offset(P, b.pos - 1) + b.byte_pos /\ Offset(P, b.pos - 1) \in Nat
        /\ Offset(P, b.pos) = Offset(P, b.pos - 1) + Len(b.cur)
        /\ Offset(P, b.pos) <= Len(S) /\ Position(b) \in Nat /\ Len(S) \in Nat
    BY <1>1, <1>2, PositionIs, AnyIs
  <1>4. CASE b.byte_pos + len <= Len(b.cur)
    <2> DEFINE n == b.byte_pos + len
    <2>1. r = advance_byte_pos(b, len)
      BY <1>4 DEF PacketData
    <2>2. Shifted(b, r, n, Msb, b.bit_purge, b.val)
      BY <1>2, <2>1 DEF Shifted, advance_byte_pos, ReaderType
    <2>3. n \in Nat /\ n <= Len(b.cur) /\ n - b.byte_pos = len
      BY <1>2, <1>4
    <2>4. Position(b) + len <= Len(S)
      BY <1>2, <1>3, <1>4
    <2> HIDE DEF n, r
    <2>5. /\ r \in ReadersOf(S) /\ r.pos = b.pos
          /\ At(r, Position(b) + (n - b.byte_pos), Msb, b.bit_purge, b.val)
      BY <1>2, <2>2, <2>3, ShiftedIs
    <2> QED  BY <1>2, <2>3, <2>4, <2>5 DEF DataRead, Going, r
  <1>5. CASE ~(b.byte_pos + len <= Len(b.cur))
    <2>1. r = step(e.b, e.cplen)
      BY <1>5 DEF PacketData
    <2>2. Goes(P, b, T, FollowLimit, e)
      <3>1. b.byte_pos + len > Len(b.cur)
        BY <1>2, <1>5
      <3> QED  BY <1>1, <1>2, <3>1, FollowIs
    <2> DEFINE c == e.b
    <2>3. c \in Readers(P) /\ e.cplen \in Int /\ c \in ReadersOf(S)
      BY <1>1, <2>2, InAny DEF Goes, Following
    <2> HIDE DEF e, T, r
    <2>4. CASE ~Ok(c)
      <3>1. r = c /\ T > Len(S)
        BY <1>1, <2>1, <2>2, <2>4 DEF step, Goes
      <3>2. c.st = "leak"
        BY <2>3, <2>4, ReaderFields DEF Ok
      <3> QED  BY <1>3, <2>3, <2>4, <3>1, <3>2 DEF DataRead, Going, r, T
    <2>5. CASE Ok(c)
      <3>1. /\ c.pos # 0 /\ c.byte_pos = 0 /\ c.bit_pos = Msb /\ Kept(b, c)
            /\ e.more => NumNonEmpty(P, c.pos) >= FollowLimit + 2
            /\ ~e.more => /\ 0 <= e.cplen /\ e.cplen <= Len(c.cur)
                          /\ Position(c) + e.cplen = T
        BY <2>2, <2>5 DEF Goes
      <3>2. ~e.more
        <4>1. c.pos \in 0 .. Len(P)
          BY <2>3, ReaderFields
        <4>2. /\ NumNonEmpty(P, c.pos) \in Nat
              /\ NumNonEmpty(P, c.pos) <= NumNonEmpty(P, Len(P))
          BY <4>1, NonEmptyGrows
        <4>3. Len(P) \in 0 .. Len(P)
          BY OffsetEnds
        <4>4. NumNonEmpty(P, Len(P)) \in Nat
          BY <4>3, NonEmptyGrows
        <4>5. NumNonEmpty(P, Len(P)) <= FollowLimit + 1
          BY <1>1 DEF Within
        <4> QED  BY <3>1, <4>2, <4>4, <4>5
      <3> DEFINE n == e.cplen
      <3>3. n \in Nat /\ n <= Len(c.cur) /\ Position(c) + n = T
        BY <2>3, <3>1, <3>2
      <3>4. /\ c \in ReaderType(P) /\ c.val \in Nat /\ c.bit_purge \in Nat
            /\ c.val = b.val /\ c.bit_purge = b.bit_purge
        BY <2>3, <3>1, ReaderFields DEF Kept
      <3>5. Shifted(c, r, n, Msb, c.bit_purge, c.val)
        <4>1. r = [c EXCEPT !.byte_pos = c.byte_pos + n]
          BY <2>1, <2>5 DEF step, advance_byte_pos
        <4>2. c.byte_pos + n = n
          BY <3>1, <3>3
        <4> HIDE DEF n, c
        <4> QED  BY <3>1, <3>4, <4>1, <4>2 DEF Shifted, ReaderType
      <3>6. n - c.byte_pos = n
        BY <3>1, <3>3
      <3> HIDE DEF n, c
      <3>7. /\ r \in ReadersOf(S) /\ r.pos = c.pos
            /\ At(r, Position(c) + (n - c.byte_pos), Msb, c.bit_purge, c.val)
        BY <1>2, <2>3, <2>5, <3>3, <3>4, <3>5, ShiftedIs
      <3>8. At(r, T, Msb, b.bit_purge, b.val) /\ r \in Going(S)
        BY <3>1, <3>3, <3>4, <3>6, <3>7 DEF Going
      <3>9. T <= Len(S)
        BY <3>7, <3>8, AnyIs DEF At
      <3> QED  BY <3>8, <3>9 DEF DataRead, r, T
    <2> QED  BY <2>4, <2>5
  <1> QED  BY <1>4, <1>5

LEMMA PacketDataIn ==
    ASSUME FollowLimit \in Nat, NEW S, NEW b \in Going(S), NEW len \in Nat
    PROVE  make_packet_data(b, len) \in Going(S)
  <1> DEFINE a == r_fill(b)
  <1>1. a \in Going(S) /\ a.st = b.st /\ (Ok(b) => a.bit_pos = Msb)
    BY FillIs DEF At
  <1>2. make_packet_data(b, len) = PacketData(a, len)
    BY DEF make_packet_data
  <1> HIDE DEF a
  <1>3. CASE Ok(a)
    BY <1>1, <1>2, <1>3, DataIs DEF Ok
  <1>4. CASE ~Ok(a)
    BY <1>1, <1>2, <1>4 DEF PacketData
  <1> QED  BY <1>3, <1>4

LEMMA PacketDataSame ==
    ASSUME FollowLimit \in Nat, NEW S, NEW b \in Going(S), NEW c \in Going(S), Same(b, c),
           NEW len \in Nat
    PROVE  Same(make_packet_data(b, len), make_packet_data(c, len))
  <1> DEFINE x == r_fill(b)
             y == r_fill(c)
  <1>1. /\ x \in Going(S) /\ y \in Going(S) /\ Same(x, y)
        /\ Ok(x) => x.bit_pos = Msb
        /\ Ok(y) => y.bit_pos = Msb
    BY FillIs, FillSame DEF At, Ok
  <1>2. /\ make_packet_data(b, len) = PacketData(x, len)
        /\ make_packet_data(c, len) = PacketData(y, len)
    BY DEF make_packet_data
  <1> HIDE DEF x, y
  <1>3. CASE Ok(x)
    <2>1. /\ Ok(y) /\ Position(y) = Position(x) /\ y.bit_purge = x.bit_purge /\ y.val = x.val
      BY <1>1, <1>3 DEF Same, At
    <2>2. DataRead(S, x, len, PacketData(x, len)) /\ DataRead(S, x, len, PacketData(y, len))
      <3>1. DataRead(S, x, len, PacketData(x, len)) /\ DataRead(S, y, len, PacketData(y, len))
        BY <1>1, <1>3, <2>1, DataIs
      <3> QED  BY <2>1, <3>1 DEF DataRead
    <2>3. Same(PacketData(x, len), PacketData(y, len))
      BY <2>2 DEF DataRead, Same, At, Ok
    <2> QED  BY <1>2, <2>3
  <1>4. CASE ~Ok(x)
    BY <1>1, <1>2, <1>4 DEF PacketData, Same, Ok
  <1> QED  BY <1>3, <1>4

--------------------------------------------------------------------------------
(* Fields of several bits or bytes. *)

Radixes == {2, 256}
Put(p, q, radix) == p.val * radix + q.val

LEMMA JoinIs ==
    ASSUME NEW S, NEW p \in ReadersOf(S), NEW q \in ReadersOf(S), NEW radix \in Radixes
    PROVE  /\ Join(p, q, radix) \in ReadersOf(S) /\ Join(p, q, radix).st = q.st
           /\ q \in Going(S) => Join(p, q, radix) \in Going(S)
           /\ Ok(q) => At(Join(p, q, radix), Position(q), q.bit_pos, q.bit_purge,
                          Put(p, q, radix))
  <1> DEFINE v == p.val * radix + q.val
             r == [q EXCEPT !.val = p.val * radix + @]
  <1>1. v \in Nat
    <2>1. p.val \in Nat /\ q.val \in Nat
      BY AnyIs
    <2>2. CASE radix = 2
      BY <2>1, <2>2
    <2>3. CASE radix = 256
      BY <2>1, <2>3
    <2> QED  BY <2>2, <2>3 DEF Radixes
  <1>2. r = Holding(q, v)
    BY DEF Holding
  <1> HIDE DEF v, r
  <1>3. /\ r \in ReadersOf(S) /\ r.pos = q.pos /\ r.st = q.st
        /\ Ok(q) => At(r, Position(q), q.bit_pos, q.bit_purge, v)
    BY <1>1, <1>2, ValIs
  <1>4. Join(p, q, radix) = IF Ok(q) THEN r ELSE q
    BY DEF Join, r
  <1> QED  BY <1>3, <1>4 DEF v, Going, Ok, Put

LEMMA JoinSame ==
    ASSUME NEW S, NEW p \in ReadersOf(S), NEW q \in ReadersOf(S), NEW s \in ReadersOf(S), NEW t \in ReadersOf(S),
           NEW radix \in Radixes, Same(p, s), Same(q, t), Ok(q) => Ok(p)
    PROVE  Same(Join(p, q, radix), Join(s, t, radix))
  <1> DEFINE x == Join(p, q, radix)
             y == Join(s, t, radix)
  <1>1. /\ x.st = q.st /\ y.st = t.st
        /\ Ok(q) => At(x, Position(q), q.bit_pos, q.bit_purge, Put(p, q, radix))
        /\ Ok(t) => At(y, Position(t), t.bit_pos, t.bit_purge, Put(s, t, radix))
    <2>1. /\ x.st = q.st
          /\ Ok(q) => At(x, Position(q), q.bit_pos, q.bit_purge, Put(p, q, radix))
      BY JoinIs
    <2>2. /\ y.st = t.st
          /\ Ok(t) => At(y, Position(t), t.bit_pos, t.bit_purge, Put(s, t, radix))
      BY JoinIs
    <2> QED  BY <2>1, <2>2
  <1> HIDE DEF x, y
  <1>2. CASE ~Ok(q)
    BY <1>1, <1>2 DEF Same, Ok, x, y
  <1>3. CASE Ok(q)
    <2>1. /\ Ok(t) /\ Position(t) = Position(q) /\ t.bit_pos = q.bit_pos
          /\ t.bit_purge = q.bit_purge /\ t.val = q.val /\ s.val = p.val
      BY <1>3 DEF Same, At
    <2>2. Put(s, t, radix) = Put(p, q, radix)
      BY <2>1 DEF Put
    <2>3. Same(x, y)
      BY <1>1, <1>3, <2>1, <2>2 DEF Same, At
    <2> QED  BY <2>3 DEF x, y
  <1> QED  BY <1>2, <1>3

BitsRun(b, n, f) ==
    /\ f[0] = [b EXCEPT !.val = 0] /\ get_bits(b, n) = f[n]
    /\ \A k \in 0 .. n - 1 : f[k + 1] = Join(f[k], get_bit(f[k]), 2)


LEMMA BitsRunIs ==
    ASSUME NEW S, NEW b \in Going(S), NEW m \in Nat
    PROVE  \E f \in [0 .. m -> Going(S)] : BitsRun(b, m, f)
  <1> DEFINE V == Going(S)
             n == m
             a == [b EXCEPT !.val = 0]
             Next1(k, p) == Join(p, get_bit(p), 2)
             G == [q \in (1 .. n) \X V |-> Next1(q[1], q[2])]
             Is(f) == f = [k \in 0 .. n |-> IF k = 0 THEN a ELSE Next1(k, f[k - 1])]
             g == CHOOSE f : Is(f)
  <1>0. n \in Nat
    OBVIOUS
  <1>1. a \in V
    BY ValIs DEF Going, Ok, Holding
  <1>2. \A k \in 1 .. n, p \in V : Next1(k, p) \in V
    <2> TAKE k \in 1 .. n, p \in V
    <2>1. p \in ReadersOf(S) /\ get_bit(p) \in V /\ get_bit(p) \in ReadersOf(S)
      BY BitIs DEF Going
    <2> HIDE DEF V, n
    <2> QED  BY <2>1, JoinIs DEF V, Radixes
  <1>3. get_bits(b, m) = g[n]
    BY DEF get_bits, Repeat
  <1> HIDE DEF V, a, Next1, n
  <1>4. G \in [(1 .. n) \X V -> V]
    BY <1>2
  <1>5. PICK h \in [0 .. n -> V] : Recursive(h, a, G, n)
    <2> HIDE DEF G
    <2> QED  BY <1>0, <1>1, <1>4, RecursiveExists DEF HasRecursive
  <1>6. Is(h)
    <2>1. h = [k \in 0 .. n |-> IF k = 0 THEN a ELSE G[<<k, h[k - 1]>>]]
      BY <1>5 DEF Recursive
    <2>2. \A k \in 0 .. n : k # 0 => G[<<k, h[k - 1]>>] = Next1(k, h[k - 1])
      <3> TAKE k \in 0 .. n
      <3>1. k # 0 => k \in 1 .. n /\ h[k - 1] \in V
        BY <1>0, <1>5
      <3> QED  BY <3>1
    <2> HIDE DEF G
    <2> QED  BY <2>1, <2>2
  <1>7. Is(g)
    <2> HIDE DEF Is
    <2> QED  BY <1>6
  <1> HIDE DEF g
  <1>8. g[0] = a /\ \A k \in 0 .. n - 1 : g[k + 1] = Next1(k + 1, g[k])
    <2>1. /\ 0 \in 0 .. n
          /\ \A k \in 0 .. n - 1 : k + 1 \in 0 .. n /\ k + 1 # 0 /\ (k + 1) - 1 = k
      BY <1>0
    <2> QED  BY <1>7, <2>1
  <1>9. g \in [0 .. n -> V]
    <2>1. \A k \in 1 .. n : g[k - 1] \in V => g[k] = G[<<k, g[k - 1]>>]
      <3> TAKE k \in 1 .. n
      <3>1. k - 1 \in 0 .. n - 1 /\ (k - 1) + 1 = k
        BY <1>0
      <3>2. g[k] = Next1(k, g[k - 1])
        BY <1>8, <3>1
      <3> QED  BY <3>2
    <2> HIDE DEF G
    <2>2. \A k \in 0 .. n : g[k] \in V
      BY <1>0, <1>1, <1>4, <1>8, <2>1, LoopIs
    <2> QED  BY <1>7, <2>2
  <1>10. BitsRun(b, m, g)
    BY <1>3, <1>8 DEF BitsRun, a, Next1, n
  <1> QED  BY <1>9, <1>10 DEF V, n


LEMMA BitsIs ==
    ASSUME NEW S, NEW b \in Going(S), NEW n \in Nat
    PROVE  get_bits(b, n) \in Going(S) /\ (~Ok(b) => get_bits(b, n).st = b.st)
  <1>1. PICK f \in [0 .. n -> Going(S)] : BitsRun(b, n, f)
    BY BitsRunIs
  <1> DEFINE B == {k \in 0 .. n : ~Ok(b) => f[k].st = b.st}
  <1>2. 0 \in B
    <2>1. f[0].st = b.st
      BY <1>1, ValIs DEF BitsRun, Going, Holding
    <2> QED  BY <2>1
  <1>3. ASSUME NEW k \in 0 .. n - 1, k \in B PROVE k + 1 \in B
    <2> DEFINE p == f[k]
               q == get_bit(p)
               r == f[k + 1]
    <2>1. p \in ReadersOf(S) /\ k + 1 \in 0 .. n /\ r = Join(p, q, 2)
      BY <1>1 DEF BitsRun, Going
    <2> HIDE DEF p, r
    <2>2. q \in ReadersOf(S) /\ (~Ok(p) => q.st = p.st)
      BY <2>1, BitIs DEF Going
    <2> HIDE DEF q
    <2>3. r.st = q.st
      <3> DEFINE radix == 2
      <3>1. radix \in Radixes /\ r = Join(p, q, radix)
        BY <2>1 DEF Radixes
      <3> HIDE DEF radix
      <3>a. p \in ReadersOf(S) /\ q \in ReadersOf(S) /\ radix \in Radixes
        BY <2>1, <2>2, <3>1
      <3>2. Join(p, q, radix).st = q.st
        BY <3>a, JoinIs, Zenon
      <3> QED  BY <3>1, <3>2
    <2>4. (~Ok(b) => p.st = b.st) => (~Ok(b) => r.st = b.st)
      BY <2>2, <2>3 DEF Ok
    <2> QED  BY <1>3, <2>1, <2>4 DEF p, r
  <1> HIDE DEF B
  <1>4. \A k \in 0 .. n : k \in B
    BY <1>2, <1>3, UpTo
  <1>5. n \in B /\ n \in 0 .. n /\ f[n] \in Going(S)
    BY <1>4
  <1> QED  BY <1>1, <1>5 DEF B, BitsRun

LEMMA BitsSame ==
    ASSUME NEW S, NEW b \in Going(S), NEW c \in Going(S), NEW n \in Nat, Same(b, c)
    PROVE  Same(get_bits(b, n), get_bits(c, n))
  <1>1. PICK f \in [0 .. n -> Going(S)] : BitsRun(b, n, f)
    BY BitsRunIs
  <1>2. PICK h \in [0 .. n -> Going(S)] : BitsRun(c, n, h)
    BY BitsRunIs
  <1> DEFINE B == {k \in 0 .. n : Same(f[k], h[k])}
  <1>3. 0 \in B
    <2>1. b \in ReadersOf(S) /\ c \in ReadersOf(S)
      BY DEF Going
    <2>2. f[0] = Holding(b, 0) /\ h[0] = Holding(c, 0)
      BY <1>1, <1>2 DEF BitsRun, Holding
    <2>3. f[0].st = b.st /\ (Ok(b) => At(f[0], Position(b), b.bit_pos, b.bit_purge, 0))
      BY <2>1, <2>2, ValIs
    <2>4. h[0].st = c.st /\ (Ok(c) => At(h[0], Position(c), c.bit_pos, c.bit_purge, 0))
      BY <2>1, <2>2, ValIs
    <2>5. Same(f[0], h[0])
      BY <2>3, <2>4 DEF Same, At, Ok
    <2> QED  BY <2>5
  <1>4. ASSUME NEW k \in 0 .. n - 1, k \in B PROVE k + 1 \in B
    <2> DEFINE p == f[k]
               s == h[k]
               q == get_bit(p)
               t == get_bit(s)
    <2>1. /\ p \in ReadersOf(S) /\ s \in ReadersOf(S) /\ k + 1 \in 0 .. n /\ Same(p, s)
          /\ f[k + 1] = Join(p, q, 2) /\ h[k + 1] = Join(s, t, 2)
      BY <1>1, <1>2, <1>4 DEF BitsRun, Going
    <2> HIDE DEF p, s
    <2>2. q \in ReadersOf(S) /\ t \in ReadersOf(S) /\ Same(q, t) /\ (Ok(q) => Ok(p))
      BY <2>1, BitIs, BitSame DEF Going, Ok
    <2> HIDE DEF q, t
    <2>3. Same(Join(p, q, 2), Join(s, t, 2))
      BY <2>1, <2>2, JoinSame DEF Radixes
    <2> QED  BY <2>1, <2>3
  <1> HIDE DEF B
  <1>5. \A k \in 0 .. n : k \in B
    BY <1>3, <1>4, UpTo
  <1>6. n \in B
    BY <1>5
  <1> QED  BY <1>1, <1>2, <1>6 DEF B, BitsRun


BytesRun(b, n, f) ==
    /\ f[0] = [b EXCEPT !.val = 0] /\ get_bytes(b, n) = f[n]
    /\ \A k \in 0 .. n - 1 : f[k + 1] = Join(f[k], get_byte(f[k]), 256)


LEMMA BytesRunIs ==
    ASSUME NEW S, NEW b \in ReadersOf(S), NEW m \in Nat
    PROVE  \E f \in [0 .. m -> ReadersOf(S)] : BytesRun(b, m, f)
  <1> DEFINE V == ReadersOf(S)
             n == m
             a == [b EXCEPT !.val = 0]
             Next1(k, p) == Join(p, get_byte(p), 256)
             G == [q \in (1 .. n) \X V |-> Next1(q[1], q[2])]
             Is(f) == f = [k \in 0 .. n |-> IF k = 0 THEN a ELSE Next1(k, f[k - 1])]
             g == CHOOSE f : Is(f)
  <1>0. n \in Nat
    OBVIOUS
  <1>1. a \in V
    BY ValIs DEF Going, Ok, Holding
  <1>2. \A k \in 1 .. n, p \in V : Next1(k, p) \in V
    <2> TAKE k \in 1 .. n, p \in V
    <2>1. p \in ReadersOf(S) /\ get_byte(p) \in ReadersOf(S)
      BY ByteIs
    <2> HIDE DEF n
    <2> QED  BY <2>1, JoinIs DEF Radixes
  <1>3. get_bytes(b, m) = g[n]
    BY DEF get_bytes, Repeat
  <1> HIDE DEF V, a, Next1, n
  <1>4. G \in [(1 .. n) \X V -> V]
    BY <1>2
  <1>5. PICK h \in [0 .. n -> V] : Recursive(h, a, G, n)
    <2> HIDE DEF G
    <2> QED  BY <1>0, <1>1, <1>4, RecursiveExists DEF HasRecursive
  <1>6. Is(h)
    <2>1. h = [k \in 0 .. n |-> IF k = 0 THEN a ELSE G[<<k, h[k - 1]>>]]
      BY <1>5 DEF Recursive
    <2>2. \A k \in 0 .. n : k # 0 => G[<<k, h[k - 1]>>] = Next1(k, h[k - 1])
      <3> TAKE k \in 0 .. n
      <3>1. k # 0 => k \in 1 .. n /\ h[k - 1] \in V
        BY <1>0, <1>5
      <3> QED  BY <3>1
    <2> HIDE DEF G
    <2> QED  BY <2>1, <2>2
  <1>7. Is(g)
    <2> HIDE DEF Is
    <2> QED  BY <1>6
  <1> HIDE DEF g
  <1>8. g[0] = a /\ \A k \in 0 .. n - 1 : g[k + 1] = Next1(k + 1, g[k])
    <2>1. /\ 0 \in 0 .. n
          /\ \A k \in 0 .. n - 1 : k + 1 \in 0 .. n /\ k + 1 # 0 /\ (k + 1) - 1 = k
      BY <1>0
    <2> QED  BY <1>7, <2>1
  <1>9. g \in [0 .. n -> V]
    <2>1. \A k \in 1 .. n : g[k - 1] \in V => g[k] = G[<<k, g[k - 1]>>]
      <3> TAKE k \in 1 .. n
      <3>1. k - 1 \in 0 .. n - 1 /\ (k - 1) + 1 = k
        BY <1>0
      <3>2. g[k] = Next1(k, g[k - 1])
        BY <1>8, <3>1
      <3> QED  BY <3>2
    <2> HIDE DEF G
    <2>2. \A k \in 0 .. n : g[k] \in V
      BY <1>0, <1>1, <1>4, <1>8, <2>1, LoopIs
    <2> QED  BY <1>7, <2>2
  <1>10. BytesRun(b, m, g)
    BY <1>3, <1>8 DEF BytesRun, a, Next1, n
  <1> QED  BY <1>9, <1>10 DEF V, n


LEMMA BytesIs ==
    ASSUME NEW S, NEW b \in ReadersOf(S), NEW n \in Nat
    PROVE  get_bytes(b, n) \in ReadersOf(S) /\ (~Ok(b) => get_bytes(b, n).st = b.st)
  <1>1. PICK f \in [0 .. n -> ReadersOf(S)] : BytesRun(b, n, f)
    BY BytesRunIs
  <1> DEFINE B == {k \in 0 .. n : ~Ok(b) => f[k].st = b.st}
  <1>2. 0 \in B
    <2>1. f[0].st = b.st
      BY <1>1, ValIs DEF BytesRun, Going, Holding
    <2> QED  BY <2>1
  <1>3. ASSUME NEW k \in 0 .. n - 1, k \in B PROVE k + 1 \in B
    <2> DEFINE p == f[k]
               q == get_byte(p)
               r == f[k + 1]
    <2>1. p \in ReadersOf(S) /\ k + 1 \in 0 .. n /\ r = Join(p, q, 256)
      BY <1>1 DEF BytesRun, Going
    <2> HIDE DEF p, r
    <2>2. q \in ReadersOf(S) /\ (~Ok(p) => q.st = p.st)
      BY <2>1, ByteIs DEF Going
    <2> HIDE DEF q
    <2>3. r.st = q.st
      <3> DEFINE radix == 256
      <3>1. radix \in Radixes /\ r = Join(p, q, radix)
        BY <2>1 DEF Radixes
      <3> HIDE DEF radix
      <3>a. p \in ReadersOf(S) /\ q \in ReadersOf(S) /\ radix \in Radixes
        BY <2>1, <2>2, <3>1
      <3>2. Join(p, q, radix).st = q.st
        BY <3>a, JoinIs, Zenon
      <3> QED  BY <3>1, <3>2
    <2>4. (~Ok(b) => p.st = b.st) => (~Ok(b) => r.st = b.st)
      BY <2>2, <2>3 DEF Ok
    <2> QED  BY <1>3, <2>1, <2>4 DEF p, r
  <1> HIDE DEF B
  <1>4. \A k \in 0 .. n : k \in B
    BY <1>2, <1>3, UpTo
  <1>5. n \in B /\ n \in 0 .. n /\ f[n] \in ReadersOf(S)
    BY <1>4
  <1> QED  BY <1>1, <1>5 DEF B, BytesRun

LEMMA BytesSame ==
    ASSUME NEW S, NEW b \in ReadersOf(S), NEW c \in ReadersOf(S), NEW n \in Nat, Same(b, c)
    PROVE  Same(get_bytes(b, n), get_bytes(c, n))
  <1>1. PICK f \in [0 .. n -> ReadersOf(S)] : BytesRun(b, n, f)
    BY BytesRunIs
  <1>2. PICK h \in [0 .. n -> ReadersOf(S)] : BytesRun(c, n, h)
    BY BytesRunIs
  <1> DEFINE B == {k \in 0 .. n : Same(f[k], h[k])}
  <1>3. 0 \in B
    <2>1. b \in ReadersOf(S) /\ c \in ReadersOf(S)
      BY DEF Going
    <2>2. f[0] = Holding(b, 0) /\ h[0] = Holding(c, 0)
      BY <1>1, <1>2 DEF BytesRun, Holding
    <2>3. f[0].st = b.st /\ (Ok(b) => At(f[0], Position(b), b.bit_pos, b.bit_purge, 0))
      BY <2>1, <2>2, ValIs
    <2>4. h[0].st = c.st /\ (Ok(c) => At(h[0], Position(c), c.bit_pos, c.bit_purge, 0))
      BY <2>1, <2>2, ValIs
    <2>5. Same(f[0], h[0])
      BY <2>3, <2>4 DEF Same, At, Ok
    <2> QED  BY <2>5
  <1>4. ASSUME NEW k \in 0 .. n - 1, k \in B PROVE k + 1 \in B
    <2> DEFINE p == f[k]
               s == h[k]
               q == get_byte(p)
               t == get_byte(s)
    <2>1. /\ p \in ReadersOf(S) /\ s \in ReadersOf(S) /\ k + 1 \in 0 .. n /\ Same(p, s)
          /\ f[k + 1] = Join(p, q, 256) /\ h[k + 1] = Join(s, t, 256)
      BY <1>1, <1>2, <1>4 DEF BytesRun, Going
    <2> HIDE DEF p, s
    <2>2. q \in ReadersOf(S) /\ t \in ReadersOf(S) /\ Same(q, t) /\ (Ok(q) => Ok(p))
      BY <2>1, ByteIs, ByteSame DEF Going, Ok
    <2> HIDE DEF q, t
    <2>3. Same(Join(p, q, 256), Join(s, t, 256))
      BY <2>1, <2>2, JoinSame DEF Radixes
    <2> QED  BY <2>1, <2>3
  <1> HIDE DEF B
  <1>5. \A k \in 0 .. n : k \in B
    BY <1>3, <1>4, UpTo
  <1>6. n \in B
    BY <1>5
  <1> QED  BY <1>1, <1>2, <1>6 DEF B, BytesRun

--------------------------------------------------------------------------------
(* The count of zero bits: each bit read is further on in the stream, so    *)
(* the loop ends.                                                           *)

Index(m) ==
    IF m = 128 THEN 0 ELSE IF m = 64 THEN 1 ELSE IF m = 32 THEN 2 ELSE IF m = 16 THEN 3
    ELSE IF m = 8 THEN 4 ELSE IF m = 4 THEN 5 ELSE IF m = 2 THEN 6 ELSE 7

BitsBefore(b) == 8 * Position(b) + Index(b.bit_pos)

LEMMA IndexNext ==
    ASSUME NEW m \in Masks
    PROVE  /\ Index(m) \in 0 .. 7
           /\ m # 1 => Index(m \div 2) = Index(m) + 1
           /\ Index(1) = 7 /\ Index(Msb) = 0 /\ Index(64) = 1
  BY DEF Masks, Index, Msb

LEMMA BitGoesOn ==
    ASSUME NEW S, NEW b \in ReadersOf(S), Ok(get_bit(b))
    PROVE  Ok(b) /\ BitsBefore(b) < BitsBefore(get_bit(b))
  <1> DEFINE r == get_bit(b)
             m == MaskOf(b)
             x == Position(b)
             y == Position(r)
  <1>1. Ok(b) /\ BitRead(S, b, r)
    BY BitIs DEF Ok
  <1>2. m \in Masks /\ b.bit_pos \in Masks /\ x \in Nat
    BY AnyIs DEF MaskOf, Masks
  <1>3. y = x + (IF m = 1 THEN 1 ELSE 0) /\ r.bit_pos = IF m = 1 THEN Msb ELSE m \div 2
    BY <1>1 DEF BitRead, At, Ok
  <1>4. Index(b.bit_pos) <= Index(m) /\ Index(m) \in 0 .. 7 /\ Index(b.bit_pos) \in 0 .. 7
    BY <1>2, IndexNext DEF MaskOf
  <1> HIDE DEF m, x, y
  <1>5. 8 * y + Index(r.bit_pos) > 8 * x + Index(m)
    <2>1. CASE m = 1
      <3>1. y = x + 1 /\ Index(r.bit_pos) = 0 /\ Index(m) = 7
        BY <1>2, <1>3, <2>1, IndexNext
      <3> QED  BY <1>2, <3>1
    <2>2. CASE m # 1
      <3>1. y = x /\ Index(r.bit_pos) = Index(m) + 1
        BY <1>2, <1>3, <2>2, IndexNext
      <3> QED  BY <1>2, <1>4, <3>1
    <2> QED  BY <2>1, <2>2
  <1>6. y \in Int /\ Index(r.bit_pos) \in 0 .. 7
    <2>1. r \in ReadersOf(S)
      BY BitIs DEF Going
    <2>2. y \in Nat /\ r.bit_pos \in Masks
      BY <2>1, AnyIs DEF y
    <2> QED  BY <2>2, IndexNext
  <1>7. 8 * y + Index(r.bit_pos) > 8 * x + Index(b.bit_pos)
    BY <1>2, <1>4, <1>5, <1>6
  <1> QED  BY <1>1, <1>7 DEF BitsBefore, x, y

LEMMA BitsBeforeIs ==
    ASSUME NEW S, NEW b \in ReadersOf(S)
    PROVE  BitsBefore(b) \in Nat /\ BitsBefore(b) < 8 * (Len(S) + 1)
  <1> DEFINE x == Position(b)
             i == Index(b.bit_pos)
             l == Len(S)
  <1>1. x \in Nat /\ l \in Nat /\ x <= l /\ i \in 0 .. 7
    BY AnyIs, IndexNext
  <1>2. BitsBefore(b) = 8 * x + i
    BY DEF BitsBefore
  <1> HIDE DEF x, i, l
  <1>3. BitsBefore(b) \in Nat /\ BitsBefore(b) < 8 * (l + 1)
    BY <1>1, <1>2
  <1> QED  BY <1>3 DEF l

LEMMA StreamOf ==
    ASSUME NEW S, NEW b \in ReadersOf(S)
    PROVE  Stream(b.segs) = S /\ Len(S) \in Nat
  BY CutOf, ReaderFields, AnyIs

First(f, i) == Ends(f[i]) /\ \A k \in 0 .. i - 1 : ~Ends(f[k])
Longest(b) == 8 * (Len(Stream(b.segs)) + 1)

ZerosRun(b, f) ==
    /\ f[0] = get_bit(b)
    /\ \A k \in 0 .. Longest(b) - 1 : f[k + 1] = get_bit(f[k])
    /\ ReadZeroBits(b) = Counted(f[CHOOSE i \in 0 .. Longest(b) : First(f, i)],
                                 CHOOSE i \in 0 .. Longest(b) : First(f, i))

LEMMA ZerosRunIs ==
    ASSUME NEW S, NEW b \in Going(S)
    PROVE  \E f \in [0 .. Longest(b) -> Going(S)] : ZerosRun(b, f)
  <1> DEFINE V == Going(S)
             n == Longest(b)
             a == get_bit(b)
             Next1(k, p) == get_bit(p)
             G == [q \in (1 .. n) \X V |-> Next1(q[1], q[2])]
             Is(f) == f = [k \in 0 .. n |-> IF k = 0 THEN a ELSE Next1(k, f[k - 1])]
             g == CHOOSE f : Is(f)
  <1>0. n \in Nat
    BY StreamOf DEF Longest, Going
  <1>1. a \in V
    BY BitIs DEF Going
  <1>2. \A k \in 1 .. n, p \in V : Next1(k, p) \in V
    BY BitIs DEF Going
  <1>3. ReadZeroBits(b) = Counted(g[CHOOSE i \in 0 .. n : First(g, i)],
                                  CHOOSE i \in 0 .. n : First(g, i))
    BY DEF ReadZeroBits, First, Longest
  <1> HIDE DEF V, a, Next1, n
  <1>4. G \in [(1 .. n) \X V -> V]
    BY <1>2
  <1>5. PICK h \in [0 .. n -> V] : Recursive(h, a, G, n)
    <2> HIDE DEF G
    <2> QED  BY <1>0, <1>1, <1>4, RecursiveExists DEF HasRecursive
  <1>6. Is(h)
    <2>1. h = [k \in 0 .. n |-> IF k = 0 THEN a ELSE G[<<k, h[k - 1]>>]]
      BY <1>5 DEF Recursive
    <2>2. \A k \in 0 .. n : k # 0 => G[<<k, h[k - 1]>>] = Next1(k, h[k - 1])
      <3> TAKE k \in 0 .. n
      <3>1. k # 0 => k \in 1 .. n /\ h[k - 1] \in V
        BY <1>0, <1>5
      <3> QED  BY <3>1
    <2> HIDE DEF G
    <2> QED  BY <2>1, <2>2
  <1>7. Is(g)
    <2> HIDE DEF Is
    <2> QED  BY <1>6
  <1> HIDE DEF g
  <1>8. g[0] = a /\ \A k \in 0 .. n - 1 : g[k + 1] = Next1(k + 1, g[k])
    <2>1. /\ 0 \in 0 .. n
          /\ \A k \in 0 .. n - 1 : k + 1 \in 0 .. n /\ k + 1 # 0 /\ (k + 1) - 1 = k
      BY <1>0
    <2> QED  BY <1>7, <2>1
  <1>9. g \in [0 .. n -> V]
    <2>1. \A k \in 1 .. n : g[k - 1] \in V => g[k] = G[<<k, g[k - 1]>>]
      <3> TAKE k \in 1 .. n
      <3>1. k - 1 \in 0 .. n - 1 /\ (k - 1) + 1 = k
        BY <1>0
      <3>2. g[k] = Next1(k, g[k - 1])
        BY <1>8, <3>1
      <3> QED  BY <3>2
    <2> HIDE DEF G
    <2>2. \A k \in 0 .. n : g[k] \in V
      BY <1>0, <1>1, <1>4, <1>8, <2>1, LoopIs
    <2> QED  BY <1>7, <2>2
  <1>10. ZerosRun(b, g)
    BY <1>3, <1>8 DEF ZerosRun, a, Next1, n
  <1> QED  BY <1>9, <1>10 DEF V, n


LEMMA ZerosEnd ==
    ASSUME NEW S, NEW b \in Going(S),
           NEW f \in [0 .. Longest(b) -> Going(S)], ZerosRun(b, f)
    PROVE  \E i \in 0 .. Longest(b) :
              /\ First(f, i) /\ \A j \in 0 .. Longest(b) : First(f, j) => j = i
              /\ ReadZeroBits(b) = Counted(f[i], i)
  <1> DEFINE n == Longest(b)
             I == {i \in 0 .. n : Ends(f[i])}
  <1>1. n \in Nat /\ n = 8 * (Len(S) + 1) /\ \A k \in 0 .. n : f[k] \in Going(S) /\ f[k] \in ReadersOf(S)
    BY StreamOf DEF Longest, Going
  <1>2. I # {}
    <2>1. SUFFICES ASSUME \A i \in 0 .. n : Ok(f[i]) PROVE FALSE
      BY <1>1 DEF Ends
    <2> DEFINE B == {i \in 0 .. n : BitsBefore(f[i]) >= i}
    <2>2. 0 \in B
      <3>1. 0 \in 0 .. n
        BY <1>1
      <3>2. BitsBefore(f[0]) \in Nat
        BY <1>1, <3>1, BitsBeforeIs
      <3> HIDE DEF n
      <3> QED  BY <3>1, <3>2
    <2>3. ASSUME NEW k \in 0 .. n - 1, k \in B PROVE k + 1 \in B
      <3>1. k \in 0 .. n /\ k + 1 \in 0 .. n /\ BitsBefore(f[k]) >= k /\ k \in Nat
        BY <1>1, <2>3
      <3>2. f[k + 1] = get_bit(f[k])
        BY DEF ZerosRun
      <3>3. Ok(f[k + 1]) /\ f[k] \in ReadersOf(S) /\ f[k + 1] \in ReadersOf(S)
        BY <1>1, <2>1, <3>1
      <3>4. BitsBefore(f[k]) < BitsBefore(f[k + 1])
        BY <3>2, <3>3, BitGoesOn
      <3>5. BitsBefore(f[k]) \in Nat /\ BitsBefore(f[k + 1]) \in Nat
        BY <3>3, BitsBeforeIs
      <3> HIDE DEF n
      <3> QED  BY <3>1, <3>4, <3>5
    <2> HIDE DEF B
    <2>4. \A k \in 0 .. n : k \in B
      BY <1>1, <2>2, <2>3, UpTo
    <2>5. n \in 0 .. n /\ n \in B
      BY <1>1, <2>4
    <2>6. BitsBefore(f[n]) \in Nat /\ BitsBefore(f[n]) < n
      BY <1>1, <2>5, BitsBeforeIs
    <2> HIDE DEF n
    <2> QED  BY <1>1, <2>5, <2>6 DEF B
  <1> HIDE DEF n
  <1>3. PICK i \in I : \A j \in I : i <= j
    <2>1. I \subseteq Nat
      BY <1>1
    <2> HIDE DEF I
    <2> QED  BY <1>2, <2>1, LeastElement
  <1>4. i \in 0 .. n /\ First(f, i)
    <2>1. i \in 0 .. n /\ Ends(f[i])
      OBVIOUS
    <2>2. \A k \in 0 .. i - 1 : ~Ends(f[k])
      <3> TAKE k \in 0 .. i - 1
      <3>1. k \in 0 .. n /\ ~(i <= k)
        BY <1>1, <2>1
      <3> QED  BY <1>3, <3>1
    <2> QED  BY <2>1, <2>2 DEF First
  <1>5. \A j \in 0 .. n : First(f, j) => j = i
    <2> TAKE j \in 0 .. n
    <2> HAVE First(f, j)
    <2>1. Ends(f[j]) /\ Ends(f[i])
      BY <1>4 DEF First
    <2>2. ~(j < i)
      <3>1. j < i => j \in 0 .. i - 1
        BY <1>1, <1>4
      <3> QED  BY <1>4, <2>1, <3>1 DEF First
    <2>3. ~(i < j)
      <3>1. i < j => i \in 0 .. j - 1
        BY <1>1, <1>4
      <3> QED  BY <2>1, <3>1 DEF First
    <2> QED  BY <1>1, <1>4, <2>2, <2>3
  <1>6. (CHOOSE j \in 0 .. n : First(f, j)) = i
    BY <1>4, <1>5
  <1>7. ReadZeroBits(b) = Counted(f[i], i)
    BY <1>6 DEF ZerosRun, n
  <1> QED  BY <1>4, <1>5, <1>7 DEF n

LEMMA CountedIs ==
    ASSUME NEW S, NEW b \in Going(S), NEW n \in Nat
    PROVE  /\ Counted(b, n) \in Going(S) /\ Counted(b, n).st = b.st
           /\ Ok(b) => At(Counted(b, n), Position(b), b.bit_pos, b.bit_purge, n % 256)
  <1> DEFINE v == n % 256
             r == Holding(b, v)
  <1>1. v \in Nat /\ b \in ReadersOf(S)
    BY DEF Going
  <1>2. Counted(b, n) = IF Ok(b) THEN r ELSE b
    BY DEF Counted, Holding
  <1> HIDE DEF v, r
  <1>3. /\ r \in ReadersOf(S) /\ r.pos = b.pos /\ r.st = b.st
        /\ Ok(b) => At(r, Position(b), b.bit_pos, b.bit_purge, v)
    BY <1>1, ValIs DEF r
  <1> QED  BY <1>2, <1>3 DEF v, Going, Ok

LEMMA ZerosIs ==
    ASSUME NEW S, NEW b \in Going(S)
    PROVE  ReadZeroBits(b) \in Going(S) /\ (~Ok(b) => ReadZeroBits(b).st = b.st)
  <1>1. PICK f \in [0 .. Longest(b) -> Going(S)] : ZerosRun(b, f)
    BY ZerosRunIs
  <1>2. PICK i \in 0 .. Longest(b) : First(f, i) /\ ReadZeroBits(b) = Counted(f[i], i)
    BY <1>1, ZerosEnd
  <1>3. Longest(b) \in Nat /\ i \in Nat /\ f[i] \in Going(S)
    BY StreamOf DEF Longest, Going
  <1>4. ReadZeroBits(b) \in Going(S)
    BY <1>2, <1>3, CountedIs
  <1>5. ASSUME ~Ok(b) PROVE ReadZeroBits(b).st = b.st
    <2>1. f[0].st = b.st /\ ~Ok(f[0])
      BY <1>1, <1>5, BitIs DEF ZerosRun, Going, Ok
    <2>2. i = 0
      <3>1. i # 0 => 0 \in 0 .. i - 1
        BY <1>3
      <3> QED  BY <1>2, <2>1, <3>1 DEF First, Ends
    <2> QED  BY <1>2, <1>3, <2>1, <2>2, CountedIs
  <1> QED  BY <1>4, <1>5

LEMMA ZerosSame ==
    ASSUME NEW S, NEW b \in Going(S), NEW c \in Going(S), Same(b, c)
    PROVE  Same(ReadZeroBits(b), ReadZeroBits(c))
  <1>1. Longest(b) = Longest(c) /\ Longest(b) \in Nat
    BY StreamOf DEF Longest, Going
  <1> DEFINE n == Longest(b)
  <1>2. PICK f \in [0 .. n -> Going(S)] : ZerosRun(b, f)
    BY ZerosRunIs
  <1>3. PICK h \in [0 .. n -> Going(S)] : ZerosRun(c, h)
    BY <1>1, ZerosRunIs
  <1>4. PICK i \in 0 .. n : First(f, i) /\ ReadZeroBits(b) = Counted(f[i], i)
    BY <1>2, ZerosEnd
  <1>5. PICK j \in 0 .. n : /\ First(h, j) /\ ReadZeroBits(c) = Counted(h[j], j)
                            /\ \A k \in 0 .. n : First(h, k) => k = j
    BY <1>1, <1>3, ZerosEnd
  <1>6. f[0] = get_bit(b) /\ h[0] = get_bit(c)
        /\ \A k \in 0 .. n - 1 : f[k + 1] = get_bit(f[k]) /\ h[k + 1] = get_bit(h[k])
    BY <1>1, <1>2, <1>3 DEF ZerosRun
  <1> HIDE DEF n
  <1> DEFINE B == {k \in 0 .. n : Same(f[k], h[k])}
  <1>7. 0 \in B
    BY <1>1, <1>6, BitSame DEF Going, n
  <1>8. ASSUME NEW k \in 0 .. n - 1, k \in B PROVE k + 1 \in B
    <2>1. k \in 0 .. n /\ k + 1 \in 0 .. n /\ Same(f[k], h[k])
      BY <1>1, <1>8 DEF n
    <2>2. f[k] \in ReadersOf(S) /\ h[k] \in ReadersOf(S)
      BY <2>1 DEF Going
    <2> QED  BY <1>6, <2>1, <2>2, BitSame
  <1> HIDE DEF B
  <1>9. \A k \in 0 .. n : k \in B
    BY <1>1, <1>7, <1>8, UpTo DEF n
  <1>10. \A k \in 0 .. n : Same(f[k], h[k]) /\ (Ends(f[k]) <=> Ends(h[k]))
    BY <1>9 DEF B, Same, At, Ends, Ok
  <1>11. First(h, i)
    <2>1. \A k \in 0 .. i - 1 : k \in 0 .. n
      BY <1>1 DEF n
    <2> QED  BY <1>4, <1>10, <2>1 DEF First
  <1>12. i = j
    BY <1>5, <1>11
  <1>13. Same(f[i], h[i]) /\ i \in Nat /\ f[i] \in Going(S) /\ h[i] \in Going(S)
    BY <1>10
  <1> DEFINE x == Counted(f[i], i)
             y == Counted(h[i], i)
  <1>14. /\ x.st = f[i].st
         /\ Ok(f[i]) => At(x, Position(f[i]), f[i].bit_pos, f[i].bit_purge, i % 256)
    BY <1>13, CountedIs
  <1>15. /\ y.st = h[i].st
         /\ Ok(h[i]) => At(y, Position(h[i]), h[i].bit_pos, h[i].bit_purge, i % 256)
    BY <1>13, CountedIs
  <1> HIDE DEF x, y
  <1>16. Same(x, y)
    BY <1>13, <1>14, <1>15 DEF Same, At, Ok
  <1> QED  BY <1>4, <1>5, <1>12, <1>16 DEF x, y

--------------------------------------------------------------------------------
(* The number of coding passes. *)

LEMMA AddIs ==
    ASSUME NEW S, NEW b \in Going(S), NEW n \in Nat
    PROVE  /\ AddPasses(b, n) \in Going(S) /\ AddPasses(b, n).st = b.st
           /\ Ok(b) => At(AddPasses(b, n), Position(b), b.bit_pos, b.bit_purge, b.val + n)
  <1> DEFINE v == b.val + n
             r == Holding(b, v)
  <1>1. b \in ReadersOf(S)
    BY DEF Going
  <1>2. v \in Nat
    BY <1>1, AnyIs
  <1>3. AddPasses(b, n) = IF Ok(b) THEN r ELSE b
    BY DEF AddPasses, Holding
  <1> HIDE DEF v, r
  <1>4. /\ r \in ReadersOf(S) /\ r.pos = b.pos /\ r.st = b.st
        /\ Ok(b) => At(r, Position(b), b.bit_pos, b.bit_purge, v)
    BY <1>1, <1>2, ValIs DEF r
  <1> QED  BY <1>3, <1>4 DEF v, Going, Ok

LEMMA PassesOfIs ==
    ASSUME NEW S, NEW b \in Going(S), NEW f, f.bits \in Nat
    PROVE  PassesOf(b, f) \in Going(S) /\ (~Ok(b) => PassesOf(b, f) = b)
  <1> DEFINE q == get_bits(b, f.bits)
  <1>1. q \in Going(S)
    BY BitsIs
  <1>2. b.val \in Nat
    BY AnyIs DEF Going
  <1>3. PassesOf(b, f) = IF ~Ok(b) \/ b.val < f.from THEN b ELSE AddPasses(q, b.val)
    BY DEF PassesOf
  <1> HIDE DEF q
  <1> QED  BY <1>1, <1>2, <1>3, AddIs

LEMMA PassesOfSame ==
    ASSUME NEW S, NEW b \in Going(S), NEW c \in Going(S), Same(b, c), NEW f, f.bits \in Nat
    PROVE  Same(PassesOf(b, f), PassesOf(c, f))
  <1>1. CASE ~Ok(b) \/ b.val < f.from
    BY <1>1 DEF PassesOf, Same, Ok, At
  <1>2. CASE ~(~Ok(b) \/ b.val < f.from)
    <2> DEFINE p == get_bits(b, f.bits)
               q == get_bits(c, f.bits)
               n == b.val
               x == AddPasses(p, n)
               y == AddPasses(q, n)
    <2>1. Ok(c) /\ c.val = n /\ n \in Nat
      BY <1>2, AnyIs DEF Same, At, Going
    <2>2. PassesOf(b, f) = x /\ PassesOf(c, f) = y
      BY <1>2, <2>1 DEF PassesOf
    <2>3. p \in Going(S) /\ q \in Going(S) /\ Same(p, q)
      BY BitsIs, BitsSame
    <2> HIDE DEF n, p, q, x, y
    <2>4. x.st = p.st /\ (Ok(p) => At(x, Position(p), p.bit_pos, p.bit_purge, p.val + n))
      BY <2>1, <2>3, AddIs DEF x
    <2>5. y.st = q.st /\ (Ok(q) => At(y, Position(q), q.bit_pos, q.bit_purge, q.val + n))
      BY <2>1, <2>3, AddIs DEF y
    <2>6. Same(x, y)
      BY <2>3, <2>4, <2>5 DEF Same, At, Ok
    <2> QED  BY <2>2, <2>6
  <1> QED  BY <1>1, <1>2

LEMMA PassFieldIs ==
    Len(PassField) = 5 /\ \A k \in 1 .. 5 : PassField[k].bits \in Nat
  BY DEF PassField

PassesRun(b, f) ==
    /\ f[0] = Holding(b, 1) /\ ReadPasses(b) = f[5]
    /\ \A k \in 0 .. 5 - 1 : f[k + 1] = PassesOf(f[k], PassField[k + 1])

LEMMA PassesRunIs ==
    ASSUME NEW S, NEW b \in Going(S)
    PROVE  \E f \in [0 .. 5 -> Going(S)] : PassesRun(b, f)
  <1> DEFINE V == Going(S)
             n == 5
             a == Holding(b, 1)
             Next1(k, p) == PassesOf(p, PassField[k])
             G == [q \in (1 .. n) \X V |-> Next1(q[1], q[2])]
             Is(f) == f = [k \in 0 .. n |-> IF k = 0 THEN a ELSE Next1(k, f[k - 1])]
             g == CHOOSE f : Is(f)
  <1>0. n \in Nat
    OBVIOUS
  <1>1. a \in V
    BY ValIs DEF Going, Ok
  <1>2. \A k \in 1 .. n, p \in V : Next1(k, p) \in V
    BY PassesOfIs, PassFieldIs
  <1>3. ReadPasses(b) = g[n]
    BY PassFieldIs DEF ReadPasses, Holding
  <1> HIDE DEF V, a, Next1, n
  <1>4. G \in [(1 .. n) \X V -> V]
    BY <1>2
  <1>5. PICK h \in [0 .. n -> V] : Recursive(h, a, G, n)
    <2> HIDE DEF G
    <2> QED  BY <1>0, <1>1, <1>4, RecursiveExists DEF HasRecursive
  <1>6. Is(h)
    <2>1. h = [k \in 0 .. n |-> IF k = 0 THEN a ELSE G[<<k, h[k - 1]>>]]
      BY <1>5 DEF Recursive
    <2>2. \A k \in 0 .. n : k # 0 => G[<<k, h[k - 1]>>] = Next1(k, h[k - 1])
      <3> TAKE k \in 0 .. n
      <3>1. k # 0 => k \in 1 .. n /\ h[k - 1] \in V
        BY <1>0, <1>5
      <3> QED  BY <3>1
    <2> HIDE DEF G
    <2> QED  BY <2>1, <2>2
  <1>7. Is(g)
    <2> HIDE DEF Is
    <2> QED  BY <1>6
  <1> HIDE DEF g
  <1>8. g[0] = a /\ \A k \in 0 .. n - 1 : g[k + 1] = Next1(k + 1, g[k])
    <2>1. /\ 0 \in 0 .. n
          /\ \A k \in 0 .. n - 1 : k + 1 \in 0 .. n /\ k + 1 # 0 /\ (k + 1) - 1 = k
      BY <1>0
    <2> QED  BY <1>7, <2>1
  <1>9. g \in [0 .. n -> V]
    <2>1. \A k \in 1 .. n : g[k - 1] \in V => g[k] = G[<<k, g[k - 1]>>]
      <3> TAKE k \in 1 .. n
      <3>1. k - 1 \in 0 .. n - 1 /\ (k - 1) + 1 = k
        BY <1>0
      <3>2. g[k] = Next1(k, g[k - 1])
        BY <1>8, <3>1
      <3> QED  BY <3>2
    <2> HIDE DEF G
    <2>2. \A k \in 0 .. n : g[k] \in V
      BY <1>0, <1>1, <1>4, <1>8, <2>1, LoopIs
    <2> QED  BY <1>7, <2>2
  <1>10. PassesRun(b, g)
    BY <1>3, <1>8 DEF PassesRun, a, Next1, n
  <1> QED  BY <1>9, <1>10 DEF V, n


LEMMA PassesIs ==
    ASSUME NEW S, NEW b \in Going(S)
    PROVE  ReadPasses(b) \in Going(S) /\ (~Ok(b) => ReadPasses(b).st = b.st)
  <1>1. PICK f \in [0 .. 5 -> Going(S)] : PassesRun(b, f)
    BY PassesRunIs
  <1> DEFINE B == {k \in 0 .. 5 : ~Ok(b) => f[k].st = b.st}
  <1>2. 0 \in B
    <2> DEFINE x == f[0]
               v == 1
    <2>1. x = Holding(b, v) /\ b \in ReadersOf(S) /\ v \in Nat
      BY <1>1 DEF PassesRun, Going
    <2> HIDE DEF x, v
    <2>2. x.st = b.st
      BY <2>1, HoldingIs
    <2> QED  BY <2>2 DEF x
  <1>3. ASSUME NEW k \in 0 .. 5 - 1, k \in B PROVE k + 1 \in B
    <2>1. /\ f[k] \in Going(S) /\ k + 1 \in 0 .. 5 /\ k + 1 \in 1 .. 5
          /\ f[k + 1] = PassesOf(f[k], PassField[k + 1])
      BY <1>1 DEF PassesRun
    <2>2. ~Ok(f[k]) => f[k + 1] = f[k]
      BY <2>1, PassesOfIs, PassFieldIs
    <2> QED  BY <1>3, <2>1, <2>2 DEF Ok
  <1> HIDE DEF B
  <1>4. \A k \in 0 .. 5 : k \in B
    BY <1>2, <1>3, UpTo
  <1>5. 5 \in B /\ f[5] \in Going(S)
    BY <1>4
  <1> QED  BY <1>1, <1>5 DEF B, PassesRun

LEMMA PassesSame ==
    ASSUME NEW S, NEW b \in Going(S), NEW c \in Going(S), Same(b, c)
    PROVE  Same(ReadPasses(b), ReadPasses(c))
  <1>1. PICK f \in [0 .. 5 -> Going(S)] : PassesRun(b, f)
    BY PassesRunIs
  <1>2. PICK h \in [0 .. 5 -> Going(S)] : PassesRun(c, h)
    BY PassesRunIs
  <1> DEFINE B == {k \in 0 .. 5 : Same(f[k], h[k])}
  <1>3. 0 \in B
    <2>1. b \in ReadersOf(S) /\ c \in ReadersOf(S)
      BY DEF Going
    <2> DEFINE x == f[0]
               y == h[0]
               v == 1
    <2>2. x = Holding(b, v) /\ y = Holding(c, v) /\ v \in Nat
      BY <1>1, <1>2 DEF PassesRun
    <2> HIDE DEF x, y, v
    <2>3. x.st = b.st /\ (Ok(b) => At(x, Position(b), b.bit_pos, b.bit_purge, v))
      BY <2>1, <2>2, HoldingIs
    <2>4. y.st = c.st /\ (Ok(c) => At(y, Position(c), c.bit_pos, c.bit_purge, v))
      BY <2>1, <2>2, HoldingIs
    <2>5. Same(x, y)
      BY <2>3, <2>4 DEF Same, At, Ok
    <2> QED  BY <2>5 DEF x, y
  <1>4. ASSUME NEW k \in 0 .. 5 - 1, k \in B PROVE k + 1 \in B
    <2>1. /\ f[k] \in Going(S) /\ h[k] \in Going(S) /\ k + 1 \in 0 .. 5 /\ k + 1 \in 1 .. 5
          /\ Same(f[k], h[k])
          /\ f[k + 1] = PassesOf(f[k], PassField[k + 1])
          /\ h[k + 1] = PassesOf(h[k], PassField[k + 1])
      BY <1>1, <1>2, <1>4 DEF PassesRun
    <2>2. PassField[k + 1].bits \in Nat
      BY <2>1, PassFieldIs
    <2>3. Same(f[k + 1], h[k + 1])
      BY <2>1, <2>2, PassesOfSame
    <2> QED  BY <2>1, <2>3
  <1> HIDE DEF B
  <1>5. \A k \in 0 .. 5 : k \in B
    BY <1>3, <1>4, UpTo
  <1>6. 5 \in B
    BY <1>5
  <1> QED  BY <1>1, <1>2, <1>6 DEF B, PassesRun

--------------------------------------------------------------------------------
(* The bits of a length. *)

LBlocks(S) == [b : Going(S), n : Nat, end : BOOLEAN]
SameLBlock(x, y) == Same(x.b, y.b) /\ (Ok(x.b) => x.n = y.n /\ x.end = y.end)

LEMMA LBlockStepIs ==
    ASSUME NEW S, NEW a \in LBlocks(S)
    PROVE  LBlockStep(a) \in LBlocks(S) /\ (~Ok(a.b) => LBlockStep(a) = a)
  <1> DEFINE q == get_bit(a.b)
             n == a.n + (IF Ok(q) THEN q.val ELSE 0)
  <1>1. a.b \in Going(S) /\ a.n \in Nat
    BY DEF LBlocks
  <1>2. q \in Going(S) /\ q.val \in Nat
    BY <1>1, BitIs, AnyIs DEF Going
  <1> HIDE DEF q
  <1>3. n \in Nat
    BY <1>1, <1>2
  <1>4. LBlockStep(a) = IF ~Ok(a.b) \/ a.end THEN a ELSE [b |-> q, n |-> n, end |-> q.val = 0]
    BY DEF LBlockStep, LBlockBit, q
  <1> HIDE DEF n
  <1> QED  BY <1>2, <1>3, <1>4 DEF LBlocks

LEMMA LBlockStepSame ==
    ASSUME NEW S, NEW a \in LBlocks(S), NEW c \in LBlocks(S), SameLBlock(a, c)
    PROVE  SameLBlock(LBlockStep(a), LBlockStep(c))
  <1>1. CASE ~Ok(a.b) \/ a.end
    BY <1>1 DEF LBlockStep, SameLBlock, Same, At, Ok
  <1>2. CASE ~(~Ok(a.b) \/ a.end)
    <2> DEFINE p == get_bit(a.b)
               q == get_bit(c.b)
               x == LBlockStep(a)
               y == LBlockStep(c)
    <2>1. Ok(c.b) /\ ~c.end /\ c.n = a.n /\ a.b \in ReadersOf(S) /\ c.b \in ReadersOf(S) /\ Same(a.b, c.b)
      BY <1>2 DEF SameLBlock, Same, At, LBlocks, Going
    <2>2. Same(p, q)
      BY <2>1, BitSame
    <2>3. x = LBlockBit(p, a.n) /\ y = LBlockBit(q, a.n)
      BY <1>2, <2>1 DEF LBlockStep
    <2> HIDE DEF p, q, x, y
    <2>4. /\ x.b = p /\ y.b = q
          /\ x.n = a.n + (IF Ok(p) THEN p.val ELSE 0)
          /\ y.n = a.n + (IF Ok(q) THEN q.val ELSE 0)
          /\ x.end = (p.val = 0) /\ y.end = (q.val = 0)
      BY <2>3 DEF LBlockBit
    <2>5. Ok(p) => Ok(q) /\ p.val = q.val
      BY <2>2 DEF Same, At
    <2>6. SameLBlock(x, y)
      BY <2>2, <2>4, <2>5 DEF SameLBlock
    <2> QED  BY <2>6 DEF x, y
  <1> QED  BY <1>1, <1>2

LBlockFirst(b) == [b |-> b, n |-> LBlock0, end |-> FALSE]

LBlockRun(b, f) ==
    /\ f[0] = LBlockFirst(b) /\ ReadLBlock(b) = f[LBlockSteps]
    /\ \A k \in 0 .. LBlockSteps - 1 : f[k + 1] = LBlockStep(f[k])

LEMMA LBlockRunIs ==
    ASSUME NEW S, NEW b \in Going(S)
    PROVE  \E f \in [0 .. LBlockSteps -> LBlocks(S)] : LBlockRun(b, f)
  <1> DEFINE V == LBlocks(S)
             n == LBlockSteps
             a == LBlockFirst(b)
             Next1(k, p) == LBlockStep(p)
             G == [q \in (1 .. n) \X V |-> Next1(q[1], q[2])]
             Is(f) == f = [k \in 0 .. n |-> IF k = 0 THEN a ELSE Next1(k, f[k - 1])]
             g == CHOOSE f : Is(f)
  <1>0. n \in Nat
    BY DEF LBlockSteps
  <1>1. a \in V
    BY DEF LBlockFirst, LBlocks, LBlock0
  <1>2. \A k \in 1 .. n, p \in V : Next1(k, p) \in V
    BY LBlockStepIs
  <1>3. ReadLBlock(b) = g[n]
    BY DEF ReadLBlock, LBlockFirst
  <1> HIDE DEF V, a, Next1, n
  <1>4. G \in [(1 .. n) \X V -> V]
    BY <1>2
  <1>5. PICK h \in [0 .. n -> V] : Recursive(h, a, G, n)
    <2> HIDE DEF G
    <2> QED  BY <1>0, <1>1, <1>4, RecursiveExists DEF HasRecursive
  <1>6. Is(h)
    <2>1. h = [k \in 0 .. n |-> IF k = 0 THEN a ELSE G[<<k, h[k - 1]>>]]
      BY <1>5 DEF Recursive
    <2>2. \A k \in 0 .. n : k # 0 => G[<<k, h[k - 1]>>] = Next1(k, h[k - 1])
      <3> TAKE k \in 0 .. n
      <3>1. k # 0 => k \in 1 .. n /\ h[k - 1] \in V
        BY <1>0, <1>5
      <3> QED  BY <3>1
    <2> HIDE DEF G
    <2> QED  BY <2>1, <2>2
  <1>7. Is(g)
    <2> HIDE DEF Is
    <2> QED  BY <1>6
  <1> HIDE DEF g
  <1>8. g[0] = a /\ \A k \in 0 .. n - 1 : g[k + 1] = Next1(k + 1, g[k])
    <2>1. /\ 0 \in 0 .. n
          /\ \A k \in 0 .. n - 1 : k + 1 \in 0 .. n /\ k + 1 # 0 /\ (k + 1) - 1 = k
      BY <1>0
    <2> QED  BY <1>7, <2>1
  <1>9. g \in [0 .. n -> V]
    <2>1. \A k \in 1 .. n : g[k - 1] \in V => g[k] = G[<<k, g[k - 1]>>]
      <3> TAKE k \in 1 .. n
      <3>1. k - 1 \in 0 .. n - 1 /\ (k - 1) + 1 = k
        BY <1>0
      <3>2. g[k] = Next1(k, g[k - 1])
        BY <1>8, <3>1
      <3> QED  BY <3>2
    <2> HIDE DEF G
    <2>2. \A k \in 0 .. n : g[k] \in V
      BY <1>0, <1>1, <1>4, <1>8, <2>1, LoopIs
    <2> QED  BY <1>7, <2>2
  <1>10. LBlockRun(b, g)
    BY <1>3, <1>8 DEF LBlockRun, a, Next1, n
  <1> QED  BY <1>9, <1>10 DEF V, n


LEMMA LBlockIs ==
    ASSUME NEW S, NEW b \in Going(S)
    PROVE  ReadLBlock(b) \in LBlocks(S) /\ (~Ok(b) => ReadLBlock(b).b = b)
  <1> DEFINE n == LBlockSteps
  <1>0. n \in Nat
    BY DEF LBlockSteps
  <1>1. PICK f \in [0 .. n -> LBlocks(S)] : LBlockRun(b, f)
    BY LBlockRunIs
  <1>2. f[0].b = b /\ \A k \in 0 .. n - 1 : f[k + 1] = LBlockStep(f[k])
    BY <1>1 DEF LBlockRun, LBlockFirst
  <1> HIDE DEF n
  <1> DEFINE B == {k \in 0 .. n : ~Ok(b) => f[k].b = b}
  <1>3. 0 \in B
    BY <1>0, <1>2
  <1>4. ASSUME NEW k \in 0 .. n - 1, k \in B PROVE k + 1 \in B
    <2>1. f[k] \in LBlocks(S) /\ k + 1 \in 0 .. n
      BY <1>0, <1>1
    <2>2. ~Ok(f[k].b) => f[k + 1] = f[k]
      BY <1>2, <2>1, LBlockStepIs
    <2> QED  BY <1>4, <2>1, <2>2
  <1> HIDE DEF B
  <1>5. \A k \in 0 .. n : k \in B
    BY <1>0, <1>3, <1>4, UpTo
  <1>6. n \in B /\ f[n] \in LBlocks(S)
    BY <1>0, <1>5
  <1> QED  BY <1>1, <1>6 DEF B, LBlockRun, n

LEMMA LBlockSame ==
    ASSUME NEW S, NEW b \in Going(S), NEW c \in Going(S), Same(b, c)
    PROVE  SameLBlock(ReadLBlock(b), ReadLBlock(c))
  <1> DEFINE n == LBlockSteps
  <1>0. n \in Nat
    BY DEF LBlockSteps
  <1>1. PICK f \in [0 .. n -> LBlocks(S)] : LBlockRun(b, f)
    BY LBlockRunIs
  <1>2. PICK h \in [0 .. n -> LBlocks(S)] : LBlockRun(c, h)
    BY LBlockRunIs
  <1>3. /\ f[0] = LBlockFirst(b) /\ h[0] = LBlockFirst(c)
        /\ \A k \in 0 .. n - 1 : f[k + 1] = LBlockStep(f[k]) /\ h[k + 1] = LBlockStep(h[k])
    BY <1>1, <1>2 DEF LBlockRun
  <1> HIDE DEF n
  <1> DEFINE B == {k \in 0 .. n : SameLBlock(f[k], h[k])}
  <1>4. 0 \in B
    <2> DEFINE x == f[0]
               y == h[0]
    <2>1. /\ x.b = b /\ x.n = LBlock0 /\ x.end = FALSE
          /\ y.b = c /\ y.n = LBlock0 /\ y.end = FALSE
      BY <1>3 DEF LBlockFirst
    <2> HIDE DEF x, y
    <2>2. SameLBlock(x, y)
      BY <2>1 DEF SameLBlock
    <2> QED  BY <1>0, <2>2 DEF x, y
  <1>5. ASSUME NEW k \in 0 .. n - 1, k \in B PROVE k + 1 \in B
    <2>1. f[k] \in LBlocks(S) /\ h[k] \in LBlocks(S) /\ k + 1 \in 0 .. n /\ SameLBlock(f[k], h[k])
      BY <1>0, <1>1, <1>2, <1>5
    <2> QED  BY <1>3, <2>1, LBlockStepSame
  <1> HIDE DEF B
  <1>6. \A k \in 0 .. n : k \in B
    BY <1>0, <1>4, <1>5, UpTo
  <1>7. n \in B
    BY <1>0, <1>6
  <1> QED  BY <1>1, <1>2, <1>7 DEF B, LBlockRun, n

--------------------------------------------------------------------------------
(* The header of one code-block.  Of a reader that failed nothing but that  *)
(* is left, so what was read before it does not matter.                     *)

Blocks(S) == [b : Going(S), cb : [length : Nat, number_of_zbp : Int]]
SameBlock(h, k) == Same(h.b, k.b) /\ h.cb = k.cb
Failed(b, h) == ~Ok(b) => h.b.st = b.st /\ h.cb = reuse

(* Numbers that are equal if the reader b can go on.                        *)
Agree(b, x, y) == Ok(b) => x = y

LEMMA BlockIs ==
    ASSUME NEW S, NEW b \in Going(S), NEW length \in Nat, NEW zbp \in Int
    PROVE  Block(b, length, zbp) \in Blocks(S) /\ Failed(b, Block(b, length, zbp))
  BY DEF Block, Blocks, Failed, reuse

LEMMA BlockSame ==
    ASSUME NEW S, NEW b \in Going(S), NEW c \in Going(S), Same(b, c),
           NEW l, NEW m, NEW y, NEW z, Agree(b, l, m), Agree(b, y, z)
    PROVE  SameBlock(Block(b, l, y), Block(c, m, z))
  BY DEF Block, SameBlock, Same, Agree, Ok

LEMMA SecondIs ==
    ASSUME NEW S, NEW b \in Going(S), NEW length \in Nat, NEW zbp \in Int
    PROVE  /\ SecondLength(b, length, zbp) \in Blocks(S)
           /\ Failed(b, SecondLength(b, length, zbp))
  <1>1. b.val \in Nat
    BY AnyIs DEF Going
  <1>2. length + b.val \in Nat
    BY <1>1
  <1> QED  BY <1>2, BlockIs DEF SecondLength

LEMMA SecondSame ==
    ASSUME NEW S, NEW b \in Going(S), NEW c \in Going(S), Same(b, c),
           NEW l, NEW m, NEW y, NEW z, Agree(b, l, m), Agree(b, y, z)
    PROVE  SameBlock(SecondLength(b, l, y), SecondLength(c, m, z))
  <1>1. Agree(b, l + b.val, m + c.val)
    BY DEF Agree, Same, At
  <1> QED  BY <1>1, BlockSame DEF SecondLength

LEMMA LeakIs ==
    ASSUME NEW S, NEW b \in Going(S)
    PROVE  Leak(b) \in Going(S) /\ ~Ok(Leak(b)) /\ Leak(b).st = "leak"
  <1> DEFINE r == Leak(b)
  <1>1. PICK P \in Payloads : Within(P) /\ Stream(P) = S /\ b \in Readers(P)
    BY CutOf DEF Going
  <1>2. b \in ReaderType(P)
    BY <1>1, ReaderFields
  <1>3. /\ r.st = "leak" /\ r.pos = b.pos /\ r.cur = b.cur /\ r.byte_pos = b.byte_pos
        /\ r.bit_pos = b.bit_pos /\ r \in ReaderType(P)
    BY <1>2 DEF Leak, ReaderType
  <1> HIDE DEF r
  <1>4. r \in Readers(P)
    BY <1>1, <1>3 DEF Readers
  <1>5. ~Ok(r)
    BY <1>3 DEF Ok
  <1> QED  BY <1>1, <1>3, <1>4, <1>5, InAny DEF r

LEMMA FirstIs ==
    ASSUME NEW S, NEW b \in Going(S), NEW n \in Nat, NEW passes \in Int, NEW zbp \in Int
    PROVE  /\ FirstLength(b, n, passes, zbp) \in Blocks(S)
           /\ Failed(b, FirstLength(b, n, passes, zbp))
  <1> DEFINE h == FirstLength(b, n, passes, zbp)
             k == IF passes > 2 THEN n + 1 ELSE n
             q == get_bits(b, k)
  <1>1. b.val \in Nat /\ k \in Nat
    BY AnyIs DEF Going
  <1>2. h = IF Ok(b) /\ b.val <= 1 THEN Block(Leak(b), 0, 0)
            ELSE IF passes = 1 THEN Block(b, b.val, zbp) ELSE SecondLength(q, b.val, zbp)
    BY DEF FirstLength
  <1> HIDE DEF h, k
  <1>3. CASE Ok(b) /\ b.val <= 1
    <2>1. Leak(b) \in Going(S) /\ 0 \in Nat /\ 0 \in Int
      BY LeakIs
    <2>2. Block(Leak(b), 0, 0) \in Blocks(S)
      BY <2>1, BlockIs
    <2> QED  BY <1>2, <1>3, <2>2 DEF Failed, h
  <1>4. CASE ~(Ok(b) /\ b.val <= 1) /\ passes = 1
    BY <1>1, <1>2, <1>4, BlockIs DEF h
  <1>5. CASE ~(Ok(b) /\ b.val <= 1) /\ passes # 1
    <2>1. q \in Going(S) /\ (~Ok(b) => q.st = b.st)
      BY <1>1, BitsIs
    <2> HIDE DEF q
    <2>2. /\ SecondLength(q, b.val, zbp) \in Blocks(S)
          /\ Failed(q, SecondLength(q, b.val, zbp))
      BY <1>1, <2>1, SecondIs
    <2> QED  BY <1>2, <1>5, <2>1, <2>2 DEF Failed, Ok, h
  <1> QED  BY <1>3, <1>4, <1>5

LEMMA FirstSame ==
    ASSUME NEW S, NEW b \in Going(S), NEW c \in Going(S), Same(b, c),
           NEW n \in Nat, NEW m \in Nat, NEW passes \in Int, NEW others \in Int,
           NEW y \in Int, NEW z \in Int,
           Agree(b, n, m), Agree(b, passes, others), Agree(b, y, z)
    PROVE  SameBlock(FirstLength(b, n, passes, y), FirstLength(c, m, others, z))
  <1> DEFINE h == FirstLength(b, n, passes, y)
             g == FirstLength(c, m, others, z)
  <1>1. CASE ~Ok(b)
    <2>1. Failed(b, h) /\ Failed(c, g)
      BY FirstIs
    <2> HIDE DEF h, g
    <2>2. SameBlock(h, g)
      BY <1>1, <2>1 DEF Failed, SameBlock, Same, Ok
    <2> QED  BY <2>2 DEF h, g
  <1>2. CASE Ok(b)
    <2>1. Ok(c) /\ c.val = b.val /\ m = n /\ others = passes /\ z = y
      BY <1>2 DEF Same, At, Agree
    <2> DEFINE k == IF passes > 2 THEN n + 1 ELSE n
               p == get_bits(b, k)
               q == get_bits(c, k)
    <2>2. p \in Going(S) /\ q \in Going(S) /\ Same(p, q)
      <3>1. k \in Nat
        OBVIOUS
      <3> HIDE DEF k
      <3> QED  BY <3>1, BitsIs, BitsSame
    <2>3. /\ h = IF b.val <= 1 THEN Block(Leak(b), 0, 0)
                 ELSE IF passes = 1 THEN Block(b, b.val, y) ELSE SecondLength(p, b.val, y)
          /\ g = IF b.val <= 1 THEN Block(Leak(c), 0, 0)
                 ELSE IF passes = 1 THEN Block(c, b.val, y) ELSE SecondLength(q, b.val, y)
      BY <1>2, <2>1 DEF FirstLength
    <2>4. SameBlock(Block(Leak(b), 0, 0), Block(Leak(c), 0, 0))
      <3>1. Leak(b) \in Going(S) /\ Leak(c) \in Going(S) /\ Same(Leak(b), Leak(c))
        BY LeakIs DEF Same
      <3>2. Agree(Leak(b), 0, 0)
        BY DEF Agree
      <3> QED  BY <3>1, <3>2, BlockSame
    <2> HIDE DEF p, q, h, g
    <2>5. SameBlock(Block(b, b.val, y), Block(c, b.val, y))
      BY BlockSame DEF Agree
    <2>6. SameBlock(SecondLength(p, b.val, y), SecondLength(q, b.val, y))
      BY <2>2, SecondSame DEF Agree
    <2>7. SameBlock(h, g)
      BY <2>3, <2>4, <2>5, <2>6
    <2> QED  BY <2>7 DEF h, g
  <1> QED  BY <1>1, <1>2

LEMMA LengthsIs ==
    ASSUME NEW S, NEW a \in LBlocks(S), NEW passes \in Int, NEW zbp \in Int
    PROVE  Lengths(a, passes, zbp) \in Blocks(S) /\ Failed(a.b, Lengths(a, passes, zbp))
  <1> DEFINE q == get_bits(a.b, a.n)
  <1>1. a.b \in Going(S) /\ a.n \in Nat
    BY DEF LBlocks
  <1>2. q \in Going(S) /\ (~Ok(a.b) => q.st = a.b.st)
    BY <1>1, BitsIs
  <1>3. Lengths(a, passes, zbp) = FirstLength(q, a.n, passes, zbp)
    BY DEF Lengths
  <1> HIDE DEF q
  <1>4. /\ FirstLength(q, a.n, passes, zbp) \in Blocks(S)
        /\ Failed(q, FirstLength(q, a.n, passes, zbp))
    BY <1>1, <1>2, FirstIs
  <1> QED  BY <1>2, <1>3, <1>4 DEF Failed, Ok

LEMMA LengthsSame ==
    ASSUME NEW S, NEW a \in LBlocks(S), NEW c \in LBlocks(S), SameLBlock(a, c),
           NEW passes \in Int, NEW others \in Int, NEW y \in Int, NEW z \in Int,
           Agree(a.b, passes, others), Agree(a.b, y, z)
    PROVE  SameBlock(Lengths(a, passes, y), Lengths(c, others, z))
  <1> DEFINE h == Lengths(a, passes, y)
             g == Lengths(c, others, z)
  <1>1. /\ a.b \in Going(S) /\ a.n \in Nat /\ c.b \in Going(S) /\ c.n \in Nat /\ Same(a.b, c.b)
        /\ Ok(a.b) => a.n = c.n
    BY DEF LBlocks, SameLBlock
  <1>2. CASE ~Ok(a.b)
    <2>1. Failed(a.b, h) /\ Failed(c.b, g)
      BY LengthsIs
    <2> HIDE DEF h, g
    <2>2. SameBlock(h, g)
      BY <1>1, <1>2, <2>1 DEF Failed, SameBlock, Same, Ok
    <2> QED  BY <2>2 DEF h, g
  <1>3. CASE Ok(a.b)
    <2> DEFINE n == a.n
               p == get_bits(a.b, n)
               q == get_bits(c.b, n)
    <2>1. c.n = n /\ others = passes /\ z = y /\ n \in Nat
      BY <1>1, <1>3 DEF Agree
    <2>2. h = FirstLength(p, n, passes, y) /\ g = FirstLength(q, n, passes, y)
      BY <2>1 DEF Lengths
    <2> HIDE DEF n, h, g
    <2>3. p \in Going(S) /\ q \in Going(S) /\ Same(p, q)
      BY <1>1, <2>1, BitsIs, BitsSame
    <2> HIDE DEF p, q
    <2>4. SameBlock(FirstLength(p, n, passes, y), FirstLength(q, n, passes, y))
      <3>1. Agree(p, n, n) /\ Agree(p, passes, passes) /\ Agree(p, y, y)
        BY DEF Agree
      <3> QED  BY <2>1, <2>3, <3>1, FirstSame
    <2> QED  BY <2>2, <2>4 DEF h, g
  <1> QED  BY <1>2, <1>3

LEMMA SplitIs ==
    ASSUME NEW S, NEW b \in Going(S), NEW zbp \in Int
    PROVE  SplitPasses(b, zbp) \in Blocks(S) /\ Failed(b, SplitPasses(b, zbp))
  <1> DEFINE phld == (b.val - 1) \div 3
             passes == b.val - 3 * phld
             all == (zbp + phld) % 256
             a == ReadLBlock(b)
  <1>1. passes \in Int /\ all \in Int
    <2>1. b.val \in Nat
      BY AnyIs DEF Going
    <2>2. phld \in Int
      BY <2>1
    <2> HIDE DEF phld
    <2> QED  BY <2>1, <2>2
  <1>2. a \in LBlocks(S) /\ (~Ok(b) => a.b = b)
    BY LBlockIs
  <1>3. SplitPasses(b, zbp) = Lengths(a, passes, all)
    BY DEF SplitPasses
  <1> HIDE DEF passes, all, a
  <1>4. Lengths(a, passes, all) \in Blocks(S) /\ Failed(a.b, Lengths(a, passes, all))
    BY <1>1, <1>2, LengthsIs
  <1> QED  BY <1>2, <1>3, <1>4 DEF Failed

LEMMA SplitSame ==
    ASSUME NEW S, NEW b \in Going(S), NEW c \in Going(S), Same(b, c),
           NEW y \in Int, NEW z \in Int, Agree(b, y, z)
    PROVE  SameBlock(SplitPasses(b, y), SplitPasses(c, z))
  <1>1. CASE ~Ok(b)
    <2> DEFINE h == SplitPasses(b, y)
               g == SplitPasses(c, z)
    <2>1. Failed(b, h) /\ Failed(c, g)
      BY SplitIs
    <2> HIDE DEF h, g
    <2>2. SameBlock(h, g)
      BY <1>1, <2>1 DEF Failed, SameBlock, Same, Ok
    <2> QED  BY <2>2 DEF h, g
  <1>2. CASE Ok(b)
    <2> DEFINE phld == (b.val - 1) \div 3
               passes == b.val - 3 * phld
               all == (y + phld) % 256
               p == ReadLBlock(b)
               q == ReadLBlock(c)
    <2>1. c.val = b.val /\ z = y
      BY <1>2 DEF Same, At, Agree
    <2>2. SplitPasses(b, y) = Lengths(p, passes, all) /\ SplitPasses(c, z) = Lengths(q, passes, all)
      BY <2>1 DEF SplitPasses
    <2>3. passes \in Int /\ all \in Int
      <3>1. b.val \in Nat
        BY AnyIs DEF Going
      <3>2. phld \in Int
        BY <3>1
      <3> HIDE DEF phld
      <3> QED  BY <3>1, <3>2
    <2>4. p \in LBlocks(S) /\ q \in LBlocks(S) /\ SameLBlock(p, q)
      BY LBlockIs, LBlockSame
    <2> HIDE DEF passes, all, p, q
    <2>5. Agree(p.b, passes, passes) /\ Agree(p.b, all, all)
      BY DEF Agree
    <2>6. SameBlock(Lengths(p, passes, all), Lengths(q, passes, all))
      BY <2>3, <2>4, <2>5, LengthsSame
    <2> QED  BY <2>2, <2>6
  <1> QED  BY <1>1, <1>2

LEMMA FieldsIs ==
    ASSUME NEW S, NEW b \in Going(S)
    PROVE  BlockFields(b) \in Blocks(S) /\ Failed(b, BlockFields(b))
  <1> DEFINE q == ReadPasses(b)
             v == b.val
  <1>1. q \in Going(S) /\ (~Ok(b) => q.st = b.st)
    BY PassesIs
  <1>2. v \in Int
    BY AnyIs DEF Going
  <1>3. BlockFields(b) = SplitPasses(q, v)
    BY DEF BlockFields
  <1> HIDE DEF q, v
  <1>4. SplitPasses(q, v) \in Blocks(S) /\ Failed(q, SplitPasses(q, v))
    BY <1>1, <1>2, SplitIs
  <1> QED  BY <1>1, <1>3, <1>4 DEF Failed, Ok

LEMMA FieldsSame ==
    ASSUME NEW S, NEW b \in Going(S), NEW c \in Going(S), Same(b, c)
    PROVE  SameBlock(BlockFields(b), BlockFields(c))
  <1> DEFINE p == ReadPasses(b)
             q == ReadPasses(c)
             y == b.val
             z == c.val
  <1>1. p \in Going(S) /\ q \in Going(S) /\ Same(p, q) /\ (~Ok(b) => p.st = b.st)
    BY PassesIs, PassesSame
  <1>2. y \in Int /\ z \in Int
    BY AnyIs DEF Going
  <1>3. Ok(b) => y = z
    BY DEF Same, At
  <1>4. BlockFields(b) = SplitPasses(p, y) /\ BlockFields(c) = SplitPasses(q, z)
    BY DEF BlockFields
  <1> HIDE DEF p, q, y, z
  <1>5. Agree(p, y, z)
    BY <1>1, <1>3 DEF Agree, Ok
  <1> QED  BY <1>1, <1>2, <1>4, <1>5, SplitSame

(* Whatever the header of a code-block is, in the same stream it is read as *)
(* the same.                                                                *)
LEMMA HeaderIs ==
    ASSUME NEW S, NEW b \in ReadersOf(S)
    PROVE  read_packet_header(b) \in Blocks(S)
  <1> DEFINE q == get_bit(b)
             z == ReadZeroBits(q)
  <1>1. q \in Going(S)
    BY BitIs
  <1>2. z \in Going(S)
    BY <1>1, ZerosIs
  <1>3. read_packet_header(b) = IF ~Ok(q) \/ q.val = 0 THEN [b |-> q, cb |-> reuse]
                                ELSE BlockFields(z)
    BY DEF read_packet_header, IfIncluded
  <1> HIDE DEF q, z
  <1>4. [b |-> q, cb |-> reuse] \in Blocks(S)
    BY <1>1 DEF Blocks, reuse
  <1>5. BlockFields(z) \in Blocks(S)
    BY <1>2, FieldsIs
  <1> QED  BY <1>3, <1>4, <1>5

LEMMA HeaderSame ==
    ASSUME NEW S, NEW b \in ReadersOf(S), NEW c \in ReadersOf(S), Same(b, c)
    PROVE  SameBlock(read_packet_header(b), read_packet_header(c))
  <1> DEFINE p == get_bit(b)
             q == get_bit(c)
  <1>1. p \in Going(S) /\ q \in Going(S) /\ Same(p, q)
    BY BitIs, BitSame
  <1>2. /\ read_packet_header(b) = IF ~Ok(p) \/ p.val = 0 THEN [b |-> p, cb |-> reuse]
                                   ELSE BlockFields(ReadZeroBits(p))
        /\ read_packet_header(c) = IF ~Ok(q) \/ q.val = 0 THEN [b |-> q, cb |-> reuse]
                                   ELSE BlockFields(ReadZeroBits(q))
    BY DEF read_packet_header, IfIncluded
  <1> HIDE DEF p, q
  <1>3. (~Ok(p) \/ p.val = 0) <=> (~Ok(q) \/ q.val = 0)
    BY <1>1 DEF Same, At, Ok
  <1>4. SameBlock([b |-> p, cb |-> reuse], [b |-> q, cb |-> reuse])
    BY <1>1 DEF SameBlock
  <1>5. SameBlock(BlockFields(ReadZeroBits(p)), BlockFields(ReadZeroBits(q)))
    <2> DEFINE x == ReadZeroBits(p)
               y == ReadZeroBits(q)
    <2>1. x \in Going(S) /\ y \in Going(S) /\ Same(x, y)
      BY <1>1, ZerosIs, ZerosSame
    <2> HIDE DEF x, y
    <2>2. SameBlock(BlockFields(x), BlockFields(y))
      BY <2>1, FieldsSame
    <2> QED  BY <2>2 DEF x, y
  <1> QED  BY <1>2, <1>3, <1>4, <1>5

--------------------------------------------------------------------------------
(* The headers of a packet, and the data after them. *)

CodeBlocks == [length : Nat, number_of_zbp : Int]
Packets(S) == [b : Going(S), cbs : Seq(CodeBlocks)]
SamePacket(x, y) == Same(x.b, y.b) /\ x.cbs = y.cbs

LEMMA NextHeaderIs ==
    ASSUME NEW S, NEW a \in Packets(S)
    PROVE  NextHeader(a) \in Packets(S)
  <1> DEFINE h == read_packet_header(a.b)
  <1>1. a.b \in ReadersOf(S) /\ a.cbs \in Seq(CodeBlocks)
    BY DEF Packets, Going
  <1>2. h \in Blocks(S)
    BY <1>1, HeaderIs
  <1>3. h.b \in Going(S) /\ h.cb \in CodeBlocks
    BY <1>2 DEF Blocks, CodeBlocks
  <1>4. NextHeader(a) = IF Ok(a.b) THEN [b |-> h.b, cbs |-> Append(a.cbs, h.cb)] ELSE a
    BY DEF NextHeader, AddBlock
  <1> DEFINE k == h.cb
             C == CodeBlocks
             s == a.cbs
  <1>5. Append(s, k) \in Seq(C)
    <2>1. s \in Seq(C) /\ k \in C
      BY <1>1, <1>3
    <2> HIDE DEF s, k, C
    <2> QED  BY <2>1
  <1> HIDE DEF h
  <1> QED  BY <1>3, <1>4, <1>5 DEF Packets

LEMMA NextHeaderSame ==
    ASSUME NEW S, NEW a \in Packets(S), NEW c \in Packets(S), SamePacket(a, c)
    PROVE  SamePacket(NextHeader(a), NextHeader(c))
  <1> DEFINE h == read_packet_header(a.b)
             g == read_packet_header(c.b)
             x == NextHeader(a)
             y == NextHeader(c)
  <1>1. a.b \in ReadersOf(S) /\ c.b \in ReadersOf(S) /\ Same(a.b, c.b) /\ a.cbs = c.cbs
    BY DEF Packets, Going, SamePacket
  <1>2. SameBlock(h, g)
    BY <1>1, HeaderSame
  <1>3. CASE ~Ok(a.b)
    BY <1>1, <1>3 DEF NextHeader, SamePacket, Same, Ok
  <1>4. CASE Ok(a.b)
    <2>1. Ok(c.b)
      BY <1>1, <1>4 DEF Same, Ok
    <2>2. x = AddBlock(a.cbs, h) /\ y = AddBlock(a.cbs, g)
      BY <1>1, <1>4, <2>1 DEF NextHeader
    <2> HIDE DEF h, g, x, y
    <2>3. x.b = h.b /\ y.b = g.b /\ x.cbs = Append(a.cbs, h.cb) /\ y.cbs = Append(a.cbs, g.cb)
      BY <2>2 DEF AddBlock
    <2>4. SamePacket(x, y)
      BY <1>2, <2>3 DEF SameBlock, SamePacket
    <2> QED  BY <2>4 DEF x, y
  <1> QED  BY <1>3, <1>4

HeadersFirst(b) == [b |-> b, cbs |-> <<>>]

HeadersRun(b, m, f) ==
    /\ f[0] = HeadersFirst(b) /\ Headers(b, m) = f[m]
    /\ \A k \in 0 .. m - 1 : f[k + 1] = NextHeader(f[k])

LEMMA HeadersRunIs ==
    ASSUME NEW S, NEW b \in Going(S), NEW m \in Nat
    PROVE  \E f \in [0 .. m -> Packets(S)] : HeadersRun(b, m, f)
  <1> DEFINE V == Packets(S)
             n == m
             a == HeadersFirst(b)
             Next1(k, p) == NextHeader(p)
             G == [q \in (1 .. n) \X V |-> Next1(q[1], q[2])]
             Is(f) == f = [k \in 0 .. n |-> IF k = 0 THEN a ELSE Next1(k, f[k - 1])]
             g == CHOOSE f : Is(f)
  <1>0. n \in Nat
    OBVIOUS
  <1>1. a \in V
    BY DEF HeadersFirst, Packets
  <1>2. \A k \in 1 .. n, p \in V : Next1(k, p) \in V
    BY NextHeaderIs
  <1>3. Headers(b, m) = g[n]
    BY DEF Headers, HeadersFirst
  <1> HIDE DEF V, a, Next1, n
  <1>4. G \in [(1 .. n) \X V -> V]
    BY <1>2
  <1>5. PICK h \in [0 .. n -> V] : Recursive(h, a, G, n)
    <2> HIDE DEF G
    <2> QED  BY <1>0, <1>1, <1>4, RecursiveExists DEF HasRecursive
  <1>6. Is(h)
    <2>1. h = [k \in 0 .. n |-> IF k = 0 THEN a ELSE G[<<k, h[k - 1]>>]]
      BY <1>5 DEF Recursive
    <2>2. \A k \in 0 .. n : k # 0 => G[<<k, h[k - 1]>>] = Next1(k, h[k - 1])
      <3> TAKE k \in 0 .. n
      <3>1. k # 0 => k \in 1 .. n /\ h[k - 1] \in V
        BY <1>0, <1>5
      <3> QED  BY <3>1
    <2> HIDE DEF G
    <2> QED  BY <2>1, <2>2
  <1>7. Is(g)
    <2> HIDE DEF Is
    <2> QED  BY <1>6
  <1> HIDE DEF g
  <1>8. g[0] = a /\ \A k \in 0 .. n - 1 : g[k + 1] = Next1(k + 1, g[k])
    <2>1. /\ 0 \in 0 .. n
          /\ \A k \in 0 .. n - 1 : k + 1 \in 0 .. n /\ k + 1 # 0 /\ (k + 1) - 1 = k
      BY <1>0
    <2> QED  BY <1>7, <2>1
  <1>9. g \in [0 .. n -> V]
    <2>1. \A k \in 1 .. n : g[k - 1] \in V => g[k] = G[<<k, g[k - 1]>>]
      <3> TAKE k \in 1 .. n
      <3>1. k - 1 \in 0 .. n - 1 /\ (k - 1) + 1 = k
        BY <1>0
      <3>2. g[k] = Next1(k, g[k - 1])
        BY <1>8, <3>1
      <3> QED  BY <3>2
    <2> HIDE DEF G
    <2>2. \A k \in 0 .. n : g[k] \in V
      BY <1>0, <1>1, <1>4, <1>8, <2>1, LoopIs
    <2> QED  BY <1>7, <2>2
  <1>10. HeadersRun(b, m, g)
    BY <1>3, <1>8 DEF HeadersRun, a, Next1, n
  <1> QED  BY <1>9, <1>10 DEF V, n


LEMMA HeadersIs ==
    ASSUME NEW S, NEW b \in Going(S), NEW n \in Nat
    PROVE  Headers(b, n) \in Packets(S)
  BY HeadersRunIs DEF HeadersRun

LEMMA HeadersSame ==
    ASSUME NEW S, NEW b \in Going(S), NEW c \in Going(S), Same(b, c), NEW n \in Nat
    PROVE  SamePacket(Headers(b, n), Headers(c, n))
  <1>1. PICK f \in [0 .. n -> Packets(S)] : HeadersRun(b, n, f)
    BY HeadersRunIs
  <1>2. PICK h \in [0 .. n -> Packets(S)] : HeadersRun(c, n, h)
    BY HeadersRunIs
  <1>3. /\ f[0] = HeadersFirst(b) /\ h[0] = HeadersFirst(c)
        /\ \A k \in 0 .. n - 1 : f[k + 1] = NextHeader(f[k]) /\ h[k + 1] = NextHeader(h[k])
    BY <1>1, <1>2 DEF HeadersRun
  <1> DEFINE B == {k \in 0 .. n : SamePacket(f[k], h[k])}
  <1>4. 0 \in B
    <2> DEFINE x == f[0]
               y == h[0]
    <2>1. x.b = b /\ x.cbs = <<>> /\ y.b = c /\ y.cbs = <<>>
      BY <1>3 DEF HeadersFirst
    <2> HIDE DEF x, y
    <2>2. SamePacket(x, y)
      BY <2>1 DEF SamePacket
    <2> QED  BY <2>2 DEF x, y
  <1>5. ASSUME NEW k \in 0 .. n - 1, k \in B PROVE k + 1 \in B
    <2>1. f[k] \in Packets(S) /\ h[k] \in Packets(S) /\ k + 1 \in 0 .. n /\ SamePacket(f[k], h[k])
      BY <1>1, <1>2, <1>5
    <2> QED  BY <1>3, <2>1, NextHeaderSame
  <1> HIDE DEF B
  <1>6. \A k \in 0 .. n : k \in B
    BY <1>4, <1>5, UpTo
  <1>7. n \in B
    BY <1>6
  <1> QED  BY <1>1, <1>2, <1>7 DEF B, HeadersRun

DataFirst(b) == r_fill(check_FF(b))

LEMMA DataFirstIs ==
    ASSUME NEW S, NEW b \in Going(S)
    PROVE  DataFirst(b) \in Going(S)
  BY CheckIs, FillIs DEF DataFirst

LEMMA DataFirstSame ==
    ASSUME NEW S, NEW b \in Going(S), NEW c \in Going(S), Same(b, c)
    PROVE  Same(DataFirst(b), DataFirst(c))
  <1> DEFINE x == check_FF(b)
             y == check_FF(c)
  <1>1. x \in Going(S) /\ y \in Going(S) /\ Same(x, y)
    BY CheckIs, CheckSame
  <1> HIDE DEF x, y
  <1>2. Same(r_fill(x), r_fill(y))
    BY <1>1, FillSame
  <1> QED  BY <1>2 DEF DataFirst, x, y

DataRun(b, cbs, f) ==
    /\ f[0] = DataFirst(b) /\ Data(b, cbs) = f[Len(cbs)]
    /\ \A k \in 0 .. Len(cbs) - 1 : f[k + 1] = make_packet_data(f[k], cbs[k + 1].length)

LEMMA DataRunIs ==
    ASSUME FollowLimit \in Nat, NEW S, NEW b \in Going(S), NEW cbs \in Seq(CodeBlocks)
    PROVE  \E f \in [0 .. Len(cbs) -> Going(S)] : DataRun(b, cbs, f)
  <1> DEFINE V == Going(S)
             n == Len(cbs)
             a == DataFirst(b)
             Next1(k, p) == make_packet_data(p, cbs[k].length)
             G == [q \in (1 .. n) \X V |-> Next1(q[1], q[2])]
             Is(f) == f = [k \in 0 .. n |-> IF k = 0 THEN a ELSE Next1(k, f[k - 1])]
             g == CHOOSE f : Is(f)
  <1>0. n \in Nat
    BY LenProperties
  <1>1. a \in V
    BY DataFirstIs
  <1>2. \A k \in 1 .. n, p \in V : Next1(k, p) \in V
    <2> TAKE k \in 1 .. n, p \in V
    <2>1. cbs[k] \in CodeBlocks
      <3> DEFINE C == CodeBlocks
      <3>1. cbs \in Seq(C) /\ k \in 1 .. Len(cbs)
        OBVIOUS
      <3> HIDE DEF C
      <3>2. cbs[k] \in C
        BY <3>1
      <3> QED  BY <3>2 DEF C
    <2>2. cbs[k].length \in Nat
      BY <2>1 DEF CodeBlocks
    <2> QED  BY <2>2, PacketDataIn
  <1>3. Data(b, cbs) = g[n]
    BY DEF Data, DataFirst
  <1> HIDE DEF V, a, Next1, n
  <1>4. G \in [(1 .. n) \X V -> V]
    BY <1>2
  <1>5. PICK h \in [0 .. n -> V] : Recursive(h, a, G, n)
    <2> HIDE DEF G
    <2> QED  BY <1>0, <1>1, <1>4, RecursiveExists DEF HasRecursive
  <1>6. Is(h)
    <2>1. h = [k \in 0 .. n |-> IF k = 0 THEN a ELSE G[<<k, h[k - 1]>>]]
      BY <1>5 DEF Recursive
    <2>2. \A k \in 0 .. n : k # 0 => G[<<k, h[k - 1]>>] = Next1(k, h[k - 1])
      <3> TAKE k \in 0 .. n
      <3>1. k # 0 => k \in 1 .. n /\ h[k - 1] \in V
        BY <1>0, <1>5
      <3> QED  BY <3>1
    <2> HIDE DEF G
    <2> QED  BY <2>1, <2>2
  <1>7. Is(g)
    <2> HIDE DEF Is
    <2> QED  BY <1>6
  <1> HIDE DEF g
  <1>8. g[0] = a /\ \A k \in 0 .. n - 1 : g[k + 1] = Next1(k + 1, g[k])
    <2>1. /\ 0 \in 0 .. n
          /\ \A k \in 0 .. n - 1 : k + 1 \in 0 .. n /\ k + 1 # 0 /\ (k + 1) - 1 = k
      BY <1>0
    <2> QED  BY <1>7, <2>1
  <1>9. g \in [0 .. n -> V]
    <2>1. \A k \in 1 .. n : g[k - 1] \in V => g[k] = G[<<k, g[k - 1]>>]
      <3> TAKE k \in 1 .. n
      <3>1. k - 1 \in 0 .. n - 1 /\ (k - 1) + 1 = k
        BY <1>0
      <3>2. g[k] = Next1(k, g[k - 1])
        BY <1>8, <3>1
      <3> QED  BY <3>2
    <2> HIDE DEF G
    <2>2. \A k \in 0 .. n : g[k] \in V
      BY <1>0, <1>1, <1>4, <1>8, <2>1, LoopIs
    <2> QED  BY <1>7, <2>2
  <1>10. DataRun(b, cbs, g)
    BY <1>3, <1>8 DEF DataRun, a, Next1, n
  <1> QED  BY <1>9, <1>10 DEF V, n


LEMMA DataPartIs ==
    ASSUME FollowLimit \in Nat, NEW S, NEW b \in Going(S), NEW cbs \in Seq(CodeBlocks)
    PROVE  Data(b, cbs) \in Going(S)
  <1>1. PICK f \in [0 .. Len(cbs) -> Going(S)] : DataRun(b, cbs, f)
    BY DataRunIs
  <1>2. Len(cbs) \in 0 .. Len(cbs)
    BY LenProperties
  <1> QED  BY <1>1, <1>2 DEF DataRun

LEMMA DataPartSame ==
    ASSUME FollowLimit \in Nat, NEW S, NEW b \in Going(S), NEW c \in Going(S), Same(b, c),
           NEW cbs \in Seq(CodeBlocks)
    PROVE  Same(Data(b, cbs), Data(c, cbs))
  <1> DEFINE n == Len(cbs)
  <1>0. n \in Nat
    BY LenProperties
  <1>1. PICK f \in [0 .. n -> Going(S)] : DataRun(b, cbs, f)
    BY DataRunIs
  <1>2. PICK h \in [0 .. n -> Going(S)] : DataRun(c, cbs, h)
    BY DataRunIs
  <1>3. /\ f[0] = DataFirst(b) /\ h[0] = DataFirst(c)
        /\ \A k \in 0 .. n - 1 : /\ f[k + 1] = make_packet_data(f[k], cbs[k + 1].length)
                                 /\ h[k + 1] = make_packet_data(h[k], cbs[k + 1].length)
    BY <1>1, <1>2 DEF DataRun
  <1>4. \A k \in 0 .. n - 1 : cbs[k + 1].length \in Nat
    <2> TAKE k \in 0 .. n - 1
    <2>1. cbs[k + 1] \in CodeBlocks
      <3> DEFINE C == CodeBlocks
      <3>1. cbs \in Seq(C) /\ k + 1 \in 1 .. Len(cbs)
        BY <1>0
      <3> HIDE DEF C
      <3>2. cbs[k + 1] \in C
        BY <3>1
      <3> QED  BY <3>2 DEF C
    <2> QED  BY <2>1 DEF CodeBlocks
  <1> HIDE DEF n
  <1> DEFINE B == {k \in 0 .. n : Same(f[k], h[k])}
  <1>5. 0 \in B
    BY <1>0, <1>3, DataFirstSame
  <1>6. ASSUME NEW k \in 0 .. n - 1, k \in B PROVE k + 1 \in B
    <2>1. f[k] \in Going(S) /\ h[k] \in Going(S) /\ k + 1 \in 0 .. n /\ Same(f[k], h[k])
      BY <1>0, <1>1, <1>2, <1>6
    <2>2. cbs[k + 1].length \in Nat
      BY <1>4
    <2>3. Same(make_packet_data(f[k], cbs[k + 1].length), make_packet_data(h[k], cbs[k + 1].length))
      BY <2>1, <2>2, PacketDataSame
    <2> QED  BY <1>3, <2>1, <2>3
  <1> HIDE DEF B
  <1>7. \A k \in 0 .. n : k \in B
    BY <1>0, <1>5, <1>6, UpTo
  <1>8. n \in B
    BY <1>0, <1>7
  <1> QED  BY <1>1, <1>2, <1>8 DEF B, DataRun, n

LEMMA PacketIs ==
    ASSUME FollowLimit \in Nat, NEW S, NEW b \in ReadersOf(S), NEW bands \in Nat
    PROVE  read_packet(b, bands).b \in Going(S)
  <1> DEFINE q == get_bit(b)
             h == Headers(q, bands)
             d == Data(h.b, h.cbs)
             r == read_packet(b, bands)
  <1>1. q \in Going(S)
    BY BitIs
  <1>2. h \in Packets(S)
    BY <1>1, HeadersIs
  <1>3. h.b \in Going(S) /\ h.cbs \in Seq(CodeBlocks)
    BY <1>2 DEF Packets
  <1>4. d \in Going(S)
    <2> HIDE DEF h
    <2> QED  BY <1>3, DataPartIs
  <1>5. r = IF Ok(q) /\ q.val = 0 THEN [b |-> Leak(q), cbs |-> <<>>] ELSE WithData(h)
    BY DEF read_packet, IfNotEmpty
  <1>6. WithData(h).b = d
    BY <1>2 DEF WithData, Packets
  <1>7. Leak(q) \in Going(S)
    BY <1>1, LeakIs
  <1> HIDE DEF q, h, d, r
  <1>8. r.b = IF Ok(q) /\ q.val = 0 THEN Leak(q) ELSE d
    BY <1>5, <1>6
  <1>9. r.b \in Going(S)
    BY <1>4, <1>7, <1>8
  <1> QED  BY <1>9 DEF r

(* A packet leaves the reader at the same place of the stream with the same *)
(* result, however the stream is cut.                                       *)
LEMMA PacketSame ==
    ASSUME FollowLimit \in Nat, NEW S, NEW b \in ReadersOf(S), NEW c \in ReadersOf(S), Same(b, c),
           NEW bands \in Nat
    PROVE  Same(read_packet(b, bands).b, read_packet(c, bands).b)
  <1> DEFINE p == get_bit(b)
             q == get_bit(c)
             h == Headers(p, bands)
             g == Headers(q, bands)
             x == read_packet(b, bands)
             y == read_packet(c, bands)
  <1>1. p \in Going(S) /\ q \in Going(S) /\ Same(p, q)
    BY BitIs, BitSame
  <1>2. h \in Packets(S) /\ g \in Packets(S) /\ SamePacket(h, g)
    <2> HIDE DEF p, q
    <2> QED  BY <1>1, HeadersIs, HeadersSame
  <1>3. /\ x = IF Ok(p) /\ p.val = 0 THEN [b |-> Leak(p), cbs |-> <<>>] ELSE WithData(h)
        /\ y = IF Ok(q) /\ q.val = 0 THEN [b |-> Leak(q), cbs |-> <<>>] ELSE WithData(g)
    BY DEF read_packet, IfNotEmpty
  <1>4. (Ok(p) /\ p.val = 0) <=> (Ok(q) /\ q.val = 0)
    BY <1>1 DEF Same, At, Ok
  <1>5. Same(Leak(p), Leak(q))
    BY <1>1, LeakIs DEF Same
  <1>6. Same(WithData(h).b, WithData(g).b)
    <2> HIDE DEF h, g
    <2>1. /\ h.b \in Going(S) /\ g.b \in Going(S) /\ Same(h.b, g.b) /\ g.cbs = h.cbs
          /\ h.cbs \in Seq(CodeBlocks)
      BY <1>2 DEF Packets, SamePacket
    <2>2. WithData(h).b = Data(h.b, h.cbs) /\ WithData(g).b = Data(g.b, h.cbs)
      BY <1>2, <2>1 DEF WithData, Packets
    <2>3. Same(Data(h.b, h.cbs), Data(g.b, h.cbs))
      BY <2>1, DataPartSame
    <2> QED  BY <2>2, <2>3
  <1> HIDE DEF p, q, h, g, x, y
  <1>7. /\ x.b = IF Ok(p) /\ p.val = 0 THEN Leak(p) ELSE WithData(h).b
        /\ y.b = IF Ok(q) /\ q.val = 0 THEN Leak(q) ELSE WithData(g).b
    BY <1>3
  <1>8. Same(x.b, y.b)
    BY <1>4, <1>5, <1>6, <1>7
  <1> QED  BY <1>8 DEF x, y

--------------------------------------------------------------------------------
(* The reader and the reference reader of a chunk. *)

LEMMA NewReaderIs ==
    ASSUME NEW P \in Payloads, Within(P)
    PROVE  NewReader(P) \in ReadersOf(Stream(P)) /\ At(NewReader(P), 0, Msb, 0, 0)
  <1> DEFINE r == NewReader(P)
  <1>1. Len(P) \in Nat /\ 0 \in 0 .. Len(P)
    BY OffsetEnds
  <1>2. /\ r.segs = P /\ r.pos = 0 /\ r.cur = <<>> /\ r.byte_pos = 0 /\ r.bit_pos = Msb
        /\ r.bit_purge = 0 /\ r.val = 0 /\ r.st = "ok"
    BY DEF NewReader
  <1>3. r \in ReaderType(P)
    BY <1>1, <<>> \in Seq(Nat) DEF ReaderType, NewReader, Masks, Msb
  <1> HIDE DEF r
  <1>4. r \in Readers(P)
    <2>1. Len(<<>>) = 0
      OBVIOUS
    <2> QED  BY <1>2, <1>3, <2>1 DEF Readers
  <1>5. Position(r) = 0
    BY <1>2 DEF Position
  <1>6. r \in ReadersOf(Stream(P))
    BY <1>4, InAny
  <1> QED  BY <1>2, <1>5, <1>6 DEF At, Ok, r

(* One payload with the whole stream is a way to cut it.                    *)
LEMMA OneSegmentIs ==
    ASSUME FollowLimit \in Nat, NEW P \in Payloads
    PROVE  /\ OneSegment(P) \in Payloads /\ Within(OneSegment(P))
           /\ Stream(OneSegment(P)) = Stream(P)
  <1> DEFINE s == Stream(P)
             Q == OneSegment(P)
  <1>1. s \in Seq(Nat)
    BY OffsetEnds
  <1>2. Q = IF s = <<>> THEN <<>> ELSE <<s>>
    BY DEF OneSegment
  <1> HIDE DEF s, Q
  <1>3. Q \in Payloads
    BY <1>1, <1>2 DEF Payloads
  <1>4. Stream(Q) = s
    BY <1>1, <1>2, FlattenSimple DEF Stream
  <1>5. Within(Q)
    <2>1. CASE s = <<>>
      <3>1. Q = <<>> /\ Len(Q) = 0
        BY <1>2, <2>1
      <3>2. {i \in 1 .. 0 : Q[i] # <<>>} = {}
        OBVIOUS
      <3>3. NumNonEmpty(Q, 0) = 0
        BY <3>2, FS_EmptySet DEF NumNonEmpty
      <3> QED  BY <3>1, <3>3 DEF Within
    <2>2. CASE s # <<>>
      <3>1. Q = <<s>> /\ Len(Q) = 1 /\ Q[1] = s
        BY <1>2, <2>2
      <3>2. \A i \in 1 .. 1 : Q[i] # <<>>
        BY <2>2, <3>1
      <3>3. {i \in 1 .. 1 : Q[i] # <<>>} = {1}
        BY <3>2
      <3>4. NumNonEmpty(Q, 1) = 1
        BY <3>3, FS_Singleton DEF NumNonEmpty
      <3> QED  BY <3>1, <3>2, <3>4 DEF Within
    <2> QED  BY <2>1, <2>2
  <1> QED  BY <1>3, <1>4, <1>5 DEF s, Q

================================================================================
