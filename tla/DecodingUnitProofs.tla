-------------------------- MODULE DecodingUnitProofs --------------------------
(***************************************************************************)
(* The decoding side, for every conforming header, however its markers are *)
(* ordered, and every body, however header and body are cut into payloads: *)
(* the arithmetic of the tile computes ceilings, the reader keeps its      *)
(* place in the header, every component gets its own styles, precinct      *)
(* sizes are scaled by the levels that split their axis, where the body    *)
(* was cut has no influence on what is read of it, the table has every     *)
(* precinct once in its place, and the memory reserved for it is enough.   *)
(***************************************************************************)
EXTENDS DecodingUnit, BitReaderProofs

--------------------------------------------------------------------------------
(* The arithmetic of the tile.                                              *)

\* The ceiling lies between x / d and x / d + 1.
LEMMA CeilBounds ==
    ASSUME NEW x \in Int, NEW d \in Nat, d > 0
    PROVE  /\ Ceil(x, d) \in Int
           /\ x <= d * Ceil(x, d) /\ d * Ceil(x, d) < x + d
  <1> DEFINE q == (-x) \div d
  <1>1. q \in Int /\ ((-x) % d) \in 0 .. d - 1 /\ -x = d * q + ((-x) % d)
    BY DivMod
  <1>2. Ceil(x, d) = -q
    BY DEF Ceil
  <1> HIDE DEF q
  <1>3. d * (-q) = -(d * q)
    BY <1>1
  <1> QED BY <1>1, <1>2, <1>3

\* ceil_int computes the ceiling where its sum does not pass the word.
THEOREM CeilIntIsCeil ==
    ASSUME NEW x \in Nat, NEW d \in Nat, d > 0, x + d - 1 < Word
    PROVE  ceil_int(x, d) = Ceil(x, d)
  <1> DEFINE q == Ceil(x, d)
  <1>1. q \in Int /\ x <= d * q /\ d * q < x + d
    BY CeilBounds
  <1> HIDE DEF q
  <1>2. Word \in Nat \ {0}
    BY ProfileAssumption
  <1>3. (x + d - 1) % Word = x + d - 1
    BY <1>2
  <1>4. (x + d - 1) \div d = q
    BY <1>1, DivUnique, x + d - 1 \in Int, d * q <= x + d - 1, x + d - 1 < d * q + d
  <1> QED BY <1>3, <1>4 DEF ceil_int, q

\* k * d is before x exactly for the numbers k below the ceiling.
LEMMA CeilLess ==
    ASSUME NEW x \in Int, NEW d \in Nat, d > 0, NEW k \in Int
    PROVE  k < Ceil(x, d) <=> d * k < x
  <1> DEFINE q == Ceil(x, d)
  <1>1. q \in Int /\ x <= d * q /\ d * q < x + d
    BY CeilBounds
  <1> HIDE DEF q
  <1>2. ASSUME k < q PROVE d * k < x
    <2>1. d * k <= d * (q - 1)
      BY <1>2, <1>1, MulMono
    <2>2. d * (q - 1) = d * q - d
      BY <1>1
    <2> QED BY <2>1, <2>2, <1>1
  <1>3. ASSUME k >= q PROVE d * k >= x
    <2>1. d * q <= d * k
      BY <1>3, <1>1, MulMono
    <2> QED BY <2>1, <1>1
  <1> QED BY <1>1, <1>2, <1>3 DEF q

LEMMA CeilNat ==
    ASSUME NEW x \in Nat, NEW d \in Nat, d > 0
    PROVE  Ceil(x, d) \in Nat /\ Ceil(x, d) <= x
  <1> DEFINE q == Ceil(x, d)
  <1>1. q \in Int /\ x <= d * q /\ d * q < x + d
    BY CeilBounds
  <1> HIDE DEF q
  <1>2. ~(q <= -1)
    <2>1. ASSUME q <= -1 PROVE d * q <= -d
      BY <2>1, <1>1, MulMono, d * q <= d * (-1), d * (-1) = -d
    <2> QED BY <2>1, <1>1
  <1>3. ~(q >= x + 1)
    <2>1. SUFFICES ASSUME q >= x + 1 PROVE FALSE
      OBVIOUS
    <2>2. d * (x + 1) <= d * q
      BY <2>1, <1>1, MulMono
    <2>3. d * (x + 1) = d * x + d
      OBVIOUS
    <2>4. 1 * x <= d * x
      BY MulMono, x * 1 <= x * d, x * d = d * x
    <2> QED BY <2>2, <2>3, <2>4, <1>1
  <1> QED BY <1>1, <1>2, <1>3 DEF q

LEMMA DivZero ==
    ASSUME NEW b \in Nat, b > 0
    PROVE  0 \div b = 0
  BY DivUnique, b * 0 <= 0, 0 < b * 0 + b

\* The size of a region that starts at the origin, one sample standing for d.
LEMMA ScaledFromOrigin ==
    ASSUME NEW x \in Nat, NEW d \in Nat, d > 0, x + d - 1 < Word
    PROVE  Scaled(<<0, x>>, d) = <<0, Ceil(x, d)>>
  <1>1. Ceil(0, d) = 0
    BY CeilNat
  <1>2. 0 + d - 1 < Word
    BY ProfileAssumption
  <1>3. ceil_int(0, d) = 0
    BY <1>1, <1>2, CeilIntIsCeil
  <1> QED BY <1>3, CeilIntIsCeil DEF Scaled

\* The number of precincts j2k_Resolution counts on an axis, from sizes it
\* has rounded up three times (subsampling R, levels D, precinct size P), is
\* the number of positions below the tile's end X that the loops of
\* build_table take for starts of that resolution: the multiples of R D P
\* (decoding_unit.cpp 82-95 and 268-289). It is what makes the table neither
\* longer nor shorter than the memory reserved for it.
THEOREM CountOnGrid ==
    ASSUME NEW X \in Nat, NEW R \in Nat, NEW D \in Nat, NEW P \in Nat,
           R > 0, D > 0, P > 0,
           X + R - 1 < Word, X + D - 1 < Word, X + P - 1 < Word,
           NEW k \in Nat
    PROVE  k < NumPrecinct(Scaled(Scaled(<<0, X>>, R), D), P) <=> R * (D * (P * k)) < X
  <1> DEFINE y == Ceil(X, R)
             z == Ceil(y, D)
  <1>1. y \in Nat /\ y <= X /\ Scaled(<<0, X>>, R) = <<0, y>>
    BY CeilNat, ScaledFromOrigin
  <1> HIDE DEF y
  <1>0. Word \in Nat
    BY ProfileAssumption
  <1>2. z \in Nat /\ z <= y /\ Scaled(<<0, y>>, D) = <<0, z>>
    <2>1. y + D - 1 < Word
      BY <1>0, <1>1
    <2> QED BY <1>1, <2>1, CeilNat, ScaledFromOrigin
  <1> HIDE DEF z
  <1>3. NumPrecinct(<<0, z>>, P) = Ceil(z, P)
    <2>1. z + P - 1 < Word
      BY <1>0, <1>1, <1>2
    <2>2. ceil_int(z, P) = Ceil(z, P)
      BY <1>2, <2>1, CeilIntIsCeil
    <2>3. Ceil(z, P) \in Nat
      BY <1>2, CeilNat
    <2> QED BY <2>2, <2>3, DivZero DEF NumPrecinct
  <1>4. P * k \in Nat /\ D * (P * k) \in Nat
    OBVIOUS
  <1>5. k < Ceil(z, P) <=> P * k < z
    BY <1>2, CeilLess
  <1>6. P * k < z <=> D * (P * k) < y
    BY <1>1, <1>4, CeilLess DEF z
  <1>7. D * (P * k) < y <=> R * (D * (P * k)) < X
    BY <1>4, CeilLess DEF y
  <1> QED BY <1>1, <1>2, <1>3, <1>5, <1>6, <1>7

\* The precincts of a resolution share its samples out: each sample is in
\* exactly one of the precincts that NumPrecinct counts (j2k_Precinct's
\* constructor with the counts of j2k_Resolution).
THEOREM PrecinctsPartition ==
    ASSUME NEW hi \in Nat, NEW P \in Nat, P > 0, hi + P - 1 < Word,
           NEW s \in 0 .. hi - 1, NEW k \in Nat
    PROVE  LET range == PrecinctRange(<<0, hi>>, P, k)
           IN  (range[1] <= s /\ s < range[2])
                 <=> (k = s \div P /\ k < NumPrecinct(<<0, hi>>, P))
  <1> DEFINE lo == P * k
             up == P * (k + 1)
  <1>1. lo \in Nat /\ up = lo + P
    OBVIOUS
  <1>2. /\ PrecinctRange(<<0, hi>>, P, k)[1] = lo
        /\ PrecinctRange(<<0, hi>>, P, k)[2] = IF hi < up THEN hi ELSE up
    BY <1>1 DEF PrecinctRange, Larger, Smaller
  <1>3. NumPrecinct(<<0, hi>>, P) = Ceil(hi, P)
    BY CeilIntIsCeil, CeilNat, DivZero DEF NumPrecinct
  <1>4. k < Ceil(hi, P) <=> lo < hi
    BY CeilLess
  <1> HIDE DEF lo, up
  <1>5. (lo <= s /\ s < up) <=> k = s \div P
    <2>1. ASSUME lo <= s, s < up PROVE k = s \div P
      BY <2>1, <1>1, DivUnique DEF lo
    <2>2. ASSUME k = s \div P PROVE lo <= s /\ s < up
      <3>1. (s % P) \in 0 .. P - 1 /\ s = P * (s \div P) + (s % P)
        BY DivMod
      <3> QED BY <3>1, <2>2, <1>1 DEF lo
    <2> QED BY <2>1, <2>2
  <1> QED BY <1>1, <1>2, <1>3, <1>4, <1>5

\* x - ob in unsigned arithmetic: it wraps around where a subband's offset is
\* past the position, and the sum of ceil_int wraps back.
LEMMA WrappedCeil ==
    ASSUME NEW x \in Nat, NEW d \in Nat, d > 0, NEW o \in 0 .. d - 1,
           x + d - 1 < Word
    PROVE  ceil_int(Minus(x, o), d) = Ceil(x - o, d)
  <1> DEFINE q == Ceil(x - o, d)
             n == x - o + d - 1
  <1>1. q \in Int /\ x - o <= d * q /\ d * q < x - o + d
    BY CeilBounds
  <1>2. Word \in Nat \ {0} /\ n \in 0 .. Word - 1
    BY ProfileAssumption
  <1>3. (Minus(x, o) + d - 1) % Word = n
    <2>1. CASE o <= x
      BY <2>1, <1>2, Minus(x, o) = x - o DEF Minus
    <2>2. CASE x < o
      <3>1. Minus(x, o) = x - o + Word
        BY <2>2, <1>2 DEF Minus
      <3>2. Minus(x, o) + d - 1 = n + Word
        BY <3>1, <1>2
      <3>3. (n + Word) % Word = n
        BY <1>2
      <3> QED BY <3>2, <3>3
    <2> QED BY <2>1, <2>2
  <1> HIDE DEF q
  <1>4. n \div d = q
    BY <1>1, DivUnique, n \in Int, d * q <= n, n < d * q + d
  <1> QED BY <1>3, <1>4 DEF ceil_int, q

\* The subbands of a precinct share its samples out: on each axis the part
\* of the low band and that of the high band are together as long as the
\* precinct, also at the origin, where the offset of the high band makes the
\* program subtract 1 from the unsigned 0 (j2k_Precinct's constructor,
\* decoding_unit.cpp 122-148).
THEOREM PbandsShareOut ==
    ASSUME NEW lo \in Nat, NEW hi \in Nat, hi + 1 < Word, lo + 1 < Word,
           NEW i \in Axis, NEW p \in 1 .. 3, NEW q \in 1 .. 3,
           BandOffset(p, i) = 0, BandOffset(q, i) = 1
    PROVE  LET low == PbandRange(<<lo, hi>>, p, i)
               high == PbandRange(<<lo, hi>>, q, i)
           IN  (low[2] - low[1]) + (high[2] - high[1]) = hi - lo
  <1>1. ASSUME NEW x \in Nat, x + 1 < Word
        PROVE  /\ ceil_int(Minus(x, 0), 2) \in Int /\ ceil_int(Minus(x, 1), 2) \in Int
               /\ ceil_int(Minus(x, 0), 2) + ceil_int(Minus(x, 1), 2) = x
    <2>1. /\ ceil_int(Minus(x, 0), 2) = Ceil(x - 0, 2)
          /\ ceil_int(Minus(x, 1), 2) = Ceil(x - 1, 2)
      BY <1>1, WrappedCeil, 0 \in 0 .. 2 - 1, 1 \in 0 .. 2 - 1, x + 2 - 1 < Word
    <2>2. x \in Int /\ x - 0 = x /\ x - 1 \in Int /\ 2 \in Nat /\ 2 > 0
      OBVIOUS
    <2> DEFINE h == Ceil(x, 2)
               g == Ceil(x - 1, 2)
    <2>3. h \in Int /\ x <= 2 * h /\ 2 * h < x + 2
      BY <2>2, CeilBounds
    <2>4. g \in Int /\ x - 1 <= 2 * g /\ 2 * g < x - 1 + 2
      BY <2>2, CeilBounds
    <2>5. ceil_int(Minus(x, 0), 2) = h /\ ceil_int(Minus(x, 1), 2) = g
      BY <2>1, <2>2
    <2> HIDE DEF h, g
    <2>6. h + g = x
      BY <2>3, <2>4
    <2> QED BY <2>3, <2>4, <2>5, <2>6
  <1>2. /\ PbandRange(<<lo, hi>>, p, i)
             = <<ceil_int(Minus(lo, 0), 2), ceil_int(Minus(hi, 0), 2)>>
        /\ PbandRange(<<lo, hi>>, q, i)
             = <<ceil_int(Minus(lo, 1), 2), ceil_int(Minus(hi, 1), 2)>>
    BY DEF PbandRange
  <1> QED BY <1>1, <1>2

--------------------------------------------------------------------------------
\* ceil_NL finds the level it looks for, whatever the directions.
LEMMA CeilNLIs ==
    ASSUME NEW d, NEW r \in 0 .. NL, NEW i
    PROVE  /\ ceil_NL(d, r, i) \in r .. NL
           /\ \A m \in r + 1 .. ceil_NL(d, r, i) : ~Splits(d[m], i)
           /\ ceil_NL(d, r, i) = NL \/ Splits(d[ceil_NL(d, r, i) + 1], i)
  <1> DEFINE S == {n \in r .. NL : n = NL \/ Splits(d[n + 1], i)}
             Found(n) == /\ \A m \in r + 1 .. n : ~Splits(d[m], i)
                         /\ n = NL \/ Splits(d[n + 1], i)
  <1>0. NL \in Nat /\ r \in Nat
    BY ProfileAssumption
  <1>1. S \subseteq Nat /\ NL \in S
    BY <1>0
  <1>2. PICK x \in S : \A y \in S : x <= y
    <2> HIDE DEF S
    <2> QED  BY <1>1, LeastElement
  <1>3. \A m \in r + 1 .. x : ~Splits(d[m], i)
    <2> TAKE m \in r + 1 .. x
    <2>1. m - 1 \in r .. NL /\ ~(x <= m - 1) /\ (m - 1) + 1 = m
      BY <1>0, <1>2
    <2> QED  BY <1>2, <2>1
  <1>4. x \in r .. NL /\ Found(x)
    BY <1>2, <1>3
  <1>5. ceil_NL(d, r, i) = CHOOSE n \in r .. NL : Found(n)
    BY DEF ceil_NL
  <1> HIDE DEF Found
  <1>6. ceil_NL(d, r, i) \in r .. NL /\ Found(ceil_NL(d, r, i))
    BY <1>4, <1>5
  <1> QED  BY <1>6 DEF Found

\* Where the levels that do not split an axis are the lowest, NL - ceil_NL,
\* by which the precinct sizes of a resolution are shifted, is the number of
\* levels above it that split the axis.
THEOREM ShiftIsSplits ==
    ASSUME NEW d, NEW r \in 0 .. NL, NEW i,
           \A m, n \in 1 .. NL : (m < n /\ Splits(d[m], i)) => Splits(d[n], i)
    PROVE  SplitsAbove(d, r, i) = NL - ceil_NL(d, r, i)
  <1> DEFINE c == ceil_NL(d, r, i)
             Up(k) == IF Splits(d[k], i) THEN 1 ELSE 0
             Count(k) == IF k <= c THEN 0 ELSE k - c
             f == CHOOSE f : f = [k \in r .. NL |-> IF k = r THEN 0 ELSE f[k - 1] + Up(k)]
  <1>0. NL \in Nat /\ r \in 0 .. NL /\ c \in r .. NL /\ c \in Nat /\ r \in Nat
    BY ProfileAssumption, CeilNLIs
  <1>1. /\ \A m \in r + 1 .. c : ~Splits(d[m], i)
        /\ c = NL \/ Splits(d[c + 1], i)
    BY CeilNLIs
  <1>2. SplitsAbove(d, r, i) = f[NL]
    BY DEF SplitsAbove
  <1> HIDE DEF c
  <1>3. \A k \in r + 1 .. NL : Up(k) = IF k <= c THEN 0 ELSE 1
    <2> TAKE k \in r + 1 .. NL
    <2>1. CASE k <= c
      BY <1>0, <1>1, <2>1
    <2>2. CASE k = c + 1
      BY <1>0, <1>1, <2>2
    <2>3. CASE k > c + 1
      <3>1. c + 1 \in 1 .. NL /\ k \in 1 .. NL /\ c + 1 < k /\ c # NL /\ ~(k <= c)
        BY <1>0, <2>3
      <3> QED  BY <1>1, <3>1
    <2> QED  BY <1>0, <2>1, <2>2, <2>3
  <1>4. \A k \in r + 1 .. NL : Count(k) = Count(k - 1) + Up(k)
    <2> HIDE DEF Up
    <2> QED  BY <1>0, <1>3
  <1>5. Count(r) = 0
    BY <1>0
  <1> HIDE DEF Count, Up
  <1>6. f = [k \in r .. NL |-> IF k = r THEN 0 ELSE f[k - 1] + Up(k)]
    <2> DEFINE g == [k \in r .. NL |-> Count(k)]
    <2>1. \A k \in r .. NL : k = r \/ (k \in r + 1 .. NL /\ k - 1 \in r .. NL)
      BY <1>0
    <2>2. \A k \in r .. NL : g[k] = IF k = r THEN 0 ELSE g[k - 1] + Up(k)
      BY <1>4, <1>5, <2>1
    <2>3. g = [k \in r .. NL |-> IF k = r THEN 0 ELSE g[k - 1] + Up(k)]
      BY <2>2
    <2> HIDE DEF g
    <2> QED  BY <2>3
  <1> HIDE DEF f
  <1>7. \A k \in r .. NL : f[k] = IF k = r THEN 0 ELSE f[k - 1] + Up(k)
    BY <1>6
  <1>8. f[NL] = Count(NL)
    <2> DEFINE S == {j \in 0 .. NL - r : f[r + j] = Count(r + j)}
    <2>1. NL - r \in Nat
      BY <1>0
    <2>2. 0 \in S
      <3>1. r + 0 = r /\ r \in r .. NL /\ 0 \in 0 .. NL - r
        BY <1>0
      <3> QED  BY <1>5, <1>7, <3>1
    <2>3. ASSUME NEW j \in 0 .. (NL - r) - 1, j \in S PROVE j + 1 \in S
      <3>1. /\ r + (j + 1) \in r + 1 .. NL /\ r + (j + 1) \in r .. NL /\ r + (j + 1) # r
            /\ r + (j + 1) - 1 = r + j /\ j + 1 \in 0 .. NL - r
        BY <1>0
      <3> QED  BY <1>4, <1>7, <2>3, <3>1
    <2>4. NL - r \in 0 .. NL - r /\ r + (NL - r) = NL
      BY <1>0
    <2> HIDE DEF S
    <2>5. \A j \in 0 .. NL - r : j \in S
      BY <2>1, <2>2, <2>3, UpTo
    <2>6. NL - r \in S
      BY <2>4, <2>5
    <2> QED  BY <2>4, <2>6 DEF S
  <1>9. Count(NL) = NL - c
    BY <1>0 DEF Count
  <1> QED  BY <1>2, <1>8, <1>9 DEF c

--------------------------------------------------------------------------------

(* What main_header can hold of the stream.                                 *)
HeadersRead ==
    [siz : {Absent} \cup Segments("SIZ"), cap : {Absent} \cup Segments("CAP"),
     cod : {Absent} \cup Segments("COD"), coc : Seq(Segments("COC")),
     qcd : {Absent} \cup Segments("QCD"), qcc : Seq(Segments("QCC")),
     dfs : Seq(Segments("DFS"))]

Has(segs, s) == \E k \in DOMAIN segs : segs[k] = s

HasRead(n) ==
    \A i \in 1 .. n :
        /\ stream.segs[i].mk = "COC" => Has(mhd.coc, stream.segs[i])
        /\ stream.segs[i].mk = "QCC" => Has(mhd.qcc, stream.segs[i])

NumSegments == Len(stream.segs)

(* The inductive invariant: until the tile is built, and after, everything  *)
(* read is in main_header, from which the components are made.              *)
HeaderInv ==
    /\ mhd \in HeadersRead
    /\ stream \in Streams
    /\ read \in 0 .. NumSegments
    /\ phase = "header" => at = EndOf(read)
    /\ phase \in {"header", "tile"} => HasRead(read) /\ comps = <<>>
    /\ phase = "tile" => read = NumSegments
    /\ comps # <<>> => /\ HasRead(NumSegments)
                       /\ comps = Components(mhd)
                       /\ TileOutcome(mhd) = "ok"

--------------------------------------------------------------------------------
(* What main_header holds of the stream. *)

LEMMA StreamIs ==
    ASSUME HeaderInv
    PROVE  /\ WellFormedHeader(stream.segs)
           /\ NumSegments \in Nat /\ DOMAIN stream.segs = 1 .. NumSegments
           /\ stream.borders \subseteq Nat
           /\ \E e \in stream.borders : EndOf(NumSegments) <= e
  <1>1. /\ WellFormedHeader(stream.segs) /\ stream.borders \subseteq Nat
        /\ \E e \in stream.borders : EndOf(NumSegments) <= e
    BY StreamsAssumption DEF HeaderInv, EndOf, NumSegments
  <1>2. stream.segs \in Seq({stream.segs[i] : i \in DOMAIN stream.segs})
    BY <1>1 DEF WellFormedHeader
  <1>3. NumSegments \in Nat /\ DOMAIN stream.segs = 1 .. NumSegments
    BY <1>2, LenProperties DEF NumSegments
  <1> QED  BY <1>1, <1>3

LEMMA InSegments ==
    ASSUME NEW i \in DOMAIN stream.segs, NEW mk, stream.segs[i].mk = mk
    PROVE  stream.segs[i] \in Segments(mk)
  BY DEF Segments

LEMMA OfSegments ==
    ASSUME NEW mk, NEW s \in Segments(mk)
    PROVE  s.mk = mk /\ \E i \in DOMAIN stream.segs : s = stream.segs[i]
  BY DEF Segments

(* A vector that grows keeps what it has.                                   *)
LEMMA HasMore ==
    ASSUME NEW V, NEW segs \in Seq(V), NEW s \in V
    PROVE  /\ Append(segs, s) \in Seq(V)
           /\ Has(Append(segs, s), s)
           /\ \A x : Has(segs, x) => Has(Append(segs, s), x)
  <1>1. /\ Len(segs) \in Nat /\ Len(Append(segs, s)) = Len(segs) + 1
        /\ DOMAIN segs = 1 .. Len(segs)
        /\ DOMAIN Append(segs, s) = 1 .. Len(segs) + 1
        /\ Append(segs, s)[Len(segs) + 1] = s
        /\ \A k \in 1 .. Len(segs) : Append(segs, s)[k] = segs[k]
        /\ Append(segs, s) \in Seq(V)
    BY AppendProperties, LenProperties
  <1>2. Len(segs) + 1 \in 1 .. Len(segs) + 1 /\ 1 .. Len(segs) \subseteq 1 .. Len(segs) + 1
    BY <1>1
  <1> HIDE DEF Has
  <1>3. Has(Append(segs, s), s)
    BY <1>1, <1>2 DEF Has
  <1>4. \A x : Has(segs, x) => Has(Append(segs, s), x)
    BY <1>1, <1>2 DEF Has
  <1> QED  BY <1>1, <1>3, <1>4

LEMMA WithSegment ==
    ASSUME mhd \in HeadersRead, NEW i \in DOMAIN stream.segs
    PROVE  LET s == stream.segs[i]
               m == With(mhd, s)
           IN  /\ m \in HeadersRead
               /\ s.mk = "COC" => Has(m.coc, s)
               /\ s.mk = "QCC" => Has(m.qcc, s)
               /\ \A x : Has(mhd.coc, x) => Has(m.coc, x)
               /\ \A x : Has(mhd.qcc, x) => Has(m.qcc, x)
  <1> DEFINE s == stream.segs[i]
             m == With(mhd, s)
  <1>0. s \in Segments(s.mk)
    BY InSegments
  <1> HIDE DEF s
  <1> SUFFICES /\ m \in HeadersRead
               /\ s.mk = "COC" => Has(m.coc, s)
               /\ s.mk = "QCC" => Has(m.qcc, s)
               /\ \A x : Has(mhd.coc, x) => Has(m.coc, x)
               /\ \A x : Has(mhd.qcc, x) => Has(m.qcc, x)
    BY DEF s
  <1>1. CASE s.mk = "COC"
    <2>1. m = [mhd EXCEPT !.coc = Append(@, s)]
      BY <1>1 DEF With
    <2>2. /\ Append(mhd.coc, s) \in Seq(Segments("COC")) /\ Has(Append(mhd.coc, s), s)
          /\ \A x : Has(mhd.coc, x) => Has(Append(mhd.coc, s), x)
      BY <1>0, <1>1, HasMore DEF HeadersRead
    <2>3. m.coc = Append(mhd.coc, s) /\ m.qcc = mhd.qcc /\ m \in HeadersRead
      BY <2>1, <2>2 DEF HeadersRead
    <2> QED  BY <1>1, <2>2, <2>3
  <1>2. CASE s.mk = "QCC"
    <2>1. m = [mhd EXCEPT !.qcc = Append(@, s)]
      BY <1>2 DEF With
    <2>2. /\ Append(mhd.qcc, s) \in Seq(Segments("QCC")) /\ Has(Append(mhd.qcc, s), s)
          /\ \A x : Has(mhd.qcc, x) => Has(Append(mhd.qcc, s), x)
      BY <1>0, <1>2, HasMore DEF HeadersRead
    <2>3. m.qcc = Append(mhd.qcc, s) /\ m.coc = mhd.coc /\ m \in HeadersRead
      BY <2>1, <2>2 DEF HeadersRead
    <2> QED  BY <1>2, <2>2, <2>3
  <1>3. CASE s.mk \notin {"COC", "QCC"}
    <2>1. m \in HeadersRead /\ m.coc = mhd.coc /\ m.qcc = mhd.qcc
      <3>1. CASE s.mk = "DFS"
        <4>1. m = [mhd EXCEPT !.dfs = Append(@, s)]
          BY <3>1 DEF With
        <4>2. Append(mhd.dfs, s) \in Seq(Segments("DFS"))
          BY <1>0, <3>1, HasMore DEF HeadersRead
        <4> QED  BY <4>1, <4>2 DEF HeadersRead
      <3>2. CASE s.mk # "DFS"
        BY <1>0, <1>3, <3>2 DEF With, HeadersRead
      <3> QED  BY <3>1, <3>2
    <2> QED  BY <1>3, <2>1
  <1> QED  BY <1>1, <1>2, <1>3

LEMMA MarkerStep == HeaderInv /\ ReadMarker => HeaderInv'
  <1> SUFFICES ASSUME HeaderInv, ReadMarker PROVE HeaderInv'
    OBVIOUS
  <1> DEFINE s == stream.segs[read + 1]
  <1>1. /\ phase = "header" /\ stream' = stream /\ comps' = comps /\ comps = <<>>
        /\ read < NumSegments /\ read' = read + 1 /\ read \in Nat /\ NumSegments \in Nat
        /\ read + 1 \in DOMAIN stream.segs /\ mhd \in HeadersRead
        /\ HasRead(read) /\ NumSegments' = NumSegments
    BY StreamIs DEF HeaderInv, ReadMarker, tileVars, NumSegments
  <1>2. s.mk = "SOT" => read + 1 = NumSegments
    BY <1>1, StreamIs DEF WellFormedHeader, NumSegments
  <1>3. CASE Outcome(mhd, s) # "ok"
    <2>1. mhd' = mhd /\ s.mk # "SOT"
      BY <1>3 DEF ReadMarker, Outcome
    <2>2. phase' = Outcome(mhd, s) /\ Outcome(mhd, s) \in {"thrown", "undefined"}
      BY <1>3, <2>1 DEF ReadMarker, Outcome
    <2>3. HeadersRead' = HeadersRead
      BY <1>1 DEF HeadersRead, Segments
    <2> QED  BY <1>1, <2>1, <2>2, <2>3 DEF HeaderInv
  <1>4. CASE Outcome(mhd, s) = "ok"
    <2>1. mhd' = With(mhd, s)
      BY <1>4 DEF ReadMarker
    <2>2. /\ mhd' \in HeadersRead
          /\ s.mk = "COC" => Has(mhd'.coc, s)
          /\ s.mk = "QCC" => Has(mhd'.qcc, s)
          /\ \A x : Has(mhd.coc, x) => Has(mhd'.coc, x)
          /\ \A x : Has(mhd.qcc, x) => Has(mhd'.qcc, x)
      BY <1>1, <2>1, WithSegment
    <2>3. HasRead(read)'
      <3> SUFFICES ASSUME NEW i \in 1 .. read + 1
                   PROVE  /\ stream.segs[i].mk = "COC" => Has(mhd'.coc, stream.segs[i])
                          /\ stream.segs[i].mk = "QCC" => Has(mhd'.qcc, stream.segs[i])
        BY <1>1 DEF HasRead, Has
      <3>1. i \in 1 .. read \/ i = read + 1
        BY <1>1
      <3>2. CASE i \in 1 .. read
        BY <1>1, <2>2, <3>2 DEF HasRead
      <3>3. CASE i = read + 1
        BY <2>2, <3>3
      <3> QED  BY <3>1, <3>2, <3>3
    <2>4. HeadersRead' = HeadersRead
      BY <1>1 DEF HeadersRead, Segments
    <2>5. phase' = "tile" => read' = NumSegments'
      BY <1>1, <1>2, <1>4 DEF ReadMarker
    <2>6. phase' = "header" => at' = EndOf(read)'
      <3>1. phase' = "header" => at' = EndOf(read + 1)
        BY <1>4 DEF ReadMarker
      <3> QED  BY <1>1, <3>1 DEF EndOf
    <2>7. HasRead(read)' /\ read' \in 0 .. NumSegments'
      BY <1>1, <2>3
    <2>8. stream' \in Streams /\ comps' = <<>>
      BY <1>1 DEF HeaderInv
    <2> QED  BY <2>2, <2>4, <2>5, <2>6, <2>7, <2>8 DEF HeaderInv
  <1> QED  BY <1>3, <1>4

(* Where the segments end.                                                  *)
LEMMA SegmentBytesNat ==
    ASSUME NEW s, LengthAgrees(s)
    PROVE  SegmentBytes(s) \in Nat
  BY DEF LengthAgrees, SegmentBytes

LEMMA SegmentsEndIs ==
    ASSUME NEW segs, WellFormedHeader(segs)
    PROVE  /\ SegmentsEnd(segs, 0) = 0
           /\ \A k \in 0 .. Len(segs) : SegmentsEnd(segs, k) \in Nat
           /\ \A k \in 1 .. Len(segs) :
                 SegmentsEnd(segs, k) = SegmentsEnd(segs, k - 1) + SegmentBytes(segs[k])
  <1> DEFINE n == Len(segs)
             G == [p \in (1 .. n) \X Nat |-> p[2] + SegmentBytes(segs[p[1]])]
             f == CHOOSE f : f = [k \in 0 .. n |-> IF k = 0 THEN 0
                                                   ELSE f[k - 1] + SegmentBytes(segs[k])]
  <1>1. n \in Nat /\ \A k \in 1 .. n : SegmentBytes(segs[k]) \in Nat
    <2>1. segs \in Seq({segs[i] : i \in DOMAIN segs})
      BY DEF WellFormedHeader
    <2>2. n \in Nat /\ DOMAIN segs = 1 .. n
      BY <2>1, LenProperties
    <2> QED  BY <2>2, SegmentBytesNat DEF WellFormedHeader
  <1>2. \A k \in 0 .. n : SegmentsEnd(segs, k) = f[k]
    BY DEF SegmentsEnd
  <1>3. G \in [(1 .. n) \X Nat -> Nat]
    BY <1>1
  <1>4. \A k \in 1 .. n, m \in Nat : G[<<k, m>>] = m + SegmentBytes(segs[k])
    OBVIOUS
  <1> HIDE DEF G
  <1>5. PICK g \in [0 .. n -> Nat] : Recursive(g, 0, G, n)
    <2>1. HasRecursive(Nat, 0, G, n)
      <3> HIDE DEF n
      <3> QED  BY <1>1, <1>3, RecursiveExists
    <2> QED  BY <2>1 DEF HasRecursive
  <1> HIDE DEF n
  <1>6. g = [k \in 0 .. n |-> IF k = 0 THEN 0 ELSE g[k - 1] + SegmentBytes(segs[k])]
    <2>1. \A k \in 0 .. n : g[k] = IF k = 0 THEN 0 ELSE g[k - 1] + SegmentBytes(segs[k])
      <3> TAKE k \in 0 .. n
      <3>1. g[k] = IF k = 0 THEN 0 ELSE G[<<k, g[k - 1]>>]
        BY <1>5 DEF Recursive
      <3>2. k # 0 => k \in 1 .. n /\ g[k - 1] \in Nat
        BY <1>1, <1>5
      <3> QED  BY <1>4, <3>1, <3>2
    <2> QED  BY <2>1
  <1>7. f = [k \in 0 .. n |-> IF k = 0 THEN 0 ELSE f[k - 1] + SegmentBytes(segs[k])]
    BY <1>6
  <1> HIDE DEF f
  <1>8. \A k \in 0 .. n : f[k] = IF k = 0 THEN 0 ELSE f[k - 1] + SegmentBytes(segs[k])
    BY <1>7
  <1>9. \A k \in 0 .. n : f[k] \in Nat
    <2> DEFINE S == {k \in 0 .. n : f[k] \in Nat}
    <2>1. 0 \in S
      BY <1>1, <1>8
    <2>2. ASSUME NEW m \in 0 .. n - 1, m \in S PROVE m + 1 \in S
      <3>1. m + 1 \in 1 .. n /\ (m + 1) - 1 = m /\ m + 1 # 0
        BY <1>1
      <3> QED  BY <1>1, <1>8, <2>2, <3>1
    <2> HIDE DEF S
    <2>3. \A m \in 0 .. n : m \in S
      BY <1>1, <2>1, <2>2, UpTo
    <2> QED  BY <2>3 DEF S
  <1>10. \A k \in 1 .. n : f[k] = f[k - 1] + SegmentBytes(segs[k])
    BY <1>1, <1>8
  <1>11. \A k \in 1 .. n : k - 1 \in 0 .. n /\ k \in 0 .. n
    BY <1>1
  <1>12. f[0] = 0 /\ 0 \in 0 .. n
    BY <1>1, <1>8
  <1> QED  BY <1>2, <1>9, <1>10, <1>11, <1>12 DEF n

LEMMA InitHeader == Init => HeaderInv
  <1> SUFFICES ASSUME Init PROVE HeaderInv
    OBVIOUS
  <1>1. stream \in Streams /\ WellFormedHeader(stream.segs)
    BY StreamsAssumption DEF Init
  <1>2. NumSegments \in Nat
    BY <1>1, LenProperties DEF WellFormedHeader, NumSegments
  <1>3. at = EndOf(read)
    BY <1>1, SegmentsEndIs DEF Init, EndOf
  <1>4. mhd \in HeadersRead
    BY DEF Init, NoHeader, HeadersRead
  <1>5. HasRead(read)
    BY DEF Init, HasRead
  <1> QED  BY <1>1, <1>2, <1>3, <1>4, <1>5 DEF Init, HeaderInv

(* The least of a set of numbers is in it.                                  *)
LEMMA MinIn ==
    ASSUME NEW S, S \subseteq Nat, S # {}
    PROVE  Min(S) \in S
  <1>1. \E x \in S : \A y \in S : x <= y
    BY LeastElement
  <1> QED  BY <1>1 DEF Min

\* How making the tile may end, and what holds of every component then.
LEMMA TileOutcomes == \A m : TileOutcome(m) \in {"ok", "undefined", "abort"}
  <1>1. \A m, c : ComponentOutcome(m, c) \in {"ok", "undefined", "abort"}
    BY DEF ComponentOutcome
  <1> QED  BY <1>1 DEF TileOutcome

LEMMA ComponentsMade ==
    ASSUME NEW m, TileOutcome(m) = "ok", NEW c \in 0 .. m.siz.Csiz - 1
    PROVE  ComponentOutcome(m, c) = "ok"
  <1> DEFINE bad == {k \in 0 .. m.siz.Csiz - 1 : ComponentOutcome(m, k) # "ok"}
  <1>1. SUFFICES ASSUME bad # {} PROVE FALSE
    OBVIOUS
  <1>2. bad \subseteq Nat
    OBVIOUS
  <1>3. Min(bad) \in bad
    <2> HIDE DEF bad
    <2> QED  BY <1>1, <1>2, MinIn
  <1> QED  BY <1>1, <1>3 DEF TileOutcome

LEMMA HeaderStep == HeaderInv /\ [Next]_vars => HeaderInv'
  <1> SUFFICES ASSUME HeaderInv, [Next]_vars PROVE HeaderInv'
    OBVIOUS
  <1>1. CASE ReadMarker
    BY <1>1, MarkerStep
  <1>2. CASE InitTile
    <2>1. UNCHANGED <<stream, read, mhd>> /\ phase = "tile" /\ phase' \notin {"header", "tile"}
      BY <1>2, TileOutcomes DEF InitTile
    <2>2. comps = <<>> /\ HasRead(NumSegments)
      BY <2>1 DEF HeaderInv
    <2>3. comps' # <<>> => comps' = Components(mhd) /\ TileOutcome(mhd) = "ok"
      BY <1>2, <2>2 DEF InitTile, tileVars
    <2> QED  BY <2>1, <2>2, <2>3 DEF HeaderInv, HeadersRead, Segments, HasRead, NumSegments
  <1>3. CASE LoadBody \/ ReadPrecinct \/ AtResync \/ EndOfTable \/ UNCHANGED vars
    <2>1. UNCHANGED <<stream, read, mhd, comps>>
      BY <1>3 DEF LoadBody, ReadPrecinct, AtResync, EndOfTable, vars, headerVars, tileVars
    <2>2. \/ phase' \notin {"header", "tile"}
          \/ UNCHANGED <<phase, at>>
      BY <1>3 DEF LoadBody, ReadPrecinct, AtResync, EndOfTable, vars, headerVars
    <2> QED  BY <2>1, <2>2 DEF HeaderInv, HeadersRead, Segments, HasRead, NumSegments, EndOf
  <1> QED  BY <1>1, <1>2, <1>3 DEF Next

--------------------------------------------------------------------------------
(* The styles of a component. *)

(* link_component finds a segment of the component, if there is one.        *)
LEMMA LinkComponentIs ==
    ASSUME NEW mk, NEW segs \in Seq(Segments(mk)), NEW c
    PROVE  \/ /\ LinkComponent(segs, c) = Absent
              /\ \A k \in DOMAIN segs : segs[k].comp # c
           \/ LinkComponent(segs, c) \in Of(mk, c)
  <1> DEFINE own == {i \in DOMAIN segs : segs[i].comp = c}
  <1>1. CASE own = {}
    BY <1>1 DEF LinkComponent
  <1>2. CASE own # {}
    <2>1. DOMAIN segs = 1 .. Len(segs) /\ Len(segs) \in Nat
      BY LenProperties
    <2>2. own \subseteq Nat
      BY <2>1
    <2>3. Min(own) \in own
      <3> HIDE DEF own
      <3> QED  BY <1>2, <2>2, MinIn
    <2>4. segs[Min(own)] \in Segments(mk) /\ segs[Min(own)].comp = c
      BY <2>1, <2>3
    <2>5. LinkComponent(segs, c) = segs[Min(own)]
      BY <1>2 DEF LinkComponent
    <2> HIDE DEF own
    <2> QED  BY <2>4, <2>5 DEF Of
  <1> QED  BY <1>1, <1>2

LEMMA LinkedSegments ==
    ASSUME HeaderInv, HasRead(NumSegments), NEW c
    PROVE  /\ IF Of("COC", c) # {} THEN LinkComponent(mhd.coc, c) \in Of("COC", c)
              ELSE LinkComponent(mhd.coc, c) = Absent
           /\ IF Of("QCC", c) # {} THEN LinkComponent(mhd.qcc, c) \in Of("QCC", c)
              ELSE LinkComponent(mhd.qcc, c) = Absent
  <1>1. mhd.coc \in Seq(Segments("COC")) /\ mhd.qcc \in Seq(Segments("QCC"))
    BY DEF HeaderInv, HeadersRead
  <1>2. ASSUME NEW s \in Of("COC", c) PROVE \E k \in DOMAIN mhd.coc : mhd.coc[k].comp = c
    <2>1. s.comp = c /\ s.mk = "COC" /\ \E i \in DOMAIN stream.segs : s = stream.segs[i]
      BY OfSegments DEF Of
    <2> QED  BY <2>1, StreamIs DEF HasRead, Has
  <1>3. ASSUME NEW s \in Of("QCC", c) PROVE \E k \in DOMAIN mhd.qcc : mhd.qcc[k].comp = c
    <2>1. s.comp = c /\ s.mk = "QCC" /\ \E i \in DOMAIN stream.segs : s = stream.segs[i]
      BY OfSegments DEF Of
    <2> QED  BY <2>1, StreamIs DEF HasRead, Has
  <1>4. \/ LinkComponent(mhd.coc, c) = Absent /\ \A k \in DOMAIN mhd.coc : mhd.coc[k].comp # c
        \/ LinkComponent(mhd.coc, c) \in Of("COC", c)
    BY <1>1, LinkComponentIs
  <1>5. \/ LinkComponent(mhd.qcc, c) = Absent /\ \A k \in DOMAIN mhd.qcc : mhd.qcc[k].comp # c
        \/ LinkComponent(mhd.qcc, c) \in Of("QCC", c)
    BY <1>1, LinkComponentIs
  <1> QED  BY <1>2, <1>3, <1>4, <1>5

(* The segments the components are made from.                               *)
LEMMA StylesAre ==
    ASSUME HeaderInv, HasRead(NumSegments), TileOutcome(mhd) = "ok",
           NEW c \in 0 .. mhd.siz.Csiz - 1
    PROVE  /\ CodingStyle(mhd, c) \in IF Of("COC", c) # {} THEN Of("COC", c) ELSE Segments("COD")
           /\ Quantization(mhd, c).mk = IF Of("QCC", c) # {} THEN "QCC" ELSE "QCD"
           /\ DfsIndex(CodingStyle(mhd, c)) \in DOMAIN mhd.dfs
           /\ DfsOf(mhd, CodingStyle(mhd, c)) = mhd.dfs[DfsIndex(CodingStyle(mhd, c))]
  <1>1. Absent \notin {mhd.siz, mhd.cod, mhd.qcd}
    BY DEF TileOutcome
  <1>3. mhd.cod \in Segments("COD") /\ mhd.qcd \in Segments("QCD") /\ mhd.dfs \in Seq(Segments("DFS"))
    BY <1>1 DEF HeaderInv, HeadersRead
  <1>4. DOMAIN mhd.dfs = 1 .. Len(mhd.dfs) /\ Len(mhd.dfs) \in Nat
    BY <1>3, LenProperties
  <1>2. DfsIndex(CodingStyle(mhd, c)) \in 1 .. Len(mhd.dfs)
    BY <1>4, ComponentsMade DEF ComponentOutcome
  <1>5. \A mk, s : s \in Of(mk, c) => s.mk = mk
    BY DEF Of, Segments
  <1>6. Absent \notin Of("COC", c) /\ Absent \notin Of("QCC", c)
    BY <1>5 DEF Absent
  <1>7. CodingStyle(mhd, c) \in IF Of("COC", c) # {} THEN Of("COC", c) ELSE Segments("COD")
    BY <1>3, <1>6, LinkedSegments DEF CodingStyle
  <1>8. Quantization(mhd, c).mk = IF Of("QCC", c) # {} THEN "QCC" ELSE "QCD"
    BY <1>3, <1>5, <1>6, LinkedSegments, OfSegments DEF Quantization
  <1> QED  BY <1>2, <1>4, <1>7, <1>8 DEF DfsOf

LEMMA CsizNat ==
    ASSUME HeaderInv, TileOutcome(mhd) = "ok"
    PROVE  mhd.siz.Csiz \in Nat
  <1>1. mhd.siz \in Segments("SIZ")
    BY DEF TileOutcome, HeaderInv, HeadersRead
  <1>2. mhd.siz.mk = "SIZ" /\ \E i \in DOMAIN stream.segs : mhd.siz = stream.segs[i]
    BY <1>1, OfSegments
  <1>3. LengthAgrees(mhd.siz)
    BY <1>2, StreamIs DEF WellFormedHeader
  <1> QED  BY <1>2, <1>3 DEF LengthAgrees

(* What the components of a tile are, one by one.                           *)
LEMMA ComponentIs ==
    ASSUME mhd.siz.Csiz \in Nat, NEW i \in DOMAIN Components(mhd)
    PROVE  LET cs == CodingStyle(mhd, i - 1)
               cmp == Components(mhd)[i]
           IN  /\ i \in Nat /\ i - 1 \in 0 .. mhd.siz.Csiz - 1
               /\ cmp.index = i - 1
               /\ cmp.cb = CodeblockSize(cs)
               /\ \A r \in Resolutions : cmp.psize[r] = PrecinctSize(cs, r)
               /\ cmp.quant = Quantization(mhd, i - 1).mk
               /\ cmp.Sdfs = DfsOf(mhd, cs).Sdfs
               /\ \A r \in Resolutions :
                     /\ cmp.res[r].dir = Ddfs(DfsOf(mhd, cs))[r]
                     /\ \A a \in Axis :
                           cmp.res[r].shift[a] = PrecinctSize(cs, r)[a] + NL
                                                    - ceil_NL(Ddfs(DfsOf(mhd, cs)), r, a)
  <1> DEFINE tile == TileSize(mhd.siz)
             cs == CodingStyle(mhd, i - 1)
  <1>1. /\ i \in Nat /\ i - 1 \in 0 .. mhd.siz.Csiz - 1
        /\ Components(mhd)[i] = Component(mhd, tile, i - 1)
    BY DEF Components
  <1> DEFINE cmp == Component(mhd, tile, i - 1)
  <1>2. /\ cmp.index = i - 1
        /\ cmp.cb = CodeblockSize(cs)
        /\ cmp.psize = [r \in Resolutions |-> PrecinctSize(cs, r)]
        /\ cmp.quant = Quantization(mhd, i - 1).mk
        /\ cmp.Sdfs = DfsOf(mhd, cs).Sdfs
    BY DEF Component
  <1>3. ASSUME NEW r \in Resolutions
        PROVE  /\ cmp.res[r].dir = Ddfs(DfsOf(mhd, cs))[r]
               /\ \A a \in Axis :
                     cmp.res[r].shift[a] = PrecinctSize(cs, r)[a] + NL
                                              - ceil_NL(Ddfs(DfsOf(mhd, cs)), r, a)
    BY DEF Component, Resolution
  <1> HIDE DEF cmp, cs, tile
  <1> QED  BY <1>1, <1>2, <1>3 DEF cmp, cs

LEMMA StylesFollow == HeaderInv => StylesByComponent
  <1> SUFFICES ASSUME HeaderInv, NEW i \in DOMAIN comps
               PROVE  LET own == Of("COC", comps[i].index)
                          cs == IF own # {} THEN own ELSE Segments("COD")
                      IN  /\ \E s \in cs : \A r \in Resolutions :
                                 comps[i].psize[r] = PrecinctSize(s, r)
                          /\ \E s \in cs : comps[i].cb = CodeblockSize(s)
                          /\ comps[i].quant = IF Of("QCC", comps[i].index) # {} THEN "QCC" ELSE "QCD"
                          /\ DfsInOrder => \E s \in cs : comps[i].Sdfs = DfsIndex(s)
    BY DEF StylesByComponent
  <1> DEFINE s == CodingStyle(mhd, i - 1)
  <1>1. comps = Components(mhd) /\ HasRead(NumSegments) /\ TileOutcome(mhd) = "ok"
    BY DEF HeaderInv
  <1>2. mhd.siz.Csiz \in Nat
    BY <1>1, CsizNat
  <1>3. /\ i - 1 \in 0 .. mhd.siz.Csiz - 1
        /\ comps[i].index = i - 1
        /\ comps[i].cb = CodeblockSize(s)
        /\ \A r \in Resolutions : comps[i].psize[r] = PrecinctSize(s, r)
        /\ comps[i].quant = Quantization(mhd, i - 1).mk
        /\ comps[i].Sdfs = DfsOf(mhd, s).Sdfs
    BY <1>1, <1>2, ComponentIs
  <1>4. /\ s \in IF Of("COC", i - 1) # {} THEN Of("COC", i - 1) ELSE Segments("COD")
        /\ Quantization(mhd, i - 1).mk = IF Of("QCC", i - 1) # {} THEN "QCC" ELSE "QCD"
        /\ DfsIndex(s) \in DOMAIN mhd.dfs
        /\ DfsOf(mhd, s) = mhd.dfs[DfsIndex(s)]
    BY <1>1, <1>3, StylesAre
  <1> HIDE DEF s
  <1>5. DfsInOrder => comps[i].Sdfs = DfsIndex(s)
    BY <1>3, <1>4 DEF DfsInOrder
  <1> QED  BY <1>3, <1>4, <1>5

(* Every component decodes with its own COC and QCC if the header has one,  *)
(* with COD and QCD if not, and with the DFS marker its style names, in     *)
(* whatever order the markers came (j2k_Component, link_component).         *)
THEOREM StylesCorrect == Spec => []StylesByComponent
  <1>1. Init => HeaderInv
    BY InitHeader
  <1>2. HeaderInv /\ [Next]_vars => HeaderInv'
    BY HeaderStep
  <1>3. HeaderInv => StylesByComponent
    BY StylesFollow
  <1> QED  BY <1>1, <1>2, <1>3, PTL DEF Spec

(* The precinct sizes of a component are exponents.                         *)
LEMMA SizesAreNat ==
    ASSUME HeaderInv, HasRead(NumSegments), TileOutcome(mhd) = "ok",
           NEW c \in 0 .. mhd.siz.Csiz - 1, NEW r \in Resolutions, NEW a \in Axis
    PROVE  PrecinctSize(CodingStyle(mhd, c), r)[a] \in Nat
  <1> DEFINE s == CodingStyle(mhd, c)
  <1>1. s \in IF Of("COC", c) # {} THEN Of("COC", c) ELSE Segments("COD")
    BY StylesAre
  <1> HIDE DEF s
  <1>2. s \in Segments("COC") \/ s \in Segments("COD")
    BY <1>1 DEF Of
  <1>3. s.mk \in {"COD", "COC"} /\ \E i \in DOMAIN stream.segs : s = stream.segs[i]
    BY <1>2, OfSegments
  <1>4. PrecinctSize(s, r) \in Nat \X Nat
    BY <1>3, StreamIs DEF WellFormedHeader, Resolutions
  <1> QED  BY <1>4 DEF s, Axis

LEMMA ShiftsFollow == HeaderInv => ShiftCountsSplits
  <1> SUFFICES ASSUME HeaderInv, ProfileDirections,
                      NEW c \in DOMAIN comps, NEW r \in Resolutions, NEW i \in Axis
               PROVE  comps[c].res[r].shift[i]
                         = comps[c].psize[r][i]
                              + SplitsAbove([k \in Resolutions |-> comps[c].res[k].dir], r, i)
    BY DEF ShiftCountsSplits
  <1> DEFINE s == CodingStyle(mhd, c - 1)
             d == Ddfs(DfsOf(mhd, s))
             dir == [k \in Resolutions |-> comps[c].res[k].dir]
  <1>1. comps = Components(mhd) /\ HasRead(NumSegments) /\ TileOutcome(mhd) = "ok"
    BY DEF HeaderInv
  <1>2. mhd.siz.Csiz \in Nat
    BY <1>1, CsizNat
  <1>3. /\ c - 1 \in 0 .. mhd.siz.Csiz - 1
        /\ comps[c].psize[r] = PrecinctSize(s, r)
        /\ comps[c].res[r].shift[i] = PrecinctSize(s, r)[i] + NL - ceil_NL(d, r, i)
        /\ \A k \in Resolutions : comps[c].res[k].dir = d[k]
    BY <1>1, <1>2, ComponentIs
  <1>4. dir = d
    <2>1. d = [k \in Resolutions |-> d[k]]
      BY DEF Ddfs, Resolutions
    <2> HIDE DEF d
    <2> QED  BY <1>3, <2>1
  <1>5. \A m, n \in 1 .. NL : (m < n /\ Splits(d[m], i)) => Splits(d[n], i)
    <2>1. LowLevelsFirst(dir)
      BY DEF ProfileDirections
    <2> HIDE DEF dir, d
    <2> QED  BY <1>4, <2>1 DEF LowLevelsFirst
  <1>6. PrecinctSize(s, r)[i] \in Nat
    BY <1>1, <1>3, SizesAreNat
  <1> HIDE DEF s, d, dir
  <1>7. r \in 0 .. NL /\ NL \in Nat
    BY ProfileAssumption DEF Resolutions
  <1>8. SplitsAbove(d, r, i) = NL - ceil_NL(d, r, i) /\ ceil_NL(d, r, i) \in r .. NL
    BY <1>5, <1>7, ShiftIsSplits, CeilNLIs
  <1>9. comps[c].res[r].shift[i] = comps[c].psize[r][i] + SplitsAbove(dir, r, i)
    BY <1>3, <1>4, <1>6, <1>7, <1>8
  <1> QED  BY <1>9 DEF dir

(* A precinct is on the reference grid as many times its own size as levels *)
(* above it split the axis (DFS::ceil_NL).                                  *)
THEOREM ShiftsCorrect == Spec => []ShiftCountsSplits
  <1>1. Init => HeaderInv
    BY InitHeader
  <1>2. HeaderInv /\ [Next]_vars => HeaderInv'
    BY HeaderStep
  <1>3. HeaderInv => ShiftCountsSplits
    BY ShiftsFollow
  <1> QED  BY <1>1, <1>2, <1>3, PTL DEF Spec

--------------------------------------------------------------------------------
(* The reader's place in the header. *)

(* The moves a segment's constructor makes are none, one or two.            *)
LEMMA AfterNone == ASSUME NEW borders, NEW at0 PROVE After(borders, at0, <<>>) = at0
  <1> DEFINE f == CHOOSE f : f = [k \in 0 .. 0 |-> IF k = 0 THEN at0
                                                   ELSE Moved(borders, f[k - 1], <<>>[k])]
  <1>1. After(borders, at0, <<>>) = f[0]
    BY DEF After
  <1>2. f = [k \in 0 .. 0 |-> IF k = 0 THEN at0 ELSE Moved(borders, f[k - 1], <<>>[k])]
    <2> DEFINE g == [k \in 0 .. 0 |-> at0]
    <2>1. g = [k \in 0 .. 0 |-> IF k = 0 THEN at0 ELSE Moved(borders, g[k - 1], <<>>[k])]
      OBVIOUS
    <2> HIDE DEF g
    <2> QED  BY <2>1
  <1> HIDE DEF f
  <1> QED  BY <1>1, <1>2

LEMMA AfterOne ==
    ASSUME NEW borders, NEW at0, NEW m
    PROVE  After(borders, at0, <<m>>) = Moved(borders, at0, m)
  <1> DEFINE ms == <<m>>
             f == CHOOSE f : f = [k \in 0 .. 1 |-> IF k = 0 THEN at0
                                                   ELSE Moved(borders, f[k - 1], ms[k])]
  <1>1. After(borders, at0, ms) = f[1]
    BY DEF After
  <1>2. ms[1] = m
    OBVIOUS
  <1> HIDE DEF ms
  <1>3. f = [k \in 0 .. 1 |-> IF k = 0 THEN at0 ELSE Moved(borders, f[k - 1], ms[k])]
    <2> DEFINE g == [k \in 0 .. 1 |-> IF k = 0 THEN at0 ELSE Moved(borders, at0, m)]
    <2>1. \A k \in 0 .. 1 : g[k] = IF k = 0 THEN at0 ELSE Moved(borders, g[k - 1], ms[k])
      BY <1>2
    <2>2. g = [k \in 0 .. 1 |-> IF k = 0 THEN at0 ELSE Moved(borders, g[k - 1], ms[k])]
      BY <2>1
    <2> HIDE DEF g
    <2> QED  BY <2>2
  <1> HIDE DEF f
  <1>4. f[0] = at0 /\ f[1] = Moved(borders, f[0], ms[1])
    BY <1>3
  <1> QED  BY <1>1, <1>2, <1>4 DEF ms

LEMMA AfterTwo ==
    ASSUME NEW borders, NEW at0, NEW m, NEW n
    PROVE  After(borders, at0, <<m, n>>) = Moved(borders, Moved(borders, at0, m), n)
  <1> DEFINE ms == <<m, n>>
             f == CHOOSE f : f = [k \in 0 .. 2 |-> IF k = 0 THEN at0
                                                   ELSE Moved(borders, f[k - 1], ms[k])]
  <1>1. After(borders, at0, ms) = f[2]
    BY DEF After
  <1>2. ms[1] = m /\ ms[2] = n
    OBVIOUS
  <1> HIDE DEF ms
  <1>3. f = [k \in 0 .. 2 |-> IF k = 0 THEN at0 ELSE Moved(borders, f[k - 1], ms[k])]
    <2> DEFINE g == [k \in 0 .. 2 |-> IF k = 0 THEN at0
                                      ELSE IF k = 1 THEN Moved(borders, at0, m)
                                      ELSE Moved(borders, Moved(borders, at0, m), n)]
    <2>1. \A k \in 0 .. 2 : g[k] = IF k = 0 THEN at0 ELSE Moved(borders, g[k - 1], ms[k])
      BY <1>2
    <2>2. g = [k \in 0 .. 2 |-> IF k = 0 THEN at0 ELSE Moved(borders, g[k - 1], ms[k])]
      BY <2>1
    <2> HIDE DEF g
    <2> QED  BY <2>2
  <1> HIDE DEF f
  <1>4. f[0] = at0 /\ f[1] = Moved(borders, f[0], ms[1]) /\ f[2] = Moved(borders, f[1], ms[2])
    BY <1>3
  <1> QED  BY <1>1, <1>2, <1>4 DEF ms

(* A step within its payload passes as many bytes as it is told to.         *)
LEMMA StepWithin ==
    ASSUME NEW borders, borders \subseteq Nat, NEW p \in Nat, NEW n \in Nat,
           \E e \in borders : p <= e, ~(p + n > PayloadEnd(borders, p))
    PROVE  Moved(borders, p, Step(n)) = p + n
  <1> DEFINE S == {e \in borders : e >= p}
             q == PayloadEnd(borders, p)
  <1>1. S \subseteq Nat /\ S # {}
    OBVIOUS
  <1>2. q \in Nat
    <2>1. q = Min(S)
      BY DEF PayloadEnd
    <2> HIDE DEF S, q
    <2> QED  BY <1>1, <2>1, MinIn
  <1> HIDE DEF q
  <1>3. p + n <= q /\ p + n \in Nat
    BY <1>2 DEF q
  <1>4. Min({p + n, q}) = p + n
    BY <1>2, <1>3 DEF Min
  <1> QED  BY <1>4 DEF Moved, Step, q

LEMMA GetMoves == ASSUME NEW borders, NEW p, NEW n PROVE Moved(borders, p, Get(n)) = p + n
  BY DEF Moved, Get

LEMMA PairPrefixes ==
    ASSUME NEW m, NEW n
    PROVE  SubSeq(<<m, n>>, 1, 0) = <<>> /\ SubSeq(<<m, n>>, 1, 1) = <<m>>
  <1> DEFINE s == <<m, n>>
             t == SubSeq(s, 1, 1)
  <1>1. s \in Seq({m, n}) /\ Len(s) = 2 /\ s[1] = m
    OBVIOUS
  <1> HIDE DEF s
  <1>2. SubSeq(s, 1, 0) = <<>>
    BY <1>1
  <1>3. t \in Seq({m, n}) /\ Len(t) = 1 /\ t[1] = m
    BY <1>1
  <1> HIDE DEF t
  <1>4. t = <<m>>
    BY <1>3
  <1> QED  BY <1>2, <1>4 DEF s, t

(* Where reading a segment that starts at from leaves the reader, unless it *)
(* skips over the end of a payload or misreads QCD's one-byte entries.      *)
LEMMA SegmentPassed ==
    ASSUME NEW s, LengthAgrees(s), s.mk # "SOT", ~(s.mk = "QCD" /\ s.style = 0),
           NEW from \in Nat, ~SkipsOverBorder(s, from),
           stream.borders \subseteq Nat, \E e \in stream.borders : from + SegmentBytes(s) <= e
    PROVE  After(stream.borders, from + 2, Moves(s)) = from + SegmentBytes(s)
  <1> DEFINE B == stream.borders
  <1>1. ASSUME NEW n \in Nat, NEW m, Moves(s) = <<Step(n), m>>, 2 + n <= SegmentBytes(s)
        PROVE  Moved(B, from + 2, Step(n)) = (from + 2) + n
    <2>1. 1 \in DOMAIN Moves(s) /\ Moves(s)[1] = Step(n)
      BY <1>1
    <2>1a. SubSeq(Moves(s), 1, 0) = <<>> /\ 1 - 1 = 0
      BY <1>1, PairPrefixes
    <2>2. ~Step(n).get /\ Step(n).n = n
      BY DEF Step
    <2>3. ~((from + 2) + n > PayloadEnd(B, from + 2))
      BY <2>1, <2>1a, <2>2, AfterNone DEF SkipsOverBorder
    <2>4. \E e \in B : from + 2 <= e
      BY <1>1, SegmentBytesNat
    <2> HIDE DEF B
    <2> QED  BY <2>3, <2>4, StepWithin DEF B
  <1>2. ASSUME NEW n \in Nat, NEW g \in Nat, Moves(s) = <<Get(g), Step(n)>>,
               2 + g + n <= SegmentBytes(s)
        PROVE  Moved(B, from + 2 + g, Step(n)) = (from + 2 + g) + n
    <2>1. 2 \in DOMAIN Moves(s) /\ Moves(s)[2] = Step(n)
      BY <1>2
    <2>1a. SubSeq(Moves(s), 1, 1) = <<Get(g)>> /\ 2 - 1 = 1
      BY <1>2, PairPrefixes
    <2>2. ~Step(n).get /\ Step(n).n = n
      BY DEF Step
    <2>3. After(B, from + 2, <<Get(g)>>) = from + 2 + g
      BY AfterOne, GetMoves
    <2>4. ~((from + 2 + g) + n > PayloadEnd(B, from + 2 + g))
      BY <2>1, <2>1a, <2>2, <2>3 DEF SkipsOverBorder
    <2>5. \E e \in B : from + 2 + g <= e
      BY <1>2, SegmentBytesNat
    <2> HIDE DEF B
    <2> QED  BY <2>4, <2>5, StepWithin DEF B
  <1> HIDE DEF B
  <1>3. SUFFICES After(B, from + 2, Moves(s)) = from + SegmentBytes(s)
    BY DEF B
  <1>4. CASE s.mk = "SOC"
    BY <1>4, AfterNone DEF Moves, SegmentBytes
  <1>5. ASSUME s.mk \notin {"SOC", "SOT"}
        PROVE  s.len \in Nat /\ s.len >= 2 /\ SegmentBytes(s) = 2 + s.len
    BY <1>5 DEF LengthAgrees, SegmentBytes
  <1>6. CASE s.mk = "SIZ"
    <2>1. s.Csiz \in Nat /\ s.len = 38 + 3 * s.Csiz
      BY <1>6 DEF LengthAgrees
    <2>2. Moves(s) = <<Step(2), Get(36 + 3 * s.Csiz)>>
      BY <1>6 DEF Moves, SizMoves
    <2>3. Moved(B, from + 2, Step(2)) = (from + 2) + 2
      BY <1>1, <1>5, <1>6, <2>2
    <2> QED  BY <1>5, <1>6, <2>1, <2>2, <2>3, AfterTwo, GetMoves
  <1>7. CASE s.mk = "CAP"
    <2>1. s.ncap \in Nat /\ s.len = 6 + 2 * s.ncap
      BY <1>7 DEF LengthAgrees
    <2>2. Moves(s) = <<Step(2), Get(4 + 2 * s.ncap)>>
      BY <1>7 DEF Moves, CapMoves
    <2>3. Moved(B, from + 2, Step(2)) = (from + 2) + 2
      BY <1>1, <1>5, <1>7, <2>2
    <2> QED  BY <1>5, <1>7, <2>1, <2>2, <2>3, AfterTwo, GetMoves
  <1>8. CASE s.mk = "DFS"
    <2> DEFINE q == (2 * s.Idfs + 7) \div 8
    <2>1. q \in Int /\ s.len = 5 + q
      BY <1>8 DEF LengthAgrees
    <2>2. Moves(s) = <<Step(2), Get(3 + q)>>
      BY <1>8 DEF Moves, DfsMoves
    <2> HIDE DEF q
    <2>3. Moved(B, from + 2, Step(2)) = (from + 2) + 2
      BY <1>1, <1>5, <1>8, <2>2
    <2> QED  BY <1>5, <1>8, <2>1, <2>2, <2>3, AfterTwo, GetMoves
  <1>9. CASE s.mk = "COD"
    <2>1. Moves(s) = <<Get(7 + (s.len - 7))>>
      BY <1>9 DEF Moves, CodMoves, CodParams
    <2> QED  BY <1>5, <1>9, <2>1, AfterOne, GetMoves
  <1>10. CASE s.mk = "COC"
    <2>1. Moves(s) = <<Get(4 + (s.len - 4))>>
      BY <1>10 DEF Moves, CocMoves, CocParams
    <2> QED  BY <1>5, <1>10, <2>1, AfterOne, GetMoves
  <1>11. CASE s.mk = "QCD"
    <2>1. QcdBytes(s) = s.len - 3
      BY <1>5, <1>11 DEF LengthAgrees, QcdBytes, QcdEntries
    <2>2. Moves(s) = <<Get(3 + (s.len - 3))>>
      BY <1>11, <2>1 DEF Moves, QcdMoves
    <2> QED  BY <1>5, <1>11, <2>2, AfterOne, GetMoves
  <1>12. CASE s.mk = "QCC"
    <2>1. QccBytes(s) = s.len - 4
      BY <1>5, <1>12 DEF LengthAgrees, QccBytes, QccEntries
    <2>2. Moves(s) = <<Get(4 + (s.len - 4))>>
      BY <1>12, <2>1 DEF Moves, QccMoves
    <2> QED  BY <1>5, <1>12, <2>2, AfterOne, GetMoves
  <1>13. CASE s.mk \notin {"SOC", "SIZ", "CAP", "COD", "COC", "QCD", "QCC", "DFS"}
    <2>1. Moves(s) = <<Get(2), Step(s.len - 2)>>
      BY <1>13 DEF Moves, SkipMoves
    <2>2. s.len - 2 \in Nat /\ 2 + 2 + (s.len - 2) = SegmentBytes(s) /\ 2 \in Nat
      BY <1>5, <1>13
    <2>3. Moved(B, from + 2 + 2, Step(s.len - 2)) = (from + 2 + 2) + (s.len - 2)
      BY <1>2, <2>1, <2>2
    <2> QED  BY <1>5, <1>13, <2>1, <2>2, <2>3, AfterTwo, GetMoves
  <1> QED  BY <1>4, <1>6, <1>7, <1>8, <1>9, <1>10, <1>11, <1>12, <1>13

(* The segments end one after the other, the last where the payloads reach. *)
LEMMA EndsInOrder ==
    ASSUME HeaderInv, NEW n \in 1 .. NumSegments
    PROVE  /\ EndOf(n - 1) \in Nat
           /\ EndOf(n) = EndOf(n - 1) + SegmentBytes(stream.segs[n])
           /\ \E e \in stream.borders : EndOf(n) <= e
  <1>1. WellFormedHeader(stream.segs) /\ NumSegments \in Nat /\ stream.borders \subseteq Nat
    BY StreamIs
  <1>2. /\ \A k \in 0 .. NumSegments : EndOf(k) \in Nat
        /\ \A k \in 1 .. NumSegments : EndOf(k) = EndOf(k - 1) + SegmentBytes(stream.segs[k])
    BY <1>1, SegmentsEndIs DEF EndOf, NumSegments
  <1>3. \A k \in 1 .. NumSegments : SegmentBytes(stream.segs[k]) \in Nat
    BY <1>1, StreamIs, SegmentBytesNat DEF WellFormedHeader
  <1>4. EndOf(n) <= EndOf(NumSegments)
    <2> DEFINE S == {j \in 0 .. NumSegments - n : EndOf(n) <= EndOf(n + j)}
    <2>1. 0 \in S /\ NumSegments - n \in Nat
      BY <1>1, <1>2
    <2>2. ASSUME NEW j \in 0 .. (NumSegments - n) - 1, j \in S PROVE j + 1 \in S
      <3>1. /\ n + (j + 1) \in 1 .. NumSegments /\ n + (j + 1) - 1 = n + j /\ n \in 0 .. NumSegments
            /\ n + j \in 0 .. NumSegments /\ j + 1 \in 0 .. NumSegments - n
        BY <1>1
      <3>2. /\ EndOf(n + (j + 1)) = EndOf(n + j) + SegmentBytes(stream.segs[n + (j + 1)])
            /\ SegmentBytes(stream.segs[n + (j + 1)]) \in Nat
            /\ EndOf(n + j) \in Nat /\ EndOf(n) \in Nat
        BY <1>2, <1>3, <3>1
      <3> QED  BY <2>2, <3>1, <3>2
    <2> HIDE DEF S
    <2>3. \A j \in 0 .. NumSegments - n : j \in S
      BY <2>1, <2>2, UpTo
    <2>4. NumSegments - n \in S /\ n + (NumSegments - n) = NumSegments
      BY <1>1, <2>1, <2>3
    <2> QED  BY <2>4 DEF S
  <1>5. n \in 0 .. NumSegments /\ n - 1 \in 0 .. NumSegments /\ NumSegments \in 0 .. NumSegments
    BY <1>1
  <1>6. PICK e \in stream.borders : EndOf(NumSegments) <= e
    BY StreamIs
  <1>7. EndOf(n) <= e
    BY <1>1, <1>2, <1>4, <1>5, <1>6
  <1> QED  BY <1>2, <1>5, <1>7

LEMMA AlignedStep == HeaderInv /\ HeaderAligned /\ [Next]_vars => HeaderAligned'
  <1> SUFFICES ASSUME HeaderInv, HeaderAligned, [Next]_vars PROVE HeaderAligned'
    OBVIOUS
  <1>1. CASE ReadMarker
    <2> DEFINE s == stream.segs[read + 1]
    <2>1. /\ phase = "header" /\ stream' = stream /\ at = EndOf(read)
          /\ read' = read + 1 /\ read \in Nat /\ read + 1 \in 1 .. NumSegments
          /\ (read + 1) - 1 = read /\ read + 1 \in DOMAIN stream.segs
      BY <1>1, StreamIs DEF HeaderInv, ReadMarker
    <2>2. LengthAgrees(s) /\ stream.borders \subseteq Nat
      BY <2>1, StreamIs DEF WellFormedHeader
    <2>3. /\ at \in Nat /\ EndOf(read + 1) = at + SegmentBytes(s)
          /\ \E e \in stream.borders : at + SegmentBytes(s) <= e
      BY <2>1, EndsInOrder
    <2> SUFFICES ASSUME phase' = "desync"
                 PROVE  SkipsOverBorder(s, at) \/ (s.mk = "QCD" /\ s.style = 0)
      <3>1. /\ HeaderAligned' <=> (phase' = "desync" =>
                  \/ SkipsOverBorder(stream.segs[read'], SegmentsEnd(stream.segs, read' - 1))
                  \/ stream.segs[read'].mk = "QCD" /\ stream.segs[read'].style = 0)
        BY <2>1 DEF HeaderAligned, SkipsOverBorder, EndOf
      <3>2. SegmentsEnd(stream.segs, read' - 1) = at
        BY <2>1 DEF EndOf
      <3> QED  BY <2>1, <3>1, <3>2
    <2>4. Outcome(mhd, s) # "desync"
      BY DEF Outcome
    <2>5. /\ s.mk # "SOT"
          /\ After(stream.borders, at + 2, Moves(s)) # EndOf(read + 1)
      BY <1>1, <2>4 DEF ReadMarker
    <2> HIDE DEF s
    <2> QED  BY <2>2, <2>3, <2>5, SegmentPassed
  <1>2. CASE ~ReadMarker
    <2>1. phase' # "desync" \/ UNCHANGED <<phase, stream, read>>
      BY <1>2, TileOutcomes DEF Next, InitTile, LoadBody, ReadPrecinct, AtResync, EndOfTable, vars, headerVars
    <2> QED  BY <2>1 DEF HeaderAligned, SkipsOverBorder, EndOf
  <1> QED  BY <1>1, <1>2

(* The reader is at the start of a marker whenever it reads one, unless it  *)
(* skips over the end of a payload or reads a QCD of one-byte entries.      *)
THEOREM HeaderAlignedCorrect == Spec => []HeaderAligned
  <1>1. Init => HeaderInv /\ HeaderAligned
    BY InitHeader DEF Init, HeaderAligned
  <1>2. HeaderInv /\ HeaderAligned /\ [Next]_vars => HeaderInv' /\ HeaderAligned'
    BY HeaderStep, AlignedStep
  <1> QED  BY <1>1, <1>2, PTL DEF Spec

--------------------------------------------------------------------------------
(* Cuts do not matter: the reader and the one that has the same bytes in    *)
(* one payload are readers of the same stream, and stand at the same place. *)

BodyType == Seq([PID: Nat, segs: Payloads, intact: BOOLEAN])

Alike(segs, b, c) ==
    Within(segs) =>
        /\ b \in ReadersOf(Stream(segs)) /\ c \in ReadersOf(Stream(segs))
        /\ Same(b, c)

(* The inductive invariant.                                                 *)
CutsInv ==
    /\ stream \in Streams
    /\ body \in BodyType
    /\ chunk.segs \in Payloads
    /\ \A k \in DOMAIN table : table[k].bands \in Nat
    /\ Alike(chunk.segs, buf, ref)

LEMMA NewReadersAlike ==
    ASSUME NEW P \in Payloads
    PROVE  Alike(P, NewReader(P), NewReader(OneSegment(P)))
  <1> SUFFICES ASSUME Within(P)
               PROVE  /\ NewReader(P) \in ReadersOf(Stream(P))
                      /\ NewReader(OneSegment(P)) \in ReadersOf(Stream(P))
                      /\ Same(NewReader(P), NewReader(OneSegment(P)))
    BY DEF Alike
  <1> DEFINE Q == OneSegment(P)
             b == NewReader(P)
             c == NewReader(Q)
  <1>1. Q \in Payloads /\ Within(Q) /\ Stream(Q) = Stream(P)
    BY LimitAssumption, OneSegmentIs
  <1> HIDE DEF Q
  <1>2. b \in ReadersOf(Stream(P)) /\ At(b, 0, Msb, 0, 0)
    BY NewReaderIs
  <1>3. c \in ReadersOf(Stream(Q)) /\ At(c, 0, Msb, 0, 0)
    BY <1>1, NewReaderIs
  <1> HIDE DEF b, c
  <1>4. b.st = c.st
    BY <1>2, <1>3 DEF At, Ok
  <1>5. Same(b, c)
    BY <1>2, <1>3, <1>4 DEF Same, At
  <1> QED  BY <1>1, <1>2, <1>3, <1>5 DEF b, c, Q

LEMMA InitCuts == Init => CutsInv
  <1> SUFFICES ASSUME Init PROVE CutsInv
    OBVIOUS
  <1> DEFINE P == <<>>
             b == NewReader(P)
  <1>1. stream \in Streams /\ body = <<>> /\ chunk.segs = P /\ table = <<>> /\ buf = b /\ ref = b
    BY DEF Init
  <1>2. P \in Payloads
    BY DEF Payloads
  <1>3. Within(P) => b \in ReadersOf(Stream(P)) /\ Same(b, b)
    <2>1. Within(P) => b \in ReadersOf(Stream(P))
      BY <1>2, NewReaderIs
    <2>2. Same(b, b)
      BY DEF Same, At
    <2> QED  BY <2>1, <2>2
  <1>4. body \in BodyType /\ DOMAIN table = {}
    BY <1>1 DEF BodyType
  <1> HIDE DEF P, b
  <1>5. Alike(chunk.segs, buf, ref)
    BY <1>1, <1>3 DEF Alike
  <1> QED  BY <1>1, <1>2, <1>4, <1>5 DEF CutsInv

(* The entries of a table have a natural number of subbands.                *)
LEMMA BandsOfTable ==
    ASSUME NEW cs, NEW size, NEW order, NEW k \in DOMAIN BuildTable(cs, size, order)
    PROVE  BuildTable(cs, size, order)[k].bands \in Nat
  <1> DEFINE S == {v \in Visits(cs, size) : Starts(cs, v)}
             place == [v \in S |-> Cardinality({w \in S : Earlier(order, w, v)})]
             Nth(j) == CHOOSE u \in S : place[u] = j - 1
             t == [j \in 1 .. Cardinality(S) |->
                      Entry(cs, Nth(j), Before(S, order, Nth(j), {Nth(j)[1]}),
                            Before(S, order, Nth(j), Resolutions))]
  <1>1. BuildTable(cs, size, order) = t
    BY DEF BuildTable
  <1> HIDE DEF S, place
  <1>2. ASSUME NEW v, NEW p, NEW n PROVE Entry(cs, v, p, n).bands \in Nat
    BY DEF Entry, NumSubband
  <1> QED  BY <1>1, <1>2


LEMMA CutsStep == CutsInv /\ [Next]_vars => CutsInv'
  <1> SUFFICES ASSUME CutsInv, [Next]_vars PROVE CutsInv'
    OBVIOUS
  <1>1. CASE ReadMarker
    BY <1>1 DEF ReadMarker, CutsInv, tileVars, bodyVars
  <1>2. CASE InitTile
    <2>1. UNCHANGED <<stream, chunk, buf, ref>> /\ body' \in Bodies(stream)
      BY <1>2 DEF InitTile
    <2>2. body' \in BodyType
      BY <2>1, BodiesAssumption DEF CutsInv, BodyType, Payloads
    <2>3. \A k \in DOMAIN table' : table'[k].bands \in Nat
      <3>1. \/ table' = table
            \/ table' = BuildTable(Components(mhd), TileSize(mhd.siz), mhd.cod.order)
        BY <1>2 DEF InitTile, tileVars
      <3> QED  BY <3>1, BandsOfTable DEF CutsInv
    <2> QED  BY <2>1, <2>2, <2>3 DEF CutsInv
  <1>3. CASE LoadBody
    <2> DEFINE P == Head(body).segs
    <2>1. /\ body # <<>> /\ UNCHANGED <<stream, table>> /\ chunk' = Head(body) /\ body' = Tail(body)
          /\ buf' = NewReader(P) /\ ref' = NewReader(OneSegment(P))
      BY <1>3 DEF LoadBody, headerVars, tileVars
    <2>2. Head(body) \in [PID: Nat, segs: Payloads, intact: BOOLEAN] /\ body' \in BodyType
      <3> DEFINE C == [PID: Nat, segs: Payloads, intact: BOOLEAN]
      <3>1. body \in Seq(C) /\ BodyType = Seq(C)
        BY DEF CutsInv, BodyType
      <3> HIDE DEF C
      <3>2. Head(body) \in C /\ Tail(body) \in Seq(C)
        BY <2>1, <3>1
      <3> QED  BY <2>1, <3>1, <3>2 DEF C
    <2>3. P \in Payloads /\ chunk'.segs = P
      BY <2>1, <2>2
    <2> HIDE DEF P
    <2>4. Alike(P, buf', ref')
      BY <2>1, <2>3, NewReadersAlike
    <2> QED  BY <2>1, <2>2, <2>3, <2>4 DEF CutsInv
  <1>4. CASE ReadPrecinct
    <2> DEFINE bands == table[table_index + 1].bands
               S == Stream(chunk.segs)
    <2>1. /\ UNCHANGED <<stream, table, body, chunk>> /\ bands \in Nat
          /\ buf' = read_packet(buf, bands).b /\ ref' = read_packet(ref, bands).b
      BY <1>4 DEF ReadPrecinct, CutsInv, headerVars, tileVars
    <2> HIDE DEF bands
    <2>2. ASSUME Within(chunk.segs)
          PROVE  buf' \in ReadersOf(S) /\ ref' \in ReadersOf(S) /\ Same(buf', ref')
      <3>1. buf \in ReadersOf(S) /\ ref \in ReadersOf(S) /\ Same(buf, ref)
        BY <2>2 DEF CutsInv, Alike
      <3> HIDE DEF S
      <3>2. buf' \in Going(S) /\ ref' \in Going(S)
        BY <2>1, <3>1, LimitAssumption, PacketIs
      <3>3. Same(buf', ref')
        BY <2>1, <3>1, LimitAssumption, PacketSame
      <3> QED  BY <3>2, <3>3 DEF Going
    <2>3. Alike(chunk.segs, buf', ref')
      BY <2>2 DEF Alike
    <2> QED  BY <2>1, <2>3 DEF CutsInv
  <1>5. CASE AtResync
    BY <1>5 DEF AtResync, CutsInv, headerVars, tileVars, bodyVars
  <1>6. CASE EndOfTable
    <2> DEFINE S == Stream(chunk.segs)
    <2>1. /\ UNCHANGED <<stream, table, body, chunk>>
          /\ buf' = get_bytes(buf, 2) /\ ref' = get_bytes(ref, 2)
      BY <1>6 DEF EndOfTable, headerVars, tileVars
    <2>2. ASSUME Within(chunk.segs)
          PROVE  buf' \in ReadersOf(S) /\ ref' \in ReadersOf(S) /\ Same(buf', ref')
      <3>1. buf \in ReadersOf(S) /\ ref \in ReadersOf(S) /\ Same(buf, ref)
        BY <2>2 DEF CutsInv, Alike
      <3> HIDE DEF S
      <3>2. 2 \in Nat
        OBVIOUS
      <3>3. get_bytes(buf, 2) \in ReadersOf(S) /\ get_bytes(ref, 2) \in ReadersOf(S)
        BY <3>1, <3>2, BytesIs
      <3>4. Same(get_bytes(buf, 2), get_bytes(ref, 2))
        BY <3>1, <3>2, BytesSame
      <3> QED  BY <2>1, <3>3, <3>4
    <2>3. Alike(chunk.segs, buf', ref')
      BY <2>2 DEF Alike
    <2> QED  BY <2>1, <2>3 DEF CutsInv
  <1>7. CASE UNCHANGED vars
    BY <1>7 DEF CutsInv, vars, headerVars, tileVars, bodyVars
  <1> QED  BY <1>1, <1>2, <1>3, <1>4, <1>5, <1>6, <1>7 DEF Next

LEMMA CutsFollow == CutsInv => CutsDoNotMatter
  <1> SUFFICES ASSUME CutsInv, Within(chunk.segs)
               PROVE  /\ buf.st = ref.st /\ buf.st # "undefined"
                      /\ Ok(buf) => Consumed(buf) = Consumed(ref) /\ buf.val = ref.val
    BY DEF CutsDoNotMatter
  <1>1. buf \in ReadersOf(Stream(chunk.segs)) /\ Same(buf, ref)
    BY DEF CutsInv, Alike
  <1>2. buf.st \in {"ok", "leak"}
    BY <1>1, AnyIs
  <1>3. Ok(buf) => /\ Position(buf) = Position(ref) /\ buf.bit_pos = ref.bit_pos
                   /\ buf.val = ref.val
    BY <1>1 DEF Same, At
  <1>4. Ok(buf) => Consumed(buf) = Consumed(ref)
    BY <1>3 DEF Consumed
  <1> QED  BY <1>1, <1>2, <1>3, <1>4 DEF Same

(* Where a sender cut the code-stream into payloads has no influence on     *)
(* what is read, however long the body and its payloads are and whatever    *)
(* bytes they hold: the reader that goes on from payload to payload ends    *)
(* every packet as one that has the bytes in one piece.                     *)
THEOREM CutsCorrect == Spec => []CutsDoNotMatter
  <1>1. Init => CutsInv
    BY InitCuts
  <1>2. CutsInv /\ [Next]_vars => CutsInv'
    BY CutsStep
  <1>3. CutsInv => CutsDoNotMatter
    BY CutsFollow
  <1> QED  BY <1>1, <1>2, <1>3, PTL DEF Spec

--------------------------------------------------------------------------------
(* Multiples and powers of 2. *)
\* The powers of two, which Profile defines by recursion.
LEMMA Pow2Is ==
    /\ pow2[0] = 1
    /\ \A n \in Nat : pow2[n] \in Nat \ {0} /\ pow2[n + 1] = 2 * pow2[n]
  <1> DEFINE V == Nat \ {0}
             G == [u \in Nat \X V |-> 2 * u[2]]
  <1>1. G \in [Nat \X V -> V] /\ 1 \in V
    OBVIOUS
  <1>2. PICK h \in [Nat -> V] : RecursiveOnNat(h, 1, G)
    <2> HIDE DEF G, V
    <2> QED  BY <1>1, RecursiveOnNatExists
  <1>3. \A k \in Nat : h[k] = IF k = 0 THEN 1 ELSE G[<<k, h[k - 1]>>]
    <2> HIDE DEF G
    <2> QED  BY <1>2 DEF RecursiveOnNat
  <1>4. \A k \in Nat : h[k] = IF k = 0 THEN 1 ELSE 2 * h[k - 1]
    <2> TAKE k \in Nat
    <2>1. CASE k # 0
      <3>1. k - 1 \in Nat
        BY <2>1
      <3>2. <<k, h[k - 1]>> \in Nat \X V
        BY <1>2, <3>1
      <3> QED  BY <1>3, <2>1, <3>2
    <2>2. CASE k = 0
      BY <1>3, <2>2
    <2> QED  BY <2>1, <2>2
  <1>5. h = [k \in Nat |-> IF k = 0 THEN 1 ELSE 2 * h[k - 1]]
    <2>1. h = [k \in Nat |-> h[k]]
      BY <1>2
    <2> QED  BY <1>4, <2>1
  <1>6. pow2 = [k \in Nat |-> IF k = 0 THEN 1 ELSE 2 * pow2[k - 1]]
    BY <1>5 DEF pow2
  <1>7. \A k \in Nat : pow2[k] = IF k = 0 THEN 1 ELSE 2 * pow2[k - 1]
    <2> DEFINE p == pow2
    <2>1. p = [k \in Nat |-> IF k = 0 THEN 1 ELSE 2 * p[k - 1]]
      BY <1>6
    <2> HIDE DEF p
    <2>2. \A k \in Nat : p[k] = IF k = 0 THEN 1 ELSE 2 * p[k - 1]
      BY <2>1
    <2> QED  BY <2>2 DEF p
  <1>8. pow2[0] = 1
    BY <1>7
  <1>9. ASSUME NEW n \in Nat PROVE pow2[n + 1] = 2 * pow2[n]
    BY <1>7, n + 1 \in Nat, n + 1 # 0, (n + 1) - 1 = n
  <1>10. ASSUME NEW n \in Nat PROVE pow2[n] \in Nat \ {0}
    <2> DEFINE S == {k \in 0 .. n : pow2[k] \in Nat \ {0}}
    <2>1. 0 \in S
      BY <1>8
    <2>2. \A k \in 0 .. n - 1 : k \in S => k + 1 \in S
      BY <1>9
    <2> HIDE DEF S
    <2>3. \A k \in 0 .. n : k \in S
      BY <2>1, <2>2, UpTo
    <2> QED  BY <2>3, n \in 0 .. n DEF S
  <1> QED  BY <1>8, <1>9, <1>10

\* The power of a sum.
LEMMA Pow2Sum ==
    ASSUME NEW a \in Nat, NEW b \in Nat
    PROVE  pow2[a + b] = pow2[a] * pow2[b]
  <1> DEFINE S == {k \in 0 .. b : pow2[a + k] = pow2[a] * pow2[k]}
  <1>1. \A n \in Nat : pow2[n] \in Nat
    BY Pow2Is
  <1>2. 0 \in S
    BY <1>1, Pow2Is, a + 0 = a
  <1>3. ASSUME NEW k \in 0 .. b - 1, k \in S PROVE k + 1 \in S
    <2>1. pow2[k + 1] = 2 * pow2[k]
      BY Pow2Is
    <2>2. pow2[(a + k) + 1] = 2 * pow2[a + k] /\ (a + k) + 1 = a + (k + 1)
      BY Pow2Is
    <2> DEFINE x == pow2[a]
               y == pow2[k]
               z == pow2[a + k]
    <2>3. x \in Nat /\ y \in Nat /\ z = x * y
      BY <1>1, <1>3
    <2> HIDE DEF x, y, z
    <2>4. 2 * z = x * (2 * y)
      BY <2>3
    <2>5. pow2[a + (k + 1)] = x * pow2[k + 1]
      BY <2>1, <2>2, <2>4 DEF x, y, z
    <2> QED  BY <2>5 DEF x
  <1> HIDE DEF S
  <1>4. \A k \in 0 .. b : k \in S
    BY <1>2, <1>3, UpTo
  <1> QED  BY <1>4, b \in 0 .. b DEF S

--------------------------------------------------------------------------------
(* The grid. *)
\* A least common multiple exists and is positive.
LEMMA LcmIs ==
    ASSUME NEW a \in Nat \ {0}, NEW b \in Nat \ {0}
    PROVE  Lcm(a, b) \in Nat \ {0}
  <1> DEFINE S == {m \in 1 .. a * b : m % a = 0 /\ m % b = 0}
  <1>1. a * b \in S
    <2>1. a * b \in 1 .. a * b
      <3>1. a * 1 <= a * b
        BY MulMono
      <3>2. a * b \in Nat
        OBVIOUS
      <3> QED  BY <3>1, <3>2
    <2>2. (a * b) % a = 0 /\ (b * a) % b = 0 /\ a * b = b * a
      BY Multiples
    <2> QED  BY <2>1, <2>2
  <1>2. S \subseteq Nat /\ S # {}
    <2>1. \A m \in 1 .. a * b : m \in Nat
      OBVIOUS
    <2>2. S \subseteq Nat
      BY <2>1
    <2> HIDE DEF S
    <2> QED  BY <1>1, <2>2
  <1>3. PICK m \in S : \A k \in S : m <= k
    <2> HIDE DEF S
    <2> QED  BY <1>2, LeastElement
  <1>4. /\ m \in 1 .. a * b /\ m % a = 0 /\ m % b = 0
        /\ \A k \in 1 .. m - 1 : k % a # 0 \/ k % b # 0
    <2>1. ASSUME NEW k \in 1 .. m - 1, k % a = 0, k % b = 0 PROVE FALSE
      <3> DEFINE ab == a * b
      <3>1. ab \in Nat /\ m \in 1 .. ab
        OBVIOUS
      <3>2. k \in 1 .. ab /\ k \in Nat /\ m \in Nat /\ k < m
        <4> HIDE DEF ab
        <4> QED  BY <3>1
      <3>3. k \in S
        BY <2>1, <3>2
      <3>4. m <= k
        BY <1>3, <3>3
      <3> HIDE DEF ab, S
      <3> QED  BY <3>2, <3>4
    <2> QED  BY <2>1
  <1>5. Lcm(a, b) \in 1 .. a * b
    BY <1>4 DEF Lcm
  <1> QED  BY <1>5

\* So the loops of build_table step by a positive number.
LEMMA PitchIs ==
    ASSUME NEW T, NEW cs \in Seq(T), NEW i \in Axis,
           \A k \in DOMAIN cs : cs[k].cb[i] \in Nat \ {0}
    PROVE  Pitch(cs, i) \in Nat \ {0}
  <1> DEFINE V == Nat \ {0}
             n == Len(cs)
             G == [u \in (1 .. n) \X V |-> Lcm(u[2], cs[u[1]].cb[i])]
             p == CHOOSE p : p = [c \in 0 .. n |-> IF c = 0 THEN 1 ELSE Lcm(p[c - 1], cs[c].cb[i])]
  <1>1. Pitch(cs, i) = p[n]
    BY DEF Pitch
  <1>2. n \in Nat /\ DOMAIN cs = 1 .. n /\ 1 \in V
    BY LenProperties
  <1>3. G \in [(1 .. n) \X V -> V]
    BY <1>2, LcmIs
  <1>4. HasRecursive(V, 1, G, n)
    <2> HIDE DEF G, n, V
    <2> QED  BY <1>2, <1>3, RecursiveExists
  <1>5. PICK f \in [0 .. n -> V] : Recursive(f, 1, G, n)
    BY <1>4 DEF HasRecursive
  <1> HIDE DEF p, n
  <1>6. \A c \in 0 .. n : f[c] = IF c = 0 THEN 1 ELSE G[<<c, f[c - 1]>>]
    <2> HIDE DEF G
    <2> QED  BY <1>5 DEF Recursive
  <1>7. \A c \in 0 .. n : f[c] = IF c = 0 THEN 1 ELSE Lcm(f[c - 1], cs[c].cb[i])
    <2> TAKE c \in 0 .. n
    <2>1. CASE c # 0
      <3>1. c - 1 \in 0 .. n /\ c \in 1 .. n
        BY <1>2, <2>1
      <3>2. <<c, f[c - 1]>> \in (1 .. n) \X V
        BY <1>5, <3>1
      <3> QED  BY <1>6, <2>1, <3>2
    <2>2. CASE c = 0
      BY <1>6, <2>2
    <2> QED  BY <2>1, <2>2
  <1>8. f = [c \in 0 .. n |-> IF c = 0 THEN 1 ELSE Lcm(f[c - 1], cs[c].cb[i])]
    <2>1. f = [c \in 0 .. n |-> f[c]]
      BY <1>5
    <2> QED  BY <1>7, <2>1
  <1>9. p = [c \in 0 .. n |-> IF c = 0 THEN 1 ELSE Lcm(p[c - 1], cs[c].cb[i])]
    BY <1>8 DEF p
  <1>10. \A c \in 0 .. n : p[c] \in V
    <2> DEFINE S == {c \in 0 .. n : p[c] \in V}
    <2>1. \A c \in 0 .. n : p[c] = IF c = 0 THEN 1 ELSE Lcm(p[c - 1], cs[c].cb[i])
      BY <1>9
    <2>2. 0 \in S
      BY <1>2, <2>1
    <2>3. ASSUME NEW c \in 0 .. n - 1, c \in S PROVE c + 1 \in S
      <3>1. c + 1 \in 0 .. n /\ c + 1 # 0 /\ (c + 1) - 1 = c /\ c + 1 \in 1 .. n
        BY <1>2
      <3>2. p[c + 1] = Lcm(p[c], cs[c + 1].cb[i])
        BY <2>1, <3>1
      <3> QED  BY <1>2, <2>3, <3>1, <3>2, LcmIs
    <2> HIDE DEF S
    <2>4. \A c \in 0 .. n : c \in S
      BY <1>2, <2>2, <2>3, UpTo
    <2> QED  BY <2>4 DEF S
  <1> QED  BY <1>1, <1>2, <1>10

--------------------------------------------------------------------------------
(* What the table is built from. *)
\* A resolution has a natural number of precincts.
LEMMA CountNat ==
    ASSUME NEW X \in Nat, NEW R \in Nat, NEW D \in Nat, NEW P \in Nat,
           R > 0, D > 0, P > 0,
           X + R - 1 < Word, X + D - 1 < Word, X + P - 1 < Word
    PROVE  NumPrecinct(Scaled(Scaled(<<0, X>>, R), D), P) \in Nat
  <1> DEFINE y == Ceil(X, R)
             z == Ceil(y, D)
  <1>1. y \in Nat /\ y <= X /\ Scaled(<<0, X>>, R) = <<0, y>>
    BY CeilNat, ScaledFromOrigin
  <1> HIDE DEF y
  <1>0. Word \in Nat
    BY ProfileAssumption
  <1>2. z \in Nat /\ z <= y /\ Scaled(<<0, y>>, D) = <<0, z>>
    <2>1. y + D - 1 < Word
      BY <1>0, <1>1
    <2> QED BY <1>1, <2>1, CeilNat, ScaledFromOrigin
  <1> HIDE DEF z
  <1>3. NumPrecinct(<<0, z>>, P) = Ceil(z, P)
    <2>1. z + P - 1 < Word
      BY <1>0, <1>1, <1>2
    <2>2. ceil_int(z, P) = Ceil(z, P)
      BY <1>2, <2>1, CeilIntIsCeil
    <2>3. Ceil(z, P) \in Nat
      BY <1>2, CeilNat
    <2> QED BY <2>2, <2>3, DivZero DEF NumPrecinct
  <1> QED BY <1>1, <1>2, <1>3, CeilNat

\* The distance of a resolution's precincts on the reference grid.
Spacing(cs, c, r, i) == cs[c].R[i] * pow2[cs[c].res[r].shift[i]]

\* A resolution counts the multiples of this distance before the tile's end.
Fills(num, spacing, end) ==
    /\ num \in Nat /\ spacing \in Nat \ {0}
    /\ \A k \in Nat : k < num <=> spacing * k < end

\* What the table's construction needs of the components.
GridInv(cs, tile) ==
    /\ Len(cs) \in Nat /\ DOMAIN cs = 1 .. Len(cs)
    /\ \A i \in Axis : tile[i] \in Nat /\ Pitch(cs, i) \in Nat \ {0}
    /\ \A c \in DOMAIN cs :
          /\ cs[c].index = c - 1
          /\ \A r \in Resolutions :
                /\ Len(cs[c].res[r].bands) \in 1 .. 3
                /\ NumSubband([k \in Resolutions |-> cs[c].res[k].dir], r)
                     = Len(cs[c].res[r].bands)
                /\ \A i \in Axis :
                      /\ cs[c].R[i] \in Nat /\ cs[c].res[r].shift[i] \in Nat
                      /\ Fills(cs[c].res[r].num[i], Spacing(cs, c, r, i), tile[i])

\* The segments a component is made from are well-formed, and the tile's size
\* leaves room to round up.
LEMMA SizesAre ==
    ASSUME HeaderInv, HasRead(NumSegments), TileOutcome(mhd) = "ok",
           NEW c \in 0 .. mhd.siz.Csiz - 1, NEW i \in Axis
    PROVE  LET cs == CodingStyle(mhd, c)
               X == TileSize(mhd.siz)[i]
               R == mhd.siz.XYRsiz[c + 1][i]
           IN  /\ X \in Nat /\ R \in Nat \ {0} /\ X + R - 1 < Word
               /\ CodeblockSize(cs)[i] \in Nat \ {0}
               /\ \A r \in Resolutions :
                     /\ PrecinctSize(cs, r)[i] \in Nat
                     /\ X + pow2[r] - 1 < Word
                     /\ X + pow2[PrecinctSize(cs, r)[i]] - 1 < Word
  <1> DEFINE cs == CodingStyle(mhd, c)
             siz == mhd.siz
  <1>1. cs \in IF Of("COC", c) # {} THEN Of("COC", c) ELSE Segments("COD")
    BY StylesAre
  <1>2. siz \in Segments("SIZ")
    BY DEF TileOutcome, HeaderInv, HeadersRead
  <1> HIDE DEF cs, siz
  <1>3. cs \in Segments("COC") \/ cs \in Segments("COD")
    BY <1>1 DEF Of
  <1>4. cs.mk \in {"COD", "COC"} /\ \E n \in DOMAIN stream.segs : cs = stream.segs[n]
    BY <1>3, OfSegments
  <1>5. siz.mk = "SIZ" /\ \E k \in DOMAIN stream.segs : siz = stream.segs[k]
    BY <1>2, OfSegments
  <1>6. PICK n \in DOMAIN stream.segs : cs = stream.segs[n]
    BY <1>4
  <1>7. PICK k \in DOMAIN stream.segs : siz = stream.segs[k]
    BY <1>5
  <1>8. /\ siz.Siz \in Nat \X Nat /\ siz.Tsiz \in Nat \X Nat
        /\ \A j \in 1 .. siz.Csiz : siz.XYRsiz[j] \in (Nat \ {0}) \X (Nat \ {0})
        /\ cs.cb \in Nat \X Nat
        /\ \A r \in 0 .. NL : PrecinctSize(cs, r) \in Nat \X Nat
    BY <1>4, <1>5, <1>6, <1>7, StreamIs DEF WellFormedHeader
  <1>9. siz.Csiz \in Nat /\ c + 1 \in 1 .. siz.Csiz
    BY CsizNat DEF siz
  <1>10. TileSize(siz)[i] \in Nat
    BY <1>8 DEF TileSize, Smaller, Axis
  <1>11. siz.XYRsiz[c + 1][i] \in Nat \ {0}
    <2>1. siz.XYRsiz[c + 1] \in (Nat \ {0}) \X (Nat \ {0})
      BY <1>8, <1>9
    <2> QED  BY <2>1 DEF Axis
  <1>12. CodeblockSize(cs)[i] \in Nat \ {0}
    <2>1. cs.cb[1] + 2 \in Nat /\ cs.cb[2] + 2 \in Nat
      BY <1>8
    <2>2. pow2[cs.cb[1] + 2] \in Nat \ {0} /\ pow2[cs.cb[2] + 2] \in Nat \ {0}
      BY <2>1, Pow2Is
    <2> QED  BY <2>2 DEF CodeblockSize, Axis
  <1>13. \A r \in Resolutions : PrecinctSize(cs, r)[i] \in Nat
    BY <1>8 DEF Resolutions, Axis
  <1>14. /\ \A j \in 1 .. siz.Csiz : TileSize(siz)[i] + siz.XYRsiz[j][i] - 1 < Word
         /\ \A r \in Resolutions : /\ TileSize(siz)[i] + pow2[r] - 1 < Word
                                   /\ TileSize(siz)[i] + pow2[PrecinctSize(cs, r)[i]] - 1 < Word
    <2>1. stream \in Streams
      BY DEF HeaderInv
    <2> QED  BY <1>4, <1>5, <1>6, <1>7, <2>1, SizesAssumption
  <1> QED  BY <1>9, <1>10, <1>11, <1>12, <1>13, <1>14 DEF cs, siz

\* The components made from a header are on a grid: a precinct starts at every
\* Spacing, and NumPrecinct counts those starts that are in the tile.
LEMMA GridIs ==
    ASSUME HeaderInv, HasRead(NumSegments), TileOutcome(mhd) = "ok"
    PROVE  GridInv(Components(mhd), TileSize(mhd.siz))
  <1> DEFINE cs == Components(mhd)
             n == mhd.siz.Csiz
             tile == TileSize(mhd.siz)
  <1>1. n \in Nat
    BY CsizNat
  <1>2. Len(cs) = n /\ DOMAIN cs = 1 .. n
    BY <1>1 DEF Components
  <1>2a. cs \in Seq({cs[c] : c \in DOMAIN cs})
    <2> DEFINE T == {cs[c] : c \in DOMAIN cs}
    <2>1. cs = [c \in 1 .. n |-> cs[c]]
      BY DEF Components
    <2> HIDE DEF cs, n
    <2>2. \A c \in 1 .. n : cs[c] \in T
      BY <1>2
    <2> HIDE DEF T
    <2>3. [c \in 1 .. n |-> cs[c]] \in Seq(T)
      BY <1>1, <2>2
    <2> QED  BY <2>1, <2>3 DEF T
  <1>3. ASSUME NEW c \in 1 .. n
        PROVE  /\ cs[c].index = c - 1
               /\ \A i \in Axis : cs[c].cb[i] \in Nat \ {0} /\ tile[i] \in Nat
               /\ \A r \in Resolutions :
                     /\ Len(cs[c].res[r].bands) \in 1 .. 3
                     /\ NumSubband([k \in Resolutions |-> cs[c].res[k].dir], r)
                          = Len(cs[c].res[r].bands)
                     /\ \A i \in Axis :
                           /\ cs[c].R[i] \in Nat /\ cs[c].res[r].shift[i] \in Nat
                           /\ Fills(cs[c].res[r].num[i], Spacing(cs, c, r, i), tile[i])
    <2> DEFINE s == CodingStyle(mhd, c - 1)
               d == Ddfs(DfsOf(mhd, s))
               R == mhd.siz.XYRsiz[c]
               psize == [r \in Resolutions |-> PrecinctSize(s, r)]
               region == [i \in Axis |-> Scaled(<<0, tile[i]>>, R[i])]
    <2>1. c - 1 \in 0 .. n - 1 /\ (c - 1) + 1 = c
      BY <1>1
    <2>2. cs[c] = Component(mhd, tile, c - 1)
      BY <1>1 DEF Components
    <2>3. /\ cs[c].index = c - 1 /\ cs[c].R = R /\ cs[c].cb = CodeblockSize(s)
          /\ cs[c].res = [r \in Resolutions |-> Resolution(region, psize, d, r)]
      BY <2>1, <2>2 DEF Component
    <2>4. \A i \in Axis : /\ tile[i] \in Nat /\ R[i] \in Nat \ {0} /\ tile[i] + R[i] - 1 < Word
                          /\ CodeblockSize(s)[i] \in Nat \ {0}
                          /\ \A r \in Resolutions :
                                /\ PrecinctSize(s, r)[i] \in Nat
                                /\ tile[i] + pow2[r] - 1 < Word
                                /\ tile[i] + pow2[PrecinctSize(s, r)[i]] - 1 < Word
      BY <2>1, SizesAre
    <2>5. d = [r \in Resolutions |-> d[r]]
      BY DEF Ddfs, Resolutions
    <2> HIDE DEF s, d, R, cs, n, tile
    <2>6. ASSUME NEW r \in Resolutions
          PROVE  /\ cs[c].res[r].dir = d[r]
                 /\ Len(cs[c].res[r].bands) = NumSubband(d, r)
                 /\ \A i \in Axis :
                       /\ cs[c].res[r].shift[i] = PrecinctSize(s, r)[i] + NL - ceil_NL(d, r, i)
                       /\ cs[c].res[r].num[i]
                            = NumPrecinct(Scaled(Scaled(<<0, tile[i]>>, R[i]), pow2[NL - ceil_NL(d, r, i)]),
                                          pow2[PrecinctSize(s, r)[i]])
      <3>1. cs[c].res[r] = Resolution(region, psize, d, r)
        BY <2>3
      <3>2. /\ cs[c].res[r].dir = d[r]
            /\ cs[c].res[r].bands = [b \in 1 .. NumSubband(d, r) |-> FirstBand(d, r) + b - 1]
        BY <3>1 DEF Resolution
      <3>3. NumSubband(d, r) \in Nat
        BY DEF NumSubband
      <3>4. Len(cs[c].res[r].bands) = NumSubband(d, r)
        BY <3>2, <3>3
      <3>5. ASSUME NEW i \in Axis
            PROVE  /\ cs[c].res[r].shift[i] = PrecinctSize(s, r)[i] + NL - ceil_NL(d, r, i)
                   /\ cs[c].res[r].num[i]
                            = NumPrecinct(Scaled(Scaled(<<0, tile[i]>>, R[i]), pow2[NL - ceil_NL(d, r, i)]),
                                          pow2[PrecinctSize(s, r)[i]])
        <4>1. /\ cs[c].res[r].shift[i] = psize[r][i] + NL - ceil_NL(d, r, i)
              /\ cs[c].res[r].num[i] = NumPrecinct(ResolutionRange(region[i], d, r, i), pow2[psize[r][i]])
          BY <3>1 DEF Resolution
        <4> QED  BY <4>1 DEF ResolutionRange
      <3> QED  BY <3>2, <3>4, <3>5
    <2>7. ASSUME NEW r \in Resolutions
          PROVE  /\ Len(cs[c].res[r].bands) \in 1 .. 3
                 /\ NumSubband([k \in Resolutions |-> cs[c].res[k].dir], r) = Len(cs[c].res[r].bands)
      <3>1. [k \in Resolutions |-> cs[c].res[k].dir] = d
        BY <2>5, <2>6
      <3>2. NumSubband(d, r) \in 1 .. 3
        BY DEF NumSubband
      <3> QED  BY <2>6, <3>1, <3>2
    <2>8. ASSUME NEW r \in Resolutions, NEW i \in Axis
          PROVE  /\ cs[c].R[i] \in Nat /\ cs[c].res[r].shift[i] \in Nat
                 /\ Fills(cs[c].res[r].num[i], Spacing(cs, c, r, i), tile[i])
      <3> DEFINE X == tile[i]
                 Ri == R[i]
                 l == NL - ceil_NL(d, r, i)
                 D == pow2[l]
                 e == PrecinctSize(s, r)[i]
                 P == pow2[e]
      <3>1. l \in Nat /\ l \in Resolutions /\ e \in Nat /\ e + NL - ceil_NL(d, r, i) = e + l
        <4>1. ceil_NL(d, r, i) \in r .. NL /\ NL \in Nat /\ r \in 0 .. NL
          BY CeilNLIs, ProfileAssumption DEF Resolutions
        <4>2. e \in Nat
          BY <2>4
        <4> HIDE DEF e
        <4> QED  BY <4>1, <4>2 DEF Resolutions
      <3>2. D \in Nat \ {0} /\ P \in Nat \ {0}
        <4> HIDE DEF l, e
        <4> QED  BY <3>1, Pow2Is
      <3>3. X \in Nat /\ Ri \in Nat \ {0} /\ X + Ri - 1 < Word /\ X + D - 1 < Word /\ X + P - 1 < Word
        <4> HIDE DEF l
        <4> QED  BY <2>4, <3>1
      <3>4. pow2[e + l] = P * D
        <4> HIDE DEF l, e
        <4> QED  BY <3>1, Pow2Sum DEF P, D
      <3>5. /\ cs[c].res[r].num[i] = NumPrecinct(Scaled(Scaled(<<0, X>>, Ri), D), P)
            /\ Spacing(cs, c, r, i) = Ri * (P * D)
        <4>1. cs[c].res[r].shift[i] = e + l
          BY <2>6, <3>1
        <4> HIDE DEF l, e
        <4> QED  BY <2>3, <2>6, <3>4, <4>1 DEF Spacing, l, e
      <3>5a. cs[c].R[i] \in Nat /\ cs[c].res[r].shift[i] \in Nat
        <4>1. cs[c].res[r].shift[i] = e + l /\ e + l \in Nat
          <5> HIDE DEF l, e
          <5>1. e + l \in Nat
            BY <3>1
          <5> QED  BY <2>6, <3>1, <5>1 DEF l, e
        <4> QED  BY <2>3, <2>4, <4>1
      <3> HIDE DEF X, Ri, D, P
      <3>6. NumPrecinct(Scaled(Scaled(<<0, X>>, Ri), D), P) \in Nat
        BY <3>2, <3>3, CountNat
      <3>7. \A k \in Nat : k < NumPrecinct(Scaled(Scaled(<<0, X>>, Ri), D), P) <=> Ri * (D * (P * k)) < X
        BY <3>2, <3>3, CountOnGrid
      <3>8. \A k \in Nat : Ri * (D * (P * k)) = (Ri * (P * D)) * k
        BY <3>2, <3>3
      <3>9. Ri * (P * D) \in Nat \ {0}
        BY <3>2, <3>3
      <3> QED  BY <3>5, <3>5a, <3>6, <3>7, <3>8, <3>9 DEF Fills, X
    <2> QED  BY <2>3, <2>4, <2>7, <2>8
  <1>4. ASSUME NEW i \in Axis PROVE tile[i] \in Nat /\ Pitch(cs, i) \in Nat \ {0}
    <2>1. tile[i] \in Nat
      <3>1. mhd.siz \in Segments("SIZ")
        BY DEF TileOutcome, HeaderInv, HeadersRead
      <3>2. mhd.siz.mk = "SIZ" /\ \E k \in DOMAIN stream.segs : mhd.siz = stream.segs[k]
        BY <3>1, OfSegments
      <3>3. mhd.siz.Siz \in Nat \X Nat /\ mhd.siz.Tsiz \in Nat \X Nat
        BY <3>2, StreamIs DEF WellFormedHeader
      <3> QED  BY <3>3 DEF TileSize, Smaller, Axis
    <2>2. \A k \in DOMAIN cs : cs[k].cb[i] \in Nat \ {0}
      BY <1>2, <1>3
    <2> HIDE DEF cs, tile
    <2> QED  BY <1>2a, <2>1, <2>2, PitchIs
  <1> HIDE DEF cs, tile, n
  <1>5. GridInv(cs, tile)
    BY <1>1, <1>2, <1>3, <1>4 DEF GridInv
  <1> QED  BY <1>5 DEF cs, tile

--------------------------------------------------------------------------------
(* The order of the loops. *)
\* The positions of the loops at which a precinct starts: all, those of a
\* component, those of a resolution of it; and the order they are visited in.
Placed(cs, tile) == {v \in Visits(cs, tile) : Starts(cs, v)}
PlacedOf(cs, tile, c) == {v \in Placed(cs, tile) : v[4] = c}
PlacedIn(cs, tile, c, r) == {v \in PlacedOf(cs, tile, c) : v[1] = r}

LoopOrder(cs, tile, order) ==
    {p \in Placed(cs, tile) \X Placed(cs, tile) : Earlier(order, p[1], p[2])}

\* They are finitely many, with coordinates in the tile.
LEMMA VisitsAre ==
    ASSUME NEW cs, NEW tile, GridInv(cs, tile)
    PROVE  /\ IsFiniteSet(Placed(cs, tile))
           /\ \A v \in Placed(cs, tile) :
                 /\ v = <<v[1], v[2], v[3], v[4]>>
                 /\ v[1] \in Resolutions /\ v[1] \in Nat
                 /\ v[2] \in Nat /\ v[2] < tile[2] /\ v[3] \in Nat /\ v[3] < tile[1]
                 /\ v[4] \in DOMAIN cs /\ v[4] \in Nat
  <1> DEFINE Y == Steps(cs, tile, 2)
             X == Steps(cs, tile, 1)
             C == DOMAIN cs
             W == (Resolutions \X Y) \X (X \X C)
             S == Placed(cs, tile)
             f == [v \in S |-> <<<<v[1], v[2]>>, <<v[3], v[4]>>>>]
  <1>1. tile[1] \in Nat /\ tile[2] \in Nat /\ C = 1 .. Len(cs) /\ Len(cs) \in Nat
        /\ Resolutions = 0 .. NL /\ NL \in Nat
    BY ProfileAssumption DEF GridInv, Axis, Resolutions
  <1>2. Y \subseteq 0 .. tile[2] - 1 /\ X \subseteq 0 .. tile[1] - 1
    BY DEF Steps
  <1>3. S \subseteq Resolutions \X Y \X X \X C
    BY DEF Placed, Visits
  <1>4. IsFiniteSet(W)
    <2>1. IsFiniteSet(0 .. NL) /\ IsFiniteSet(1 .. Len(cs))
      BY <1>1, FS_Interval, 0 \in Int, 1 \in Int
    <2>2. IsFiniteSet(0 .. tile[2] - 1) /\ IsFiniteSet(0 .. tile[1] - 1)
      <3>1. 0 \in Int /\ tile[2] - 1 \in Int /\ tile[1] - 1 \in Int
        BY <1>1
      <3> QED  BY <3>1, FS_Interval
    <2> HIDE DEF X, Y, C
    <2>3. IsFiniteSet(X) /\ IsFiniteSet(Y) /\ IsFiniteSet(C) /\ IsFiniteSet(Resolutions)
      BY <1>1, <1>2, <2>1, <2>2, FS_Subset
    <2>4. IsFiniteSet(Resolutions \X Y) /\ IsFiniteSet(X \X C)
      BY <2>3, FS_Product
    <2> QED  BY <2>4, FS_Product
  <1> HIDE DEF X, Y, C, S
  <1>5. \A v \in S : /\ v = <<v[1], v[2], v[3], v[4]>> /\ v[1] \in Resolutions
                     /\ v[2] \in Y /\ v[3] \in X /\ v[4] \in C
    BY <1>3
  <1>6. f \in [S -> W]
    BY <1>5
  <1>7. f \in Injection(S, W)
    <2>1. \A u, v \in S : f[u] = f[v] => u = v
      BY <1>5
    <2> HIDE DEF f, W
    <2> QED  BY <1>6, <2>1 DEF Injection, IsInjective
  <1>8. IsFiniteSet(S)
    <2> HIDE DEF f, W
    <2> QED  BY <1>4, <1>7, FS_Injection
  <1>9. \A v \in S : v[1] \in Nat /\ v[4] \in Nat /\ v[2] \in Nat /\ v[2] < tile[2]
                     /\ v[3] \in Nat /\ v[3] < tile[1]
    BY <1>1, <1>2, <1>5
  <1> QED  BY <1>5, <1>8, <1>9 DEF S, C

\* The first difference decides.
LexLess(a1, b1, a2, b2, a3, b3, a4, b4) ==
    \/ a1 < b1
    \/ a1 = b1 /\ a2 < b2
    \/ a1 = b1 /\ a2 = b2 /\ a3 < b3
    \/ a1 = b1 /\ a2 = b2 /\ a3 = b3 /\ a4 < b4

\* Earlier, written out.
LEMMA EarlierIs ==
    ASSUME NEW order, NEW v, NEW w
    PROVE  Earlier(order, v, w)
              <=> IF order = RPCL
                  THEN LexLess(v[1], w[1], v[2], w[2], v[3], w[3], v[4], w[4])
                  ELSE LexLess(v[2], w[2], v[3], w[3], v[4], w[4], v[1], w[1])
  <1>1. ASSUME NEW a, NEW b
        PROVE  (\E i \in 1 .. 4 : a[i] < b[i] /\ \A j \in 1 .. i - 1 : a[j] = b[j])
                  <=> LexLess(a[1], b[1], a[2], b[2], a[3], b[3], a[4], b[4])
    <2> DEFINE At4(i) == a[i] < b[i] /\ \A j \in 1 .. i - 1 : a[j] = b[j]
    <2>1. (\E i \in 1 .. 4 : At4(i)) <=> At4(1) \/ At4(2) \/ At4(3) \/ At4(4)
      <3>1. \A i \in 1 .. 4 : i = 1 \/ i = 2 \/ i = 3 \/ i = 4
        OBVIOUS
      <3>2. 1 \in 1 .. 4 /\ 2 \in 1 .. 4 /\ 3 \in 1 .. 4 /\ 4 \in 1 .. 4
        OBVIOUS
      <3> HIDE DEF At4
      <3> QED  BY <3>1, <3>2
    <2>2. 1 .. 1 - 1 = {} /\ 1 .. 2 - 1 = {1} /\ 1 .. 3 - 1 = {1, 2} /\ 1 .. 4 - 1 = {1, 2, 3}
      OBVIOUS
    <2> QED  BY <2>1, <2>2 DEF LexLess
  <1>2. CASE order = RPCL
    BY <1>1, <1>2 DEF Earlier
  <1>3. CASE order # RPCL
    <2> DEFINE a == <<v[2], v[3], v[4], v[1]>>
               b == <<w[2], w[3], w[4], w[1]>>
    <2>1. Earlier(order, v, w) <=> \E i \in 1 .. 4 : a[i] < b[i] /\ \A j \in 1 .. i - 1 : a[j] = b[j]
      BY <1>3 DEF Earlier
    <2>2. /\ a[1] = v[2] /\ a[2] = v[3] /\ a[3] = v[4] /\ a[4] = v[1]
          /\ b[1] = w[2] /\ b[2] = w[3] /\ b[3] = w[4] /\ b[4] = w[1]
      OBVIOUS
    <2> HIDE DEF a, b
    <2> QED  BY <1>1, <1>3, <2>1, <2>2
  <1> QED  BY <1>2, <1>3

\* It is a strict and total order of any places.
LEMMA EarlierOrders ==
    ASSUME NEW cs, NEW tile, GridInv(cs, tile), NEW order,
           NEW T, T \subseteq Placed(cs, tile)
    PROVE  /\ IsFiniteSet(T)
           /\ StrictOrder(LoopOrder(cs, tile, order), T)
           /\ \A v \in T : Rank(LoopOrder(cs, tile, order), T, v)
                             = Cardinality({w \in T : Earlier(order, w, v)})
  <1> DEFINE R == LoopOrder(cs, tile, order)
  <1>1. IsFiniteSet(T)
    BY VisitsAre, FS_Subset
  <1>2. \A v, w \in T : <<v, w>> \in R <=> Earlier(order, v, w)
    BY DEF LoopOrder
  <1>3. \A v \in T : /\ v = <<v[1], v[2], v[3], v[4]>>
                     /\ v[1] \in Nat /\ v[2] \in Nat /\ v[3] \in Nat /\ v[4] \in Nat
    BY VisitsAre
  <1> HIDE DEF R
  <1>4. \A u \in T : <<u, u>> \notin R
    BY <1>2, <1>3, EarlierIs DEF LexLess
  <1>5. ASSUME NEW u \in T, NEW v \in T, NEW w \in T, <<u, v>> \in R, <<v, w>> \in R
        PROVE  <<u, w>> \in R
    <2>1. Earlier(order, u, v) /\ Earlier(order, v, w)
      BY <1>2, <1>5
    <2>2. Earlier(order, u, w)
      <3>1. CASE order = RPCL
        BY <1>3, <2>1, <3>1, EarlierIs DEF LexLess
      <3>2. CASE order # RPCL
        BY <1>3, <2>1, <3>2, EarlierIs DEF LexLess
      <3> QED  BY <3>1, <3>2
    <2> QED  BY <1>2, <2>2
  <1>6. ASSUME NEW u \in T, NEW v \in T
        PROVE  u = v \/ <<u, v>> \in R \/ <<v, u>> \in R
    <2>1. u[1] = v[1] /\ u[2] = v[2] /\ u[3] = v[3] /\ u[4] = v[4] => u = v
      BY <1>3
    <2>2. \/ u[1] = v[1] /\ u[2] = v[2] /\ u[3] = v[3] /\ u[4] = v[4]
          \/ Earlier(order, u, v) \/ Earlier(order, v, u)
      <3>1. CASE order = RPCL
        BY <1>3, <3>1, EarlierIs DEF LexLess
      <3>2. CASE order # RPCL
        BY <1>3, <3>2, EarlierIs DEF LexLess
      <3> QED  BY <3>1, <3>2
    <2> QED  BY <1>2, <2>1, <2>2
  <1>7. ASSUME NEW v \in T
        PROVE  Rank(R, T, v) = Cardinality({w \in T : Earlier(order, w, v)})
    <2>1. {w \in T : <<w, v>> \in R} = {w \in T : Earlier(order, w, v)}
      BY <1>2
    <2> QED  BY <2>1 DEF Rank
  <1> QED  BY <1>1, <1>4, <1>5, <1>6, <1>7 DEF StrictOrder, R

--------------------------------------------------------------------------------
(* The table holds every placed position once. *)
\* How many of its resolution's, and of its component's, are before a place:
\* current_pcount and cmp_prc_count.
PlaceRank(cs, tile, order, v) ==
    Rank(LoopOrder(cs, tile, order), PlacedIn(cs, tile, v[4], v[1]), v)
CountRank(cs, tile, order, v) ==
    Rank(LoopOrder(cs, tile, order), PlacedOf(cs, tile, v[4]), v)

\* K lists the places, each once, and t has the entry of each.
TableFrom(t, K, cs, tile, order) ==
    /\ Cardinality(Placed(cs, tile)) \in Nat
    /\ Len(t) = Cardinality(Placed(cs, tile)) /\ DOMAIN t = 1 .. Len(t)
    /\ K \in [1 .. Len(t) -> Placed(cs, tile)]
    /\ \A j, k \in 1 .. Len(t) : K[j] = K[k] => j = k
    /\ \A v \in Placed(cs, tile) : \E k \in 1 .. Len(t) : K[k] = v
    /\ \A k \in 1 .. Len(t) :
          t[k] = Entry(cs, K[k], PlaceRank(cs, tile, order, K[k]), CountRank(cs, tile, order, K[k]))

\* The table of build_table is such a list.
LEMMA TableIs ==
    ASSUME NEW cs, NEW tile, GridInv(cs, tile), NEW order
    PROVE  \E K : TableFrom(BuildTable(cs, tile, order), K, cs, tile, order)
  <1> DEFINE S == Placed(cs, tile)
             R == LoopOrder(cs, tile, order)
             n == Cardinality(S)
             place == [v \in S |-> Cardinality({w \in S : Earlier(order, w, v)})]
             Nth(k) == CHOOSE u \in S : place[u] = k - 1
             t == BuildTable(cs, tile, order)
             K == [k \in 1 .. n |-> Nth(k)]
  <1>1. t = [k \in 1 .. n |-> Entry(cs, Nth(k), Before(S, order, Nth(k), {Nth(k)[1]}),
                                    Before(S, order, Nth(k), Resolutions))]
    BY DEF BuildTable, Placed
  <1>2. /\ IsFiniteSet(S) /\ StrictOrder(R, S)
        /\ \A v \in S : place[v] = Rank(R, S, v)
    BY EarlierOrders
  <1>3. /\ n \in Nat
        /\ \A v \in S : Rank(R, S, v) \in 0 .. n - 1
        /\ \A u, v \in S : Rank(R, S, u) = Rank(R, S, v) => u = v
        /\ \A k \in 0 .. n - 1 : \E v \in S : Rank(R, S, v) = k
    <2> HIDE DEF S, R
    <2> QED  BY <1>2, Ranked
  <1> HIDE DEF place, t
  <1>4. ASSUME NEW k \in 1 .. n PROVE Nth(k) \in S /\ Rank(R, S, Nth(k)) = k - 1
    <2>1. k - 1 \in 0 .. n - 1
      BY <1>3
    <2>2. \E u \in S : place[u] = k - 1
      BY <1>2, <1>3, <2>1
    <2>3. Nth(k) \in S /\ place[Nth(k)] = k - 1
      BY <2>2
    <2> QED  BY <1>2, <2>3
  <1> HIDE DEF Nth
  <1>5. K \in [1 .. n -> S]
    BY <1>4
  <1>6. ASSUME NEW j \in 1 .. n, NEW k \in 1 .. n, K[j] = K[k] PROVE j = k
    <2>1. Nth(j) = Nth(k)
      BY <1>6
    <2>2. j - 1 = k - 1
      BY <1>4, <2>1
    <2> QED  BY <1>3, <2>2
  <1>7. ASSUME NEW v \in S PROVE \E k \in 1 .. n : K[k] = v
    <2> DEFINE k == Rank(R, S, v) + 1
    <2>1. k \in 1 .. n /\ k - 1 = Rank(R, S, v)
      BY <1>3
    <2>2. Nth(k) = v
      <3> HIDE DEF k
      <3> QED  BY <1>3, <1>4, <2>1
    <2> QED  BY <2>1, <2>2
  <1>8. ASSUME NEW v \in S
        PROVE  /\ Before(S, order, v, {v[1]}) = PlaceRank(cs, tile, order, v)
               /\ Before(S, order, v, Resolutions) = CountRank(cs, tile, order, v)
    <2> DEFINE I == PlacedIn(cs, tile, v[4], v[1])
               O == PlacedOf(cs, tile, v[4])
    <2>1. I \subseteq S /\ O \subseteq S /\ v \in I /\ v \in O
      BY DEF PlacedIn, PlacedOf
    <2>2. /\ Rank(R, I, v) = Cardinality({w \in I : Earlier(order, w, v)})
          /\ Rank(R, O, v) = Cardinality({w \in O : Earlier(order, w, v)})
      BY SMTT(30), <2>1, EarlierOrders
    <2>3. /\ {w \in I : Earlier(order, w, v)}
               = {w \in S : w[4] = v[4] /\ w[1] \in {v[1]} /\ Earlier(order, w, v)}
          /\ {w \in O : Earlier(order, w, v)}
               = {w \in S : w[4] = v[4] /\ w[1] \in Resolutions /\ Earlier(order, w, v)}
      <3>1. \A w \in S : w[1] \in Resolutions
        BY VisitsAre
      <3> HIDE DEF S
      <3> QED  BY <3>1 DEF PlacedIn, PlacedOf, S
    <2> QED  BY <2>2, <2>3 DEF Before, PlaceRank, CountRank
  <1>9. /\ Len(t) = n /\ DOMAIN t = 1 .. n
        /\ \A k \in 1 .. n : t[k] = Entry(cs, K[k], PlaceRank(cs, tile, order, K[k]),
                                                    CountRank(cs, tile, order, K[k]))
    <2>1. Len(t) = n /\ DOMAIN t = 1 .. n
      BY <1>1, <1>3
    <2>2. ASSUME NEW k \in 1 .. n
          PROVE  t[k] = Entry(cs, K[k], PlaceRank(cs, tile, order, K[k]),
                                        CountRank(cs, tile, order, K[k]))
      <3> DEFINE v == Nth(k)
      <3>1. K[k] = v /\ v \in S
        BY <1>4
      <3>2. t[k] = Entry(cs, v, Before(S, order, v, {v[1]}), Before(S, order, v, Resolutions))
        <4> HIDE DEF S
        <4> QED  BY <1>1
      <3> HIDE DEF v, K, S
      <3> QED  BY <1>8, <3>1, <3>2
    <2> QED  BY <2>1, <2>2
  <1> HIDE DEF K
  <1> QED  BY <1>3, <1>5, <1>6, <1>7, <1>9 DEF TableFrom, S, t

--------------------------------------------------------------------------------
(* The places of a resolution. *)
\* Which precinct of its resolution starts at a place, along each axis.
Column(cs, v) == v[3] \div Spacing(cs, v[4], v[1], 1)
Row(cs, v) == v[2] \div Spacing(cs, v[4], v[1], 2)

\* A place is a corner of its resolution's grid, inside what NumPrecinct counts.
LEMMA PlacedAre ==
    ASSUME NEW cs, NEW tile, GridInv(cs, tile), NEW c \in DOMAIN cs, NEW r \in Resolutions,
           NEW v \in PlacedIn(cs, tile, c, r)
    PROVE  /\ v[4] = c /\ v[1] = r
           /\ v = <<r, Spacing(cs, c, r, 2) * Row(cs, v), Spacing(cs, c, r, 1) * Column(cs, v), c>>
           /\ Column(cs, v) \in 0 .. cs[c].res[r].num[1] - 1
           /\ Row(cs, v) \in 0 .. cs[c].res[r].num[2] - 1
  <1> DEFINE G(i) == Spacing(cs, c, r, i)
             num(i) == cs[c].res[r].num[i]
  <1>1. v \in Placed(cs, tile) /\ v[4] = c /\ v[1] = r
    BY DEF PlacedIn, PlacedOf
  <1>2. /\ v = <<r, v[2], v[3], c>>
        /\ v[2] \in Nat /\ v[2] < tile[2] /\ v[3] \in Nat /\ v[3] < tile[1]
    BY <1>1, VisitsAre
  <1>3. v[3] % G(1) = 0 /\ v[2] % G(2) = 0
    BY <1>1 DEF Placed, Starts, Spacing
  <1>4. \A i \in Axis : Fills(num(i), G(i), tile[i])
    BY DEF GridInv
  <1> HIDE DEF G, num
  <1>5. 1 \in Axis /\ 2 \in Axis
    BY DEF Axis
  <1>6. /\ v[3] \div G(1) \in Nat /\ v[3] = G(1) * (v[3] \div G(1))
        /\ v[2] \div G(2) \in Nat /\ v[2] = G(2) * (v[2] \div G(2))
    BY <1>2, <1>3, <1>4, <1>5, Divided DEF Fills
  <1>7. Column(cs, v) = v[3] \div G(1) /\ Row(cs, v) = v[2] \div G(2)
    BY <1>1 DEF Column, Row, G
  <1>8. Column(cs, v) < num(1) /\ Row(cs, v) < num(2) /\ num(1) \in Nat /\ num(2) \in Nat
    BY <1>2, <1>4, <1>5, <1>6, <1>7 DEF Fills
  <1>9. /\ v[3] = G(1) * Column(cs, v) /\ v[2] = G(2) * Row(cs, v)
        /\ Column(cs, v) \in Nat /\ Row(cs, v) \in Nat
    BY <1>6, <1>7
  <1>10. Column(cs, v) \in 0 .. num(1) - 1 /\ Row(cs, v) \in 0 .. num(2) - 1
    <2> DEFINE a == Column(cs, v)
               b == Row(cs, v)
    <2> HIDE DEF a, b
    <2>1. a \in Nat /\ b \in Nat /\ a < num(1) /\ b < num(2) /\ num(1) \in Nat /\ num(2) \in Nat
      BY <1>8, <1>9 DEF a, b
    <2> QED  BY <2>1 DEF a, b
  <1> QED  BY <1>1, <1>2, <1>9, <1>10 DEF G, num

\* The distances of a resolution's precincts are multiples of the loops' steps.
Stepped(cs, c, r) ==
    \A i \in Axis :
        Spacing(cs, c, r, i) % (Pitch(cs, i) * IF cs[c].res[r].dir = BOTH /\ i = 2 THEN 2 ELSE 1) = 0

\* Then every corner is a place.
LEMMA AllPlaced ==
    ASSUME NEW cs, NEW tile, GridInv(cs, tile), NEW c \in DOMAIN cs, NEW r \in Resolutions,
           Stepped(cs, c, r),
           NEW a \in 0 .. cs[c].res[r].num[1] - 1, NEW b \in 0 .. cs[c].res[r].num[2] - 1
    PROVE  LET v == <<r, Spacing(cs, c, r, 2) * b, Spacing(cs, c, r, 1) * a, c>>
           IN  v \in PlacedIn(cs, tile, c, r) /\ Column(cs, v) = a /\ Row(cs, v) = b
  <1> DEFINE G1 == Spacing(cs, c, r, 1)
             G2 == Spacing(cs, c, r, 2)
             x == G1 * a
             y == G2 * b
             v == <<r, y, x, c>>
             P1 == Pitch(cs, 1)
             P2 == Pitch(cs, 2)
             m == P2 * IF cs[c].res[r].dir = BOTH THEN 2 ELSE 1
  <1>1. 1 \in Axis /\ 2 \in Axis
    BY DEF Axis
  <1>2. /\ Fills(cs[c].res[r].num[1], G1, tile[1]) /\ Fills(cs[c].res[r].num[2], G2, tile[2])
        /\ P1 \in Nat \ {0} /\ P2 \in Nat \ {0} /\ tile[1] \in Nat /\ tile[2] \in Nat
    BY <1>1 DEF GridInv
  <1>3. G1 % (P1 * 1) = 0 /\ G2 % m = 0
    BY <1>1 DEF Stepped
  <1> HIDE DEF G1, G2, P1, P2
  <1>4. a \in Nat /\ a < cs[c].res[r].num[1] /\ b \in Nat /\ b < cs[c].res[r].num[2]
    BY <1>2 DEF Fills
  <1>5. G1 \in Nat \ {0} /\ G2 \in Nat \ {0} /\ x < tile[1] /\ y < tile[2]
    BY <1>2, <1>4 DEF Fills
  <1>6. x \in Nat /\ y \in Nat
    BY <1>4, <1>5
  <1>7. x % G1 = 0 /\ x \div G1 = a /\ y % G2 = 0 /\ y \div G2 = b
    <2>1. a \in Int /\ b \in Int
      BY <1>4
    <2>2. (G1 * a) % G1 = 0 /\ (G1 * a) \div G1 = a
      BY <1>5, <2>1, Multiples
    <2>3. (G2 * b) % G2 = 0 /\ (G2 * b) \div G2 = b
      BY <1>5, <2>1, Multiples
    <2> QED  BY <2>2, <2>3
  <1> HIDE DEF x, y
  <1>8. x % P1 = 0
    BY <1>2, <1>3, <1>5, <1>6, <1>7, MultipleOf, P1 * 1 = P1
  <1>9. y % P2 = 0 /\ (cs[c].res[r].dir = BOTH => y % (2 * P2) = 0)
    <2>1. CASE cs[c].res[r].dir = BOTH
      <3>1. m = 2 * P2 /\ 2 * P2 \in Nat \ {0}
        BY <1>2, <2>1
      <3>2. y % (2 * P2) = 0
        BY <1>3, <1>5, <1>6, <1>7, <3>1, MultipleOf
      <3>3. (2 * P2) % P2 = 0
        <4>1. (P2 * 2) % P2 = 0
          BY <1>2, Multiples, 2 \in Int
        <4> QED  BY <1>2, <4>1, 2 * P2 = P2 * 2
      <3> QED  BY <1>2, <1>6, <3>1, <3>2, <3>3, MultipleOf
    <2>2. CASE cs[c].res[r].dir # BOTH
      <3>1. m = P2
        BY <1>2, <2>2
      <3> QED  BY <1>2, <1>3, <1>5, <1>6, <1>7, <2>2, <3>1, MultipleOf
    <2> QED  BY <2>1, <2>2
  <1>10. x \in Steps(cs, tile, 1) /\ y \in Steps(cs, tile, 2)
    BY <1>2, <1>5, <1>6, <1>8, <1>9 DEF Steps, P1, P2
  <1>11. v \in Visits(cs, tile)
    BY <1>10 DEF Visits
  <1>12. Starts(cs, v)
    BY <1>7, <1>9 DEF Starts, Spacing, G1, G2, P2
  <1>13. v \in PlacedIn(cs, tile, c, r)
    BY <1>11, <1>12 DEF PlacedIn, PlacedOf, Placed
  <1>14. Column(cs, v) = a /\ Row(cs, v) = b
    BY <1>7 DEF Column, Row, G1, G2
  <1> QED  BY <1>13, <1>14 DEF x, y, G1, G2

\* A place's number among its resolution's corners, row by row.
Number(cs, v) == Row(cs, v) * cs[v[4]].res[v[1]].num[1] + Column(cs, v)

\* The numbers of a resolution's places: none twice, and in the loops' order.
LEMMA PlacesNumbered ==
    ASSUME NEW cs, NEW tile, GridInv(cs, tile), NEW c \in DOMAIN cs, NEW r \in Resolutions, NEW order
    PROVE  /\ Area(cs[c].res[r]) \in Nat
           /\ \A v \in PlacedIn(cs, tile, c, r) : Number(cs, v) \in 0 .. Area(cs[c].res[r]) - 1
           /\ \A u, v \in PlacedIn(cs, tile, c, r) :
                 /\ Number(cs, u) = Number(cs, v) => u = v
                 /\ <<u, v>> \in LoopOrder(cs, tile, order) <=> Number(cs, u) < Number(cs, v)
  <1> DEFINE G1 == Spacing(cs, c, r, 1)
             G2 == Spacing(cs, c, r, 2)
             nx == cs[c].res[r].num[1]
             ny == cs[c].res[r].num[2]
             I == PlacedIn(cs, tile, c, r)
  <1>1. nx \in Nat /\ ny \in Nat /\ G1 \in Nat \ {0} /\ G2 \in Nat \ {0}
    BY DEF GridInv, Fills, Axis
  <1>2. ASSUME NEW v \in I
        PROVE  /\ v[4] = c /\ v[1] = r /\ v[2] = G2 * Row(cs, v) /\ v[3] = G1 * Column(cs, v)
               /\ v = <<r, G2 * Row(cs, v), G1 * Column(cs, v), c>>
               /\ Column(cs, v) \in 0 .. nx - 1 /\ Row(cs, v) \in 0 .. ny - 1
               /\ Column(cs, v) \in Int /\ Row(cs, v) \in Nat
               /\ Number(cs, v) = Row(cs, v) * nx + Column(cs, v)
    <2>1. /\ v[4] = c /\ v[1] = r
          /\ v = <<r, G2 * Row(cs, v), G1 * Column(cs, v), c>>
          /\ Column(cs, v) \in 0 .. nx - 1 /\ Row(cs, v) \in 0 .. ny - 1
      BY PlacedAre
    <2>2. Number(cs, v) = Row(cs, v) * nx + Column(cs, v)
      BY <2>1 DEF Number
    <2> HIDE DEF I, G1, G2, nx, ny
    <2>3. v[2] = G2 * Row(cs, v) /\ v[3] = G1 * Column(cs, v)
      BY <2>1
    <2> QED  BY <2>1, <2>2, <2>3, <1>1
  <1>3. Area(cs[c].res[r]) = ny * nx /\ ny * nx \in Nat
    BY <1>1 DEF Area
  <1>4. c \in Nat /\ r \in Nat /\ ~(c < c) /\ ~(r < r)
    <2>1. c \in 1 .. Len(cs) /\ Len(cs) \in Nat /\ r \in 0 .. NL /\ NL \in Nat
      BY ProfileAssumption DEF GridInv, Resolutions
    <2> QED  BY <2>1
  <1>5. \A u, v \in I : <<u, v>> \in LoopOrder(cs, tile, order)
                          <=> v[2] > u[2] \/ (u[2] = v[2] /\ u[3] < v[3])
    <2> TAKE u, v \in I
    <2>1. u \in Placed(cs, tile) /\ v \in Placed(cs, tile)
      BY DEF PlacedIn, PlacedOf
    <2>2. <<u, v>> \in LoopOrder(cs, tile, order) <=> Earlier(order, u, v)
      BY <2>1 DEF LoopOrder
    <2>3. u[1] = r /\ v[1] = r /\ u[4] = c /\ v[4] = c
      BY <1>2
    <2>4. u[2] \in Nat /\ u[3] \in Nat /\ v[2] \in Nat /\ v[3] \in Nat
      BY <2>1, VisitsAre
    <2> HIDE DEF I
    <2> QED  BY <1>4, <2>2, <2>3, <2>4, EarlierIs DEF LexLess
  <1> HIDE DEF G1, G2, nx, ny, I
  <1>6. ASSUME NEW v \in I PROVE Number(cs, v) \in 0 .. ny * nx - 1
    <2> DEFINE a == Column(cs, v)
               b == Row(cs, v)
    <2>1. a \in 0 .. nx - 1 /\ b \in Nat /\ b < ny /\ Number(cs, v) = b * nx + a
      BY <1>1, <1>2
    <2> HIDE DEF a, b
    <2>2. b * nx + a \in Nat /\ b * nx + a < ny * nx
      BY <1>1, <2>1, NumbersAre
    <2> QED  BY <1>3, <2>1, <2>2
  <1>7. ASSUME NEW u \in I, NEW v \in I
        PROVE  /\ Number(cs, u) = Number(cs, v) => u = v
               /\ <<u, v>> \in LoopOrder(cs, tile, order) <=> Number(cs, u) < Number(cs, v)
    <2> DEFINE a == Column(cs, u)
               b == Row(cs, u)
               d == Column(cs, v)
               e == Row(cs, v)
    <2>1. /\ a \in 0 .. nx - 1 /\ d \in 0 .. nx - 1 /\ a \in Int /\ d \in Int
          /\ b \in Nat /\ e \in Nat
          /\ Number(cs, u) = b * nx + a /\ Number(cs, v) = e * nx + d
          /\ u = <<r, G2 * b, G1 * a, c>> /\ v = <<r, G2 * e, G1 * d, c>>
          /\ u[2] = G2 * b /\ u[3] = G1 * a /\ v[2] = G2 * e /\ v[3] = G1 * d
      BY <1>2
    <2> HIDE DEF a, b, d, e
    <2>2. /\ b * nx + a = e * nx + d => b = e /\ a = d
          /\ b * nx + a < e * nx + d <=> b < e \/ (b = e /\ a < d)
      <3>1. \A c0 \in 0 .. nx - 1, d0 \in Nat :
               /\ b * nx + a = d0 * nx + c0 => b = d0 /\ a = c0
               /\ b * nx + a < d0 * nx + c0 <=> b < d0 \/ (b = d0 /\ a < c0)
        BY ZenonT(40), <1>1, <2>1, NumbersAre
      <3> QED  BY <2>1, <3>1
    <2>3. Number(cs, u) = Number(cs, v) => u = v
      BY <2>1, <2>2
    <2>4. /\ G2 * b < G2 * e <=> b < e
          /\ G2 * b = G2 * e <=> b = e
          /\ G1 * a < G1 * d <=> a < d
      BY <1>1, <2>1, MulLess
    <2>5. v[2] > u[2] <=> b < e
      BY <2>1, <2>4
    <2>6. (u[2] = v[2] <=> b = e) /\ (u[3] < v[3] <=> a < d)
      BY <2>1, <2>4
    <2>7. <<u, v>> \in LoopOrder(cs, tile, order) <=> b < e \/ (b = e /\ a < d)
      BY <1>5, <2>5, <2>6
    <2> QED  BY <2>1, <2>2, <2>3, <2>7
  <1> QED  BY <1>3, <1>6, <1>7 DEF I

\* Where all corners are places, the count of those before a place is its number.
LEMMA PlaceIs ==
    ASSUME NEW cs, NEW tile, GridInv(cs, tile), NEW c \in DOMAIN cs, NEW r \in Resolutions, NEW order,
           Stepped(cs, c, r)
    PROVE  /\ IsFiniteSet(PlacedIn(cs, tile, c, r))
           /\ Cardinality(PlacedIn(cs, tile, c, r)) = Area(cs[c].res[r])
           /\ \A v \in PlacedIn(cs, tile, c, r) : PlaceRank(cs, tile, order, v) = Number(cs, v)
  <1> DEFINE nx == cs[c].res[r].num[1]
             ny == cs[c].res[r].num[2]
             n == Area(cs[c].res[r])
             I == PlacedIn(cs, tile, c, r)
             R == LoopOrder(cs, tile, order)
             e == [v \in I |-> Number(cs, v)]
  <1>1. /\ n \in Nat
        /\ \A v \in I : Number(cs, v) \in 0 .. n - 1
        /\ \A u, v \in I : /\ Number(cs, u) = Number(cs, v) => u = v
                           /\ <<u, v>> \in R <=> Number(cs, u) < Number(cs, v)
    BY PlacesNumbered
  <1>2. nx \in Nat /\ ny \in Nat /\ n = nx * ny
    BY DEF GridInv, Fills, Axis, Area
  <1>3. ASSUME NEW k \in 0 .. n - 1 PROVE \E v \in I : e[v] = k
    <2> DEFINE a == k % nx
               b == k \div nx
    <2>1. nx > 0 /\ k \in Nat /\ k < nx * ny
      <3>1. nx = 0 => n = 0
        BY <1>2
      <3> HIDE DEF n, nx
      <3> QED  BY <1>1, <1>2, <3>1
    <2>2. a \in 0 .. nx - 1 /\ b \in Int /\ k = nx * b + a
      <3> HIDE DEF nx
      <3> QED  BY <1>2, <2>1, DivMod
    <2>3. b \in 0 .. ny - 1
      <3> HIDE DEF a, b, nx, ny
      <3>1. ~(b <= -1)
        <4>1. b <= -1 => nx * b <= nx * (-1)
          BY <1>2, <2>2, MulMono
        <4>2. nx * (-1) = -nx /\ nx * b \in Int
          BY <1>2, <2>2
        <4> QED  BY <1>2, <2>1, <2>2, <4>1, <4>2
      <3>2. ~(ny <= b)
        <4>1. ny <= b => nx * ny <= nx * b
          BY <1>2, <2>2, MulMono
        <4>2. nx * ny \in Int /\ nx * b \in Int
          BY <1>2, <2>2
        <4> QED  BY <1>2, <2>1, <2>2, <4>1, <4>2
      <3> QED  BY <1>2, <2>2, <3>1, <3>2
    <2> DEFINE v == <<r, Spacing(cs, c, r, 2) * b, Spacing(cs, c, r, 1) * a, c>>
    <2> HIDE DEF a, b
    <2>4. v \in I /\ Column(cs, v) = a /\ Row(cs, v) = b
      BY <2>2, <2>3, AllPlaced
    <2>5. v[4] = c /\ v[1] = r
      OBVIOUS
    <2> HIDE DEF v
    <2>6. Number(cs, v) = b * nx + a
      BY <2>4, <2>5 DEF Number
    <2>7. b * nx = nx * b
      BY <1>2, <2>3
    <2>8. e[v] = k
      <3> HIDE DEF I
      <3> QED  BY <2>2, <2>4, <2>6, <2>7
    <2> QED  BY <2>4, <2>8
  <1> HIDE DEF n, I, R
  <1>4. e \in [I -> 0 .. n - 1]
    BY <1>1
  <1>5. /\ \A u, v \in I : e[u] = e[v] => u = v
        /\ \A u, v \in I : <<u, v>> \in R <=> e[u] < e[v]
    BY <1>1
  <1>6. \A v \in I : e[v] = Number(cs, v)
    OBVIOUS
  <1> HIDE DEF e
  <1>7. /\ IsFiniteSet(I) /\ Cardinality(I) = n
        /\ \A v \in I : Rank(R, I, v) = e[v]
    BY <1>1, <1>3, <1>4, <1>5, Numbered
  <1>8. \A v \in I : PlaceRank(cs, tile, order, v) = Rank(R, I, v)
    BY PlacedAre DEF PlaceRank, I, R
  <1> QED  BY <1>6, <1>7, <1>8 DEF I, n

\* Without that condition too, no resolution has more places than it counts.
LEMMA PlaceBounded ==
    ASSUME NEW cs, NEW tile, GridInv(cs, tile), NEW c \in DOMAIN cs, NEW r \in Resolutions, NEW order,
           NEW v \in PlacedIn(cs, tile, c, r)
    PROVE  PlaceRank(cs, tile, order, v) \in 0 .. Area(cs[c].res[r]) - 1
  <1> DEFINE n == Area(cs[c].res[r])
             I == PlacedIn(cs, tile, c, r)
             R == LoopOrder(cs, tile, order)
             T == 0 .. n - 1
             e == [u \in I |-> Number(cs, u)]
  <1>1. /\ n \in Nat
        /\ \A u \in I : Number(cs, u) \in 0 .. n - 1
        /\ \A u, w \in I : Number(cs, u) = Number(cs, w) => u = w
    <2>1. /\ n \in Nat
          /\ \A u \in I : Number(cs, u) \in 0 .. n - 1
          /\ \A u, w \in I : /\ Number(cs, u) = Number(cs, w) => u = w
                             /\ <<u, w>> \in R <=> Number(cs, u) < Number(cs, w)
      BY PlacesNumbered
    <2> HIDE DEF n, I, R
    <2> QED  BY <2>1
  <1>2. I \subseteq Placed(cs, tile)
    BY DEF PlacedIn, PlacedOf
  <1>3. IsFiniteSet(I) /\ StrictOrder(R, I)
    BY <1>2, EarlierOrders
  <1> HIDE DEF n, I, R
  <1>4. IsFiniteSet(T) /\ Cardinality(T) = n
    <2>1. 0 \in Int /\ n - 1 \in Int
      BY <1>1
    <2>2. IsFiniteSet(0 .. n - 1) /\ Cardinality(0 .. n - 1) = IF 0 > n - 1 THEN 0 ELSE n - 1 - 0 + 1
      BY <2>1, FS_Interval
    <2> QED  BY <1>1, <2>2
  <1>5. e \in Injection(I, T)
    <2>1. e \in [I -> T] /\ \A u, w \in I : e[u] = e[w] => u = w
      BY <1>1
    <2> HIDE DEF e, T
    <2> QED  BY <2>1 DEF Injection, IsInjective
  <1>6. Cardinality(I) <= n
    <2> HIDE DEF e, T
    <2> QED  BY <1>4, <1>5, FS_Injection
  <1>7. Cardinality(I) \in Nat /\ Rank(R, I, v) \in 0 .. Cardinality(I) - 1
    BY <1>3, Ranked DEF I
  <1>8. PlaceRank(cs, tile, order, v) = Rank(R, I, v)
    BY PlacedAre DEF PlaceRank, I, R
  <1>9. Rank(R, I, v) \in 0 .. n - 1
    BY <1>1, <1>6, <1>7
  <1> QED  BY <1>8, <1>9 DEF n

--------------------------------------------------------------------------------
(* The entries of the table. *)
\* The position an entry's count stands for.
PositionOf(p, n) == <<p % n, p \div n>>

\* What an entry holds of its place.
LEMMA EntriesAre ==
    ASSUME NEW cs, NEW tile, GridInv(cs, tile), NEW order, NEW t, NEW K,
           TableFrom(t, K, cs, tile, order), NEW k \in 1 .. Len(t)
    PROVE  LET v == K[k]
               res == cs[v[4]].res[v[1]]
               p == PlaceRank(cs, tile, order, v)
           IN  /\ v \in Placed(cs, tile) /\ v[4] \in DOMAIN cs /\ v[1] \in Resolutions
               /\ v \in PlacedIn(cs, tile, v[4], v[1]) /\ v \in PlacedOf(cs, tile, v[4])
               /\ t[k].comp = v[4] - 1 /\ t[k].r = v[1] /\ t[k].at = <<v[3], v[2]>>
               /\ t[k].xy = PositionOf(p, res.num[1])
               /\ t[k].PID = v[4] - 1 + CountRank(cs, tile, order, v) * Len(cs)
               /\ t[k].bands = Len(res.bands)
  <1> DEFINE v == K[k]
             p == PlaceRank(cs, tile, order, v)
             q == CountRank(cs, tile, order, v)
  <1>1. v \in Placed(cs, tile) /\ t[k] = Entry(cs, v, p, q)
    BY DEF TableFrom
  <1>2. v[4] \in DOMAIN cs /\ v[1] \in Resolutions
    BY <1>1, VisitsAre
  <1> HIDE DEF v, p, q
  <1>3. v \in PlacedIn(cs, tile, v[4], v[1]) /\ v \in PlacedOf(cs, tile, v[4])
    BY <1>1 DEF PlacedIn, PlacedOf
  <1>4. /\ cs[v[4]].index = v[4] - 1
        /\ NumSubband([j \in Resolutions |-> cs[v[4]].res[j].dir], v[1])
             = Len(cs[v[4]].res[v[1]].bands)
    BY <1>2 DEF GridInv
  <1>5. /\ t[k].comp = v[4] - 1 /\ t[k].r = v[1] /\ t[k].at = <<v[3], v[2]>>
        /\ t[k].xy = PositionOf(p, cs[v[4]].res[v[1]].num[1])
        /\ t[k].PID = v[4] - 1 + q * Len(cs)
        /\ t[k].bands = Len(cs[v[4]].res[v[1]].bands)
    <2> DEFINE e == Entry(cs, v, p, q)
    <2>1. e.comp = cs[v[4]].index /\ e.r = v[1] /\ e.at = <<v[3], v[2]>>
      BY DEF Entry
    <2>2. e.xy = PositionOf(p, cs[v[4]].res[v[1]].num[1])
      BY DEF Entry, PositionOf
    <2>3. e.PID = cs[v[4]].index + q * Len(cs)
      BY DEF Entry
    <2>4. e.bands = NumSubband([j \in Resolutions |-> cs[v[4]].res[j].dir], v[1])
      BY DEF Entry
    <2> HIDE DEF e
    <2>5. t[k] = e
      BY <1>1 DEF e
    <2> QED  BY <1>4, <2>1, <2>2, <2>3, <2>4, <2>5
  <1> QED  BY <1>1, <1>2, <1>3, <1>5 DEF v, p, q

\* As many entries as places, for the entries of some of the places.
LEMMA EntriesCounted ==
    ASSUME NEW t, NEW K, NEW cs, NEW tile, NEW order, TableFrom(t, K, cs, tile, order),
           NEW T, T \subseteq Placed(cs, tile), IsFiniteSet(T),
           NEW mine, mine = {k \in 1 .. Len(t) : K[k] \in T}
    PROVE  Cardinality(mine) = Cardinality(T)
  <1> DEFINE f == [k \in mine |-> K[k]]
  <1>1. f \in [mine -> T]
    OBVIOUS
  <1>2. \A j, k \in mine : f[j] = f[k] => j = k
    BY DEF TableFrom
  <1>3. \A v \in T : \E k \in mine : f[k] = v
    BY DEF TableFrom
  <1> HIDE DEF f
  <1>4. f \in Injection(mine, T) /\ f \in Surjection(mine, T)
    BY <1>1, <1>2, <1>3 DEF Injection, IsInjective, Surjection
  <1> QED  BY <1>4, FS_Injection

\* The entries of a resolution are its precincts, each once, in its place.
LEMMA ResolutionComplete ==
    ASSUME NEW cs, NEW tile, GridInv(cs, tile), NEW order, NEW t, NEW K,
           TableFrom(t, K, cs, tile, order),
           NEW c \in DOMAIN cs, NEW r \in Resolutions, Stepped(cs, c, r),
           NEW mine, mine = {k \in DOMAIN t : t[k].comp = c - 1 /\ t[k].r = r}
    PROVE  /\ {t[k].xy : k \in mine}
                = (0 .. cs[c].res[r].num[1] - 1) \X (0 .. cs[c].res[r].num[2] - 1)
           /\ Cardinality(mine) = Area(cs[c].res[r])
           /\ \A k \in mine, i \in Axis :
                 t[k].at[i] = t[k].xy[i] * cs[c].R[i] * pow2[cs[c].res[r].shift[i]]
  <1> DEFINE I == PlacedIn(cs, tile, c, r)
             nx == cs[c].res[r].num[1]
             ny == cs[c].res[r].num[2]
             G1 == Spacing(cs, c, r, 1)
             G2 == Spacing(cs, c, r, 2)
  <1>1. /\ c \in 1 .. Len(cs) /\ Len(cs) \in Nat /\ nx \in Nat /\ ny \in Nat
        /\ G1 \in Nat \ {0} /\ G2 \in Nat \ {0}
    BY DEF GridInv, Fills, Axis
  <1>2. DOMAIN t = 1 .. Len(t) /\ \A k \in 1 .. Len(t) : K[k] \in Placed(cs, tile)
    BY DEF TableFrom
  <1>3. \A k \in 1 .. Len(t) : t[k].comp = K[k][4] - 1 /\ t[k].r = K[k][1] /\ K[k][4] \in 1 .. Len(cs)
    <2> TAKE k \in 1 .. Len(t)
    <2>1. t[k].comp = K[k][4] - 1 /\ t[k].r = K[k][1] /\ K[k][4] \in DOMAIN cs
      BY EntriesAre
    <2> QED  BY <2>1 DEF GridInv
  <1>3a. ASSUME NEW k \in 1 .. Len(t)
         PROVE  /\ t[k].xy = PositionOf(PlaceRank(cs, tile, order, K[k]), cs[K[k][4]].res[K[k][1]].num[1])
                /\ t[k].at = <<K[k][3], K[k][2]>>
    <2> HIDE DEF I, nx, ny, G1, G2
    <2>1. t[k].xy = PositionOf(PlaceRank(cs, tile, order, K[k]), cs[K[k][4]].res[K[k][1]].num[1])
      BY SMTT(30), EntriesAre
    <2>2. t[k].at = <<K[k][3], K[k][2]>>
      BY EntriesAre
    <2> QED  BY <2>1, <2>2
  <1>4. mine = {k \in 1 .. Len(t) : K[k] \in I}
    <2>1. \A k \in 1 .. Len(t) : (t[k].comp = c - 1 /\ t[k].r = r) <=> (K[k][4] = c /\ K[k][1] = r)
      <3> TAKE k \in 1 .. Len(t)
      <3>1. t[k].comp = K[k][4] - 1 /\ t[k].r = K[k][1]
        BY <1>3
      <3>2. K[k][4] \in 1 .. Len(cs)
        BY <1>3
      <3> DEFINE d == K[k][4]
      <3>3. d \in Int /\ c \in Int
        BY <1>1, <3>2
      <3> HIDE DEF d
      <3>4. d - 1 = c - 1 <=> d = c
        BY <3>3
      <3> QED  BY <3>1, <3>4 DEF d
    <2>2. \A k \in 1 .. Len(t) : K[k] \in I <=> K[k][4] = c /\ K[k][1] = r
      BY <1>2 DEF PlacedIn, PlacedOf
    <2> HIDE DEF I
    <2> QED  BY <1>2, <2>1, <2>2
  <1>5. /\ IsFiniteSet(I) /\ Cardinality(I) = Area(cs[c].res[r])
        /\ \A v \in I : PlaceRank(cs, tile, order, v) = Number(cs, v)
    BY PlaceIs
  <1>6. I \subseteq Placed(cs, tile)
    BY DEF PlacedIn, PlacedOf
  <1>7. ASSUME NEW v \in I
        PROVE  /\ v[4] = c /\ v[1] = r /\ v[3] = G1 * Column(cs, v) /\ v[2] = G2 * Row(cs, v)
               /\ Column(cs, v) \in 0 .. nx - 1 /\ Row(cs, v) \in 0 .. ny - 1
               /\ Number(cs, v) % nx = Column(cs, v) /\ Number(cs, v) \div nx = Row(cs, v)
    <2>1. /\ v[4] = c /\ v[1] = r
          /\ v = <<r, G2 * Row(cs, v), G1 * Column(cs, v), c>>
          /\ Column(cs, v) \in 0 .. nx - 1 /\ Row(cs, v) \in 0 .. ny - 1
      BY PlacedAre
    <2> HIDE DEF I, G1, G2
    <2>2. Number(cs, v) = Row(cs, v) * nx + Column(cs, v)
      BY <2>1 DEF Number
    <2>3. v[3] = G1 * Column(cs, v) /\ v[2] = G2 * Row(cs, v)
      BY <2>1
    <2> DEFINE a == Column(cs, v)
               b == Row(cs, v)
    <2>4. a \in 0 .. nx - 1 /\ b \in Nat
      BY <1>1, <2>1
    <2> HIDE DEF a, b, nx
    <2>5. (b * nx + a) % nx = a /\ (b * nx + a) \div nx = b
      BY <1>1, <2>4, NumbersAre
    <2> QED  BY <2>1, <2>2, <2>3, <2>5 DEF a, b, nx
  <1>8. ASSUME NEW k \in mine
        PROVE  /\ K[k] \in I
               /\ t[k].xy = <<Column(cs, K[k]), Row(cs, K[k])>>
               /\ t[k].at = <<K[k][3], K[k][2]>>
    <2>1. k \in 1 .. Len(t) /\ K[k] \in I
      BY <1>4
    <2> DEFINE v == K[k]
               p == PlaceRank(cs, tile, order, v)
    <2>2. /\ t[k].xy = PositionOf(p, cs[v[4]].res[v[1]].num[1])
          /\ t[k].at = <<v[3], v[2]>>
      BY <2>1, <1>3a
    <2> HIDE DEF I, v, p
    <2>3. v \in I
      BY <2>1 DEF v
    <2>4. p = Number(cs, v) /\ v[4] = c /\ v[1] = r
      BY <1>5, <1>7, <2>3 DEF p
    <2>5. t[k].xy = <<Column(cs, v), Row(cs, v)>>
      BY <1>7, <2>2, <2>3, <2>4 DEF PositionOf
    <2> QED  BY <2>2, <2>3, <2>5 DEF v
  <1>9. Cardinality(mine) = Area(cs[c].res[r])
    <2> HIDE DEF I
    <2> QED  BY <1>4, <1>5, <1>6, EntriesCounted
  <1>10. \A k \in mine : t[k].xy \in (0 .. nx - 1) \X (0 .. ny - 1)
    <2> TAKE k \in mine
    <2> DEFINE v == K[k]
    <2>1. v \in I /\ t[k].xy = <<Column(cs, v), Row(cs, v)>>
      BY <1>8
    <2> HIDE DEF v, I
    <2>2. Column(cs, v) \in 0 .. nx - 1 /\ Row(cs, v) \in 0 .. ny - 1
      BY <1>7, <2>1
    <2> HIDE DEF nx, ny
    <2> QED  BY <2>1, <2>2
  <1>11. ASSUME NEW a \in 0 .. nx - 1, NEW b \in 0 .. ny - 1
         PROVE  \E k \in mine : t[k].xy = <<a, b>>
    <2> DEFINE v == <<r, G2 * b, G1 * a, c>>
    <2>1. v \in I /\ Column(cs, v) = a /\ Row(cs, v) = b
      BY AllPlaced
    <2> HIDE DEF v, I
    <2>2. v \in Placed(cs, tile)
      BY <1>6, <2>1
    <2>3. PICK k \in 1 .. Len(t) : K[k] = v
      BY <2>2 DEF TableFrom
    <2>4. k \in mine
      BY <1>4, <2>1, <2>3
    <2> QED  BY <1>8, <2>1, <2>3, <2>4
  <1>12. {t[k].xy : k \in mine} = (0 .. nx - 1) \X (0 .. ny - 1)
    <2> DEFINE A == 0 .. nx - 1
               B == 0 .. ny - 1
    <2>1. \A k \in mine : t[k].xy \in A \X B
      BY <1>10
    <2>2. \A a \in A, b \in B : \E k \in mine : t[k].xy = <<a, b>>
      BY <1>11
    <2> HIDE DEF A, B
    <2>3. \A p \in A \X B : \E k \in mine : t[k].xy = p
      BY <2>2
    <2>4. {t[k].xy : k \in mine} = A \X B
      BY <2>1, <2>3
    <2> QED  BY <2>4 DEF A, B
  <1>13. ASSUME NEW k \in mine, NEW i \in Axis
         PROVE  t[k].at[i] = t[k].xy[i] * cs[c].R[i] * pow2[cs[c].res[r].shift[i]]
    <2> DEFINE v == K[k]
    <2>1. /\ v \in I /\ t[k].xy = <<Column(cs, v), Row(cs, v)>> /\ t[k].at = <<v[3], v[2]>>
      BY <1>8
    <2> HIDE DEF v, I
    <2>2. /\ v[3] = G1 * Column(cs, v) /\ v[2] = G2 * Row(cs, v)
          /\ Column(cs, v) \in Nat /\ Row(cs, v) \in Nat
      <3>1. /\ v[3] = G1 * Column(cs, v) /\ v[2] = G2 * Row(cs, v)
            /\ Column(cs, v) \in 0 .. nx - 1 /\ Row(cs, v) \in 0 .. ny - 1
        BY <1>7, <2>1
      <3>2. \A n \in Nat : \A m : m \in 0 .. n - 1 => m \in Nat
        OBVIOUS
      <3> HIDE DEF nx, ny
      <3>3. Column(cs, v) \in Nat
        BY <1>1, <3>1, <3>2
      <3>4. Row(cs, v) \in Nat
        BY <1>1, <3>1, <3>2
      <3> QED  BY <3>1, <3>3, <3>4
    <2> DEFINE x == t[k].xy[i]
               g == Spacing(cs, c, r, i)
    <2>3. t[k].at[i] = g * x /\ x \in Nat /\ g \in Nat
      BY <1>1, <2>1, <2>2 DEF Axis
    <2> HIDE DEF x
    <2> DEFINE s == cs[c].R[i]
               q == pow2[cs[c].res[r].shift[i]]
    <2>4. g = s * q
      BY DEF Spacing
    <2>5. (s * q) * x = x * s * q
      <3>1. s \in Int /\ q \in Int
        <4>1. cs[c].res[r].shift[i] \in Nat /\ s \in Nat
          BY DEF GridInv
        <4> QED  BY <4>1, Pow2Is
      <3> HIDE DEF s, q
      <3> QED  BY <2>3, <3>1
    <2> HIDE DEF g, s, q
    <2>6. t[k].at[i] = x * s * q
      BY <2>3, <2>4, <2>5
    <2> QED  BY <2>6 DEF x, s, q
  <1> QED  BY <1>9, <1>12, <1>13

\* The PIDs of a component's entries: c, c + n, c + 2 n, ...
NumberedFrom(t, own, c, n) ==
    {t[k].PID : k \in own} = {c - 1 + m * n : m \in 0 .. Cardinality(own) - 1}

LEMMA ComponentNumbered ==
    ASSUME NEW cs, NEW tile, GridInv(cs, tile), NEW order, NEW t, NEW K,
           TableFrom(t, K, cs, tile, order), NEW c \in DOMAIN cs,
           NEW own, own = {k \in DOMAIN t : t[k].comp = c - 1}
    PROVE  NumberedFrom(t, own, c, Len(cs))
  <1> DEFINE O == PlacedOf(cs, tile, c)
             R == LoopOrder(cs, tile, order)
             n == Cardinality(own)
             P(m) == c - 1 + m * Len(cs)
  <1>1. DOMAIN t = 1 .. Len(t) /\ \A k \in 1 .. Len(t) : K[k] \in Placed(cs, tile)
    BY DEF TableFrom
  <1>2. ASSUME NEW k \in 1 .. Len(t)
        PROVE  /\ t[k].comp = K[k][4] - 1 /\ K[k][4] \in Nat
               /\ t[k].PID = K[k][4] - 1 + CountRank(cs, tile, order, K[k]) * Len(cs)
    <2> HIDE DEF O, R, n
    <2>1. t[k].comp = K[k][4] - 1 /\ K[k][4] \in DOMAIN cs
      BY EntriesAre
    <2>2. t[k].PID = K[k][4] - 1 + CountRank(cs, tile, order, K[k]) * Len(cs)
      BY EntriesAre
    <2> QED  BY <2>1, <2>2 DEF GridInv
  <1>3. c \in Nat
    BY DEF GridInv
  <1>4. own = {k \in 1 .. Len(t) : K[k] \in O}
    <2>1. \A k \in 1 .. Len(t) : t[k].comp = c - 1 <=> K[k][4] = c
      BY <1>2, <1>3
    <2>2. \A k \in 1 .. Len(t) : K[k] \in O <=> K[k][4] = c
      BY <1>1 DEF PlacedOf
    <2> HIDE DEF O
    <2> QED  BY <1>1, <2>1, <2>2
  <1>5. O \subseteq Placed(cs, tile)
    BY DEF PlacedOf
  <1>6. IsFiniteSet(O) /\ StrictOrder(R, O)
    BY <1>5, EarlierOrders
  <1> HIDE DEF R
  <1>7. n = Cardinality(O)
    <2> HIDE DEF O
    <2> QED  BY <1>4, <1>5, <1>6, EntriesCounted
  <1>8. /\ \A v \in O : Rank(R, O, v) \in 0 .. n - 1
        /\ \A m \in 0 .. n - 1 : \E v \in O : Rank(R, O, v) = m
    <2> HIDE DEF O, n
    <2>1. /\ \A v \in O : Rank(R, O, v) \in 0 .. Cardinality(O) - 1
          /\ \A m \in 0 .. Cardinality(O) - 1 : \E v \in O : Rank(R, O, v) = m
      BY <1>6, Ranked
    <2> QED  BY <1>7, <2>1
  <1>9. \A v \in O : CountRank(cs, tile, order, v) = Rank(R, O, v) /\ v[4] = c
    BY DEF CountRank, PlacedOf, R
  <1> HIDE DEF O, n
  <1>10. \A k \in own : /\ K[k] \in O /\ k \in 1 .. Len(t)
                        /\ t[k].PID = P(Rank(R, O, K[k]))
    BY <1>2, <1>4, <1>9
  <1>11. \A m \in 0 .. n - 1 : \E k \in own : Rank(R, O, K[k]) = m
    <2> TAKE m \in 0 .. n - 1
    <2>1. PICK v \in O : Rank(R, O, v) = m
      BY <1>8
    <2>2. PICK k \in 1 .. Len(t) : K[k] = v
      BY <1>5, <2>1 DEF TableFrom
    <2> QED  BY <1>4, <2>1, <2>2
  <1>12. {t[k].PID : k \in own} = {P(m) : m \in 0 .. n - 1}
    <2> HIDE DEF P
    <2> QED  BY <1>8, <1>10, <1>11
  <1> QED  BY <1>12 DEF n, NumberedFrom

(* The inductive invariant: the table is the one build_table makes.         *)
TableInv ==
    comps # <<>> => table = BuildTable(comps, TileSize(mhd.siz), mhd.cod.order)

\* No step but InitTile sets components or table.
LEMMA TableStep == HeaderInv /\ TableInv /\ [Next]_vars => TableInv'
  <1> SUFFICES ASSUME HeaderInv, TableInv, [Next]_vars PROVE TableInv'
    OBVIOUS
  <1>1. CASE ReadMarker
    <2>1. comps = <<>> /\ comps' = comps
      BY <1>1 DEF ReadMarker, HeaderInv, tileVars
    <2> QED  BY <2>1 DEF TableInv
  <1>2. CASE InitTile
    <2>1. comps = <<>> /\ mhd' = mhd
      BY <1>2 DEF InitTile, HeaderInv
    <2>2. \/ comps' = comps
          \/ /\ comps' = Components(mhd)
             /\ table' = BuildTable(Components(mhd), TileSize(mhd.siz), mhd.cod.order)
      BY <1>2 DEF InitTile, tileVars
    <2> QED  BY <2>1, <2>2 DEF TableInv
  <1>3. CASE LoadBody \/ ReadPrecinct \/ AtResync \/ EndOfTable \/ UNCHANGED vars
    <2>1. UNCHANGED <<mhd, comps, table>>
      BY <1>3 DEF LoadBody, ReadPrecinct, AtResync, EndOfTable, vars, headerVars, tileVars
    <2> QED  BY <2>1 DEF TableInv
  <1> QED  BY <1>1, <1>2, <1>3 DEF Next

\* With the lemmas above the invariant says what TableComplete says.
LEMMA TableFollows == HeaderInv /\ TableInv => TableComplete
  <1> SUFFICES ASSUME HeaderInv, TableInv, PitchDivides
               PROVE
        /\ \A c \in DOMAIN comps, r \in Resolutions :
              LET res == comps[c].res[r]
                  mine == {k \in DOMAIN table : table[k].comp = c - 1 /\ table[k].r = r}
              IN  /\ {table[k].xy : k \in mine}
                       = (0 .. res.num[1] - 1) \X (0 .. res.num[2] - 1)
                  /\ Cardinality(mine) = Area(res)
                  /\ \A k \in mine, i \in Axis :
                        table[k].at[i] = table[k].xy[i] * comps[c].R[i] * pow2[res.shift[i]]
        /\ \A c \in DOMAIN comps :
              LET n == Cardinality({k \in DOMAIN table : table[k].comp = c - 1})
              IN  {table[k].PID : k \in {j \in DOMAIN table : table[j].comp = c - 1}}
                    = {c - 1 + m * Len(comps) : m \in 0 .. n - 1}
    BY DEF TableComplete
  <1> DEFINE tile == TileSize(mhd.siz)
             order == mhd.cod.order
  <1>1. CASE comps = <<>>
    BY <1>1
  <1>2. CASE comps # <<>>
    <2>1. GridInv(comps, tile)
      <3>1. comps = Components(mhd) /\ HasRead(NumSegments) /\ TileOutcome(mhd) = "ok"
        BY <1>2 DEF HeaderInv
      <3> QED  BY <3>1, GridIs
    <2>2. table = BuildTable(comps, tile, order)
      BY <1>2 DEF TableInv
    <2> HIDE DEF tile, order
    <2>3. PICK K : TableFrom(table, K, comps, tile, order)
      BY <2>1, <2>2, TableIs
    <2>4. ASSUME NEW c \in DOMAIN comps, NEW r \in Resolutions,
                 NEW mine, mine = {k \in DOMAIN table : table[k].comp = c - 1 /\ table[k].r = r}
          PROVE  /\ {table[k].xy : k \in mine}
                       = (0 .. comps[c].res[r].num[1] - 1) \X (0 .. comps[c].res[r].num[2] - 1)
                 /\ Cardinality(mine) = Area(comps[c].res[r])
                 /\ \A k \in mine, i \in Axis :
                        table[k].at[i] = table[k].xy[i] * comps[c].R[i]
                                            * pow2[comps[c].res[r].shift[i]]
      <3>1. Stepped(comps, c, r)
        BY DEF PitchDivides, Stepped, Spacing
      <3> QED  BY <2>1, <2>3, <2>4, <3>1, ResolutionComplete
    <2>5. ASSUME NEW c \in DOMAIN comps,
                 NEW own, own = {k \in DOMAIN table : table[k].comp = c - 1}
          PROVE  {table[k].PID : k \in own}
                    = {c - 1 + m * Len(comps) : m \in 0 .. Cardinality(own) - 1}
      <3>1. NumberedFrom(table, own, c, Len(comps))
        BY <2>1, <2>3, <2>5, ComponentNumbered
      <3> QED  BY <3>1 DEF NumberedFrom
    <2>6. ASSUME NEW c \in DOMAIN comps
          PROVE  LET n == Cardinality({k \in DOMAIN table : table[k].comp = c - 1})
                 IN  {table[k].PID : k \in {j \in DOMAIN table : table[j].comp = c - 1}}
                       = {c - 1 + m * Len(comps) : m \in 0 .. n - 1}
      BY <2>5
    <2>7. ASSUME NEW c \in DOMAIN comps, NEW r \in Resolutions
          PROVE  LET res == comps[c].res[r]
                     mine == {k \in DOMAIN table : table[k].comp = c - 1 /\ table[k].r = r}
                 IN  /\ {table[k].xy : k \in mine}
                          = (0 .. res.num[1] - 1) \X (0 .. res.num[2] - 1)
                     /\ Cardinality(mine) = Area(res)
                     /\ \A k \in mine, i \in Axis :
                           table[k].at[i] = table[k].xy[i] * comps[c].R[i] * pow2[res.shift[i]]
      BY ZenonT(40), <2>4
    <2> QED  BY <2>6, <2>7
  <1> QED  BY <1>1, <1>2

(* Every precinct of every resolution is in the table exactly once, at the  *)
(* place its position in the image gives, and the precincts of a component  *)
(* have the PIDs c, c + Csiz, c + 2 Csiz, ... (construct_precinct): for     *)
(* every image size, subsampling, decomposition and precinct size whose     *)
(* precincts start on the grid the loops of build_table step by, and in     *)
(* both progression orders.                                                 *)
THEOREM TableCompleteCorrect == Spec => []TableComplete
  <1>1. Init => HeaderInv /\ TableInv
    BY InitHeader DEF Init, TableInv
  <1>2. HeaderInv /\ TableInv /\ [Next]_vars => HeaderInv' /\ TableInv'
    BY HeaderStep, TableStep
  <1>3. HeaderInv /\ TableInv => TableComplete
    BY TableFollows
  <1> QED  BY <1>1, <1>2, <1>3, PTL DEF Spec

--------------------------------------------------------------------------------
(* What the resolutions count, and what the table takes. *)

\* The sum add_total_precinct and add_total_pband make.
LEMMA TotalIs ==
    ASSUME NEW w, Len(w) \in Nat, \A k \in 1 .. Len(w) : w[k] \in Nat
    PROVE  Total(w) = SumTo(w, Len(w))
  <1> DEFINE n == Len(w)
             f == CHOOSE f : f = [k \in 0 .. n |-> IF k = 0 THEN 0 ELSE f[k - 1] + w[k]]
             S == {k \in 0 .. n : f[k] = SumTo(w, k)}
  <1>1. Total(w) = f[n]
    BY DEF Total
  <1>2. /\ SumTo(w, 0) = 0
        /\ \A k \in 0 .. n - 1 : SumTo(w, k + 1) = SumTo(w, k) + w[k + 1]
    BY SumsAre
  <1> HIDE DEF n
  <1>3. n \in Nat
    BY DEF n
  <1>4. f = [k \in 0 .. n |-> IF k = 0 THEN 0 ELSE f[k - 1] + w[k]]
    <2> DEFINE g == [k \in 0 .. n |-> SumTo(w, k)]
    <2>1. \A k \in 0 .. n : g[k] = IF k = 0 THEN 0 ELSE g[k - 1] + w[k]
      <3> TAKE k \in 0 .. n
      <3>1. CASE k # 0
        <4>1. k - 1 \in 0 .. n - 1 /\ k - 1 \in 0 .. n /\ (k - 1) + 1 = k
          BY <1>3, <3>1
        <4>2. SumTo(w, k) = SumTo(w, k - 1) + w[k]
          BY <1>2, <4>1
        <4> QED  BY <3>1, <4>1, <4>2
      <3>2. CASE k = 0
        BY <1>2, <3>2
      <3> QED  BY <3>1, <3>2
    <2>2. g = [k \in 0 .. n |-> IF k = 0 THEN 0 ELSE g[k - 1] + w[k]]
      BY <2>1
    <2> HIDE DEF g
    <2> QED  BY <2>2
  <1> HIDE DEF f
  <1>5. 0 \in S
    <2>1. 0 \in 0 .. n
      BY <1>3
    <2>2. f[0] = 0
      BY <1>4, <2>1
    <2> QED  BY <1>2, <2>1, <2>2
  <1>6. ASSUME NEW k \in 0 .. n - 1, k \in S PROVE k + 1 \in S
    <2>1. k + 1 \in 0 .. n /\ k + 1 # 0 /\ (k + 1) - 1 = k
      BY <1>3
    <2>2. f[k + 1] = f[k] + w[k + 1]
      BY <1>4, <2>1
    <2> QED  BY <1>2, <1>6, <2>1, <2>2
  <1> HIDE DEF S
  <1>7. n \in S
    <2>1. \A k \in 0 .. n : k \in S
      BY <1>3, <1>5, <1>6, UpTo
    <2> QED  BY <1>3, <2>1
  <1> QED  BY <1>1, <1>7 DEF S, n

\* A resolution's precincts and subbands.
LEMMA AreaIs ==
    ASSUME NEW cs, NEW tile, GridInv(cs, tile), NEW c \in DOMAIN cs, NEW r \in Resolutions
    PROVE  Area(cs[c].res[r]) \in Nat /\ Len(cs[c].res[r].bands) \in 1 .. 3
  <1>1. cs[c].res[r].num[1] \in Nat /\ cs[c].res[r].num[2] \in Nat
    BY DEF GridInv, Fills, Axis
  <1>2. Len(cs[c].res[r].bands) \in 1 .. 3
    BY DEF GridInv
  <1> QED  BY <1>1, <1>2 DEF Area

\* The place of a resolution in the order of construction.
BuiltAt(c, r) == (c - 1) * (NL + 1) + r + 1

\* Each resolution is built once, and counts its precincts and their subbands.
LEMMA BuiltIs ==
    ASSUME NEW cs, NEW tile, GridInv(cs, tile), NEW n, n = Len(cs) * (NL + 1)
    PROVE  /\ n \in Nat
           /\ Len(Precincts(cs)) = n /\ Len(Pbands(cs)) = n
           /\ \A k \in 1 .. n : /\ Area(Built(cs)[k]) \in Nat
                                /\ Len(Built(cs)[k].bands) \in 1 .. 3
                                /\ Precincts(cs)[k] = Area(Built(cs)[k])
                                /\ Pbands(cs)[k] = Area(Built(cs)[k]) * Len(Built(cs)[k].bands)
           /\ \A c \in DOMAIN cs, r \in Resolutions :
                 /\ BuiltAt(c, r) \in 1 .. n
                 /\ Built(cs)[BuiltAt(c, r)] = cs[c].res[r]
                 /\ \A d \in DOMAIN cs, s \in Resolutions :
                       BuiltAt(c, r) = BuiltAt(d, s) => c = d /\ r = s
  <1> DEFINE m == NL + 1
             L == Len(cs)
  <1>1. m \in Nat \ {0} /\ Resolutions = 0 .. m - 1 /\ L \in Nat /\ DOMAIN cs = 1 .. L
    <2>1. L \in Nat /\ DOMAIN cs = 1 .. L
      BY DEF GridInv
    <2>2. NL \in Nat
      BY ProfileAssumption
    <2> HIDE DEF L
    <2>3. m \in Nat \ {0} /\ Resolutions = 0 .. m - 1
      BY <2>2 DEF Resolutions
    <2> QED  BY <2>1, <2>3
  <1>2. \A c \in DOMAIN cs, r \in Resolutions :
              Area(cs[c].res[r]) \in Nat /\ Len(cs[c].res[r].bands) \in 1 .. 3
    BY AreaIs
  <1>3. Built(cs) = [k \in 1 .. n |-> cs[(k - 1) \div m + 1].res[(k - 1) % m]]
    BY DEF Built
  <1>5. \A c, r : BuiltAt(c, r) = (c - 1) * m + r + 1
    BY DEF BuiltAt
  <1>6. n = L * m
    OBVIOUS
  <1> HIDE DEF m, L
  <1>7. n \in Nat
    BY <1>1, <1>6
  <1>8. ASSUME NEW c \in DOMAIN cs, NEW r \in Resolutions
        PROVE  /\ BuiltAt(c, r) \in 1 .. n /\ Built(cs)[BuiltAt(c, r)] = cs[c].res[r]
               /\ \A d \in DOMAIN cs, s \in Resolutions :
                     BuiltAt(c, r) = BuiltAt(d, s) => c = d /\ r = s
    <2> DEFINE b == c - 1
    <2>1. b \in Nat /\ b < L /\ r \in 0 .. m - 1
      BY <1>1
    <2>2. BuiltAt(c, r) = b * m + r + 1
      BY <1>5
    <2> HIDE DEF b
    <2>3. /\ (b * m + r) % m = r /\ (b * m + r) \div m = b /\ b * m + r \in Nat
          /\ \A e \in Nat : b < e => b * m + r < e * m
          /\ \A s \in 0 .. m - 1, d \in Nat : b * m + r = d * m + s => b = d /\ r = s
      <3>1. /\ (b * m + r) % m = r /\ (b * m + r) \div m = b /\ b * m + r \in Nat
            /\ \A e \in Nat : b < e => b * m + r < e * m
        BY <1>1, <2>1, NumbersAre
      <3>2. ASSUME NEW s \in 0 .. m - 1, NEW d \in Nat, b * m + r = d * m + s
            PROVE  b = d /\ r = s
        <4>1. (d * m + s) % m = s /\ (d * m + s) \div m = d
          BY <1>1, NumbersAre
        <4> QED  BY <3>1, <3>2, <4>1
      <3> QED  BY <3>1, <3>2
    <2>4. b * m + r < n
      BY <1>1, <1>6, <2>1, <2>3
    <2>5. BuiltAt(c, r) \in 1 .. n /\ BuiltAt(c, r) - 1 = b * m + r
      <3> DEFINE z == b * m + r
      <3> HIDE DEF z
      <3>1. z \in Nat /\ z < n /\ BuiltAt(c, r) = z + 1
        BY <2>2, <2>3, <2>4 DEF z
      <3>2. BuiltAt(c, r) \in 1 .. n /\ BuiltAt(c, r) - 1 = z
        BY <1>7, <3>1
      <3> QED  BY <3>2 DEF z
    <2>6. Built(cs)[BuiltAt(c, r)] = cs[b + 1].res[r]
      BY <1>3, <2>3, <2>5
    <2>7. b + 1 = c
      BY <1>1 DEF b
    <2>8. ASSUME NEW d \in DOMAIN cs, NEW s \in Resolutions, BuiltAt(c, r) = BuiltAt(d, s)
          PROVE  c = d /\ r = s
      <3> DEFINE e == d - 1
      <3>1. e \in Nat /\ s \in 0 .. m - 1 /\ BuiltAt(d, s) = e * m + s + 1 /\ d = e + 1
        BY <1>1, <1>5
      <3> HIDE DEF e
      <3>2. e * m + s \in Nat
        BY <1>1, <3>1
      <3>3. b * m + r = e * m + s
        <4> DEFINE x == b * m + r
                   y == e * m + s
        <4>1. x \in Nat /\ y \in Nat /\ x + 1 = y + 1
          BY <2>2, <2>3, <2>8, <3>1, <3>2
        <4> HIDE DEF x, y
        <4>2. x = y
          BY <4>1
        <4> QED  BY <4>2 DEF x, y
      <3>4. b = e /\ r = s
        BY <2>3, <3>1, <3>3
      <3> QED  BY <2>7, <3>1, <3>4
    <2> QED  BY <2>5, <2>6, <2>7, <2>8
  <1>9. ASSUME NEW k \in 1 .. n
        PROVE  Area(Built(cs)[k]) \in Nat /\ Len(Built(cs)[k].bands) \in 1 .. 3
    <2> DEFINE j == k - 1
               q == j \div m
               r == j % m
    <2>1. j \in Nat /\ j < L * m /\ Built(cs)[k] = cs[q + 1].res[r]
      BY <1>3, <1>6, <1>7
    <2> HIDE DEF j
    <2>2. q \in Int /\ r \in 0 .. m - 1 /\ j = m * q + r
      BY <1>1, <2>1, DivMod
    <2> HIDE DEF q, r
    <2>3. q >= 0
      <3> SUFFICES ASSUME q <= -1 PROVE FALSE
        BY <2>2
      <3>1. m * q <= m * (-1) /\ m * (-1) = -m /\ m * q \in Int
        BY <1>1, <2>2, MulMono
      <3> DEFINE z == m * q
      <3> HIDE DEF z
      <3>2. z \in Int /\ z <= -m /\ j = z + r
        BY <2>2, <3>1 DEF z
      <3> QED  BY <1>1, <2>1, <2>2, <3>2
    <2>4. q < L
      <3> SUFFICES ASSUME L <= q PROVE FALSE
        BY <1>1, <2>2
      <3>1. m * L <= m * q /\ m * L = L * m /\ m * q \in Int /\ m * L \in Int
        BY <1>1, <2>2, MulMono
      <3> DEFINE z == m * q
                 y == L * m
      <3> HIDE DEF z, y
      <3>2. z \in Int /\ y \in Int /\ y <= z /\ j = z + r /\ j < y
        BY <2>1, <2>2, <3>1 DEF z, y
      <3> QED  BY <1>1, <2>1, <2>2, <3>2
    <2>5. q + 1 \in DOMAIN cs /\ r \in Resolutions
      BY <1>1, <2>2, <2>3, <2>4
    <2> QED  BY <1>2, <2>1, <2>5
  <1>10. DOMAIN Built(cs) = 1 .. n
    BY <1>3
  <1>11. /\ Len(Precincts(cs)) = n /\ Len(Pbands(cs)) = n
         /\ \A k \in 1 .. n : /\ Precincts(cs)[k] = Area(Built(cs)[k])
                              /\ Pbands(cs)[k] = Area(Built(cs)[k]) * Len(Built(cs)[k].bands)
    BY <1>7, <1>10 DEF Precincts, Pbands
  <1> QED  BY <1>7, <1>8, <1>9, <1>11

\* What each entry allocates of the second arena.
BandsOf(t) == [k \in 1 .. Len(t) |-> t[k].bands]

\* The table takes no more entries and no more subbands than the resolutions
\* counted.
LEMMA TableReserved ==
    ASSUME NEW cs, NEW tile, GridInv(cs, tile), NEW order, NEW t, NEW K,
           TableFrom(t, K, cs, tile, order)
    PROVE  /\ Len(t) \in Nat /\ \A k \in 1 .. Len(t) : BandsOf(t)[k] \in 1 .. 3
           /\ Len(t) <= TotalPrecinct(cs)
           /\ SumTo(BandsOf(t), Len(t)) <= TotalPband(cs)
           /\ TotalPrecinct(cs) \in Nat /\ TotalPband(cs) \in Nat
  <1> DEFINE n == Len(cs) * (NL + 1)
             m == Len(t)
             w == BandsOf(t)
             B == Built(cs)
             a == [k \in 1 .. n |-> Area(B[k])]
             c == [k \in 1 .. n |-> Len(B[k].bands)]
             at0 == [k \in 1 .. m |-> BuiltAt(K[k][4], K[k][1])]
             num == [k \in 1 .. m |-> PlaceRank(cs, tile, order, K[k])]
             one == [k \in 1 .. n |-> 1]
             ones == [k \in 1 .. m |-> 1]
  <1>1. m \in Nat
    BY DEF TableFrom
  <1>2. /\ n \in Nat
        /\ Len(Precincts(cs)) = n /\ Len(Pbands(cs)) = n
        /\ \A k \in 1 .. n : /\ Area(B[k]) \in Nat
                             /\ Len(B[k].bands) \in 1 .. 3
                             /\ Precincts(cs)[k] = Area(B[k])
                             /\ Pbands(cs)[k] = Area(B[k]) * Len(B[k].bands)
    BY BuiltIs
  <1>3. \A d \in DOMAIN cs, r \in Resolutions :
                 /\ BuiltAt(d, r) \in 1 .. n
                 /\ B[BuiltAt(d, r)] = cs[d].res[r]
                 /\ \A e \in DOMAIN cs, s \in Resolutions :
                       BuiltAt(d, r) = BuiltAt(e, s) => d = e /\ r = s
    <2> TAKE d \in DOMAIN cs, r \in Resolutions
    <2>1. /\ BuiltAt(d, r) \in 1 .. n
          /\ B[BuiltAt(d, r)] = cs[d].res[r]
      BY BuiltIs
    <2>2. ASSUME NEW e \in DOMAIN cs, NEW s \in Resolutions, BuiltAt(d, r) = BuiltAt(e, s)
          PROVE  d = e /\ r = s
      <3> HIDE DEF n, m, B, a, c, at0, num, one, ones
      <3> QED  BY <2>2, BuiltIs
    <2> QED  BY <2>1, <2>2
  <1>4. ASSUME NEW k \in 1 .. m
        PROVE  /\ K[k][4] \in DOMAIN cs /\ K[k][1] \in Resolutions
               /\ K[k] \in PlacedIn(cs, tile, K[k][4], K[k][1])
               /\ t[k].bands = Len(cs[K[k][4]].res[K[k][1]].bands)
    <2> HIDE DEF n, B, a, c, at0, num, one, ones
    <2>1. K[k][4] \in DOMAIN cs /\ K[k][1] \in Resolutions
      BY EntriesAre
    <2>2. K[k] \in PlacedIn(cs, tile, K[k][4], K[k][1])
      BY EntriesAre
    <2>3. t[k].bands = Len(cs[K[k][4]].res[K[k][1]].bands)
      <3> HIDE DEF m, w
      <3>1. k \in 1 .. Len(t)
        BY DEF m
      <3> QED  BY <3>1, EntriesAre
    <2> QED  BY <2>1, <2>2, <2>3
  <1> HIDE DEF n, m, B
  <1>5. /\ a \in [1 .. n -> Nat] /\ c \in [1 .. n -> Nat] /\ one \in [1 .. n -> Nat]
        /\ ones \in [1 .. m -> Nat]
    BY <1>2
  <1>6. at0 \in [1 .. m -> 1 .. n]
    BY <1>3, <1>4
  <1>7. ASSUME NEW k \in 1 .. m
        PROVE  /\ num[k] \in Nat /\ num[k] < a[at0[k]]
               /\ t[k].bands = c[at0[k]] /\ t[k].bands \in 1 .. 3
    <2> DEFINE v == K[k]
               res == cs[v[4]].res[v[1]]
    <2>1. PlaceRank(cs, tile, order, v) \in 0 .. Area(res) - 1
      BY <1>4, PlaceBounded
    <2>2. Area(res) \in Nat /\ Len(res.bands) \in 1 .. 3
      BY <1>4, AreaIs
    <2>3. B[at0[k]] = res /\ at0[k] \in 1 .. n
      BY <1>3, <1>4
    <2>4. a[at0[k]] = Area(res) /\ c[at0[k]] = Len(res.bands)
      BY <2>3
    <2>5. num[k] = PlaceRank(cs, tile, order, v)
      OBVIOUS
    <2>6. t[k].bands = Len(res.bands)
      BY <1>4
    <2> HIDE DEF a, c, at0, num, res
    <2> QED  BY <2>1, <2>2, <2>4, <2>5, <2>6
  <1>8. num \in [1 .. m -> Nat]
    BY <1>7
  <1>9. ASSUME NEW j \in 1 .. m, NEW k \in 1 .. m, at0[j] = at0[k], num[j] = num[k]
        PROVE  j = k
    <2> DEFINE u == K[j]
               v == K[k]
               d == v[4]
               r == v[1]
               I == PlacedIn(cs, tile, d, r)
               R == LoopOrder(cs, tile, order)
    <2>1. u[4] = d /\ u[1] = r
      <3>1. /\ u[4] \in DOMAIN cs /\ u[1] \in Resolutions /\ d \in DOMAIN cs /\ r \in Resolutions
            /\ BuiltAt(u[4], u[1]) = BuiltAt(d, r)
        BY <1>4, <1>9
      <3> QED  BY <1>3, <3>1
    <2>2. u \in I /\ v \in I
      BY <1>4, <2>1
    <2>3. Rank(R, I, u) = Rank(R, I, v)
      BY <1>9, <2>1 DEF PlaceRank
    <2>4. I \subseteq Placed(cs, tile)
      BY DEF PlacedIn, PlacedOf
    <2>5. IsFiniteSet(I) /\ StrictOrder(R, I)
      BY <2>4, EarlierOrders
    <2> HIDE DEF I, R, u, v
    <2>6. u = v
      BY <2>2, <2>3, <2>5, Ranked
    <2> QED  BY <2>6 DEF TableFrom, u, v, m
  <1> HIDE DEF a, c, at0, num
  <1>10. TotalPrecinct(cs) = SumTo(Precincts(cs), n) /\ TotalPband(cs) = SumTo(Pbands(cs), n)
    <2>1. \A k \in 1 .. n : Precincts(cs)[k] \in Nat
      BY <1>2
    <2>2. \A k \in 1 .. n : Pbands(cs)[k] \in Nat
      <3> TAKE k \in 1 .. n
      <3>1. Pbands(cs)[k] = Area(B[k]) * Len(B[k].bands) /\ Area(B[k]) \in Nat
            /\ Len(B[k].bands) \in Nat
        BY <1>2
      <3> QED  BY <3>1
    <2> QED  BY <1>2, <2>1, <2>2, TotalIs DEF TotalPrecinct, TotalPband
  <1>11. TotalPrecinct(cs) \in Nat /\ TotalPband(cs) \in Nat
    <2>1. \A k \in 1 .. n : Precincts(cs)[k] \in Nat
      BY <1>2
    <2>2. \A k \in 1 .. n : Pbands(cs)[k] \in Nat
      <3> TAKE k \in 1 .. n
      <3>1. Pbands(cs)[k] = Area(B[k]) * Len(B[k].bands) /\ Area(B[k]) \in Nat
            /\ Len(B[k].bands) \in Nat
        BY <1>2
      <3> QED  BY <3>1
    <2>3. n \in 0 .. n
      BY <1>2
    <2> QED  BY <1>2, <1>10, <2>1, <2>2, <2>3, SumsAre
  <1>12. m <= TotalPrecinct(cs)
    <2>1. \A k \in 1 .. n : Precincts(cs)[k] = a[k] * one[k]
      BY <1>2, <1>5 DEF a
    <2>2. \A k \in 1 .. m : num[k] < a[at0[k]] /\ ones[k] <= one[at0[k]]
      BY <1>6, <1>7
    <2>3. SumTo(ones, m) = m
      BY <1>1, SumOfOnes
    <2> HIDE DEF one, ones
    <2>4. SumTo(ones, m) <= SumTo(Precincts(cs), n)
      <3> DEFINE x == Precincts(cs)
      <3>1. \A k \in 1 .. n : x[k] = a[k] * one[k]
        BY <2>1
      <3>2. n \in Nat /\ a \in [1 .. n -> Nat] /\ one \in [1 .. n -> Nat]
        BY <1>2, <1>5
      <3>3. ones \in [1 .. m -> Nat]
        BY <1>5
      <3> HIDE DEF x
      <3>4. \A j, k \in 1 .. m : at0[j] = at0[k] /\ num[j] = num[k] => j = k
        BY <1>9
      <3>5. SumTo(ones, m) <= SumTo(x, n)
        BY ZenonT(40), <1>1, <1>6, <1>8, <2>2, <3>1, <3>2, <3>3, <3>4, WeightsFit
      <3> QED  BY <3>5 DEF x
    <2> QED  BY <1>10, <2>3, <2>4
  <1>13. SumTo(w, m) <= TotalPband(cs)
    <2>1. \A k \in 1 .. n : Pbands(cs)[k] = a[k] * c[k]
      BY <1>2 DEF a, c
    <2>2. w \in [1 .. m -> Nat]
      BY <1>7 DEF m, BandsOf
    <2>3. \A k \in 1 .. m : num[k] < a[at0[k]] /\ w[k] <= c[at0[k]]
      BY <1>5, <1>6, <1>7 DEF m, BandsOf
    <2> HIDE DEF w
    <2>4. SumTo(w, m) <= SumTo(Pbands(cs), n)
      <3> DEFINE x == Pbands(cs)
      <3>1. \A k \in 1 .. n : x[k] = a[k] * c[k]
        BY <2>1
      <3>2. n \in Nat
        BY <1>2
      <3> HIDE DEF x
      <3>4. a \in [1 .. n -> Nat] /\ c \in [1 .. n -> Nat]
        BY <1>5
      <3>5. \A j, k \in 1 .. m : at0[j] = at0[k] /\ num[j] = num[k] => j = k
        BY <1>9
      <3>3. SumTo(w, m) <= SumTo(x, n)
        BY <1>1, <1>6, <1>8, <2>2, <2>3, <3>1, <3>2, <3>4, <3>5, WeightsFit
      <3> QED  BY <3>3 DEF x
    <2> QED  BY <1>10, <2>4
  <1>14. \A k \in 1 .. m : w[k] \in 1 .. 3
    BY <1>7 DEF m, BandsOf
  <1> QED  BY <1>1, <1>11, <1>12, <1>13, <1>14 DEF m

--------------------------------------------------------------------------------
(* The allocations. *)

\* An arena with the rest it has, and how it is after k allocations.
Arena(p, l) == [pointer |-> p, length |-> l, ok |-> TRUE]
Given(p, l, w, k, size) == Arena(p + size * SumTo(w, k), l - size * SumTo(w, k))

\* f runs the allocations.
Allocates(f, p, l, w, n, size, align) ==
    f = [k \in 0 .. n |-> IF k = 0 THEN Arena(p, l)
                          ELSE do_allocate(f[k - 1], w[k] * size, align)]

\* One allocation takes its bytes and leaves the arena aligned.
LEMMA AllocatedOnce ==
    ASSUME NEW p \in Nat, NEW l \in Nat,
           NEW size \in Nat \ {0}, NEW align \in Nat \ {0}, size % align = 0, p % align = 0,
           NEW w, NEW n \in Nat, \A k \in 1 .. n : w[k] \in Nat,
           size * SumTo(w, n) <= l,
           NEW k \in 1 .. n
    PROVE  do_allocate(Given(p, l, w, k - 1, size), w[k] * size, align) = Given(p, l, w, k, size)
  <1> DEFINE x == SumTo(w, k - 1)
             y == SumTo(w, k)
             z == SumTo(w, n)
             b == w[k]
  <1>1. k - 1 \in 0 .. n - 1 /\ k - 1 \in 0 .. n /\ k \in 0 .. n /\ n \in 0 .. n /\ (k - 1) + 1 = k
    OBVIOUS
  <1>2. x \in Nat /\ y \in Nat /\ z \in Nat
    BY <1>1, SumsAre
  <1>3. y = x + b /\ b \in Nat
    BY <1>1, SumsAre
  <1>4. y <= z
    BY <1>1, SumsGrow
  <1> HIDE DEF x, y, z, b
  <1>5. /\ size * y = size * x + b * size /\ size * x \in Nat /\ b * size \in Nat /\ size * y \in Nat
        /\ size * z \in Nat
    BY <1>2, <1>3
  <1>6. size * y <= size * z
    BY <1>2, <1>4, MulMono
  <1>7. size * z <= l
    BY DEF z
  <1>8. (p + size * x) % align = 0
    <2> DEFINE q == size \div align
               r == p \div align
    <2>1. q \in Nat /\ r \in Nat /\ size = align * q /\ p = align * r
      BY Divided
    <2> HIDE DEF q, r
    <2>2. p + size * x = align * (r + q * x) /\ r + q * x \in Int
      <3>1. (align * q) * x = align * (q * x) /\ q * x \in Nat
        BY <1>2, <2>1
      <3> DEFINE u == q * x
      <3> HIDE DEF u
      <3>2. align * (r + u) = align * r + align * u /\ r + u \in Int
        BY <2>1, <3>1 DEF u
      <3> QED  BY <2>1, <3>1, <3>2 DEF u
    <2> QED  BY <2>2, Multiples
  <1> DEFINE X == size * x
             Y == size * y
             Z == size * z
             D == b * size
             A == Arena(p + X, l - X)
  <1>9. Given(p, l, w, k - 1, size) = A /\ Given(p, l, w, k, size) = Arena(p + Y, l - Y)
    BY DEF Given, x, y
  <1>10. X \in Nat /\ Y \in Nat /\ Z \in Nat /\ D \in Nat /\ Y = X + D /\ Y <= Z /\ Z <= l
    BY <1>5, <1>6, <1>7
  <1>11. (p + X) % align = 0
    BY <1>8
  <1> HIDE DEF X, Y, Z, D
  <1>12. A.ok /\ ~(D > A.length) /\ A.pointer % align = 0
    BY <1>10, <1>11 DEF Arena
  <1>13. do_allocate(A, D, align) = Arena((p + X) + D, (l - X) - D)
    BY <1>12 DEF do_allocate, Arena
  <1>14. (p + X) + D = p + Y /\ (l - X) - D = l - Y
    BY <1>10
  <1>15. w[k] * size = D
    BY DEF D, b
  <1> QED  BY <1>9, <1>13, <1>14, <1>15

\* They all succeed where the arena has what the weights add up to.
LEMMA AllFit ==
    ASSUME NEW p \in Nat, NEW l \in Nat,
           NEW size \in Nat \ {0}, NEW align \in Nat \ {0}, size % align = 0, p % align = 0,
           NEW w, NEW n \in Nat, \A k \in 1 .. n : w[k] \in Nat,
           size * SumTo(w, n) <= l
    PROVE  /\ \E f : Allocates(f, p, l, w, n, size, align)
           /\ \A f : Allocates(f, p, l, w, n, size, align) => f[n].ok
  <1> DEFINE g == [k \in 0 .. n |-> Given(p, l, w, k, size)]
  <1>1. Given(p, l, w, 0, size) = Arena(p, l)
    <2>1. SumTo(w, 0) = 0
      BY SumsAre
    <2>2. size * 0 = 0 /\ p + 0 = p /\ l - 0 = l
      OBVIOUS
    <2> QED  BY <2>1, <2>2 DEF Given
  <1>2. ASSUME NEW k \in 1 .. n
        PROVE  do_allocate(Given(p, l, w, k - 1, size), w[k] * size, align)
                 = Given(p, l, w, k, size)
    BY AllocatedOnce
  <1>3. Allocates(g, p, l, w, n, size, align)
    <2>1. \A k \in 0 .. n : g[k] = IF k = 0 THEN Arena(p, l)
                                   ELSE do_allocate(g[k - 1], w[k] * size, align)
      <3> TAKE k \in 0 .. n
      <3>1. CASE k # 0
        <4>1. k - 1 \in 0 .. n /\ k \in 1 .. n
          BY <3>1
        <4> QED  BY <1>2, <3>1, <4>1
      <3>2. CASE k = 0
        BY <1>1, <3>2
      <3> QED  BY <3>1, <3>2
    <2> QED  BY <2>1 DEF Allocates
  <1>4. ASSUME NEW f, Allocates(f, p, l, w, n, size, align) PROVE f[n].ok
    <2> DEFINE S == {k \in 0 .. n : f[k] = Given(p, l, w, k, size)}
    <2>1. 0 \in S
      <3>1. 0 \in 0 .. n
        OBVIOUS
      <3>2. f[0] = Arena(p, l)
        BY <1>4, <3>1 DEF Allocates
      <3> QED  BY <1>1, <3>1, <3>2
    <2>2. ASSUME NEW k \in 0 .. n - 1, k \in S PROVE k + 1 \in S
      <3>1. k + 1 \in 0 .. n /\ k + 1 # 0 /\ (k + 1) - 1 = k /\ k + 1 \in 1 .. n
        OBVIOUS
      <3>2. f[k + 1] = do_allocate(f[k], w[k + 1] * size, align)
        BY <1>4, <3>1 DEF Allocates
      <3>3. do_allocate(Given(p, l, w, k, size), w[k + 1] * size, align)
              = Given(p, l, w, k + 1, size)
        BY <1>2, <3>1
      <3> QED  BY <2>2, <3>1, <3>2, <3>3
    <2> HIDE DEF S
    <2>3. n \in S
      <3>1. \A k \in 0 .. n : k \in S
        BY <2>1, <2>2, UpTo
      <3> QED  BY <3>1, n \in 0 .. n
    <2>4. f[n] = Given(p, l, w, n, size)
      BY <2>3 DEF S
    <2> QED  BY <2>4 DEF Given, Arena
  <1> QED  BY <1>3, <1>4

\* So the table fits in arenas for the counted precincts and used subbands.
LEMMA Fits ==
    ASSUME NEW cs, NEW tile, GridInv(cs, tile), NEW order, NEW t, NEW K,
           TableFrom(t, K, cs, tile, order),
           NEW n1 \in Nat, NEW n2 \in Nat,
           TotalPrecinct(cs) <= n1, SumTo(BandsOf(t), Len(t)) <= n2
    PROVE  TableFits(Arenas(<<n1, n2>>, ObjectSize, ObjectAlign), cs, t, ObjectSize, ObjectAlign)
  <1> DEFINE s1 == ObjectSize[1]
             s2 == ObjectSize[2]
             al1 == ObjectAlign[1]
             al2 == ObjectAlign[2]
             w == BandsOf(t)
             m == Len(t)
             b1 == n1 * s1
             b2 == n2 * s2
             mem == Arenas(<<n1, n2>>, ObjectSize, ObjectAlign)
             a1 == Arena(0, b1)
             a2 == Arena(b1, b2)
             f == CHOOSE h : h = [k \in 0 .. m |-> IF k = 0 THEN a2
                                              ELSE do_allocate(h[k - 1], w[k] * s2, al2)]
             T == TotalPrecinct(cs)
  <1>1. /\ s1 \in Nat \ {0} /\ s2 \in Nat \ {0} /\ al1 \in Nat \ {0} /\ al2 \in Nat \ {0}
        /\ s1 % al2 = 0 /\ s2 % al2 = 0
    BY ObjectAssumption, AlignAssumption
  <1>2. /\ m \in Nat /\ \A k \in 1 .. m : w[k] \in 1 .. 3
        /\ T \in Nat
    BY TableReserved
  <1>3. mem.arena[1] = a1 /\ mem.arena[2] = a2
    <2> DEFINE counts == <<n1, n2>>
               bytes == [i \in DOMAIN counts |-> counts[i] * ObjectSize[i]]
    <2>1. DOMAIN counts = 1 .. 2 /\ counts[1] = n1 /\ counts[2] = n2
      OBVIOUS
    <2>2. mem.arena = [i \in DOMAIN counts |->
                         [pointer |-> IF i = 1 THEN 0 ELSE bytes[i - 1],
                          length |-> bytes[i], ok |-> TRUE]]
      BY DEF Arenas
    <2> HIDE DEF mem, counts
    <2>3. bytes[1] = b1 /\ bytes[2] = b2
      BY <2>1
    <2> HIDE DEF bytes, b1, b2
    <2>4. 1 \in DOMAIN counts /\ 2 \in DOMAIN counts /\ 2 - 1 = 1 /\ 2 # 1
      BY <2>1
    <2> QED  BY <2>2, <2>3, <2>4 DEF Arena
  <1> HIDE DEF mem, s1, s2, al1, al2, w, m, T
  <1>4. b1 \in Nat /\ b2 \in Nat
    BY <1>1
  <1>5. do_allocate(mem.arena[1], T * s1, al1).ok
    <2>1. s1 * T <= s1 * n1 /\ s1 * T = T * s1 /\ s1 * n1 = n1 * s1
      BY <1>1, <1>2, MulMono DEF T
    <2>2. T * s1 <= b1 /\ T * s1 \in Nat
      BY <1>1, <1>2, <2>1
    <2>3. 0 % al1 = 0
      <3>1. (al1 * 0) % al1 = 0 /\ al1 * 0 = 0
        BY <1>1, Multiples
      <3> QED  BY <3>1
    <2> DEFINE d == T * s1
    <2> HIDE DEF d, b1
    <2>4. a1.ok /\ ~(d > a1.length) /\ a1.pointer % al1 = 0
      BY <1>4, <2>2, <2>3 DEF d, Arena
    <2>5. do_allocate(a1, d, al1).ok
      BY <2>4 DEF do_allocate
    <2> QED  BY <1>3, <2>5 DEF d
  <1>6. f[m].ok
    <2>1. b1 % al2 = 0
      <3> DEFINE q == s1 \div al2
      <3>1. q \in Nat /\ s1 = al2 * q
        BY <1>1, Divided
      <3> HIDE DEF q
      <3>2. n1 * (al2 * q) = al2 * (n1 * q) /\ n1 * q \in Int
        BY <1>1, <3>1
      <3>3. b1 = al2 * (n1 * q)
        BY <3>1, <3>2
      <3> HIDE DEF b1
      <3> QED  BY <1>1, <3>2, <3>3, Multiples
    <2>2. \A k \in 1 .. m : w[k] \in Nat
      BY <1>2
    <2>3. s2 * SumTo(w, m) <= b2
      <3>1. SumTo(w, m) \in Nat
        BY <1>2, <2>2, SumsAre, m \in 0 .. m
      <3>2. SumTo(w, m) <= n2
        BY DEF w, m
      <3> DEFINE x == SumTo(w, m)
      <3> HIDE DEF x
      <3>3. s2 * x <= s2 * n2 /\ s2 * n2 = n2 * s2
        BY <1>1, <3>1, <3>2, MulMono DEF x
      <3> QED  BY <3>3 DEF x
    <2> HIDE DEF b1, b2
    <2>4. /\ \E h : Allocates(h, b1, b2, w, m, s2, al2)
          /\ \A h : Allocates(h, b1, b2, w, m, s2, al2) => h[m].ok
      <3>1. m \in Nat
        BY <1>2
      <3> QED  BY <1>1, <1>4, <2>1, <2>2, <2>3, <3>1, AllFit
    <2>5. f = CHOOSE h : Allocates(h, b1, b2, w, m, s2, al2)
      BY DEF Allocates
    <2> HIDE DEF f
    <2>6. Allocates(f, b1, b2, w, m, s2, al2)
      BY <2>4, <2>5
    <2> QED  BY <2>4, <2>6
  <1>7. /\ TableFits(mem, cs, t, ObjectSize, ObjectAlign)
              <=> do_allocate(mem.arena[1], T * s1, al1).ok /\ f[m].ok
    <2>1. \A k \in 1 .. Len(t) : BandsOf(t)[k] = t[k].bands
      BY DEF BandsOf
    <2> DEFINE h == CHOOSE h : h = [k \in 0 .. Len(t) |-> IF k = 0 THEN mem.arena[2]
                           ELSE do_allocate(h[k - 1], t[k].bands * ObjectSize[2], ObjectAlign[2])]
    <2>2. TableFits(mem, cs, t, ObjectSize, ObjectAlign)
              <=> do_allocate(mem.arena[1], T * s1, al1).ok /\ h[m].ok
      BY DEF TableFits, T, s1, al1, m
    <2>3. f = h
      <3>1. ASSUME NEW g
            PROVE  [k \in 0 .. m |-> IF k = 0 THEN a2 ELSE do_allocate(g[k - 1], w[k] * s2, al2)]
                 = [k \in 0 .. m |-> IF k = 0 THEN a2
                                     ELSE do_allocate(g[k - 1], t[k].bands * s2, al2)]
        <4>1. \A k \in 0 .. m : k # 0 => w[k] = t[k].bands
          BY <1>2, <2>1 DEF w, m
        <4> QED  BY <4>1
      <3>2. h = CHOOSE g : g = [k \in 0 .. m |-> IF k = 0 THEN a2
                                     ELSE do_allocate(g[k - 1], t[k].bands * s2, al2)]
        BY SMTT(30), <1>3 DEF m, s2, al2
      <3> QED  BY ZenonT(40), <3>1, <3>2
    <2> QED  BY <2>2, <2>3
  <1> QED  BY <1>5, <1>6, <1>7 DEF mem

\* So it does in those the program makes.
LEMMA MemoryFits ==
    ASSUME HeaderInv, HasRead(NumSegments), TileOutcome(mhd) = "ok",
           NEW cs, cs = Components(mhd), NEW order,
           stream.prealloc = 0 \/ TotalPrecinct(cs) <= stream.prealloc
    PROVE  TableFits(Memory(cs), cs, BuildTable(cs, TileSize(mhd.siz), order),
                     ObjectSize, ObjectAlign)
  <1> DEFINE tile == TileSize(mhd.siz)
             t == BuildTable(cs, tile, order)
             p == stream.prealloc
             w == BandsOf(t)
  <1>1. GridInv(cs, tile)
    BY GridIs
  <1>2. p \in Nat
    BY StreamsAssumption DEF HeaderInv
  <1> HIDE DEF tile, t, p, w
  <1>3. PICK K : TableFrom(t, K, cs, tile, order)
    BY <1>1, TableIs DEF t
  <1>4. /\ Len(t) \in Nat /\ \A k \in 1 .. Len(t) : w[k] \in 1 .. 3
        /\ Len(t) <= TotalPrecinct(cs) /\ SumTo(w, Len(t)) <= TotalPband(cs)
        /\ TotalPrecinct(cs) \in Nat /\ TotalPband(cs) \in Nat
    BY <1>1, <1>3, TableReserved DEF w
  <1>5. SumTo(w, Len(t)) <= 3 * Len(t)
    <2>1. \A k \in 1 .. Len(t) : w[k] \in 0 .. 3
      BY <1>4
    <2> QED  BY <1>4, <2>1, SumBounded
  <1>6. CASE p = 0
    <2>1. Memory(cs) = Arenas(<<TotalPrecinct(cs), TotalPband(cs)>>, ObjectSize, ObjectAlign)
      BY <1>6 DEF Memory, p
    <2>2. TableFits(Arenas(<<TotalPrecinct(cs), TotalPband(cs)>>, ObjectSize, ObjectAlign), cs, t,
                    ObjectSize, ObjectAlign)
      BY <1>1, <1>3, <1>4, Fits DEF w
    <2> QED  BY <2>1, <2>2 DEF t, tile
  <1>7. CASE p # 0
    <2>1. Memory(cs) = Arenas(<<p, 3 * p>>, ObjectSize, ObjectAlign)
      BY <1>7 DEF Memory, p
    <2>2. TotalPrecinct(cs) <= p
      BY <1>7 DEF p
    <2>3. 3 * p \in Nat /\ SumTo(w, Len(t)) <= 3 * p
      <3> DEFINE x == SumTo(w, Len(t))
      <3>1. x \in Nat
        <4>1. \A k \in 1 .. Len(t) : w[k] \in Nat
          BY <1>4
        <4> QED  BY <1>4, <4>1, SumsAre, Len(t) \in 0 .. Len(t)
      <3> HIDE DEF x
      <3> QED  BY <1>2, <1>4, <1>5, <2>2, <3>1 DEF x
    <2>4. TableFits(Arenas(<<p, 3 * p>>, ObjectSize, ObjectAlign), cs, t, ObjectSize, ObjectAlign)
      <3> DEFINE q == 3 * p
      <3> HIDE DEF q
      <3>1. TableFits(Arenas(<<p, q>>, ObjectSize, ObjectAlign), cs, t, ObjectSize, ObjectAlign)
        BY <1>1, <1>2, <1>3, <2>2, <2>3, Fits DEF w, q
      <3> QED  BY <3>1 DEF q
    <2> QED  BY <2>1, <2>4 DEF t, tile
  <1> QED  BY <1>6, <1>7

\* Only a marker or InitTile throws.
LEMMA ReservationStep ==
    HeaderInv /\ ReservationSuffices /\ [Next]_vars => ReservationSuffices'
  <1> SUFFICES ASSUME HeaderInv, ReservationSuffices, [Next]_vars, phase' = "thrown"
               PROVE  \/ Outcome(mhd', stream'.segs[read']) = "thrown"
                      \/ stream'.prealloc # 0
                           /\ stream'.prealloc < TotalPrecinct(Components(mhd'))
    BY DEF ReservationSuffices
  <1>1. CASE ReadMarker
    <2>1. /\ read' = read + 1 /\ stream' = stream
          /\ Outcome(mhd, stream.segs[read + 1]) = "thrown"
      BY <1>1 DEF ReadMarker
    <2>2. mhd' = mhd
      BY <1>1, <2>1 DEF ReadMarker
    <2> QED  BY <2>1, <2>2
  <1>2. CASE InitTile
    <2> DEFINE cs == Components(mhd)
               t == BuildTable(cs, TileSize(mhd.siz), mhd.cod.order)
    <2>1. /\ phase = "tile" /\ stream' = stream /\ mhd' = mhd
      BY <1>2 DEF InitTile
    <2>2. TileOutcome(mhd) = "ok"
      <3>1. TileOutcome(mhd) \in {"ok", "undefined", "abort"}
        BY TileOutcomes
      <3>2. TileOutcome(mhd) # "ok" => phase' = TileOutcome(mhd)
        BY <1>2 DEF InitTile
      <3> QED  BY <3>1, <3>2
    <2>3. ~TableFits(Memory(cs), cs, t, ObjectSize, ObjectAlign)
      BY <1>2, <2>2 DEF InitTile
    <2>4. HasRead(NumSegments)
      BY <2>1 DEF HeaderInv
    <2>5. ~(stream.prealloc = 0 \/ TotalPrecinct(cs) <= stream.prealloc)
      <3> HIDE DEF cs
      <3> SUFFICES ASSUME stream.prealloc = 0 \/ TotalPrecinct(cs) <= stream.prealloc
                   PROVE  TableFits(Memory(cs), cs, t, ObjectSize, ObjectAlign)
        BY <2>3
      <3> QED  BY <2>2, <2>4, MemoryFits DEF cs
    <2>6. TotalPrecinct(cs) \in Nat /\ stream.prealloc \in Nat
      <3> DEFINE tile == TileSize(mhd.siz)
                 order == mhd.cod.order
      <3>1. GridInv(cs, tile)
        BY <2>2, <2>4, GridIs
      <3> HIDE DEF cs, tile, order
      <3>2. PICK K : TableFrom(BuildTable(cs, tile, order), K, cs, tile, order)
        BY <3>1, TableIs
      <3>3. TotalPrecinct(cs) \in Nat
        BY <3>1, <3>2, TableReserved
      <3> QED  BY <3>3, StreamsAssumption DEF HeaderInv
    <2> HIDE DEF cs
    <2>7. stream.prealloc # 0 /\ stream.prealloc < TotalPrecinct(cs)
      BY <2>5, <2>6
    <2> QED  BY <2>1, <2>7 DEF cs
  <1>3. CASE LoadBody \/ ReadPrecinct \/ AtResync \/ EndOfTable
    <2>1. phase' # "thrown"
      BY <1>3 DEF LoadBody, ReadPrecinct, AtResync, EndOfTable
    <2> QED  BY <2>1
  <1>4. CASE UNCHANGED vars
    <2>1. UNCHANGED <<phase, stream, read, mhd>>
      BY <1>4 DEF vars, headerVars
    <2> QED  BY <2>1 DEF ReservationSuffices
  <1> QED  BY <1>1, <1>2, <1>3, <1>4 DEF Next

(* The memory reserved is the memory used: without prealloc there is no     *)
(* bad_alloc, with it one only when the resolutions count more precincts    *)
(* than were asked for (add_total_precinct, add_total_pband and the arenas  *)
(* of j2k_parent_resource).                                                 *)
THEOREM ReservationSufficesCorrect == Spec => []ReservationSuffices
  <1>1. Init => HeaderInv /\ ReservationSuffices
    BY InitHeader DEF Init, ReservationSuffices
  <1>2. HeaderInv /\ ReservationSuffices /\ [Next]_vars => HeaderInv' /\ ReservationSuffices'
    BY HeaderStep, ReservationStep
  <1> QED  BY <1>1, <1>2, PTL DEF Spec

================================================================================
