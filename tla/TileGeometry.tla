---------------------------- MODULE TileGeometry ----------------------------
(***************************************************************************)
(* The arithmetic of decoding_unit.cpp that places resolutions, subbands   *)
(* and precincts on the reference grid: ceil_int and Postion2D             *)
(* (codestream.hpp), DFS::ceil_NL, the constructors of j2k_Resolution and  *)
(* j2k_Precinct.  Positions are <<x, y>>; the program computes them in     *)
(* unsigned 32-bit integers, here modulo Word.                             *)
(***************************************************************************)
EXTENDS Profile, Integers, Sequences

BOTH == 1         \* j2kmk::DFS_BOTH, DFS_ROW, DFS_CAL
ROW == 2
CAL == 3

Axis == {1, 2}    \* x and y of a Postion2D

\* ceil_int(a, b), a the unsigned difference x - o
ceil_int(a, b) == ((a + b - 1) % Word) \div b
Minus(x, o) == (x - o) % Word

\* The ceiling it stands for.
Ceil(a, b) == -((-a) \div b)

\* ceil_NL: the level the axis i of resolution r is at once the levels that
\* do not split it are passed; it stops at the first level that does.
\* Levels of DFS_CAL do not split x, levels of DFS_ROW do not split y.
Splits(d, i) == IF i = 1 THEN d # CAL ELSE d # ROW

\* Mutant: the levels that do not split the axis are not passed.
ceil_NLStay(Ddfs, r, i) == r

ceil_NL(Ddfs, r, i) ==
    CHOOSE n \in r .. NL :
        /\ \A m \in r + 1 .. n : ~Splits(Ddfs[m], i)
        /\ n = NL \/ Splits(Ddfs[n + 1], i)

\* How many levels above resolution r split the axis: what NL - ceil_NL is for.
SplitsAbove(Ddfs, r, i) ==
    LET n[k \in r .. NL] ==
            IF k = r THEN 0 ELSE n[k - 1] + (IF Splits(Ddfs[k], i) THEN 1 ELSE 0)
    IN  n[NL]

\* DFS::total_subband
total_subband(Ddfs) ==
    LET n[k \in 0 .. NL] ==
            IF k = 0 THEN 1 ELSE n[k - 1] + (IF Ddfs[k] \in {ROW, CAL} THEN 1 ELSE 3)
    IN  n[NL]

\* An axis of a region, [lo, hi), where one sample stands for d: that of a
\* component for its subsampling, that of a resolution for a power of 2.
Scaled(range, d) == <<ceil_int(range[1], d), ceil_int(range[2], d)>>

ResolutionRange(range, Ddfs, r, i) == Scaled(range, pow2[NL - ceil_NL(Ddfs, r, i)])

\* num_precinct along an axis, precincts of P samples
NumPrecinct(range, P) == ceil_int(range[2], P) - range[1] \div P

\* The precinct k of a range, cut to it.
Larger(a, b) == IF a < b THEN b ELSE a
Smaller(a, b) == IF a < b THEN a ELSE b
PrecinctRange(range, P, k) ==
    <<Larger(range[1], P * k), Smaller(range[2], P * (k + 1))>>

\* Subbands of a resolution: LL alone at resolution 0 and one band where the
\* level splits one way.
NumSubband(Ddfs, r) == IF r = 0 \/ Ddfs[r] \in {ROW, CAL} THEN 1 ELSE 3

\* The position of a resolution's first subband in ob = 00, 10, 01, 11
\* (HL, LH, HH being 1, 2, 3): moved on by one where the direction is CAL.
FirstBand(Ddfs, r) == (IF r = 0 THEN 0 ELSE 1) + (IF Ddfs[r] = CAL THEN 1 ELSE 0)
BandOffset(pos, i) == IF i = 1 THEN pos % 2 ELSE pos \div 2

\* The subband of position pos of a component's range, nb levels down.
BandRange(lo, hi, r, pos, i) ==
    LET nb == NL + 1 - r - (IF r = 0 THEN 1 ELSE 0)
        Band(x) == ceil_int(Minus(x, BandOffset(pos, i) * pow2[nb - 1]), pow2[nb])
    IN  <<Band(lo), Band(hi)>>

\* The part of a precinct in a subband (j2k_Precinct's constructor).
PbandRange(range, pos, i) ==
    LET sr == IF pos = 0 THEN 1 ELSE 2
        Part(x) == ceil_int(Minus(x, BandOffset(pos, i)), sr)
    IN  <<Part(range[1]), Part(range[2])>>
=============================================================================
