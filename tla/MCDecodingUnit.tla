--------------------------- MODULE MCDecodingUnit ---------------------------
(***************************************************************************)
(* Streams for the model checker, of two decomposition levels and images   *)
(* of a few code-blocks.  The headers vary with one body, the bodies with  *)
(* one header.                                                             *)
(***************************************************************************)
EXTENDS DecodingUnit

CONSTANTS Bytes, MaxBytes     \* for the bodies of arbitrary bytes

SOC == [mk |-> "SOC"]
SOT == [mk |-> "SOT"]
Comment == [mk |-> "COM", len |-> 6]
Unknown == [mk |-> "FFxx", len |-> 4]
Capabilities == [mk |-> "CAP", len |-> 8, ncap |-> 1]

Size(xy, rs) ==
    [mk |-> "SIZ", len |-> 38 + 3 * Len(rs), Csiz |-> Len(rs), XYRsiz |-> rs,
     Siz |-> xy, Tsiz |-> xy]

Style(mk, fixed, decomp, cb, prc) ==
    [mk |-> mk, len |-> fixed + Len(prc), decomp |-> 128 + decomp, cb |-> cb,
     style |-> IF prc = <<>> THEN 0 ELSE 1, prc |-> prc]
Cod(order, decomp, cb, prc) == Style("COD", 12, decomp, cb, prc) @@ [order |-> order]
Coc(c, decomp, cb, prc) == Style("COC", 9, decomp, cb, prc) @@ [comp |-> c]

Quant(mk, style, fixed, n) ==
    [mk |-> mk, style |-> style, guard |-> 1,
     len |-> fixed + IF style = 0 THEN n ELSE IF style = 1 THEN 2 ELSE 2 * n]
Qcd(style) == Quant("QCD", style, 3, 12)
Qcc(c, style) == Quant("QCC", style, 4, 12) @@ [comp |-> c]

Dfs(i, levels) ==
    [mk |-> "DFS", len |-> 6, Sdfs |-> i, Idfs |-> Len(levels), levels |-> levels]

-----------------------------------------------------------------------------
Sum(segs) == FoldSeq(LAMBDA s, n : n + SegmentBytes(s), 10, segs)
Received(segs, cuts) == {0, Sum(segs)} \cup cuts
Stm(segs, cuts, n) == [segs |-> segs, borders |-> Received(segs, cuts), prealloc |-> n]
Header(parts) == <<SOC>> \o parts \o <<SOT>>
Whole(parts) == Stm(Header(parts), {}, 0)

Prc == <<<<1, 2>>, <<2, 2>>, <<3, 3>>>>
SmallSiz == Size(<<8, 8>>, <<<<1, 1>>>>)
TwoSiz == Size(<<16, 12>>, <<<<1, 1>>, <<2, 1>>>>)
OneCod == Cod(RPCL, 1, <<0, 0>>, Prc)
SideCoc == Coc(1, 2, <<0, 0>>, <<<<2, 1>>, <<3, 2>>, <<3, 3>>>>)
RowDfs == Dfs(1, <<BOTH, ROW>>)
CalDfs == Dfs(2, <<BOTH, CAL>>)

\* One component; the table has three precincts of 1, 1 and 3 subbands.
Plain == Whole(<<SmallSiz, OneCod, Qcd(2), RowDfs>>)

\* Every order of the markers after SIZ, and SIZ after those that need it.
Orders ==
    {Whole(<<TwoSiz>> \o p) :
        p \in SetToSeqs({OneCod, SideCoc, Qcd(2), Qcc(1, 0), RowDfs, CalDfs})}
    \cup {Whole(<<RowDfs, CalDfs>> \o p) : p \in SetToSeqs({TwoSiz, OneCod, SideCoc, Qcd(2)})}

\* Every cut of one header into two packets.
Long == <<SmallSiz, Capabilities, OneCod, Comment, Qcd(2), Unknown, RowDfs>>
Cuts == {Stm(Header(Long), {e}, 0) : e \in 1 .. Sum(Header(Long)) - 12}

\* Headers the program does not get through, and memory asked for with -p.
Others ==
    {Whole(p) : p \in {
        <<Size(<<8, 8>>, [i \in 1 .. 5 |-> <<1, 1>>]), OneCod, Qcd(2), RowDfs>>,
        <<SmallSiz, OneCod, Qcd(0), RowDfs>>,
        <<SmallSiz, OneCod, Qcd(1), RowDfs>>,
        <<SmallSiz, OneCod, RowDfs>>,
        <<SmallSiz, Cod(RPCL, 1, <<0, 0>>, Prc \o Prc), Qcd(2), RowDfs>>,
        <<SmallSiz, OneCod, Qcd(2), RowDfs, CalDfs, RowDfs>>,
        <<SmallSiz, OneCod, Qcd(2), CalDfs, RowDfs>>,
        <<SmallSiz, Cod(1, 1, <<0, 0>>, Prc), Qcd(2), RowDfs>>,
        <<SmallSiz, Cod(RPCL, -126, <<0, 0>>, Prc), Qcd(2), RowDfs>>,
        <<SmallSiz, Cod(RPCL, 3, <<0, 0>>, Prc), Qcd(2), RowDfs>>,
        <<SmallSiz, Cod(RPCL, 2, <<0, 0>>, Prc), Qcd(2), RowDfs>>,
        <<Size(<<0, 0>>, <<<<1, 1>>>>), OneCod, Qcd(2), RowDfs>>,
        <<Size(<<0, 3>>, <<<<1, 1>>>>), OneCod, Qcd(2), RowDfs>>}}
    \cup {Stm(Header(<<TwoSiz, OneCod, Qcd(2), RowDfs>>), {}, n) : n \in {1, 9, 12, 15, 18, 19, 40}}

\* Image sizes, subsampling, directions and progression orders.
Shapes ==
    {Whole(<<Size(xy, <<<<1, 1>>, r>>), Cod(order, 1, <<0, 0>>, prc), Qcd(2), Dfs(1, d)>>) :
        xy \in {<<8, 8>>, <<17, 9>>, <<31, 16>>}, r \in {<<1, 1>>, <<2, 1>>, <<2, 2>>},
        order \in {RPCL, PCRL}, prc \in {Prc, <<<<2, 2>>, <<3, 3>>, <<3, 4>>>>, <<>>},
        d \in {<<BOTH, ROW>>, <<BOTH, CAL>>, <<ROW, CAL>>, <<CAL, CAL>>, <<BOTH, BOTH>>,
               <<ROW, BOTH>>}}
    \cup {Whole(<<TwoSiz, OneCod, Coc(1, 1, cb, Prc), Qcd(2), RowDfs>>) :
            cb \in {<<0, 0>>, <<1, 0>>, <<0, 2>>}}

MCStreams == {Plain} \cup Orders \cup Cuts \cup Others \cup Shapes

-----------------------------------------------------------------------------
RECURSIVE Payloads(_)
\* Every way to cut a sequence of bytes into payloads.
Payloads(s) ==
    IF s = <<>> THEN {<<>>}
    ELSE UNION {{<<SubSeq(s, 1, k)>> \o p : p \in Payloads(SubSeq(s, k + 1, Len(s)))} :
                k \in 1 .. Len(s)}

\* Two packets with a code-block of two bytes and one without; the header of
\* the first has a byte 0xFF and the bit stuffed after it.
Packets == <<<<239, 255, 0, 1, 0, 7, 8>>, <<128>>, <<226, 0, 255, 0>>>>

\* intact marks the chunks of a frame as it was sent.
Chunk(pid, segs, intact) == [PID |-> pid, segs |-> segs, intact |-> intact]

\* A frame with one resync point, at precinct k: the packet that holds it
\* gives its head to the first chunk and its tail to both.
WellFormed ==
    UNION {
        LET before == FlattenSeq(SubSeq(Packets, 1, k))
            after == FlattenSeq(SubSeq(Packets, k + 1, 3)) \o <<255, 217>>
            Few(s) == {p \in Payloads(s) : Len(p) <= 2}
        IN  {<<Chunk(k, ba[1] \o h \o <<Head(ba[2])>>, TRUE), Chunk(0, ba[2], TRUE)>> :
                h \in {<<>>, <<<<>>>>},
                ba \in (Payloads(before) \X Few(after)) \cup (Few(before) \X Payloads(after))} :
        k \in {1, 2}}

\* Arbitrary bytes, in the first chunk or in the last.
Arbitrary ==
    {<<Chunk(2, p, FALSE)>> : p \in UNION {Payloads(s) : s \in SeqOf(Bytes, MaxBytes)}}
    \cup {<<Chunk(1, <<Packets[2]>>, FALSE), Chunk(0, p, FALSE)>> :
            p \in UNION {Payloads(s) : s \in SeqOf(Bytes, MaxBytes - 1)}}
    \cup {<<Chunk(1, <<Packets[2]>>, FALSE), Chunk(0, <<<<128, 128, 255, 0>>>>, FALSE)>>}
    \cup {<<Chunk(2, InsertAt(p, i, <<>>), FALSE)>> :
            p \in Payloads(<<226, 1, 2, 226, 3, 4>>), i \in 1 .. 2}

MCBodies(s) == IF s = Plain THEN WellFormed \cup Arbitrary ELSE {<<>>}

\* sizeof and alignof with 64-bit pointers
Sizes == <<56, 24>>
Alignments == <<8, 4>>
=============================================================================
