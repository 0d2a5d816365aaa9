---------------------------- MODULE PacketReader ----------------------------
(***************************************************************************)
(* One JPEG 2000 packet: j2k_CodeBlock::read_packet_header,                *)
(* j2k_Precinct::read_packet and send_hw_decoder (decoding_unit.cpp), over *)
(* the reader of BitReader.  A precinct has one code-block per subband;    *)
(* what reading it leaves in a code-block is its length and its number of  *)
(* missing bit planes.                                                     *)
(***************************************************************************)
EXTENDS BitReader

LBlock0 == 3           \* lblock before its increments
LBlockSteps == 15      \* the most increments the loop reads

reuse == [length |-> 0, number_of_zbp |-> 0]

\* while (!get_bit()) ++bits, bits being a uint8_t: the loop ends with the
\* first bit that is a 1 or cannot be read.
Ends(b) == ~Ok(b) \/ b.val = 1
Counted(b, n) == IF Ok(b) THEN [b EXCEPT !.val = n % 256] ELSE b
ReadZeroBits(b) ==
    LET all == 8 * (Len(Stream(b.segs)) + 1)
        bit[i \in 0 .. all] == IF i = 0 THEN get_bit(b) ELSE get_bit(bit[i - 1])
        n == CHOOSE i \in 0 .. all : Ends(bit[i]) /\ \A k \in 0 .. i - 1 : ~Ends(bit[k])
    IN  Counted(bit[n], n)

\* The number of coding passes: fields of 1, 1, 2, 5 and 7 bits, each read
\* when the total so far has reached a threshold, and added to it.
PassField == <<[from |-> 1, bits |-> 1], [from |-> 2, bits |-> 1],
               [from |-> 3, bits |-> 2], [from |-> 6, bits |-> 5],
               [from |-> 37, bits |-> 7]>>

AddPasses(b, passes) == IF Ok(b) THEN [b EXCEPT !.val = @ + passes] ELSE b

PassesOf(b, f) ==
    IF ~Ok(b) \/ b.val < f.from THEN b ELSE AddPasses(get_bits(b, f.bits), b.val)

ReadPasses(b) ==
    LET a[k \in 0 .. Len(PassField)] ==
            IF k = 0 THEN [b EXCEPT !.val = 1] ELSE PassesOf(a[k - 1], PassField[k])
    IN  a[Len(PassField)]

\* lblock grows by one for each 1 bit, and a 0 bit ends it unless it has
\* grown LBlockSteps times.
LBlockBit(b, n) == [b |-> b, n |-> n + (IF Ok(b) THEN b.val ELSE 0), end |-> b.val = 0]
LBlockStep(a) == IF ~Ok(a.b) \/ a.end THEN a ELSE LBlockBit(get_bit(a.b), a.n)

ReadLBlock(b) ==
    LET a[k \in 0 .. LBlockSteps] ==
            IF k = 0 THEN [b |-> b, n |-> LBlock0, end |-> FALSE] ELSE LBlockStep(a[k - 1])
    IN  a[LBlockSteps]

\* What read_packet_header leaves: the reader after it and the code-block.
Block(b, length, zbp) ==
    [b |-> b, cb |-> IF Ok(b) THEN [length |-> length, number_of_zbp |-> zbp] ELSE reuse]

\* The lengths of one segment or of two, of n bits, and one bit more for
\* the second if it has two passes. A first of one byte or none is an error.
SecondLength(b, length, zbp) == Block(b, length + b.val, zbp)
FirstLength(b, n, passes, zbp) ==
    IF Ok(b) /\ b.val <= 1 THEN Block(Leak(b), 0, 0)
    ELSE IF passes = 1 THEN Block(b, b.val, zbp)
    ELSE SecondLength(get_bits(b, IF passes > 2 THEN n + 1 ELSE n), b.val, zbp)
Lengths(lblock, passes, zbp) ==
    FirstLength(get_bits(lblock.b, lblock.n), lblock.n, passes, zbp)

\* Placeholder passes go three by three into the missing bit planes.
SplitPasses(b, zbp) ==
    LET phld == (b.val - 1) \div 3
    IN  Lengths(ReadLBlock(b), b.val - 3 * phld, (zbp + phld) % 256)
BlockFields(b) == SplitPasses(ReadPasses(b), b.val)

\* Nothing follows a code-block that is not included.
IfIncluded(b) ==
    IF ~Ok(b) \/ b.val = 0 THEN [b |-> b, cb |-> reuse] ELSE BlockFields(ReadZeroBits(b))

read_packet_header(b) == IfIncluded(get_bit(b))

\* read_packet: a 0 in front of the packet is an error, the headers of all
\* the code-blocks come first, then their data in the same order.
AddBlock(cbs, h) == [b |-> h.b, cbs |-> Append(cbs, h.cb)]
NextHeader(a) == IF Ok(a.b) THEN AddBlock(a.cbs, read_packet_header(a.b)) ELSE a
Headers(b, bands) ==
    LET a[k \in 0 .. bands] == IF k = 0 THEN [b |-> b, cbs |-> <<>>] ELSE NextHeader(a[k - 1])
    IN  a[bands]
Data(b, cbs) ==
    LET d[k \in 0 .. Len(cbs)] ==
            IF k = 0 THEN r_fill(check_FF(b)) ELSE make_packet_data(d[k - 1], cbs[k].length)
    IN  d[Len(cbs)]
WithData(h) == [h EXCEPT !.b = Data(@, h.cbs)]
IfNotEmpty(b, bands) ==
    IF Ok(b) /\ b.val = 0 THEN [b |-> Leak(b), cbs |-> <<>>] ELSE WithData(Headers(b, bands))

read_packet(b, bands) == IfNotEmpty(get_bit(b), bands)
=============================================================================
