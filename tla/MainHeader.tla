----------------------------- MODULE MainHeader -----------------------------
(***************************************************************************)
(* MainHeader2::read and the marker segments of codestream/marker.cpp.     *)
(*                                                                         *)
(* A marker segment is a record of its marker mk, its declared length len  *)
(* (the L field, which counts itself and not the marker) and the fields    *)
(* the program keeps.  Where reading it leaves the reader is computed from *)
(* the reads and steps its constructor makes: a read of n bytes goes on    *)
(* into the next payload, a step does not look at payload borders, and     *)
(* what a step passes of the current payload is lost to it, since the next *)
(* read then starts the next payload at its first byte.                    *)
(***************************************************************************)
EXTENDS Profile, Integers, Sequences, SequencesExt, FiniteSetsExt

Absent == [mk |-> "absent"]      \* an empty std::optional

NoHeader == [siz |-> Absent, cap |-> Absent, cod |-> Absent, coc |-> <<>>,
             qcd |-> Absent, qcc |-> <<>>, dfs |-> <<>>]

\* Moves of the reader, after the two bytes of the marker itself.
Get(n) == [get |-> TRUE, n |-> n]
Step(n) == [get |-> FALSE, n |-> n]

\* Entries of 16 bits the QCD and QCC loops read, and the bytes they take.
\* QCD reads two bytes for each one-byte entry of style 0.
QcdEntries(s) == IF s.style = 0 THEN s.len - 3 ELSE (s.len - 3) \div 2
QccEntries(s) == IF s.style = 0 THEN s.len - 4 ELSE (s.len - 4) \div 2
QuantEntries(s) == IF s.mk = "QCD" THEN QcdEntries(s) ELSE QccEntries(s)
QcdBytes(s) == 2 * QcdEntries(s)
\* Mutant: QCC as QCD does it.
QccBytesAsQcd(s) == 2 * QccEntries(s)
QccBytes(s) == QccEntries(s) * (IF s.style = 0 THEN 1 ELSE 2)

\* The precinct and coding parameters COD and COC read one by one into an
\* array of 5 + NL + 1 bytes.
CodParams(s) == s.len - 7
CocParams(s) == s.len - 4

SizMoves(s) == <<Step(2), Get(36 + 3 * s.Csiz)>>
CapMoves(s) == <<Step(2), Get(4 + 2 * s.ncap)>>
CodMoves(s) == <<Get(7 + CodParams(s))>>
CocMoves(s) == <<Get(4 + CocParams(s))>>
QcdMoves(s) == <<Get(3 + QcdBytes(s))>>
QccMoves(s) == <<Get(4 + QccBytes(s))>>
\* two bits for each level, then r_fill (without a stuffed bit: NoStuffing)
DfsMoves(s) == <<Step(2), Get(3 + (2 * s.Idfs + 7) \div 8)>>
\* COM, and any marker of the form FFxx the program does not know
SkipMoves(s) == <<Get(2), Step(s.len - 2)>>

Moves(s) ==
    CASE s.mk = "SOC" -> <<>>
      [] s.mk = "SIZ" -> SizMoves(s)
      [] s.mk = "CAP" -> CapMoves(s)
      [] s.mk = "COD" -> CodMoves(s)
      [] s.mk = "COC" -> CocMoves(s)
      [] s.mk = "QCD" -> QcdMoves(s)
      [] s.mk = "QCC" -> QccMoves(s)
      [] s.mk = "DFS" -> DfsMoves(s)
      [] OTHER -> SkipMoves(s)

\* Where the next read will start. borders are the offsets at which payloads
\* end; a reader at a border is still in the payload that ends there.
PayloadEnd(borders, at) == Min({e \in borders : e >= at})

Moved(borders, p, m) ==
    IF m.get THEN p + m.n ELSE Min({p + m.n, PayloadEnd(borders, p)})

After(borders, at, moves) ==
    LET p[k \in 0 .. Len(moves)] ==
            IF k = 0 THEN at ELSE Moved(borders, p[k - 1], moves[k])
    IN  p[Len(moves)]

\* Where the segment that starts at offset at ends.
SegmentBytes(s) == IF s.mk \in {"SOC", "SOT"} THEN 2 ELSE 2 + s.len

\* A segment's declared length is that of its fields. (Entries of 16 bits
\* take an even number of bytes.)
LengthAgrees(s) ==
    /\ s.mk \notin {"SOC", "SOT"} => s.len \in Nat /\ s.len >= 2
    /\ s.mk = "SIZ" => s.Csiz \in Nat /\ s.len = 38 + 3 * s.Csiz
    /\ s.mk = "CAP" => s.ncap \in Nat /\ s.len = 6 + 2 * s.ncap
    /\ s.mk = "QCD" /\ s.style # 0 => (s.len - 3) % 2 = 0
    /\ s.mk = "QCC" /\ s.style # 0 => (s.len - 4) % 2 = 0
    /\ s.mk = "DFS" => s.Idfs \in Nat /\ s.len = 5 + (2 * s.Idfs + 7) \div 8

(***************************************************************************)
(* What constructing the segment does: "ok", "thrown" (bad_alloc of a      *)
(* fixed_capacity_vector that is full, out_of_range of array::at), or      *)
(* "undefined" (an empty optional is dereferenced; Ddfs is written past    *)
(* its end, or not all of it is written before it is reversed).            *)
(***************************************************************************)
Outcome(mhd, s) ==
    LET When(bad, result) == IF bad THEN result ELSE "ok"
        NeedsSiz == When(mhd.siz = Absent, "undefined")
        First(a, b) == IF a # "ok" THEN a ELSE b
    IN  CASE s.mk = "SIZ" -> When(s.Csiz > CsizMax, "thrown")
          [] s.mk = "COD" -> When(CodParams(s) > 5 + NL + 1, "thrown")
          [] s.mk = "COC" -> First(NeedsSiz, When(\/ Len(mhd.coc) = CsizMax
                                                  \/ CocParams(s) > 5 + NL + 1, "thrown"))
          [] s.mk = "QCD" -> When(QcdEntries(s) > SubbandMax, "thrown")
          [] s.mk = "QCC" -> First(NeedsSiz, When(\/ Len(mhd.qcc) = CsizMax
                                                  \/ QccEntries(s) > SubbandMax, "thrown"))
          [] s.mk = "DFS" -> First(When(Len(mhd.dfs) = DfsMax, "thrown"),
                                   When(s.Idfs # NL, "undefined"))
          [] OTHER -> "ok"

\* The direction of each resolution level: the codestream lists the levels
\* from the finest, the last is repeated for resolution 0 and all reversed.
Ddfs(s) == [r \in 0 .. NL |-> s.levels[IF r = 0 THEN s.Idfs ELSE s.Idfs + 1 - r]]

\* The header with the segment in it; optionals are replaced, vectors grow.
With(mhd, s) ==
    CASE s.mk = "SIZ" -> [mhd EXCEPT !.siz = s]
      [] s.mk = "CAP" -> [mhd EXCEPT !.cap = s]
      [] s.mk = "COD" -> [mhd EXCEPT !.cod = s]
      [] s.mk = "COC" -> [mhd EXCEPT !.coc = Append(@, s)]
      [] s.mk = "QCD" -> [mhd EXCEPT !.qcd = s]
      [] s.mk = "QCC" -> [mhd EXCEPT !.qcc = Append(@, s)]
      [] s.mk = "DFS" -> [mhd EXCEPT !.dfs = Append(@, s)]
      [] OTHER -> mhd

-----------------------------------------------------------------------------
(* The getters j2k_Component asks.  decomp is the decomposition level byte *)
(* of COD and COC, cb their two code-block exponents less 2, prc their     *)
(* precinct exponents.                                                     *)

\* Mutant: the first segment, whatever its component.
LinkFirst(segs, c) == IF segs = <<>> THEN Absent ELSE segs[1]

\* link_component: the first COC or QCC of the component, or none.
LinkComponent(segs, c) ==
    LET own == {i \in DOMAIN segs : segs[i].comp = c}
    IN  IF own = {} THEN Absent ELSE segs[Min(own)]

\* get_codeblock_size, and get_precinct_size of resolution r as exponents
CodeblockSize(s) == <<pow2[s.cb[1] + 2], pow2[s.cb[2] + 2]>>
\* COD tests the precinct bit of its style, COC its whole style.
HasPrecincts(s) == IF s.mk = "COD" THEN s.style % 2 = 1 ELSE s.style # 0
PrecinctSize(s, r) == IF HasPrecincts(s) THEN s.prc[r + 1] ELSE <<15, 15>>

\* The levels of a DFS marker are read with get_bit, which takes a byte 0xFF
\* for the start of bit stuffing and drops the bit after it, and the levels
\* from there on are not those of the header. Such a byte is four levels of
\* direction 3, and is left out here; the bits that fill the last byte are 0.
NoStuffing(s) ==
    \A k \in DOMAIN s.levels :
        k % 4 = 0 => \E j \in k - 3 .. k : s.levels[j] # 3

\* A header of conforming segments up to SOT.
WellFormedHeader(segs) ==
    /\ segs \in Seq({segs[i] : i \in DOMAIN segs})
    /\ \A i \in DOMAIN segs :
          /\ segs[i].mk = "SOT" => i = Len(segs)
          /\ LengthAgrees(segs[i])
          /\ segs[i].mk = "DFS" => NoStuffing(segs[i])
          /\ segs[i].mk = "SIZ" =>
                /\ segs[i].Siz \in Nat \X Nat /\ segs[i].Tsiz \in Nat \X Nat
                /\ \A c \in 1 .. segs[i].Csiz : segs[i].XYRsiz[c] \in (Nat \ {0}) \X (Nat \ {0})
          /\ segs[i].mk \in {"COD", "COC"} =>
                /\ segs[i].cb \in Nat \X Nat
                /\ \A r \in 0 .. NL : PrecinctSize(segs[i], r) \in Nat \X Nat

\* Where the first n segments end.
SegmentsEnd(segs, n) ==
    LET end[k \in 0 .. Len(segs)] ==
            IF k = 0 THEN 0 ELSE end[k - 1] + SegmentBytes(segs[k])
    IN  end[n]

\* The DFS marker a decomposition level byte of 0x80 + i asks for, and the
\* number of subbands the program takes for granted for it.
UsesDfs(s) == s.decomp >= 128
DfsIndex(s) == s.decomp - 128
TotalSubband(idx) == IF idx = 1 THEN 10 ELSE 12

\* get_number_of_guardbit: three bits of the style byte. QCC shifts it by 5
\* and QCD by 7.
GuardBits(s) == IF s.mk = "QCC" THEN s.guard ELSE s.guard \div 4
=============================================================================
