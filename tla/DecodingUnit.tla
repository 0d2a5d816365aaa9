---------------------------- MODULE DecodingUnit ----------------------------
(***************************************************************************)
(* The decoding side of the analysis thread for one frame (main.cpp, and   *)
(* the same steps in tests/src/decoding_unit.cpp): the main header is read *)
(* marker by marker, the tile's table is built, and the packets of the     *)
(* precincts are read in table order, up to the precinct of the next       *)
(* resync point, each time one is found.                                   *)
(*                                                                         *)
(* ref is a second reader that makes the same calls on the same bytes in   *)
(* one payload.  It is what the reader is compared with, and no part of    *)
(* the program.                                                            *)
(***************************************************************************)
EXTENDS PrecinctTable, PacketReader

CONSTANTS
    Streams,            \* main headers: [segs, borders, prealloc]
    Bodies(_),          \* the bodies that may follow a header, each a
                        \* sequence of chunks [PID, segs, intact]
    ObjectSize, ObjectAlign   \* of j2k_Precinct and j2k_PrecinctSubband

ASSUME LimitAssumption == FollowLimit \in Nat
ASSUME BodiesAssumption ==
    \A s \in Streams : \A parts \in Bodies(s) :
        parts \in Seq([PID: Nat, segs: Seq(Seq(Nat)), intact: BOOLEAN])
ASSUME StreamsAssumption ==
    \A s \in Streams :
        /\ WellFormedHeader(s.segs)
        /\ s.borders \subseteq Nat
        /\ \E e \in s.borders : SegmentsEnd(s.segs, Len(s.segs)) <= e
        /\ s.prealloc \in Nat
\* No size is so near the end of the word that rounding it up passes it.
ASSUME SizesAssumption ==
    \A s \in Streams : \A k, n \in DOMAIN s.segs :
        LET siz == s.segs[k]
            cs == s.segs[n]
            Rounds(i, d) == TileSize(siz)[i] + d - 1 < Word
        IN  siz.mk = "SIZ" /\ cs.mk \in {"COD", "COC"} =>
                \A i \in Axis :
                    /\ \A c \in 1 .. siz.Csiz : Rounds(i, siz.XYRsiz[c][i])
                    /\ \A r \in Resolutions : /\ Rounds(i, pow2[r])
                                             /\ Rounds(i, pow2[PrecinctSize(cs, r)[i]])
ASSUME ObjectAssumption ==
    \A n \in {ObjectSize[1], ObjectSize[2], ObjectAlign[1], ObjectAlign[2]} : n \in Nat \ {0}
ASSUME AlignAssumption ==
    ObjectSize[1] % ObjectAlign[2] = 0 /\ ObjectSize[2] % ObjectAlign[2] = 0

VARIABLES
    phase,          \* what the thread does next, or how it ended
    stream,         \* the main header being received
    read, at,       \* marker segments read, and where the next one starts
    mhd,            \* main_header
    comps, table,   \* j2k_tile: tile_components and table
    body,           \* chunks load_body_packet has not returned yet
    chunk,          \* the chunk it returned last: j2k_packets and PID
    buf, ref,       \* the reader, and the reference reader
    table_index

headerVars == <<stream, read, at, mhd>>
tileVars == <<comps, table>>
bodyVars == <<body, chunk, buf, ref, table_index>>
vars == <<phase, headerVars, tileVars, bodyVars>>

EOC == 255 * 256 + 217

Ended == {"done", "desync", "thrown", "undefined", "exit", "lost", "abort"}

Init ==
    /\ phase = "header"
    /\ stream \in Streams
    /\ read = 0 /\ at = 0
    /\ mhd = NoHeader
    /\ comps = <<>> /\ table = <<>>
    /\ body = <<>>
    /\ buf = NewReader(<<>>) /\ ref = NewReader(<<>>)
    /\ chunk = [PID |-> 0, segs |-> <<>>, intact |-> FALSE] /\ table_index = 0

\* Where the segments read so far end.
EndOf(n) == SegmentsEnd(stream.segs, n)

\* One turn of MainHeader2::read. The header ends with SOT; with a step that
\* lost bytes, or one byte too many or too few read, what follows is read as
\* markers from the middle of a segment.
ReadMarker ==
    /\ phase = "header"
    /\ read < Len(stream.segs)
    /\ LET s == stream.segs[read + 1]
           end == IF s.mk = "SOT" THEN at + 2
                  ELSE After(stream.borders, at + 2, Moves(s))
       IN  /\ read' = read + 1
           /\ at' = end
           /\ phase' = IF s.mk = "SOT" THEN "tile"
                       ELSE IF Outcome(mhd, s) # "ok" THEN Outcome(mhd, s)
                       ELSE IF end # EndOf(read + 1) THEN "desync" ELSE "header"
           /\ mhd' = IF Outcome(mhd, s) = "ok" THEN With(mhd, s) ELSE mhd
    /\ UNCHANGED <<stream, tileVars, bodyVars>>

\* The arenas: allocated in advance (-p n) for n precincts of three
\* subbands, or by build_table for the totals the resolutions counted.
Memory(cs) ==
    Arenas(IF stream.prealloc # 0 THEN <<stream.prealloc, 3 * stream.prealloc>>
           ELSE <<TotalPrecinct(cs), TotalPband(cs)>>, ObjectSize, ObjectAlign)

\* j2k_Tile::init: steps over the rest of SOT and SOD, and builds. Another
\* progression order ends the program.
InitTile ==
    /\ phase = "tile"
    /\ IF TileOutcome(mhd) # "ok"
       THEN phase' = TileOutcome(mhd) /\ UNCHANGED tileVars
       ELSE LET cs == Components(mhd)
                t == BuildTable(cs, TileSize(mhd.siz), mhd.cod.order)
            IN  IF mhd.cod.order \notin {RPCL, PCRL}
                THEN phase' = "exit" /\ UNCHANGED tileVars
                ELSE IF ~TableFits(Memory(cs), cs, t, ObjectSize, ObjectAlign)
                THEN phase' = "thrown" /\ UNCHANGED tileVars
                ELSE phase' = "load" /\ comps' = cs /\ table' = t
    /\ body' \in Bodies(stream)
    /\ at' = After(stream.borders, at, <<Get(2), Step(10)>>)
    /\ UNCHANGED <<stream, read, mhd, chunk, buf, ref, table_index>>

\* load_body_packet returns SUCCESS: the payloads up to a resync point and
\* the PID of the precinct that starts there, 0 at the end of the frame; and
\* a J2kBuf is made over them.
LoadBody ==
    /\ phase = "load"
    /\ body # <<>>
    /\ phase' = "packets"
    /\ buf' = NewReader(Head(body).segs)
    /\ ref' = NewReader(OneSegment(Head(body).segs))
    /\ chunk' = Head(body)
    /\ body' = Tail(body)
    /\ UNCHANGED <<headerVars, tileVars, table_index>>

\* One turn of the loop over the table; a buffer_leak ends the frame.
ReadPrecinct ==
    /\ phase = "packets"
    /\ table_index + 1 \in DOMAIN table
    /\ table[table_index + 1].PID # chunk.PID
    /\ LET bands == table[table_index + 1].bands
       IN  /\ buf' = read_packet(buf, bands).b
           /\ ref' = read_packet(ref, bands).b
    /\ IF Ok(buf')
       THEN table_index' = table_index + 1 /\ UNCHANGED phase
       ELSE /\ phase' = IF buf'.st = "leak" THEN "lost" ELSE "undefined"
            /\ UNCHANGED table_index
    /\ UNCHANGED <<headerVars, tileVars, body, chunk>>

\* The precinct of the resync point is reached.
AtResync ==
    /\ phase = "packets"
    /\ table_index + 1 \in DOMAIN table
    /\ table[table_index + 1].PID = chunk.PID
    /\ phase' = "load"
    /\ UNCHANGED <<headerVars, tileVars, bodyVars>>

\* The end of the table: the end-of-codestream marker is asserted.
EndOfTable ==
    /\ phase = "packets"
    /\ table_index = Len(table)
    /\ buf' = get_bytes(buf, 2)
    /\ ref' = get_bytes(ref, 2)
    /\ IF ~Ok(buf')
       THEN /\ phase' = IF buf'.st = "leak" THEN "lost" ELSE "undefined"
            /\ UNCHANGED table_index
       ELSE IF buf'.val = EOC THEN phase' = "done" /\ table_index' = 0
       ELSE phase' = "abort" /\ UNCHANGED table_index
    /\ UNCHANGED <<headerVars, tileVars, body, chunk>>

Next == ReadMarker \/ InitTile \/ LoadBody \/ ReadPrecinct \/ AtResync \/ EndOfTable

Spec == Init /\ [][Next]_vars
-----------------------------------------------------------------------------
(* Properties.                                                             *)

\* How many bytes a skip of the next segment passes, and whether they reach
\* over the end of a payload.
SkipsOverBorder(s, from) ==
    LET m == Moves(s)
    IN  \E i \in DOMAIN m :
           /\ ~m[i].get
           /\ LET p == After(stream.borders, from + 2, SubSeq(m, 1, i - 1))
              IN  p + m[i].n > PayloadEnd(stream.borders, p)

\* The reader is at the start of a marker whenever it reads one, whatever the
\* sizes, the order and the optional parts of the segments and wherever the
\* header was cut into payloads: it loses its place only where a segment is
\* skipped over the end of a payload (J2kBuf::step does not look), or at a
\* QCD of style 0, whose one-byte entries are read as two.
HeaderAligned ==
    phase = "desync" =>
        LET s == stream.segs[read]
        IN  SkipsOverBorder(s, EndOf(read - 1)) \/ (s.mk = "QCD" /\ s.style = 0)

\* The parts of a header, whatever their order.
Segments(mk) == {stream.segs[i] : i \in {k \in DOMAIN stream.segs : stream.segs[k].mk = mk}}
Of(mk, c) == {s \in Segments(mk) : s.comp = c}

\* Each component decodes with its own COC and QCC if the header has one and
\* with COD and QCD if not, in whatever order the markers came (j2k_Component's
\* link_component), and with the DFS marker its style names. That one is
\* picked by its place in the header (mhd.dfs[dfs_idx - 1]) and its Sdfs is
\* never looked at, so this needs the DFS markers in order.
DfsInOrder == \A i \in DOMAIN mhd.dfs : mhd.dfs[i].Sdfs = i

StylesByComponent ==
    \A i \in DOMAIN comps :
        LET own == Of("COC", comps[i].index)
            cs == IF own # {} THEN own ELSE Segments("COD")
        IN  /\ \E s \in cs : \A r \in Resolutions : comps[i].psize[r] = PrecinctSize(s, r)
            /\ \E s \in cs : comps[i].cb = CodeblockSize(s)
            /\ comps[i].quant = IF Of("QCC", comps[i].index) # {} THEN "QCC" ELSE "QCD"
            /\ DfsInOrder => \E s \in cs : comps[i].Sdfs = DfsIndex(s)

\* A direction pattern ceil_NL was made for: on each axis the levels that do
\* not split it are the lowest.
LowLevelsFirst(d) ==
    \A i \in Axis : \A m, n \in 1 .. NL : (m < n /\ Splits(d[m], i)) => Splits(d[n], i)

ProfileDirections ==
    \A i \in DOMAIN comps : LowLevelsFirst([r \in Resolutions |-> comps[i].res[r].dir])

\* A precinct is on the reference grid as many times its own size as levels
\* above it split the axis (DFS::ceil_NL).
ShiftCountsSplits ==
    ProfileDirections =>
        \A c \in DOMAIN comps, r \in Resolutions, i \in Axis :
            LET dir == [k \in Resolutions |-> comps[c].res[k].dir]
            IN  comps[c].res[r].shift[i] = comps[c].psize[r][i] + SplitsAbove(dir, r, i)

\* The loops of build_table step over the starts of all precincts: their
\* distances are multiples of the pitch, and of twice it where a level
\* splits both ways.
PitchDivides ==
    \A c \in DOMAIN comps, r \in Resolutions, i \in Axis :
        LET res == comps[c].res[r]
        IN  (comps[c].R[i] * pow2[res.shift[i]])
              % (Pitch(comps, i) * IF res.dir = BOTH /\ i = 2 THEN 2 ELSE 1) = 0

\* On such a grid every precinct is in the table exactly once, at the place
\* its position in the image gives; the precincts of a component are numbered
\* c, c + Csiz, c + 2 Csiz, ... so that no two have the same PID and every
\* PID a sender may use is found (the FAILURE loop of main.cpp ends).
TableComplete ==
    (phase = "load" /\ ProfileDirections /\ PitchDivides) =>
        /\ \A c \in DOMAIN comps, r \in Resolutions :
              LET res == comps[c].res[r]
                  mine == {k \in DOMAIN table : table[k].comp = c - 1 /\ table[k].r = r}
              IN  /\ {table[k].xy : k \in mine}
                       = (0 .. res.num[1] - 1) \X (0 .. res.num[2] - 1)
                  /\ Cardinality(mine) = Area(res)
                  /\ \A k \in mine, i \in Axis :
                        table[k].at[i] = table[k].xy[i] * comps[c].R[i] * pow2[res.shift[i]]
        /\ \A c \in DOMAIN comps :
              LET n == Cardinality({k \in DOMAIN table : table[k].comp = c - 1})
              IN  {table[k].PID : k \in {j \in DOMAIN table : table[j].comp = c - 1}}
                    = {c - 1 + m * Len(comps) : m \in 0 .. n - 1}

\* The memory reserved is the memory used: without prealloc no bad_alloc,
\* with it one only when the table has more precincts than were asked for.
ReservationSuffices ==
    phase = "thrown" =>
        \/ Outcome(mhd, stream.segs[read]) = "thrown"
        \/ stream.prealloc # 0 /\ stream.prealloc < TotalPrecinct(Components(mhd))

\* Where a sender cut the code-stream into packets has no influence on what
\* is read: the same code-block lengths, the same position in the stream and
\* the same end, also when a header bit, the bit stuffed after 0xFF or a
\* code-block lies across payloads. And nothing outside the payloads is read.
CutsDoNotMatter ==
    Within(chunk.segs) =>
        /\ buf.st = ref.st /\ buf.st # "undefined"
        /\ Ok(buf) => Consumed(buf) = Consumed(ref) /\ buf.val = ref.val

\* A frame that arrives as it was sent is read to its end-of-codestream
\* marker, wherever it was cut into packets and wherever its resync point is.
IntactFrameDecoded == phase \in {"lost", "abort", "undefined"} => ~chunk.intact
=============================================================================
