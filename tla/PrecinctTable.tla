---------------------------- MODULE PrecinctTable ----------------------------
(***************************************************************************)
(* j2k_Tile::init and build_table (decoding_unit.cpp): the components and  *)
(* resolutions of the tile from the main header, and the table of          *)
(* precincts in progression order that the analysis thread walks; with the *)
(* memory the table is put in (j2k_parent_resource, mem_resource.hpp).     *)
(***************************************************************************)
EXTENDS MainHeader, TileGeometry

RPCL == 2
PCRL == 3

Resolutions == 0 .. NL

\* j2k_Resolution: cmp is the component's [pos0, pos1) per axis, psize its
\* precinct exponents, d the directions of its DFS marker.
Resolution(cmp, psize, d, r) ==
    LET range == [i \in Axis |-> ResolutionRange(cmp[i], d, r, i)]
    IN  [range |-> range, dir |-> d[r],
         shift |-> [i \in Axis |-> psize[r][i] + NL - ceil_NL(d, r, i)],
         num   |-> [i \in Axis |-> NumPrecinct(range[i], pow2[psize[r][i]])],
         bands |-> [b \in 1 .. NumSubband(d, r) |-> FirstBand(d, r) + b - 1]]

\* j2k_Component: its COC or else the COD, its QCC or else the QCD, the DFS
\* marker at the index its decomposition byte gives.
CodingStyle(mhd, c) ==
    LET own == LinkComponent(mhd.coc, c) IN IF own = Absent THEN mhd.cod ELSE own
Quantization(mhd, c) ==
    LET own == LinkComponent(mhd.qcc, c) IN IF own = Absent THEN mhd.qcd ELSE own

DfsOf(mhd, cs) == mhd.dfs[DfsIndex(cs)]

Component(mhd, tile, c) ==
    LET cs == CodingStyle(mhd, c)
        dfs == DfsOf(mhd, cs)
        R == mhd.siz.XYRsiz[c + 1]
        region == [i \in Axis |-> Scaled(<<0, tile[i]>>, R[i])]
        psize == [r \in Resolutions |-> PrecinctSize(cs, r)]
    IN  [index |-> c, R |-> R, cb |-> CodeblockSize(cs), psize |-> psize,
         style |-> cs.mk, Sdfs |-> dfs.Sdfs, quant |-> Quantization(mhd, c).mk,
         res |-> [r \in Resolutions |-> Resolution(region, psize, Ddfs(dfs), r)]]

\* The tile's region, from the origin to the smaller of tile and image.
TileSize(siz) == [i \in Axis |-> Smaller(siz.Tsiz[i], siz.Siz[i])]

Components(mhd) ==
    [c \in 1 .. mhd.siz.Csiz |-> Component(mhd, TileSize(mhd.siz), c - 1)]

\* What constructing a component does: a style without DFS marker leaves
\* dfs_idx unset, an index past the markers or quantization steps past the
\* last are read from what is not there, and it is asserted that the index is
\* 1 or 2 and that every resolution has a row or a column of precincts.
ComponentOutcome(mhd, c) ==
    LET cs == CodingStyle(mhd, c)
        q == Quantization(mhd, c)
        Empty(res) == res.num[1] + res.num[2] = 0
    IN  IF ~UsesDfs(cs) THEN "undefined"
        ELSE IF DfsIndex(cs) \notin {1, 2} THEN "abort"
        ELSE IF \/ DfsIndex(cs) > Len(mhd.dfs)
                \/ q.style # 1 /\ TotalSubband(DfsIndex(cs)) > QuantEntries(q) THEN "undefined"
        ELSE IF \E r \in Resolutions : Empty(Component(mhd, TileSize(mhd.siz), c).res[r]) THEN "abort"
        ELSE "ok"

\* The components one after another, up to the first that does not get made.
TileOutcome(mhd) ==
    IF Absent \in {mhd.siz, mhd.cod, mhd.qcd} THEN "undefined"
    ELSE LET bad == {c \in 0 .. mhd.siz.Csiz - 1 : ComponentOutcome(mhd, c) # "ok"}
         IN  IF bad = {} THEN "ok" ELSE ComponentOutcome(mhd, Min(bad))

-----------------------------------------------------------------------------
\* The resolutions in the order they are constructed.
Built(comps) ==
    [n \in 1 .. Len(comps) * (NL + 1) |->
        comps[(n - 1) \div (NL + 1) + 1].res[(n - 1) % (NL + 1)]]

Total(w) ==
    LET sum[k \in 0 .. Len(w)] == IF k = 0 THEN 0 ELSE sum[k - 1] + w[k]
    IN  sum[Len(w)]

\* add_total_precinct and add_total_pband
Area(res) == res.num[1] * res.num[2]
Precincts(comps) == [n \in DOMAIN Built(comps) |-> Area(Built(comps)[n])]
TotalPrecinct(comps) == Total(Precincts(comps))
\* Mutant: one subband for each precinct.
TotalPbandOne(comps) == TotalPrecinct(comps)
Pbands(comps) ==
    [n \in DOMAIN Built(comps) |-> Area(Built(comps)[n]) * Len(Built(comps)[n].bands)]
TotalPband(comps) == Total(Pbands(comps))

Lcm(a, b) == CHOOSE m \in 1 .. a * b : /\ m % a = 0 /\ m % b = 0
                                      /\ \A k \in 1 .. m - 1 : k % a # 0 \/ k % b # 0

\* PPxy: the grid the loops step by.
Pitch(comps, i) ==
    LET p[c \in 0 .. Len(comps)] == IF c = 0 THEN 1 ELSE Lcm(p[c - 1], comps[c].cb[i])
    IN  p[Len(comps)]

Steps(comps, tile, i) == {x \in 0 .. tile[i] - 1 : x % Pitch(comps, i) = 0}

\* The positions <<r, y, x, c>> the loops visit, and the order they do it in.
Visits(comps, tile) ==
    Resolutions \X Steps(comps, tile, 2) \X Steps(comps, tile, 1) \X DOMAIN comps

Earlier(order, v, w) ==
    LET Loops(u) == IF order = RPCL THEN u ELSE <<u[2], u[3], u[4], u[1]>>
    IN  \E i \in 1 .. 4 : /\ Loops(v)[i] < Loops(w)[i]
                           /\ \A j \in 1 .. i - 1 : Loops(v)[j] = Loops(w)[j]

\* Mutant: the subsampling of the component is left out.
StartsUnsampled(comps, v) ==
    LET res == comps[v[4]].res[v[1]]
    IN  /\ res.dir = BOTH => v[2] % (2 * Pitch(comps, 2)) = 0
        /\ v[3] % pow2[res.shift[1]] = 0
        /\ v[2] % pow2[res.shift[2]] = 0

\* construct_precinct's conditions. With the image at the origin (the
\* assertions on XOsiz and YOsiz) the second alternative, x = XOsiz, is
\* never the one that decides.
Starts(comps, v) ==
    LET c == comps[v[4]]
        res == c.res[v[1]]
    IN  /\ res.dir = BOTH => v[2] % (2 * Pitch(comps, 2)) = 0
        /\ v[3] % (c.R[1] * pow2[res.shift[1]]) = 0
        /\ v[2] % (c.R[2] * pow2[res.shift[2]]) = 0

\* A table entry: the precinct's place p in its resolution is counted, x
\* first, and its region follows from p. It has a subband for each of its
\* resolution's.
Entry(comps, v, p, count) ==
    LET c == comps[v[4]]
        res == c.res[v[1]]
        xy == <<p % res.num[1], p \div res.num[1]>>
    IN  [comp |-> c.index, r |-> v[1], at |-> <<v[3], v[2]>>, xy |-> xy,
         PID |-> c.index + count * Len(comps),
         region |-> [i \in Axis |-> PrecinctRange(res.range[i], pow2[c.psize[v[1]][i]], xy[i])],
         bands |-> NumSubband([r \in Resolutions |-> c.res[r].dir], v[1])]

\* Where construct_precinct adds to the table: current_pcount is the number
\* of the resolution's precincts so far, as x and y with x < num.x;
\* cmp_prc_count that of the component's.
Before(S, order, v, rs) ==
    Cardinality({w \in S : w[4] = v[4] /\ w[1] \in rs /\ Earlier(order, w, v)})

BuildTable(comps, tile, order) ==
    LET S == {v \in Visits(comps, tile) : Starts(comps, v)}
        place == [v \in S |-> Cardinality({w \in S : Earlier(order, w, v)})]
    IN  [k \in 1 .. Cardinality(S) |->
            LET v == CHOOSE u \in S : place[u] = k - 1
            IN  Entry(comps, v, Before(S, order, v, {v[1]}), Before(S, order, v, Resolutions))]

-----------------------------------------------------------------------------
(* j2k_parent_resource: one block of memory cut into an arena per type.    *)

\* prev_allocate: the arenas of types of the given sizes and alignments,
\* one for each number of objects. The padding that aligns a type is in the
\* total and not in the pointers, each of which counts only the one arena
\* before it.
Arenas(counts, size, align) ==
    LET bytes == [i \in DOMAIN counts |-> counts[i] * size[i]]
        total[i \in 0 .. Len(counts)] ==
            IF i = 0 THEN 0
            ELSE LET mod == total[i - 1] % align[i]
                 IN  total[i - 1] + (IF mod = 0 THEN 0 ELSE align[i] - mod) + bytes[i]
    IN  [total |-> total[Len(counts)],
         arena |-> [i \in DOMAIN counts |->
                       [pointer |-> IF i = 1 THEN 0 ELSE bytes[i - 1],
                        length |-> bytes[i], ok |-> TRUE]]]

\* j2k_child_resource::do_allocate: bad_alloc when the rest is too small or
\* starts unaligned.
do_allocate(a, bytes, align) ==
    IF ~a.ok \/ bytes > a.length \/ a.pointer % align # 0 THEN [a EXCEPT !.ok = FALSE]
    ELSE [a EXCEPT !.pointer = @ + bytes, !.length = @ - bytes]

\* The allocations of build_table: the table at once, then the subbands of
\* each precinct as it is put into the table.
TableFits(mem, comps, table, size, align) ==
    LET prc == do_allocate(mem.arena[1], TotalPrecinct(comps) * size[1], align[1])
        bands[k \in 0 .. Len(table)] ==
            IF k = 0 THEN mem.arena[2]
            ELSE do_allocate(bands[k - 1], table[k].bands * size[2], align[2])
    IN  prc.ok /\ bands[Len(table)].ok
=============================================================================
