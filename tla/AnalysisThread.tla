----------------------------- MODULE AnalysisThread -----------------------------
(***************************************************************************)
(* The analysis thread of main.cpp on top of RTPReceiver: it reads the     *)
(* first main header, then after every load_body_packet parses the         *)
(* precincts of the table that are now complete, moves on in the table     *)
(* after a loss, and after a buffer_leak discards up to a main header.     *)
(*                                                                         *)
(* The table of precincts stands in order; the chunks of a frame's code    *)
(* stream are numbered, precinct p being chunks FirstChunk[p] up to        *)
(* FirstChunk[p + 1] - 1 and the EOC marker the chunk after the last one.  *)
(***************************************************************************)
EXTENDS RTPReceiver, FiniteSets

CONSTANTS
    Table,          \* j2k_packet_table: the PID of every precinct, in order
    FirstChunk,     \* the first chunk of every precinct, and the EOC chunk
    ParserThrows    \* read_packet may meet an empty J2K packet and throw

TableSize == Len(Table)
Index == 0 .. TableSize - 1

ASSUME TableAssumption ==
    Table \in Seq(Nat) \ {<<>>} /\ FirstChunk \in [0 .. TableSize -> Nat]
ASSUME ParserAssumption == ParserThrows \in BOOLEAN

table(k) == Table[k + 1]

VARIABLES
    phase,              \* "main header", "body", "dest", "finished" or "aborted"
    table_index,
    analysis_frame,
    leaked,             \* history: buffer_leak was thrown
    garbage,            \* history: data was parsed as what it is not
    parsed              \* history: the <<frame, precinct>>s parsed correctly

loopVars == <<phase, table_index, analysis_frame>>
parseVars == <<leaked, garbage, parsed>>
vars == <<rtpVars, loopVars, parseVars>>

TypeOK ==
    /\ RTPTypeOK
    /\ phase \in {"main header", "body", "dest", "finished", "aborted"}
    /\ table_index \in Index
    /\ analysis_frame \in Nat
    /\ leaked \in BOOLEAN
    /\ garbage \in BOOLEAN
    /\ parsed \subseteq (1 .. Frames) \X Index

Init ==
    /\ RTPInit
    /\ phase = "main header"
    /\ table_index = 0
    /\ analysis_frame = 0
    /\ leaked = FALSE
    /\ garbage = FALSE
    /\ parsed = {}

(* The head of the loop: the next load_body_packet is called. *)
CallLoadBody(segments) ==
    /\ phase' = "body"
    /\ call' = "load_body_packet"
    /\ result' = "none"
    /\ j2k_packets' = segments

Leaked ==
    /\ phase' = "dest"
    /\ call' = "none"
    /\ result' = "none"
    /\ leaked' = TRUE

--------------------------------------------------------------------------------
LoadPacket ==
    /\ \E i \in 1 .. Terminator : Load(i)
    /\ UNCHANGED <<loopVars, parseVars>>

(* main_header.read and j2k_tile.init take the first segment loaded for a   *)
(* main header.  On anything else the table is garbage or, with a marker    *)
(* segment missing, the program ends there.                                 *)
MainChunk == -1

StartsWithMainHeader(data) == data # <<>> /\ data[1][2] = MainChunk

ReadMainHeader ==
    /\ phase = "main header"
    /\ result = "MAIN_HEADER"
    /\ garbage' = ~StartsWithMainHeader(FlattenSeq(j2k_packets))
    /\ \/ CallLoadBody(EraseAllButLast)
       \/ /\ garbage'
          /\ phase' = "aborted"
          /\ UNCHANGED <<call, result, j2k_packets>>
    /\ UNCHANGED <<networkVars, pre_sequence_number, PID, gapVars,
                   table_index, analysis_frame, leaked, parsed>>

(* The first table entry from k on whose PID is pid, or the end of the      *)
(* table.                                                                   *)
FirstWithPID(k, pid) ==
    CHOOSE t \in k .. TableSize :
        /\ t = TableSize \/ table(t) = pid
        /\ \A u \in k .. t - 1 : table(u) # pid

(* What the parser consumes for the entries k .. t - 1, and the EOC marker  *)
(* behind the last precinct.                                                *)
Needed(k, t) == FirstChunk[t] - FirstChunk[k] + IF t = TableSize THEN 1 ELSE 0

(* j2k_packets hold, from the first byte on, the data of entries k .. t - 1 *)
(* of frame f.                                                              *)
Holds(segments, f, k, t) ==
    /\ Len(segments) >= Needed(k, t)
    /\ \A c \in 1 .. Needed(k, t) : segments[c] = <<f, FirstChunk[k] + c - 1>>

(* Mutant: table_index is not reset at the end of the table. *)
ParsedWithoutReset(t) ==
    /\ table_index' = t
    /\ analysis_frame' = analysis_frame + IF t = TableSize THEN 1 ELSE 0
    /\ CallLoadBody(IF t = TableSize THEN <<>> ELSE EraseAllButLast)

(* SUCCESS: read_packet for every entry before the resync point's precinct; *)
(* at the end of the table the EOC marker, terminate() and frame_update().  *)
ParsedUpTo(t) ==
    IF t = TableSize
    THEN /\ table_index' = 0
         /\ analysis_frame' = analysis_frame + 1
         /\ CallLoadBody(<<>>)
    ELSE /\ table_index' = t
         /\ UNCHANGED analysis_frame
         /\ CallLoadBody(EraseAllButLast)

Success ==
    /\ phase = "body"
    /\ result = "SUCCESS"
    /\ LET data == FlattenSeq(j2k_packets)
           t == FirstWithPID(table_index, PID)
           frames == {f \in 1 .. Frames : Holds(data, f, table_index, t)}
       IN  \/ /\ frames # {} \/ Needed(table_index, t) = 0
              /\ ParsedUpTo(t)
              /\ parsed' = parsed \cup (frames \X (table_index .. t - 1))
              /\ UNCHANGED <<garbage, leaked>>
           \/ /\ frames = {} /\ Needed(table_index, t) > 0
              /\ garbage' = TRUE
              /\ UNCHANGED parsed
              /\ \/ ParsedUpTo(t) /\ UNCHANGED leaked
                 \/ Leaked /\ UNCHANGED <<table_index, analysis_frame, j2k_packets>>
                 \/ /\ t = TableSize
                    /\ phase' = "aborted"
                    /\ UNCHANGED <<call, result, leaked, table_index,
                                   analysis_frame, j2k_packets>>
           \/ /\ ParserThrows /\ t > table_index
              /\ Leaked
              /\ UNCHANGED <<garbage, parsed, table_index, analysis_frame, j2k_packets>>
    /\ UNCHANGED <<networkVars, pre_sequence_number, PID, gapVars>>

(* MAIN_HEADER: the header of a later frame is not read again. *)
MainHeader ==
    /\ phase = "body"
    /\ result = "MAIN_HEADER"
    /\ CallLoadBody(EraseAllButLast)
    /\ UNCHANGED <<networkVars, pre_sequence_number, PID, gapVars,
                   table_index, analysis_frame, parseVars>>

(* On through the table from entry k to the precinct of the resync point,   *)
(* over the end of the table and one frame_update() if need be.  A PID that *)
(* no entry has would make the loop endless.                                *)
SkipFrom(k) ==
    IF FirstWithPID(k, PID) < TableSize
    THEN table_index' = FirstWithPID(k, PID) /\ UNCHANGED analysis_frame
    ELSE /\ FirstWithPID(0, PID) < TableSize
         /\ table_index' = FirstWithPID(0, PID)
         /\ analysis_frame' = analysis_frame + 1

(* Mutant: table_index moves before the first comparison. *)
SkipPastFirst == SkipFrom(table_index + 1)

SkipToPID == SkipFrom(table_index)

(* FAILURE: the precincts up to the resync point are skipped. *)
Failure ==
    /\ phase = "body"
    /\ result = "FAILURE"
    /\ SkipToPID
    /\ CallLoadBody(EraseAllButLast)
    /\ UNCHANGED <<networkVars, pre_sequence_number, PID, gapVars, parseVars>>

(* buffer_leak out of load_body_packet. *)
Catch ==
    /\ phase = "body"
    /\ result = "buffer_leak"
    /\ Leaked
    /\ UNCHANGED <<networkVars, j2k_packets, pre_sequence_number, PID, gapVars,
                   table_index, analysis_frame, garbage, parsed>>

(* buffer.dest: discard up to a main header or the terminator.  The         *)
(* receiver keeps its segments and its sequence number.                     *)
Dest ==
    /\ phase = "dest"
    /\ \E i \in 1 .. Terminator :
          /\ BufferPop(i)
          /\ \/ /\ i = Terminator
                /\ phase' = "finished"
                /\ table_index' = 0
                /\ UNCHANGED <<call, result, j2k_packets>>
             \/ /\ i # Terminator /\ Pkt(i).MH
                /\ table_index' = 0
                /\ CallLoadBody(EraseAllButLast)
             \/ /\ i # Terminator /\ ~Pkt(i).MH
                /\ UNCHANGED <<phase, table_index, call, result, j2k_packets>>
    /\ UNCHANGED <<pre_sequence_number, PID, gapVars, analysis_frame, parseVars>>

(* Mutant: the loop goes on after FINISH. *)
FinishIgnored ==
    /\ phase \in {"main header", "body"}
    /\ result = "FINISH"
    /\ CallLoadBody(j2k_packets)
    /\ UNCHANGED <<networkVars, pre_sequence_number, PID, gapVars,
                   table_index, analysis_frame, parseVars>>

(* FINISH, from load_main_packet or load_body_packet. *)
Finished ==
    /\ phase \in {"main header", "body"}
    /\ result = "FINISH"
    /\ phase' = "finished"
    /\ UNCHANGED <<rtpVars, table_index, analysis_frame, parseVars>>

(* A failed assertion or an uncaught exception ends the program. *)
Abort ==
    /\ phase \in {"main header", "body"}
    /\ result = "aborted"
    /\ phase' = "aborted"
    /\ UNCHANGED <<rtpVars, table_index, analysis_frame, parseVars>>

Next ==
    \/ LoadPacket \/ ReadMainHeader \/ Success \/ MainHeader \/ Failure
    \/ Catch \/ Dest \/ Finished \/ Abort

Spec == Init /\ [][Next]_vars

(* The receive thread feeds the ring until it pushes the terminator, and    *)
(* the analysis thread is scheduled.                                        *)
FairSpec == Spec /\ WF_vars(Next)

--------------------------------------------------------------------------------
(* The streams the theorems of AnalysisThreadProofs are about. *)

(* The furthest precinct that starts at a resync point of packets 1 .. k.   *)
Entry(k) == Max({0} \cup {e \in Index : \E j \in 1 .. k :
                   Layout[j].ORDB /\ table(e) = Layout[j].PID % PIDModulus})

(* The precincts are sent in the order of the table, which starts with PID  *)
(* 0, and the bits get_body_PID keeps suffice to find them in it; the       *)
(* marker bit is on the last packet of a frame, which has no resync point.  *)
InTableOrder ==
    /\ table(0) = 0
    /\ \A k \in DOMAIN Layout :
          /\ Layout[k].M <=> k = Len(Layout)
          /\ Layout[k].ORDB => k # Len(Layout)
          /\ Layout[k].ORDB => table(Entry(k)) = Layout[k].PID % PIDModulus

(* The packet up to k behind which the parser was called last: what came    *)
(* after it are the segments kept for the next call.                        *)
LastParse(k) == Max({j \in 1 .. k : Layout[j].MH \/ Layout[j].ORDB})

(* One packet of main header, then body packets from the first precinct on, *)
(* at least one of which begins another precinct; no two precincts have the *)
(* same PID; the segments between two resync points fit into j2k_packets.   *)
CutForReceiver ==
    /\ InTableOrder
    /\ \A d, e \in Index : table(d) = table(e) => d = e
    /\ Len(Layout) > 2
    /\ \A k \in DOMAIN Layout :
          /\ Layout[k].MH <=> k = 1
          /\ Layout[k].ORDB => k # 1
    /\ Layout[2].ORDB /\ Entry(2) = 0
    /\ Entry(Len(Layout)) > 0
    /\ \A k \in 2 .. Len(Layout) :
          k - LastParse(k - 1) + (IF Layout[k].ORDB THEN 2 ELSE 1) <= Capacity

(* The packets carry the code-stream from its first chunk to its EOC marker *)
(* without a hole, packet k from chunk start[k] on, and the precinct a       *)
(* resync point names starts there.                                         *)
Starts == [2 .. Len(Layout) + 1 -> 0 .. FirstChunk[TableSize] + 1]

CarriedFrom(start) ==
    /\ start[Len(Layout) + 1] = FirstChunk[TableSize] + 1
    /\ \A k \in 2 .. Len(Layout) :
          /\ start[k] <= start[k + 1]
          /\ Layout[k].head \o Layout[k].tail
                = [c \in 1 .. start[k + 1] - start[k] |-> start[k] + c - 1]
          /\ Layout[k].ORDB => FirstChunk[Entry(k)] = start[k] + Len(Layout[k].head)

CarriesCodestream ==
    /\ Layout[1].head \o Layout[1].tail # <<>>
    /\ (Layout[1].head \o Layout[1].tail)[1] = MainChunk
    /\ \E start \in Starts : CarriedFrom(start)

--------------------------------------------------------------------------------
(* Properties. *)

(* Every precinct the parser reads starts on that precinct's data and finds  *)
(* all of it, in one frame, unless a gap went unnoticed or the stream was    *)
(* joined without its first main header and body packet: receiver state      *)
(* (j2k_packets, PID) and loop state (table_index) stay aligned through      *)
(* losses, repeats, exceptions and resynchronisation.                        *)
GarbageOnlyAfterGap == garbage => unnoticed \/ headless

(* The same without an excuse, for the comments at RTP_header.hpp:475 and    *)
(* :411 (a loss is discarded up to a resync point; at a resync point the J2K *)
(* packets can be analysed).                                                 *)
BodyInSync == garbage => headless

(* Once a stream is joined at its start, nothing ends the program before the *)
(* terminator does: the assertion on j2k_packets (RTP_header.hpp:448) and    *)
(* the one on the EOC marker (main.cpp:437) hold, and push_back never finds  *)
(* j2k_packets full.                                                         *)
BodyNeverAborts ==
    [][phase = "body" /\ ~headless /\ ~unnoticed => phase' # "aborted"]_vars

(* A frame of which no packet was lost is parsed completely, whatever was    *)
(* lost before and after it, unless an exception skipped it or an unnoticed  *)
(* gap misled the receiver.                                                  *)
IntactFramesAreParsed ==
    phase = "finished" /\ ~unnoticed /\ ~headless /\ ~leaked
        => ((1 .. Frames) \ damaged) \X Index \subseteq parsed

(* frame_update() never runs ahead of the stream: the playback clock it      *)
(* advances never counts a frame the stream has not reached.                 *)
FrameCountNotAhead == analysis_frame <= FrameOf(next - 1)

(* The terminator ends the analysis thread wherever it finds it: in either   *)
(* loop of load_body_packet, in load_main_packet or in buffer.dest.          *)
Terminates == <>(phase \in {"finished", "aborted"})

================================================================================
