------------------------------ MODULE FrameScan ------------------------------
(***************************************************************************)
(* RTP_show and filep (file_parse.cpp): the tools that pick the frames     *)
(* "first-last" out of a recording, to print their packets or to write     *)
(* their code-streams. Like the sender they read it with RTP_file.         *)
(***************************************************************************)
EXTENDS RTPSender

CONSTANT Recordings     \* packets [MH, M]: of a main header, the last of a frame

ASSUME RecordingsAssumption == \A r \in Recordings : r \in Seq([MH: BOOLEAN, M: BOOLEAN])

\* Mutant: frames are counted where they end.
CountedAtEnd(frm, packet) == frm + (IF packet.M THEN 1 ELSE 0)

Counted(frm, packet) == frm + (IF packet.MH THEN 1 ELSE 0)

\* How far the loop over the packets is, counted from 1: the range found,
\* and the numbers the printing starts with. It is done at the end of the
\* last frame.
Scanned(inv, s, packet, k) ==
    LET frm == Counted(s.frm, packet)
        begins == packet.MH /\ frm = inv.first
        ends == packet.M /\ frm = inv.last
    IN  [frm |-> frm, done |-> ends,
         first |-> IF begins THEN k ELSE s.first,
         num_frame |-> IF begins THEN frm - 1 ELSE s.num_frame,
         num_packet |-> IF begins THEN k ELSE s.num_packet,
         last |-> IF ends THEN k ELSE s.last]

frame_range(recording, inv) ==
    LET scan[k \in 0 .. Len(recording)] ==
            IF k = 0
            THEN [frm |-> 0, first |-> 1, last |-> 0, num_frame |-> 0, num_packet |-> 0, done |-> FALSE]
            ELSE IF scan[k - 1].done THEN scan[k - 1]
            ELSE Scanned(inv, scan[k - 1], recording[k], k)
    IN  scan[Len(recording)]

\* What is printed of each packet of the range: which frame and which packet
\* of the recording it is said to be.
Printed(recording, inv) ==
    LET s == frame_range(recording, inv)
        Mains(k) == Cardinality({j \in s.first .. k : recording[j].MH})
    IN  [k \in s.first .. s.last |->
            [num_frame |-> s.num_frame + Mains(k), num_packet |-> s.num_packet + k - s.first]]
-----------------------------------------------------------------------------
\* Frames begin with their one main packet and end with their marker bit. The
\* recording may begin or end within a frame. (A main header in two packets
\* counts as two frames.)
Whole(recording) ==
    \A k \in DOMAIN recording :
        /\ recording[k].M => k = Len(recording) \/ recording[k + 1].MH
        /\ recording[k].MH => k = 1 \/ recording[k - 1].M

\* Recordings are looked at once, with the sender not started.
AtStart == phase = "load" /\ ~enter /\ loops = 0

\* The frames a to b of a recording are found, all of their packets and no
\* others, and each packet is printed with the number of its frame and its
\* place in the recording.
FramesFound ==
    AtStart => \A r \in {w \in Recordings : Whole(w)} :
        LET FrameOf(k) == Cardinality({j \in 1 .. k : r[j].MH})
            Ends(n) == \E k \in DOMAIN r : FrameOf(k) = n /\ r[k].M
        IN  \A b \in 1 .. FrameOf(Len(r)) : Ends(b) => \A a \in 1 .. b :
                LET shown == Printed(r, [first |-> a, last |-> b])
                IN  /\ DOMAIN shown = {k \in DOMAIN r : FrameOf(k) \in a .. b}
                    /\ \A k \in DOMAIN shown :
                          shown[k].num_frame = FrameOf(k) /\ shown[k].num_packet = k
=============================================================================
