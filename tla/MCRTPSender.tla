----------------------------- MODULE MCRTPSender -----------------------------
(***************************************************************************)
(* Recordings for the model checker: frames of a main packet and two or    *)
(* three body packets, with numbers near their wrap-around.                *)
(***************************************************************************)
EXTENDS FrameScan, TLC

\* A block: m marks the last packet of a frame, flag the bit of a resync point.
Block(ts, seq, flag, m) ==
    [ok |-> TRUE, cut |-> FALSE, M |-> m, flag |-> flag, ts |-> ts, seq |-> seq]

TwoFrames(t1, t2) ==
    <<Block(t1, 13, FALSE, FALSE), Block(t1, 14, TRUE, FALSE), Block(t1, 15, TRUE, TRUE),
      Block(t2, 0, FALSE, FALSE), Block(t2, 1, TRUE, FALSE), Block(t2, 2, FALSE, TRUE)>>

LastWith(f, field) == [f EXCEPT ![Len(f)] = field @@ @]

MCFiles ==
    {TwoFrames(5, 7),
     TwoFrames(15, 1),                               \* the timestamp wraps around
     Append(TwoFrames(5, 7), Block(9, 3, FALSE, FALSE)),     \* no end to the last frame
     LastWith(TwoFrames(5, 7), "cut" :> TRUE),           \* cut off by the end of the file
     LastWith(TwoFrames(5, 7), "ok" :> FALSE),
     TwoFrames(5, 5),                                \* a period of 0
     TwoFrames(5, 13),                               \* over twice the media clock
     SubSeq(TwoFrames(5, 7), 1, 3),                  \* one frame
     SubSeq(TwoFrames(5, 7), 1, 2)}

MCRates == {SIZE_MAX, 0, 2}

MCRecordings == UNION {[1 .. n -> [MH: BOOLEAN, M: BOOLEAN]] : n \in 1 .. 5}
=============================================================================
