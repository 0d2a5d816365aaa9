--------------------------- MODULE MCAnalysisThread ---------------------------
(***************************************************************************)
(* Streams for the model checker.  A frame is a main header packet and the *)
(* body packets of a table of three precincts.                             *)
(***************************************************************************)
EXTENDS AnalysisThread

Header == [MH |-> TRUE, ORDB |-> FALSE, M |-> FALSE, PID |-> 0,
           head |-> <<>>, tail |-> <<MainChunk>>]

Resync(pid, head, tail, last) ==
    [MH |-> FALSE, ORDB |-> TRUE, M |-> last, PID |-> pid, head |-> head, tail |-> tail]

Plain(chunks, last) ==
    [MH |-> FALSE, ORDB |-> FALSE, M |-> last, PID |-> 0, head |-> <<>>, tail |-> chunks]

ThreePrecincts == <<0, 1, 2>>
ThreePrecinctChunks == 0 :> 0 @@ 1 :> 3 @@ 2 :> 5 @@ 3 :> 7

(* The last packet of a frame holds no resync point. *)
PlainEnd ==
    <<Header, Resync(0, <<>>, <<0>>, FALSE), Plain(<<1>>, FALSE),
      Resync(1, <<2>>, <<3, 4>>, FALSE), Resync(2, <<>>, <<5>>, FALSE),
      Plain(<<6, 7>>, TRUE)>>

(* The last precinct starts in the last packet. *)
ResyncEnd ==
    <<Header, Resync(0, <<>>, <<0, 1>>, FALSE), Resync(1, <<2>>, <<3>>, FALSE),
      Resync(2, <<4>>, <<5, 6, 7>>, TRUE)>>

(* One resync point in the whole frame. *)
SingleResync ==
    <<Header, Resync(0, <<>>, <<0, 1, 2, 3>>, FALSE), Plain(<<4, 5>>, FALSE),
      Plain(<<6, 7>>, TRUE)>>

(* What the theorems suppose of a stream is true of these. *)
ASSUME StreamsInOrder == Layout # ResyncEnd => InTableOrder
ASSUME PlainEndIsCut == Layout = PlainEnd => CutForReceiver /\ CarriesCodestream

================================================================================
