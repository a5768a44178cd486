--------------------------- MODULE MCDigiNetwork ---------------------------
(***************************************************************************)
(* Two infrastructure digipeaters that hear each other and a tracker T;    *)
(* two packets of T, a message of T to D2 and a beacon of D1.  One slot    *)
(* per ring, so that a second packet evicts the first and T's packets can  *)
(* come back to a digipeater that has forgotten them.                      *)
(***************************************************************************)
EXTENDS DigiNetwork

MCDigis   == {"D1", "D2"}
MCPackets == {"pos", "pos2", "msg", "beacon"}
MCSender  == [p \in MCPackets |-> IF p = "beacon" THEN "D1" ELSE "T"]
MCHash    == [p \in MCPackets |-> CASE p = "pos"    -> 1 [] p = "msg" -> 2
                                    [] p = "beacon" -> 3 [] p = "pos2" -> 4]
MCAddressee == [p \in MCPackets |-> IF p = "msg" THEN "D2" ELSE ""]
MCNoGate == {}
MCFirstPaths == [p \in MCPackets |->
  CASE p = "pos"    -> {<<Hop(WIDE1_1), Hop(WIDE2_2)>>, <<Hop(WIDE2_2)>>}
    [] p = "pos2"   -> {<<Hop(WIDE2_2)>>}
    [] p = "msg"    -> {<<Hop(WIDE1_1)>>}
    [] p = "beacon" -> {<<Hop(WIDE2_2)>>}]
MCHears   == [s \in {"T", "D1", "D2"} |-> MCDigis \ {s}]
MCMode    == [d \in MCDigis |-> "wide1+wide2"]
MCTactical == [d \in MCDigis |-> ""]
=============================================================================
