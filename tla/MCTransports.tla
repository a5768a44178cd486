---------------------------- MODULE MCTransports ----------------------------
(* Packets with the bytes that need an escape, one of them of the          *)
(* tracker's own callsign, a frame that overflows every buffer, and a      *)
(* phone that knows the first of two PINs only.                            *)
EXTENDS Transports

MCBytes    == {"FEND", "FESC", "TFEND", "TFESC", "Data", "Cmd", "x", "a", "b"}
MCPayloads == <<<<"FEND">>, <<"FESC", "TFEND">>, <<"a">>, <<"b">>>>
MCOwn      == {<<"a">>}
MCLong     == [i \in 1 .. 7 |-> "x"]
MCKnows    == [phone \in Phones |-> {"1111"}]
MCOddForms == {"command", "empty", "long", "fend"}
=============================================================================
