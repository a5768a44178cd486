---------------------------- MODULE MCIGateLink ----------------------------
(* Two access points, each in a slot of the list; an edit may leave a slot *)
(* without a name, take one away or add a third.                           *)
EXTENDS IGateLink

CONSTANTS a, b

MCSsids == {a, b}
MCList  == <<a, b>>
=============================================================================
