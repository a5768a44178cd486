----------------------------- MODULE MCMessages -----------------------------
(***************************************************************************)
(* Two stations.  A knows the token and writes; B does not, writes all the *)
(* same, and asks.                                                         *)
(***************************************************************************)
EXTENDS Messages

Text(op)       == [op |-> op, token |-> "", batch |-> <<>>]
Try(token)     == [Text("CSU") EXCEPT !.token = token]
Write(batch)   == [Text("CSW") EXCEPT !.batch = batch]
Pair(c, v)     == [code |-> c, value |-> v]
Msg(from, text, no, hash) ==
  [from |-> from, to |-> "us", text |-> text, no |-> no, hash |-> hash]

MCToken == "secret"
MCInitConfig == [RO |-> 0, GS |-> 0, BR |-> 0, LA |-> 0]

MCMessages ==
  {Msg("A", Try("secret"), 0, 1),
   Msg("A", Write(<<Pair("BR", 1), Pair("RO", 1)>>), 2, 2),
   Msg("A", Write(<<Pair("BR", 2), Pair("GS", Bad)>>), 0, 3),
   Msg("B", Try("guess"), 0, 4),
   Msg("B", Write(<<Pair("BR", 3)>>), 0, 5),
   Msg("B", Text("?other"), 0, 6),
   Msg("B", Text("ack"), 0, 7)}

(* Numbered messages: one is answered through the queue, and may make the  *)
(* device reboot, the other with a beacon.                                 *)
MCNumbered ==
  {Msg("A", Try("secret"), 0, 1),
   Msg("A", Write(<<Pair("BR", 1), Pair("RO", 1)>>), 2, 2),
   Msg("B", Text("?APRSP"), 3, 3)}

(* A position that is fixed at first, for the write that unfixes it. *)
MCFixedConfig == [MCInitConfig EXCEPT !.GS = GPS_FIXED]
MCMoves ==
  {Msg("A", Try("secret"), 0, 1),
   Msg("A", Write(<<Pair("GS", 0), Pair("LA", 5)>>), 2, 2)}
=============================================================================
