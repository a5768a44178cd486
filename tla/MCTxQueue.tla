----------------------------- MODULE MCTxQueue -----------------------------
(***************************************************************************)
(* Small instance of TxQueue: a queue of two, so that a third packet       *)
(* displaces the first, and a clock of a few ms that wraps many times.     *)
(***************************************************************************)
EXTENDS TxQueue

MCAirTimes == {1}
=============================================================================
