------------------------------- MODULE TxFifo -------------------------------
(***************************************************************************)
(* What the output queue promises the stations around it: packets leave in *)
(* the order they were queued, each at most once, and the only loss is     *)
(* that of the oldest waiting packet when a full queue takes another.      *)
(* Nothing is said of when a packet leaves.                                *)
(*                                                                         *)
(* Packets are numbered in queueing order, modulo Ids so that the numbers  *)
(* stay finite; Ids > Capacity keeps the waiting ones distinct.            *)
(***************************************************************************)
EXTENDS Integers

CONSTANTS
  Capacity,  \* packets that can wait
  Ids        \* modulus of the packet numbers

VARIABLES
  next,      \* number the next queued packet gets
  waiting,   \* how many packets wait: those numbered next - waiting .. next - 1
  keyed      \* the packet that left last, None before the first

vars == <<next, waiting, keyed>>

None   == -1
Number == 0..(Ids - 1)
Oldest == (next - waiting) % Ids

Init == next = 0 /\ waiting = 0 /\ keyed = None

Put ==
  /\ next' = (next + 1) % Ids
  /\ waiting' = IF waiting < Capacity THEN waiting + 1 ELSE waiting
  /\ UNCHANGED keyed

Take ==
  /\ waiting > 0
  /\ waiting' = waiting - 1
  /\ keyed' = Oldest
  /\ UNCHANGED next

Next == Put \/ Take

Spec == Init /\ [][Next]_vars
=============================================================================
