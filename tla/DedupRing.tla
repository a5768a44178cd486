----------------------------- MODULE DedupRing -----------------------------
(***************************************************************************)
(* The duplicate filter of include/dedup_utils.h as operators on its data: *)
(* a ring of Slots entries, each the djb2 hash of a (sender, payload) pair *)
(* and the millis() stamp of the call that recorded it.  The ring compares *)
(* hashes and nothing else.  Zero is a hash like any other, and it is also *)
(* what the zero-initialised slots hold.                                   *)
(***************************************************************************)
EXTENDS Integers

CONSTANTS
  Slots,     \* SLOTS, 50 in the firmware
  TTL,       \* TTL, 60000 ms in the firmware
  Wrap       \* 2^32: the modulus of uint32_t

ASSUME SlotsAssumption == Slots \in Nat \ {0}
ASSUME WrapAssumption  == Wrap \in Nat \ {0} /\ TTL \in 1..Wrap

(* The values of a uint32_t: djb2 hashes and millis() stamps. *)
Word  == 0..(Wrap - 1)
Slot  == 0..(Slots - 1)
Entry == [hash : Word, seenAt : Word]
Blank == [hash |-> 0, seenAt |-> 0]

(* millis() at true time t. *)
Millis(t) == t % Wrap

(* now - seenAt in uint32_t arithmetic. *)
Age(t, entry) == (Millis(t) - entry.seenAt) % Wrap

(* Mutant: the scan stops one slot short. *)
HoldsShortScan(buf, h, t) ==
  \E k \in Slot \ {Slots - 1} : buf[k].hash = h /\ Age(t, buf[k]) < TTL

(* The scan of isNew(): some slot, whichever, holds the hash with an age   *)
(* below the TTL at time t.                                                *)
Holds(buf, h, t) == \E k \in Slot : buf[k].hash = h /\ Age(t, buf[k]) < TTL

(* Mutant: the head runs past the last slot. *)
NextSlotUnbounded(k) == k + 1

(* The slot after k. *)
NextSlot(k) == (k + 1) % Slots

(* What isNew() writes for a new packet: the entry at head. *)
Recorded(buf, head, h, t) ==
  [buf EXCEPT ![head] = [hash |-> h, seenAt |-> Millis(t)]]
=============================================================================
