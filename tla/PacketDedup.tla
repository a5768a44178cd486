---------------------------- MODULE PacketDedup ----------------------------
(***************************************************************************)
(* One instance of the duplicate filter of include/dedup_utils.h and the   *)
(* calls it answers.  The digipeater, the iGate and the query handler each *)
(* own one; nothing is shared between them.                                *)
(*                                                                         *)
(* clock is the true time since boot; the ring sees only Millis(clock).    *)
(***************************************************************************)
EXTENDS DedupRing, Sequences

VARIABLES
  buf,       \* the entries, slot number -> [hash, seenAt]
  head,      \* the slot the next new packet overwrites
  clock,     \* true time since boot (history: the code reads Millis)
  accepted,  \* history: the calls that answered "new", in order
  suppressed \* history: the last call that answered "duplicate", if any

vars == <<buf, head, clock, accepted, suppressed>>

Call    == [hash : Word, at : Nat]
Refusal == [hash : Word, at : Nat, after : Nat]

IsDuplicate(h) == Holds(buf, h, clock)

-----------------------------------------------------------------------------

Init ==
  /\ buf        = [k \in Slot |-> Blank]
  /\ head       = 0
  /\ clock      = 0
  /\ accepted   = <<>>
  /\ suppressed = {}

(* isNew() answering true: the packet is recorded at head. *)
Accept(h) ==
  /\ ~IsDuplicate(h)
  /\ buf'      = Recorded(buf, head, h, clock)
  /\ head'     = NextSlot(head)
  /\ accepted' = Append(accepted, [hash |-> h, at |-> clock])
  /\ UNCHANGED <<clock, suppressed>>

(* isNew() answering false: nothing changes, not even the stamp. *)
Suppress(h) ==
  /\ IsDuplicate(h)
  /\ suppressed' = {[hash |-> h, at |-> clock, after |-> Len(accepted)]}
  /\ UNCHANGED <<buf, head, clock, accepted>>

(* Time passes between two received packets. *)
Advance ==
  /\ clock' = clock + 1
  /\ UNCHANGED <<buf, head, accepted, suppressed>>

Next ==
  \/ \E h \in Word : Accept(h)
  \/ \E h \in Word : Suppress(h)
  \/ Advance

Spec == Init /\ [][Next]_vars

-----------------------------------------------------------------------------

TypeOK ==
  /\ buf \in [Slot -> Entry]
  /\ head \in Slot
  /\ clock \in Nat
  /\ accepted \in Seq(Call)
  /\ suppressed \in SUBSET Refusal

(* A pair is answered "new" twice within the TTL only after Slots other    *)
(* packets were recorded in between: isNew() forgets by eviction and in no *)
(* other way, whatever the clock has wrapped to (dedup_utils.h:22-31).     *)
RepeatNeedsEviction ==
  \A i, j \in 1..Len(accepted) :
    /\ i < j
    /\ accepted[i].hash = accepted[j].hash
    /\ accepted[j].at - accepted[i].at < TTL
    => j - i > Slots

(* A pair is answered "duplicate" only with a cause: one of the Slots      *)
(* packets accepted last before the call is the same pair and its wrapped  *)
(* age is below the TTL, or the pair hashes to the zero of a slot not yet  *)
(* written and the wrapped clock is below the TTL (dedup_utils.h:25-27).   *)
SuppressionHasCause ==
  \A s \in suppressed :
    \/ \E i \in 1..s.after :
         /\ i > s.after - Slots
         /\ accepted[i].hash = s.hash
         /\ (s.at - accepted[i].at) % Wrap < TTL
    \/ s.hash = 0 /\ Millis(s.at) < TTL /\ s.after < Slots
=============================================================================
