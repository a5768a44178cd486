----------------------------- MODULE HeardLog ------------------------------
(***************************************************************************)
(* The heard-station log of station_utils.cpp as operators on its data: a  *)
(* ring of HeardSlots entries, a head and a count.  A station that is in   *)
(* the log is updated where it stands; a new one is written at the head.   *)
(***************************************************************************)
EXTENDS Integers, Sequences, FiniteSets, FiniteSetsExt

CONSTANT HeardSlots   \* HEARD_SLOTS, 20

ASSUME HeardSlotsAssumption == HeardSlots \in Nat \ {0}

EmptyLog == [entry |-> <<>>, heardHead |-> 0, heardCount |-> 0]

(* The walk of every reader: i steps back from the newest insertion.       *)
Walk(log, i) == (log.heardHead + HeardSlots - 1 - i) % HeardSlots

(* The entry a reader finds for a station, if any: the first on the walk.  *)
Found(log, call) ==
  {i \in 0 .. log.heardCount - 1 : log.entry[Walk(log, i)].callsign = call}

EntryOf(log, call) == log.entry[Walk(log, Min(Found(log, call)))]

Report(call, now, isDirect) == [callsign |-> call, timestamp |-> now, isDirect |-> isDirect]

Inserted(log, report) ==
  [entry      |-> [k \in DOMAIN log.entry \cup {log.heardHead} |->
                     IF k = log.heardHead THEN report ELSE log.entry[k]],
   heardHead  |-> (log.heardHead + 1) % HeardSlots,
   heardCount |-> Min({log.heardCount + 1, HeardSlots})]

(* Mutant: a station that is in the log keeps its old time.                *)
UpdateLastHeardStale(log, call, now, isDirect) ==
  IF Found(log, call) # {}
  THEN [log EXCEPT !.entry[Walk(log, Min(Found(log, call)))].isDirect = isDirect]
  ELSE Inserted(log, Report(call, now, isDirect))

(* updateLastHeard(): where the station stands, or at the head.            *)
UpdateLastHeard(log, call, now, isDirect) ==
  IF Found(log, call) # {}
  THEN [log EXCEPT !.entry[Walk(log, Min(Found(log, call)))] = Report(call, now, isDirect)]
  ELSE Inserted(log, Report(call, now, isDirect))

(* minutesSinceHeard() < window, for a station that is in the log.         *)
HeardSince(log, call, now, window) ==
  Found(log, call) # {} /\ now - EntryOf(log, call).timestamp < window

(* wasHeardDirect().                                                       *)
WasHeardDirect(log, call, now, window) ==
  HeardSince(log, call, now, window) /\ EntryOf(log, call).isDirect
=============================================================================
