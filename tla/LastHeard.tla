----------------------------- MODULE LastHeard -----------------------------
(***************************************************************************)
(* What the heard-station log promises, without its ring.  last holds, for *)
(* every station that was ever heard, when its last packet came in and     *)
(* whether it came directly; known is that map cut down to the stations    *)
(* that are remembered.  Hearing a packet puts its station and its report  *)
(* into both, and a station is forgotten only to make room for one that    *)
(* was not known, one for one, and only when the log is full.              *)
(***************************************************************************)
EXTENDS Integers, FiniteSets

CONSTANTS Calls, HeardSlots, Reports

VARIABLES last, known   \* stations -> reports

Init == last = <<>> /\ known = <<>>

(* A packet of the station came in.                                        *)
LastAfter(call, report) ==
  [c \in DOMAIN last \cup {call} |-> IF c = call THEN report ELSE last[c]]

Hear(call, report) ==
  \E forgotten \in {{}} \cup {{c} : c \in DOMAIN known} :
    LET kept == DOMAIN known \ forgotten
    IN  /\ call \in DOMAIN known \/ Cardinality(DOMAIN known) < HeardSlots
             => forgotten = {}
        /\ Cardinality(kept \cup {call}) <= HeardSlots
        /\ last'  = LastAfter(call, report)
        /\ known' = [c \in kept \cup {call} |-> last'[c]]

Next == \E call \in Calls, report \in Reports : Hear(call, report)

Spec == Init /\ [][Next]_<<last, known>>
=============================================================================
