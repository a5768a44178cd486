--------------------------- MODULE Gateway_proofs ---------------------------
(***************************************************************************)
(* For any iGates, packets, filters and windows: nothing that has crossed  *)
(* between RF and APRS-IS crosses back through an iGate, and the log of    *)
(* every iGate, a ring with a head and a count, holds of every station     *)
(* that it has not forgotten the last packet that was received, and        *)
(* forgets one station at a time, when it is full.                         *)
(***************************************************************************)
EXTENDS Gateway, FiniteSetTheorems, TLAPS

(* A remainder is unique. *)
LEMMA RemainderUnique ==
  ASSUME NEW W \in Nat \ {0}, NEW k \in Int, NEW r \in 0..(W - 1)
  PROVE  (W * k + r) % W = r
<1> DEFINE y == W * k + r
           q == y \div W
           s == y % W
           m == k - q
<1>1. y \in Int /\ q \in Int /\ m \in Int /\ s \in 0..(W - 1)
  BY SMT
<1>2. y = W * q + s
  BY SMT
<1>3. W * m = s - r
  BY <1>1, <1>2, SMT
<1>4. ~(m >= 1)
  <2>1. m >= 1 => W * m >= W
    BY <1>1, SMT
  <2>2. QED
    BY <2>1, <1>1, <1>3
<1>5. ~(m <= -1)
  <2>1. m <= -1 => W * m <= -W
    BY <1>1, SMT
  <2>2. QED
    BY <2>1, <1>1, <1>3
<1>6. m = 0
  BY <1>1, <1>4, <1>5
<1>7. QED
  BY <1>1, <1>3, <1>6

(* A small number is its own remainder. *)
LEMMA SmallRemainder ==
  ASSUME NEW W \in Nat \ {0}, NEW r \in 0..(W - 1)
  PROVE  r % W = r
BY SMT

(* Every set of natural numbers that is not empty has a least one. *)
LEMMA LeastOf ==
  ASSUME NEW S \in SUBSET Nat, S # {}
  PROVE  \E m \in S : \A k \in S : m <= k
<1> DEFINE R == OpToRel(<, Nat)
<1>1. \A y, x \in Nat : y < x => <<y, x>> \in R
  BY DEF OpToRel
<1>2. IsWellFoundedOn(R, Nat)
  BY NatLessThanWellFounded
<1> HIDE DEF R
<1>3. PICK m \in S : \A k \in S : <<k, m>> \notin R
  BY <1>2, WFMin
<1>4. \A k \in S : m <= k
  <2> TAKE k \in S
  <2>1. k \in Nat /\ m \in Nat /\ ~(k < m)
    BY <1>1, <1>3
  <2>2. QED
    BY <2>1
<1>5. QED
  BY <1>4

-----------------------------------------------------------------------------

(* What is on its way between the gates.  What has crossed a border bears  *)
(* the mark by which the next gate knows it.                               *)
AirFrame == [pkt : Packets, from : Calls, wrapped : BOOLEAN, marked : BOOLEAN,
             direct : BOOLEAN, trip : {<<>>, <<"down">>}]
Line     == [pkt : Packets, q : {"none", "qAR", "qAO"}, trip : {<<>>, <<"up">>}]

MarkedFrames == {frame \in AirFrame : frame.trip = <<>> \/ frame.marked \/ frame.wrapped}
MarkedLines  == {line \in Line : line.trip = <<>> \/ line.q \in {"qAR", "qAO"}}

CrossingsAreMarked ==
  /\ inbox \in [Gates -> SUBSET MarkedFrames]
  /\ socket \in [Gates -> SUBSET MarkedLines]
  /\ outQueue \in [Gates -> SUBSET Packets]
  /\ clock \in 0 .. MaxClock

(* The ring of a log: the slots below the count hold a station each, and   *)
(* the head follows them until the ring is full.                           *)
LogEntry == [callsign : Calls, timestamp : 0 .. MaxClock, isDirect : BOOLEAN]

Logs == {log \in [entry      : UNION {[0 .. n - 1 -> LogEntry] : n \in 0 .. HeardSlots},
                  heardHead  : 0 .. HeardSlots - 1,
                  heardCount : 0 .. HeardSlots] :
           /\ log.entry \in [0 .. log.heardCount - 1 -> LogEntry]
           /\ log.heardCount < HeardSlots => log.heardHead = log.heardCount
           /\ \A j, k \in 0 .. log.heardCount - 1 :
                log.entry[j].callsign = log.entry[k].callsign => j = k}

LogsAreRings == heard \in [Gates -> Logs]

(* A log as a map from stations to what it says of their last packets; and *)
(* that is what was received last.                                         *)
Callsigns(log) == {log.entry[k].callsign : k \in DOMAIN log.entry}

MapOf(log) ==
  [c \in Callsigns(log) |->
     [at |-> EntryOf(log, c).timestamp, direct |-> EntryOf(log, c).isDirect]]

Reported == [at : 0 .. MaxClock, direct : BOOLEAN]

HoldsLast(log, packets) ==
  \A c \in Callsigns(log) : c \in DOMAIN packets /\ MapOf(log)[c] = packets[c]

LogsHoldLast ==
  /\ last \in [Gates -> UNION {[C -> Reported] : C \in SUBSET Calls}]
  /\ \A g \in Gates : HoldsLast(heard[g], last[g])

MarksAndRings == CrossingsAreMarked /\ LogsAreRings

IInv == MarksAndRings /\ LogsHoldLast

-----------------------------------------------------------------------------
(* The ring of a log. *)

(* A number below twice the modulus goes round once at most. *)
LEMMA OnceRound ==
  ASSUME NEW W \in Nat \ {0}, NEW x \in 0 .. 2 * W - 1
  PROVE  x % W = IF x < W THEN x ELSE x - W
<1>1. CASE x < W
  BY <1>1, SmallRemainder
<1>2. CASE ~(x < W)
  <2> DEFINE r == x - W
  <2>1. r \in 0 .. W - 1 /\ x = W * 1 + r
    BY <1>2
  <2> HIDE DEF r
  <2>2. (W * 1 + r) % W = r
    BY <2>1, RemainderUnique
  <2>3. QED
    BY <1>2, <2>1, <2>2 DEF r
<1>3. QED
  BY <1>1, <1>2

LEMMA NextHead ==
  ASSUME NEW hd \in 0 .. HeardSlots - 1
  PROVE  (hd + 1) % HeardSlots = IF hd + 1 < HeardSlots THEN hd + 1 ELSE 0
BY HeardSlotsAssumption

LEMMA LogType ==
  ASSUME NEW log \in Logs
  PROVE  /\ log.heardCount \in 0 .. HeardSlots /\ log.heardHead \in 0 .. HeardSlots - 1
         /\ log.heardCount \in Nat /\ HeardSlots \in Nat \ {0}
         /\ log.entry \in [0 .. log.heardCount - 1 -> LogEntry]
         /\ log.heardCount < HeardSlots => log.heardHead = log.heardCount
         /\ \A j, k \in 0 .. log.heardCount - 1 :
              log.entry[j].callsign = log.entry[k].callsign => j = k
BY HeardSlotsAssumption DEF Logs

(* The walk from the newest entry stays in the ring and passes every entry. *)
LEMMA WalkOnto ==
  ASSUME NEW log \in Logs
  PROVE  /\ \A i \in 0 .. log.heardCount - 1 : Walk(log, i) \in 0 .. log.heardCount - 1
         /\ \A k \in 0 .. log.heardCount - 1 :
              \E i \in 0 .. log.heardCount - 1 : Walk(log, i) = k
<1> DEFINE n == log.heardCount
           hd == log.heardHead
<1>1. /\ n \in 0 .. HeardSlots /\ hd \in 0 .. HeardSlots - 1 /\ HeardSlots \in Nat \ {0}
      /\ n < HeardSlots => hd = n
  BY LogType
<1>2. ASSUME NEW i \in 0 .. n - 1
      PROVE  Walk(log, i) = IF i < hd THEN hd - 1 - i ELSE hd - 1 - i + HeardSlots
  <2> DEFINE x == hd + HeardSlots - 1 - i
  <2>1. x \in 0 .. 2 * HeardSlots - 1
    BY <1>1
  <2>2. Walk(log, i) = x % HeardSlots
    BY DEF Walk
  <2> HIDE DEF x
  <2>3. x % HeardSlots = IF x < HeardSlots THEN x ELSE x - HeardSlots
    BY <1>1, <2>1, OnceRound
  <2>4. QED
    BY <1>1, <2>2, <2>3 DEF x
<1> HIDE DEF n, hd
<1>3. \A i \in 0 .. n - 1 : Walk(log, i) \in 0 .. n - 1
  BY <1>1, <1>2
<1>4. ASSUME NEW k \in 0 .. n - 1 PROVE \E i \in 0 .. n - 1 : Walk(log, i) = k
  <2> DEFINE i == IF k < hd THEN hd - 1 - k ELSE hd - 1 - k + HeardSlots
  <2>1. i \in 0 .. n - 1
    BY <1>1
  <2>2. Walk(log, i) = k
    BY <1>1, <1>2, <2>1
  <2>3. QED
    BY <2>1, <2>2
<1>5. QED
  BY <1>3, <1>4 DEF n

(* A reader finds the one slot that holds the station. *)
LEMMA FoundSlot ==
  ASSUME NEW log \in Logs, NEW call
  PROVE  LET slot == Walk(log, Min(Found(log, call)))
         IN  /\ Found(log, call) = {} <=>
                  \A k \in 0 .. log.heardCount - 1 : log.entry[k].callsign # call
             /\ Found(log, call) # {} =>
                  /\ slot \in 0 .. log.heardCount - 1
                  /\ log.entry[slot].callsign = call
<1> DEFINE n == log.heardCount
           found == Found(log, call)
           slot == Walk(log, Min(found))
<1>1. found = {i \in 0 .. n - 1 : log.entry[Walk(log, i)].callsign = call}
  BY DEF Found
<1>2. found = {} <=> \A k \in 0 .. n - 1 : log.entry[k].callsign # call
  BY <1>1, WalkOnto
<1>3. ASSUME found # {}
      PROVE  slot \in 0 .. n - 1 /\ log.entry[slot].callsign = call
  <2>1. found \in SUBSET Nat
    BY <1>1
  <2> HIDE DEF found
  <2>2. \E i \in found : \A j \in found : i <= j
    BY <1>3, <2>1, LeastOf
  <2>3. Min(found) \in found
    BY <2>2 DEF Min
  <2>4. QED
    BY <1>1, <2>3, WalkOnto
<1>4. QED
  BY <1>2, <1>3

-----------------------------------------------------------------------------
(* The log as a map. *)

Content(entry) == [at |-> entry.timestamp, direct |-> entry.isDirect]

LEMMA MapOfSlot ==
  ASSUME NEW log \in Logs, NEW k \in 0 .. log.heardCount - 1
  PROVE  /\ log.entry[k].callsign \in Callsigns(log)
         /\ MapOf(log)[log.entry[k].callsign] = Content(log.entry[k])
<1> DEFINE call == log.entry[k].callsign
           slot == Walk(log, Min(Found(log, call)))
<1>1. call \in Callsigns(log)
  BY LogType DEF Callsigns
<1>2. slot \in 0 .. log.heardCount - 1 /\ log.entry[slot].callsign = call
  <2> HIDE DEF call
  <2>1. Found(log, call) # {}
    BY FoundSlot DEF call
  <2>2. QED
    BY <2>1, FoundSlot
<1>3. slot = k
  <2> HIDE DEF slot
  <2>1. QED
    BY <1>2, LogType
<1>4. EntryOf(log, call) = log.entry[k]
  BY <1>3 DEF EntryOf
<1>5. QED
  BY <1>1, <1>4 DEF MapOf, Content

(* A log knows as many stations as it counts. *)
LEMMA StationsCounted ==
  ASSUME NEW log \in Logs
  PROVE  IsFiniteSet(Callsigns(log)) /\ Cardinality(Callsigns(log)) = log.heardCount
<1> DEFINE n == log.heardCount
           S == 0 .. n - 1
           T == Callsigns(log)
           f == [k \in S |-> log.entry[k].callsign]
<1>1. n \in Nat /\ DOMAIN log.entry = S
  BY LogType
<1>2. IsFiniteSet(S) /\ Cardinality(S) = n
  BY <1>1, FS_Interval
<1>3. T = {log.entry[k].callsign : k \in S}
  BY <1>1 DEF Callsigns
<1>4. \A j, k \in S : log.entry[j].callsign = log.entry[k].callsign => j = k
  BY LogType
<1> HIDE DEF S, T
<1>5. f \in Surjection(S, T)
  BY <1>3 DEF Surjection
<1>6. f \in Injection(S, T)
  BY <1>3, <1>4 DEF Injection, IsInjective
<1>7. IsFiniteSet(T) /\ (Cardinality(T) = Cardinality(S) <=> f \in Injection(S, T))
  <2> HIDE DEF f
  <2>1. QED
    BY <1>2, <1>5, FS_Surjection
<1>8. QED
  BY <1>2, <1>6, <1>7 DEF T

(* A report put into a slot replaces the entry there, and with it its      *)
(* station if that is another one.                                         *)
LEMMA PutIntoSlot ==
  ASSUME NEW log \in Logs, NEW new \in Logs, NEW report \in LogEntry,
         NEW slot \in 0 .. new.heardCount - 1, new.entry[slot] = report,
         log.heardCount <= new.heardCount,
         \A k \in 0 .. new.heardCount - 1 :
           k # slot => k < log.heardCount /\ new.entry[k] = log.entry[k]
  PROVE  LET forgotten == {log.entry[k].callsign : k \in 0 .. log.heardCount - 1 \cap {slot}}
                            \ {report.callsign}
         IN  /\ Callsigns(new) = (Callsigns(log) \ forgotten) \cup {report.callsign}
             /\ MapOf(new) = [c \in Callsigns(new) |->
                                IF c = report.callsign THEN Content(report)
                                ELSE MapOf(log)[c]]
<1> DEFINE n == log.heardCount
           m == new.heardCount
           forgotten == {log.entry[k].callsign : k \in 0 .. n - 1 \cap {slot}}
                          \ {report.callsign}
<1>1. /\ n \in Nat /\ m \in Nat /\ n <= m
      /\ DOMAIN log.entry = 0 .. n - 1 /\ DOMAIN new.entry = 0 .. m - 1
      /\ \A j, k \in 0 .. n - 1 : log.entry[j].callsign = log.entry[k].callsign => j = k
  BY LogType
<1>2. ASSUME NEW c \in Callsigns(new), c # report.callsign
      PROVE  /\ c \in Callsigns(log) \ forgotten
             /\ MapOf(new)[c] = MapOf(log)[c]
  <2>1. PICK k \in 0 .. m - 1 : new.entry[k].callsign = c
    BY <1>1 DEF Callsigns
  <2>2. k # slot /\ k \in 0 .. n - 1 /\ new.entry[k] = log.entry[k]
    BY <1>1, <1>2, <2>1
  <2>3. c \in Callsigns(log) /\ MapOf(log)[c] = Content(log.entry[k])
    BY <2>1, <2>2, MapOfSlot
  <2>4. MapOf(new)[c] = Content(new.entry[k])
    BY <2>1, MapOfSlot
  <2>5. c \notin forgotten
    BY <1>1, <2>1, <2>2
  <2>6. QED
    BY <2>2, <2>3, <2>4, <2>5
<1>3. report.callsign \in Callsigns(new) /\ MapOf(new)[report.callsign] = Content(report)
  BY MapOfSlot
<1>4. ASSUME NEW c \in Callsigns(log) \ forgotten PROVE c \in Callsigns(new)
  <2>1. PICK k \in 0 .. n - 1 : log.entry[k].callsign = c
    BY <1>1 DEF Callsigns
  <2>2. k \in 0 .. m - 1
    BY <1>1
  <2>3. CASE k = slot
    <3>1. c = report.callsign
      BY <1>4, <2>1, <2>3
    <3>2. QED
      BY <1>3, <3>1
  <2>4. CASE k # slot
    <3>1. new.entry[k].callsign = c
      BY <2>1, <2>2, <2>4
    <3>2. QED
      BY <2>2, <3>1, MapOfSlot
  <2>5. QED
    BY <2>3, <2>4
<1>5. Callsigns(new) = (Callsigns(log) \ forgotten) \cup {report.callsign}
  BY <1>2, <1>3, <1>4
<1>6. MapOf(new) = [c \in Callsigns(new) |->
                      IF c = report.callsign THEN Content(report) ELSE MapOf(log)[c]]
  <2> DEFINE F == [c \in Callsigns(new) |->
                     IF c = report.callsign THEN Content(report) ELSE MapOf(log)[c]]
  <2>1. MapOf(new) = [c \in Callsigns(new) |-> MapOf(new)[c]]
    BY DEF MapOf
  <2>2. \A c \in Callsigns(new) : MapOf(new)[c] = F[c]
    BY <1>2, <1>3
  <2>3. QED
    BY <2>1, <2>2
<1>7. QED
  BY <1>5, <1>6

(* updateLastHeard() keeps the ring, and does what Hear of LastHeard does. *)
LEMMA UpdateKeepsLog ==
  ASSUME NEW log \in Logs, NEW call \in Calls, NEW now \in 0 .. MaxClock,
         NEW direct \in BOOLEAN
  PROVE  LET new == UpdateLastHeard(log, call, now, direct)
         IN  /\ new \in Logs
             /\ \E slot \in 0 .. new.heardCount - 1 :
                  /\ new.entry[slot] = Report(call, now, direct)
                  /\ log.heardCount <= new.heardCount
                  /\ \A k \in 0 .. new.heardCount - 1 :
                       k # slot => k < log.heardCount /\ new.entry[k] = log.entry[k]
                  /\ \/ slot < log.heardCount /\ log.entry[slot].callsign = call
                     \/ slot = log.heardCount
                     \/ /\ log.heardCount = HeardSlots /\ slot < log.heardCount
                        /\ call \notin Callsigns(log)
<1> DEFINE new == UpdateLastHeard(log, call, now, direct)
           report == Report(call, now, direct)
           n == log.heardCount
           hd == log.heardHead
           found == Walk(log, Min(Found(log, call)))
<1>1. report \in LogEntry /\ report.callsign = call
  BY DEF Report, LogEntry
<1>2. /\ n \in 0 .. HeardSlots /\ hd \in 0 .. HeardSlots - 1 /\ HeardSlots \in Nat \ {0}
      /\ log.entry \in [0 .. n - 1 -> LogEntry]
      /\ n < HeardSlots => hd = n
      /\ \A j, k \in 0 .. n - 1 : log.entry[j].callsign = log.entry[k].callsign => j = k
  BY LogType
<1>3. CASE Found(log, call) # {}
  <2>1. found \in 0 .. n - 1 /\ log.entry[found].callsign = call
    BY <1>3, FoundSlot
  <2>2. new = [log EXCEPT !.entry = [log.entry EXCEPT ![found] = report]]
    BY <1>3 DEF UpdateLastHeard, Logs
  <2> HIDE DEF new, report, found
  <2>3. /\ new.heardCount = n /\ new.heardHead = hd
        /\ new.entry = [log.entry EXCEPT ![found] = report]
    BY <2>2 DEF Logs
  <2>4. /\ new.entry \in [0 .. n - 1 -> LogEntry] /\ new.entry[found] = report
        /\ \A k \in 0 .. n - 1 : k # found => new.entry[k] = log.entry[k]
    BY <1>1, <1>2, <2>1, <2>3
  <2>5. \A k \in 0 .. n - 1 : new.entry[k].callsign = log.entry[k].callsign
    BY <1>1, <2>1, <2>4
  <2>6. new \in Logs
    <3>1. new \in [entry : UNION {[0 .. i - 1 -> LogEntry] : i \in 0 .. HeardSlots},
                   heardHead : 0 .. HeardSlots - 1, heardCount : 0 .. HeardSlots]
      BY <1>2, <2>2, <2>3, <2>4 DEF Logs
    <3>2. QED
      BY <1>2, <2>3, <2>4, <2>5, <3>1 DEF Logs
  <2>7. QED
    BY <1>2, <2>1, <2>3, <2>4, <2>6 DEF report, new
<1>4. CASE Found(log, call) = {}
  <2> DEFINE m == IF n < HeardSlots THEN n + 1 ELSE n
             next == IF hd + 1 < HeardSlots THEN hd + 1 ELSE 0
             entry == [k \in 0 .. n - 1 \cup {hd} |-> IF k = hd THEN report ELSE log.entry[k]]
  <2>1. \A k \in 0 .. n - 1 : log.entry[k].callsign # call
    BY <1>4, FoundSlot
  <2>2. (hd + 1) % HeardSlots = next
    BY <1>2, NextHead
  <2>3. Min({n + 1, HeardSlots}) = m
    <3>1. m \in {n + 1, HeardSlots} /\ \A y \in {n + 1, HeardSlots} : m <= y
      BY <1>2
    <3>2. \A z \in {n + 1, HeardSlots} : (\A y \in {n + 1, HeardSlots} : z <= y) => z = m
      BY <1>2
    <3> HIDE DEF m
    <3>3. QED
      BY <3>1, <3>2 DEF Min
  <2>4. new = [entry |-> entry, heardHead |-> next, heardCount |-> m]
    BY <1>2, <1>4, <2>2, <2>3 DEF UpdateLastHeard, Inserted
  <2>5. 0 .. n - 1 \cup {hd} = 0 .. m - 1
    BY <1>2
  <2> HIDE DEF report
  <2>6. /\ entry \in [0 .. m - 1 -> LogEntry] /\ entry[hd] = report /\ hd \in 0 .. m - 1
        /\ \A k \in 0 .. m - 1 : k # hd => k \in 0 .. n - 1 /\ entry[k] = log.entry[k]
    BY <1>1, <1>2, <2>5
  <2> HIDE DEF entry, new
  <2>7. /\ m \in 0 .. HeardSlots /\ next \in 0 .. HeardSlots - 1
        /\ m < HeardSlots => next = m
    BY <1>2
  <2> HIDE DEF next
  <2>8. new.entry = entry /\ new.heardHead = next /\ new.heardCount = m
    BY <2>4
  <2>9. ASSUME NEW j \in 0 .. m - 1, NEW k \in 0 .. m - 1,
               entry[j].callsign = entry[k].callsign
        PROVE  j = k
    <3>1. entry[hd].callsign = call
      BY <1>1, <2>6
    <3>2. \A i \in 0 .. m - 1 : i # hd => entry[i].callsign # call
      BY <2>1, <2>6
    <3>3. CASE j # hd /\ k # hd
      BY <1>2, <2>6, <2>9, <3>3
    <3>4. CASE j = hd \/ k = hd
      BY <2>9, <3>1, <3>2, <3>4
    <3>5. QED
      BY <3>3, <3>4
  <2>10. new \in Logs
    <3>1. new \in [entry : UNION {[0 .. i - 1 -> LogEntry] : i \in 0 .. HeardSlots},
                   heardHead : 0 .. HeardSlots - 1, heardCount : 0 .. HeardSlots]
      <4>1. entry \in UNION {[0 .. i - 1 -> LogEntry] : i \in 0 .. HeardSlots}
        BY <2>6, <2>7
      <4>2. QED
        BY <2>4, <2>7, <4>1
    <3>2. QED
      BY <2>6, <2>7, <2>8, <2>9, <3>1 DEF Logs
  <2>11. hd = n \/ (n = HeardSlots /\ hd < n)
    BY <1>2
  <2>12. call \notin Callsigns(log)
    BY <1>2, <2>1 DEF Callsigns
  <2>13. n <= m
    BY <1>2
  <2>14. \A k \in 0 .. m - 1 : k # hd => k < n /\ entry[k] = log.entry[k]
    BY <1>2, <2>6
  <2>15. QED
    BY <2>6, <2>8, <2>10, <2>11, <2>12, <2>13, <2>14 DEF report, new
<1>5. QED
  BY <1>3, <1>4

(* So it is a step of LastHeard: this is Hear between two maps. *)
Hears(before, after, call, report) ==
  /\ call \in DOMAIN after /\ after[call] = report
  /\ \E forgotten \in {{}} \cup {{c} : c \in DOMAIN before} :
       LET kept == DOMAIN before \ forgotten
       IN  /\ call \in DOMAIN before \/ Cardinality(DOMAIN before) < HeardSlots
                => forgotten = {}
           /\ Cardinality(kept \cup {call}) <= HeardSlots
           /\ after = [c \in kept \cup {call} |-> IF c = call THEN report ELSE before[c]]

(* What was received last, one packet later.                               *)
LastOf(packets, call, report) ==
  [c \in DOMAIN packets \cup {call} |-> IF c = call THEN report ELSE packets[c]]

(* A packet that is taken into the log is heard by the map.                *)
LEMMA UpdateHears ==
  ASSUME NEW log \in Logs, NEW call \in Calls, NEW now \in 0 .. MaxClock,
         NEW direct \in BOOLEAN
  PROVE  LET new == UpdateLastHeard(log, call, now, direct)
         IN  /\ new \in Logs
             /\ Hears(MapOf(log), MapOf(new), call, [at |-> now, direct |-> direct])
<1> DEFINE new == UpdateLastHeard(log, call, now, direct)
           report == [at |-> now, direct |-> direct]
           entry == Report(call, now, direct)
           n == log.heardCount
           Known1 == Callsigns(log)
           Known2 == Callsigns(new)
<1>1. /\ entry \in LogEntry /\ entry.callsign = call /\ Content(entry) = report
  BY DEF Report, LogEntry, Content
<1> HIDE DEF new, entry
<1>2. new \in Logs
  BY UpdateKeepsLog DEF new
<1>3. PICK slot \in 0 .. new.heardCount - 1 :
        /\ new.entry[slot] = entry
        /\ n <= new.heardCount
        /\ \A k \in 0 .. new.heardCount - 1 :
             k # slot => k < n /\ new.entry[k] = log.entry[k]
        /\ \/ slot < n /\ log.entry[slot].callsign = call
           \/ slot = n
           \/ n = HeardSlots /\ slot < n /\ call \notin Known1
  BY UpdateKeepsLog DEF new, entry
<1> DEFINE forgotten == {log.entry[k].callsign : k \in 0 .. n - 1 \cap {slot}} \ {call}
<1>4. /\ Known2 = (Known1 \ forgotten) \cup {call}
      /\ MapOf(new) = [c \in Known2 |-> IF c = call THEN report ELSE MapOf(log)[c]]
  BY <1>1, <1>2, <1>3, PutIntoSlot
<1>5. DOMAIN MapOf(log) = Known1
  BY DEF MapOf
<1>6. Cardinality(Known1) = n /\ n \in 0 .. HeardSlots /\ HeardSlots \in Nat
  BY StationsCounted, LogType
<1>7. Cardinality(Known2) <= HeardSlots
  BY <1>2, StationsCounted, LogType
<1>8. forgotten \in {{}} \cup {{c} : c \in Known1}
  <2>1. CASE slot \in 0 .. n - 1
    <3>1. log.entry[slot].callsign \in Known1
      BY <2>1, MapOfSlot
    <3>2. forgotten = {log.entry[slot].callsign} \ {call}
      BY <2>1
    <3>3. QED
      BY <3>1, <3>2
  <2>2. CASE slot \notin 0 .. n - 1
    BY <2>2
  <2>3. QED
    BY <2>1, <2>2
<1>9. call \in Known1 \/ Cardinality(Known1) < HeardSlots => forgotten = {}
  <2>1. CASE slot < n /\ log.entry[slot].callsign = call
    BY <2>1
  <2>2. CASE slot = n
    BY <1>6, <2>2
  <2>3. CASE n = HeardSlots /\ slot < n /\ call \notin Known1
    BY <1>6, <2>3
  <2>4. QED
    BY <1>3, <2>1, <2>2, <2>3
<1>10. call \in DOMAIN MapOf(new) /\ MapOf(new)[call] = report
  BY <1>4
<1> HIDE DEF forgotten, Known1, Known2, report
<1>11. Hears(MapOf(log), MapOf(new), call, report)
  BY <1>4, <1>5, <1>7, <1>8, <1>9, <1>10 DEF Hears
<1>12. QED
  BY <1>2, <1>11 DEF new, report

-----------------------------------------------------------------------------
(* What goes on the air, and to the server, is marked. *)

LEMMA OnAirKeepsMarks ==
  ASSUME inbox \in [Gates -> SUBSET MarkedFrames], NEW from, NEW frame \in MarkedFrames,
         OnAir(from, frame)
  PROVE  inbox' \in [Gates -> SUBSET MarkedFrames]
<1>1. \A direct \in BOOLEAN : [frame EXCEPT !.direct = direct] \in MarkedFrames
  BY DEF MarkedFrames, AirFrame
<1>2. PICK way \in [Gates \ {from} -> {"direct", "digi", "lost"}] :
        inbox' = [g \in Gates |->
                    IF g = from THEN inbox[g]
                    ELSE IF way[g] = "lost" THEN inbox[g]
                    ELSE {[frame EXCEPT !.direct = way[g] = "direct"]}]
  BY DEF OnAir
<1>3. ASSUME NEW g \in Gates PROVE inbox'[g] \in SUBSET MarkedFrames
  <2> DEFINE direct == way[g] = "direct"
  <2>1. direct \in BOOLEAN
    OBVIOUS
  <2> HIDE DEF direct
  <2>2. [frame EXCEPT !.direct = direct] \in MarkedFrames
    BY <1>1, <2>1
  <2>3. QED
    BY <1>2, <2>2 DEF direct
<1>4. QED
  BY <1>2, <1>3

LEMMA PassedKeepsMarks ==
  ASSUME NEW line \in MarkedLines, NEW from,
         NEW pending \in [Gates -> SUBSET MarkedLines], Passed(line, from, pending)
  PROVE  socket' \in [Gates -> SUBSET MarkedLines]
BY DEF Passed

(* A packet that begins somewhere has crossed nothing. *)
LEMMA FreshIsMarked ==
  ASSUME NEW p \in Packets
  PROVE  /\ Fresh(p) \in MarkedFrames
         /\ [pkt |-> p, q |-> "none", trip |-> <<>>] \in MarkedLines
<1>1. Sender[p] \in Calls
  BY DEF Calls
<1>2. QED
  BY <1>1 DEF Fresh, MarkedFrames, AirFrame, MarkedLines, Line

LEMMA EmptyLogIsLog == EmptyLog \in Logs
<1>1. EmptyLog.entry = <<>> /\ EmptyLog.heardHead = 0 /\ EmptyLog.heardCount = 0
  BY DEF EmptyLog
<1>2. <<>> \in [0 .. 0 - 1 -> LogEntry]
  OBVIOUS
<1>3. 0 \in 0 .. HeardSlots /\ 0 \in 0 .. HeardSlots - 1
  BY HeardSlotsAssumption
<1>4. <<>> \in UNION {[0 .. n - 1 -> LogEntry] : n \in 0 .. HeardSlots}
  BY <1>2, <1>3
<1>5. EmptyLog \in [entry : UNION {[0 .. n - 1 -> LogEntry] : n \in 0 .. HeardSlots},
                    heardHead : 0 .. HeardSlots - 1, heardCount : 0 .. HeardSlots]
  BY <1>3, <1>4 DEF EmptyLog
<1>6. \A j, k \in 0 .. 0 - 1 :
        EmptyLog.entry[j].callsign = EmptyLog.entry[k].callsign => j = k
  OBVIOUS
<1>7. QED
  BY <1>1, <1>2, <1>5, <1>6 DEF Logs

LEMMA InitIInv == Init => IInv
<1> SUFFICES ASSUME Init PROVE IInv
  OBVIOUS
<1>1. CrossingsAreMarked
  BY GatewayAssumption DEF Init, NoBox, CrossingsAreMarked
<1>2. LogsAreRings
  BY EmptyLogIsLog DEF Init, LogsAreRings
<1>3. LogsHoldLast
  <2>1. <<>> \in [{} -> Reported]
    OBVIOUS
  <2>2. <<>> \in UNION {[C -> Reported] : C \in SUBSET Calls}
    BY <2>1
  <2>3. last \in [Gates -> UNION {[C -> Reported] : C \in SUBSET Calls}]
    BY <2>2 DEF Init
  <2>4. ASSUME NEW g \in Gates PROVE HoldsLast(heard[g], last[g])
    <3>1. Callsigns(heard[g]) = {}
      BY DEF Init, EmptyLog, Callsigns
    <3>2. QED
      BY <3>1 DEF HoldsLast
  <2>5. QED
    BY <2>3, <2>4 DEF LogsHoldLast
<1>4. QED
  BY <1>1, <1>2, <1>3 DEF IInv, MarksAndRings

(* One step per action: what it does to what is on its way, and to the     *)
(* logs.                                                                   *)
LEMMA NextMarksAndRings == MarksAndRings /\ [Next]_vars => MarksAndRings'
<1> SUFFICES ASSUME MarksAndRings, [Next]_vars PROVE MarksAndRings'
  OBVIOUS
<1>0. /\ inbox \in [Gates -> SUBSET MarkedFrames] /\ socket \in [Gates -> SUBSET MarkedLines]
      /\ outQueue \in [Gates -> SUBSET Packets] /\ clock \in 0 .. MaxClock
      /\ heard \in [Gates -> Logs]
      /\ Reply \in [Packets -> Packets] /\ FromIS \subseteq Packets /\ MaxClock \in Nat
      /\ CrossingsAreMarked /\ LogsAreRings
  BY GatewayAssumption DEF MarksAndRings, CrossingsAreMarked, LogsAreRings
<1>1. ASSUME NEW p \in Packets, SendOnRF(p) PROVE MarksAndRings'
  <2>1. /\ OnAir(Sender[p], Fresh(p)) /\ UNCHANGED <<clock, heard, outQueue>>
        /\ IF Sender[p] \in Gates THEN UploadSelf(Sender[p], p) ELSE UNCHANGED <<dedup, socket>>
    BY <1>1 DEF SendOnRF
  <2>2. inbox' \in [Gates -> SUBSET MarkedFrames]
    BY <1>0, <2>1, OnAirKeepsMarks, FreshIsMarked
  <2>3. \/ UNCHANGED socket
        \/ Passed([pkt |-> p, q |-> "none", trip |-> <<>>], Sender[p], socket)
    BY <2>1 DEF UploadSelf
  <2>4. socket' \in [Gates -> SUBSET MarkedLines]
    BY <1>0, <2>3, PassedKeepsMarks, FreshIsMarked
  <2>5. QED
    BY <1>0, <2>1, <2>2, <2>4 DEF MarksAndRings, CrossingsAreMarked, LogsAreRings
<1>2. ASSUME NEW p \in Packets, SendOnIS(p) PROVE MarksAndRings'
  <2>1. UNCHANGED <<clock, heard, outQueue>>
    BY <1>2 DEF SendOnIS
  <2>2. CASE /\ Passed([pkt |-> p, q |-> "none", trip |-> <<>>], Sender[p], socket)
             /\ UNCHANGED inbox
    <3>1. socket' \in [Gates -> SUBSET MarkedLines]
      BY <1>0, <2>2, PassedKeepsMarks, FreshIsMarked
    <3>2. QED
      BY <1>0, <2>1, <2>2, <3>1 DEF MarksAndRings, CrossingsAreMarked, LogsAreRings
  <2>3. CASE /\ OnAir(Sender[p], [Fresh(p) EXCEPT !.marked = TRUE, !.trip = <<"down">>])
             /\ UNCHANGED socket
    <3>1. [Fresh(p) EXCEPT !.marked = TRUE, !.trip = <<"down">>] \in MarkedFrames
      <4>1. Fresh(p) \in AirFrame
        BY FreshIsMarked DEF MarkedFrames
      <4> DEFINE frame == [Fresh(p) EXCEPT !.marked = TRUE, !.trip = <<"down">>]
      <4>2. frame \in AirFrame /\ frame.marked
        BY <4>1 DEF AirFrame
      <4>3. QED
        BY <4>2 DEF MarkedFrames
    <3>2. inbox' \in [Gates -> SUBSET MarkedFrames]
      BY <1>0, <2>3, <3>1, OnAirKeepsMarks
    <3>3. QED
      BY <1>0, <2>1, <2>3, <3>2 DEF MarksAndRings, CrossingsAreMarked, LogsAreRings
  <2>4. QED
    BY <1>2, <2>2, <2>3 DEF SendOnIS
<1>3. ASSUME NEW g \in Gates, Receive(g) PROVE MarksAndRings'
  <2>1. PICK frame \in inbox[g] :
          /\ inbox' = [inbox EXCEPT ![g] = {}]
          /\ heard' = [heard EXCEPT ![g] = UpdateLastHeard(@, frame.from, clock, frame.direct)]
          /\ IF Gated(g, frame)
             THEN Passed([pkt |-> frame.pkt, q |-> IF valid[g] THEN "qAR" ELSE "qAO",
                          trip |-> Append(frame.trip, "up")], g, socket)
             ELSE UNCHANGED socket
          /\ UNCHANGED <<clock, outQueue>>
    BY <1>3 DEF Receive
  <2>2. frame \in MarkedFrames
    BY <1>0
  <2>3. frame \in AirFrame /\ (frame.trip = <<>> \/ frame.marked \/ frame.wrapped)
    BY <2>2 DEF MarkedFrames
  <2>4. frame.pkt \in Packets /\ frame.from \in Calls /\ frame.direct \in BOOLEAN
    BY <2>3 DEF AirFrame
  <2>5. inbox' \in [Gates -> SUBSET MarkedFrames]
    BY <1>0, <2>1
  <2>6. socket' \in [Gates -> SUBSET MarkedLines]
    <3>1. CASE Gated(g, frame)
      <4>1. frame.trip = <<>>
        BY <2>3, <3>1 DEF Gated, IsEcho
      <4>2. Append(frame.trip, "up") = <<"up">>
        BY <4>1
      <4> DEFINE line == [pkt |-> frame.pkt, q |-> IF valid[g] THEN "qAR" ELSE "qAO",
                          trip |-> Append(frame.trip, "up")]
      <4>3. line \in MarkedLines
        BY <2>4, <4>2 DEF MarkedLines, Line
      <4>4. Passed(line, g, socket)
        BY <2>1, <3>1
      <4> HIDE DEF line
      <4>5. QED
        BY <1>0, <4>3, <4>4, PassedKeepsMarks
    <3>2. CASE ~Gated(g, frame)
      BY <1>0, <2>1, <3>2
    <3>3. QED
      BY <3>1, <3>2
  <2>7. heard' \in [Gates -> Logs]
    <3>1. UpdateLastHeard(heard[g], frame.from, clock, frame.direct) \in Logs
      BY <1>0, <2>4, UpdateHears
    <3>2. QED
      BY <1>0, <2>1, <3>1
  <2>8. QED
    BY <1>0, <2>1, <2>5, <2>6, <2>7 DEF MarksAndRings, CrossingsAreMarked, LogsAreRings
<1>4. ASSUME NEW g \in Gates, Skip(g) PROVE MarksAndRings'
  <2>1. /\ socket' = [socket EXCEPT ![g] = {}]
        /\ UNCHANGED <<clock, heard, inbox, outQueue>>
    BY <1>4 DEF Skip, Read
  <2>2. QED
    BY <1>0, <2>1 DEF MarksAndRings, CrossingsAreMarked, LogsAreRings
<1>5. ASSUME NEW g \in Gates, Answer(g) PROVE MarksAndRings'
  <2>1. PICK line \in socket[g] :
          /\ outQueue' \in {outQueue, [outQueue EXCEPT ![g] = @ \cup {Reply[line.pkt]}]}
          /\ Passed([pkt |-> Reply[line.pkt], q |-> "none", trip |-> <<>>], g,
                    [socket EXCEPT ![g] = {}])
          /\ UNCHANGED <<clock, heard, inbox>>
    BY <1>5 DEF Answer, Read
  <2>2. line.pkt \in Packets
    BY <1>0 DEF MarkedLines, Line
  <2>3. Reply[line.pkt] \in Packets
    BY <1>0, <2>2
  <2>4. outQueue' \in [Gates -> SUBSET Packets]
    BY <1>0, <2>1, <2>3
  <2> DEFINE pending == [socket EXCEPT ![g] = {}]
             answer == [pkt |-> Reply[line.pkt], q |-> "none", trip |-> <<>>]
  <2>5. pending \in [Gates -> SUBSET MarkedLines]
    BY <1>0
  <2>6. answer \in MarkedLines
    BY <2>3, FreshIsMarked
  <2>7. Passed(answer, g, pending)
    BY <2>1
  <2> HIDE DEF pending, answer
  <2>8. socket' \in [Gates -> SUBSET MarkedLines]
    BY <2>5, <2>6, <2>7, PassedKeepsMarks
  <2>9. QED
    BY <1>0, <2>1, <2>4, <2>8 DEF MarksAndRings, CrossingsAreMarked, LogsAreRings
<1>6. ASSUME NEW g \in Gates, Downlink(g) PROVE MarksAndRings'
  <2>1. PICK line \in socket[g] :
          /\ ~Skipped(g, line)
          /\ OnAir(g, [pkt |-> line.pkt, from |-> g, wrapped |-> TRUE, marked |-> FALSE,
                       direct |-> TRUE, trip |-> Append(line.trip, "down")])
          /\ socket' = [socket EXCEPT ![g] = {}]
          /\ UNCHANGED <<clock, heard, outQueue>>
    BY <1>6 DEF Downlink, Read
  <2>2. line \in MarkedLines
    BY <1>0
  <2>3. line.pkt \in Packets /\ line.trip = <<>>
    BY <2>1, <2>2 DEF MarkedLines, Line, Skipped
  <2>4. Append(line.trip, "down") = <<"down">>
    BY <2>3
  <2> DEFINE frame == [pkt |-> line.pkt, from |-> g, wrapped |-> TRUE, marked |-> FALSE,
                       direct |-> TRUE, trip |-> Append(line.trip, "down")]
  <2>5. frame \in MarkedFrames
    BY <2>3, <2>4 DEF MarkedFrames, AirFrame, Calls
  <2>6. OnAir(g, frame)
    BY <2>1
  <2> HIDE DEF frame
  <2>7. inbox' \in [Gates -> SUBSET MarkedFrames]
    BY <1>0, <2>5, <2>6, OnAirKeepsMarks
  <2>8. socket' \in [Gates -> SUBSET MarkedLines]
    BY <1>0, <2>1
  <2>9. QED
    BY <1>0, <2>1, <2>7, <2>8 DEF MarksAndRings, CrossingsAreMarked, LogsAreRings
<1>7. ASSUME NEW g \in Gates, KeyNext(g) PROVE MarksAndRings'
  <2>1. PICK p \in outQueue[g] :
          /\ outQueue' = [outQueue EXCEPT ![g] = @ \ {p}]
          /\ OnAir(g, Fresh(p)) /\ UNCHANGED <<clock, heard, socket>>
    BY <1>7 DEF KeyNext
  <2>2. p \in Packets
    BY <1>0
  <2>3. inbox' \in [Gates -> SUBSET MarkedFrames]
    BY <1>0, <2>1, <2>2, OnAirKeepsMarks, FreshIsMarked
  <2>4. outQueue' \in [Gates -> SUBSET Packets]
    BY <1>0, <2>1
  <2>5. QED
    BY <1>0, <2>1, <2>3, <2>4 DEF MarksAndRings, CrossingsAreMarked, LogsAreRings
<1>8. ASSUME NEW g \in Gates, SessionChanges(g) PROVE MarksAndRings'
  <2>1. /\ socket' = [socket EXCEPT ![g] = {}]
        /\ UNCHANGED <<clock, heard, inbox, outQueue>>
    BY <1>8 DEF SessionChanges
  <2>2. QED
    BY <1>0, <2>1 DEF MarksAndRings, CrossingsAreMarked, LogsAreRings
<1>9. CASE Advance
  <2>1. clock' \in 0 .. MaxClock /\ UNCHANGED <<heard, inbox, socket, outQueue>>
    BY <1>0, <1>9 DEF Advance
  <2>2. QED
    BY <1>0, <2>1 DEF MarksAndRings, CrossingsAreMarked, LogsAreRings
<1>10. CASE UNCHANGED vars
  BY <1>0, <1>10 DEF vars, MarksAndRings, CrossingsAreMarked, LogsAreRings
<1>11. QED
  BY <1>1, <1>2, <1>3, <1>4, <1>5, <1>6, <1>7, <1>8, <1>9, <1>10 DEF Next

(* Only a received packet changes a log, and what was received last.       *)
LEMMA HeardByReceiving ==
  ASSUME [Next]_vars
  PROVE  UNCHANGED <<heard, last>> \/ \E g \in Gates : Receive(g)
BY DEF Next, vars, SendOnRF, SendOnIS, Skip, Read, Answer, Downlink, KeyNext,
       SessionChanges, Advance

(* What Receive does to the log of its gate and to what was received last. *)
LEMMA ReceivedIsHeard ==
  ASSUME MarksAndRings, NEW g \in Gates, Receive(g),
         last \in [Gates -> UNION {[C -> Reported] : C \in SUBSET Calls}]
  PROVE  \E call \in Calls, report \in Reported :
           /\ heard' = [heard EXCEPT ![g] =
                          UpdateLastHeard(heard[g], call, report.at, report.direct)]
           /\ last' = [last EXCEPT ![g] = LastOf(last[g], call, report)]
           /\ Hears(MapOf(heard[g]), MapOf(heard'[g]), call, report)
<1>1. PICK frame \in inbox[g] :
        /\ heard' = [heard EXCEPT ![g] =
                       UpdateLastHeard(heard[g], frame.from, clock, frame.direct)]
        /\ HeardNow(g, frame)
  BY DEF Receive
<1>2. frame \in MarkedFrames /\ clock \in 0 .. MaxClock /\ heard \in [Gates -> Logs]
  BY DEF MarksAndRings, CrossingsAreMarked, LogsAreRings
<1>3. frame.from \in Calls /\ frame.direct \in BOOLEAN
  BY <1>2 DEF MarkedFrames, AirFrame
<1> DEFINE report == [at |-> clock, direct |-> frame.direct]
<1>4. report \in Reported /\ report.at = clock /\ report.direct = frame.direct
  BY <1>2, <1>3 DEF Reported
<1>5. last' = [last EXCEPT ![g] = LastOf(last[g], frame.from, report)]
  BY <1>1 DEF HeardNow, LastOf
<1>6. heard'[g] = UpdateLastHeard(heard[g], frame.from, clock, frame.direct)
  BY <1>1, <1>2
<1>7. Hears(MapOf(heard[g]), MapOf(heard'[g]), frame.from, report)
  BY <1>2, <1>3, <1>6, UpdateHears
<1> HIDE DEF report
<1>8. QED
  BY <1>1, <1>3, <1>4, <1>5, <1>7

(* The log takes the packet, so it still holds the last ones.              *)
LEMMA NextHoldsLast == IInv /\ [Next]_vars => LogsHoldLast'
<1> SUFFICES ASSUME IInv, [Next]_vars PROVE LogsHoldLast'
  OBVIOUS
<1> DEFINE Maps == UNION {[C -> Reported] : C \in SUBSET Calls}
<1>0. /\ MarksAndRings /\ heard \in [Gates -> Logs] /\ last \in [Gates -> Maps]
      /\ \A g \in Gates : HoldsLast(heard[g], last[g])
  BY DEF IInv, MarksAndRings, LogsAreRings, LogsHoldLast
<1>1. CASE UNCHANGED <<heard, last>>
  BY <1>0, <1>1 DEF LogsHoldLast
<1>2. ASSUME NEW g \in Gates, Receive(g) PROVE LogsHoldLast'
  <2>1. PICK call \in Calls, report \in Reported :
          /\ heard' = [heard EXCEPT ![g] =
                         UpdateLastHeard(heard[g], call, report.at, report.direct)]
          /\ last' = [last EXCEPT ![g] = LastOf(last[g], call, report)]
          /\ Hears(MapOf(heard[g]), MapOf(heard'[g]), call, report)
    BY <1>0, <1>2, ReceivedIsHeard
  <2>2. PICK C \in SUBSET Calls : last[g] \in [C -> Reported]
    BY <1>0
  <2> DEFINE after == LastOf(last[g], call, report)
  <2>3. /\ after \in [C \cup {call} -> Reported]
        /\ DOMAIN after = DOMAIN last[g] \cup {call} /\ after[call] = report
        /\ \A c \in DOMAIN last[g] : c # call => after[c] = last[g][c]
    BY <2>2 DEF LastOf
  <2> HIDE DEF after
  <2>4. after \in Maps
    <3>1. C \cup {call} \in SUBSET Calls
      BY <2>2
    <3>2. QED
      BY <2>3, <3>1
  <2>5. last'[g] = after /\ last' \in [Gates -> Maps]
    BY <1>0, <2>1, <2>4 DEF after
  <2>6. HoldsLast(heard'[g], last'[g])
    <3> DEFINE before == MapOf(heard[g])
               new == MapOf(heard'[g])
    <3>1. DOMAIN new = Callsigns(heard'[g]) /\ DOMAIN before = Callsigns(heard[g])
      BY DEF MapOf
    <3>2. \A c \in DOMAIN before : c \in DOMAIN last[g] /\ before[c] = last[g][c]
      BY <1>0, <3>1 DEF HoldsLast
    <3> HIDE DEF before, new
    <3>3. Hears(before, new, call, report)
      BY <2>1 DEF before, new
    <3>4. \A c \in DOMAIN new :
            \/ c = call /\ new[c] = report
            \/ c # call /\ c \in DOMAIN before /\ new[c] = before[c]
      BY <3>3 DEF Hears
    <3>5. \A c \in DOMAIN new : c \in DOMAIN after /\ new[c] = after[c]
      BY <2>3, <3>2, <3>4
    <3>6. QED
      BY <2>5, <3>1, <3>5 DEF HoldsLast, new
  <2>7. ASSUME NEW h \in Gates, h # g PROVE HoldsLast(heard'[h], last'[h])
    <3>1. heard'[h] = heard[h] /\ last'[h] = last[h]
      BY <1>0, <2>1, <2>7
    <3>2. QED
      BY <1>0, <3>1
  <2>8. QED
    BY <2>5, <2>6, <2>7 DEF LogsHoldLast
<1>3. QED
  BY <1>1, <1>2, HeardByReceiving

LEMMA NextIInv == IInv /\ [Next]_vars => IInv'
BY NextMarksAndRings, NextHoldsLast DEF IInv

(* What is on its way is marked, and every log is a ring that holds the    *)
(* last packets of its stations, in every reachable state.                 *)
THEOREM InductiveInvariant == Spec => []IInv
BY InitIInv, NextIInv, PTL DEF Spec

(* Nothing crosses back between RF and APRS-IS through an iGate, however   *)
(* many gates there are, however they hear each other and whatever their   *)
(* logins are worth: the echo checks of processLoRaPacket(), the q check   *)
(* of listenAPRSIS() and the third-party wrap together suffice.            *)
THEOREM NoLoopOfGates == Spec => []NoGateLoop
<1>1. IInv => NoGateLoop
  <2>1. Len(<<>>) <= 1 /\ Len(<<"down">>) <= 1 /\ Len(<<"up">>) <= 1
    OBVIOUS
  <2>2. ASSUME IInv, NEW g \in Gates, NEW item \in inbox[g] \cup socket[g]
        PROVE  Len(item.trip) <= 1
    <3>1. item \in MarkedFrames \cup MarkedLines
      BY <2>2 DEF IInv, MarksAndRings, CrossingsAreMarked
    <3>2. item.trip \in {<<>>, <<"down">>, <<"up">>}
      BY <3>1 DEF MarkedFrames, AirFrame, MarkedLines, Line
    <3>3. QED
      BY <2>1, <3>2
  <2>3. QED
    BY <2>2 DEF NoGateLoop
<1>2. QED
  BY <1>1, InductiveInvariant, PTL

LEMMA KnownIsMap ==
  ASSUME NEW g
  PROVE  Known(g) = MapOf(heard[g])
BY DEF Known, MapOf, Callsigns

(* The refinement: what readers know of a gate's log starts empty.         *)
LEMMA NothingKnownYet ==
  ASSUME Init, NEW g \in Gates
  PROVE  Remembers(g)!Init
<1>1. heard[g].entry = <<>> /\ last[g] = <<>>
  BY DEF Init, EmptyLog
<1>2. Known(g) = <<>>
  BY <1>1 DEF Known
<1>3. QED
  BY <1>1, <1>2 DEF Remembers!Init

LEMMA SameCardinality ==
  ASSUME NEW g, NEW S
  PROVE  Remembers(g)!Cardinality(S) = Cardinality(S)
BY DEF Remembers!Cardinality, Cardinality

(* Every packet that a gate receives is a Hear of its map, and nothing     *)
(* else touches its log or what was received last.                         *)
LEMMA HearingIsAStep ==
  ASSUME IInv, [Next]_vars, NEW g \in Gates
  PROVE  [Remembers(g)!Next]_<<last[g], Known(g)>>
<1>0. /\ MarksAndRings /\ heard \in [Gates -> Logs] /\ HoldsLast(heard[g], last[g])
      /\ last \in [Gates -> UNION {[C -> Reported] : C \in SUBSET Calls}]
  BY DEF IInv, MarksAndRings, LogsAreRings, LogsHoldLast
<1>1. CASE UNCHANGED <<heard, last>>
  BY <1>1 DEF Known, EntryOf, Found, Walk
<1>2. ASSUME NEW h \in Gates, Receive(h), h # g
      PROVE  UNCHANGED <<last[g], Known(g)>>
  <2>1. heard'[g] = heard[g] /\ last'[g] = last[g]
    BY <1>0, <1>2, ReceivedIsHeard
  <2>2. QED
    BY <2>1 DEF Known
<1>3. CASE Receive(g)
  <2>1. PICK call \in Calls, report \in Reported :
          /\ last' = [last EXCEPT ![g] = LastOf(last[g], call, report)]
          /\ Hears(MapOf(heard[g]), MapOf(heard'[g]), call, report)
    BY <1>0, <1>3, ReceivedIsHeard
  <2> DEFINE before == MapOf(heard[g])
             after  == MapOf(heard'[g])
  <2>2. Known(g) = before /\ Known(g)' = after
    BY DEF Known, MapOf, Callsigns
  <2>3. /\ last'[g] = LastOf(last[g], call, report)
        /\ \A c \in DOMAIN before : c \in DOMAIN last[g] /\ before[c] = last[g][c]
    BY <1>0, <2>1 DEF HoldsLast, MapOf
  <2>4. Hears(before, after, call, report)
    BY <2>1
  <2> HIDE DEF before, after
  <2>5. PICK forgotten \in {{}} \cup {{c} : c \in DOMAIN before} :
          LET kept == DOMAIN before \ forgotten
          IN  /\ call \in DOMAIN before \/ Cardinality(DOMAIN before) < HeardSlots
                   => forgotten = {}
              /\ Cardinality(kept \cup {call}) <= HeardSlots
              /\ after = [c \in kept \cup {call} |-> IF c = call THEN report ELSE before[c]]
    BY <2>4 DEF Hears
  <2> DEFINE kept == DOMAIN before \ forgotten
  <2>6. \A c \in kept \cup {call} :
          (IF c = call THEN report ELSE before[c]) = last'[g][c]
    BY <2>3 DEF LastOf
  <2>7. after = [c \in kept \cup {call} |-> last'[g][c]]
    BY <2>5, <2>6
  <2> HIDE DEF kept
  <2>8. last'[g] = [c \in DOMAIN last[g] \cup {call} |->
                     IF c = call THEN report ELSE last[g][c]]
    BY <2>3 DEF LastOf
  <2>9. Remembers(g)!Hear(call, report)
    BY <2>2, <2>5, <2>7, <2>8, SameCardinality
       DEF kept, Remembers!Hear, Remembers!LastAfter
  <2>10. QED
    BY <2>9 DEF Remembers!Next, Reported
<1>4. QED
  BY <1>1, <1>2, <1>3, HeardByReceiving

(* The ring of updateLastHeard() holds, of every station that it has not   *)
(* forgotten, the last packet that was received from it, whichever         *)
(* stations came in between; it begins empty, takes every packet, and      *)
(* forgets a station only to make room for a new one.                      *)
THEOREM LogsRememberStations == Spec => EachGateRemembers
<1>1. Init => \A g \in Gates : Remembers(g)!Init
  BY NothingKnownYet
<1>2. IInv /\ [Next]_vars =>
        [\A g \in Gates : [Remembers(g)!Next]_<<last[g], Known(g)>>]_vars
  BY HearingIsAStep
<1>3. QED
  BY <1>1, <1>2, InductiveInvariant, PTL DEF Spec, EachGateRemembers
=============================================================================
