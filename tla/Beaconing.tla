----------------------------- MODULE Beaconing -----------------------------
(***************************************************************************)
(* When the device transmits its own beacons.  A pass of loop() serves     *)
(* requests (console, button, a query), then the timers of the role, then  *)
(* the PHG timer, then the GPS; the task of the web server may transmit a  *)
(* beacon on demand beside it.  All share lastTxTime, sendUpdate and       *)
(* updateCounter, and each transmission blocks its own task for seconds    *)
(* between reading and writing them.                                       *)
(*                                                                         *)
(* A stamp is modelled by its age, which stops at Longest, above every     *)
(* interval.                                                               *)
(***************************************************************************)
EXTENDS Integers

CONSTANTS
  Tasks,           \* the tasks that transmit: "loop", and "web" on boards with a web page
  Devices,         \* the configurations looked at
  NonSmartRate,    \* Config.nonSmartBeaconRate
  Profile,         \* currentSmartBeaconValues
  InitialInterval, \* txInterval at boot, 60 s
  PhgRate,         \* Config.phg.beaconRate
  CommentAfter,    \* Config.sendCommentAfterXBeacons
  CounterAtBoot,   \* updateCounter at boot, 100
  CounterWrap,     \* 2^8, updateCounter is a byte
  Speeds,          \* model bound: speeds the GPS reports, in km/h
  Longest          \* model bound: ages stop here

Roles   == {"ROLE_TRACKER", "ROLE_IGATE", "ROLE_DIGIPEATER"}
Sources == {"GPS_INTERNAL", "GPS_FIXED", "GPS_NONE"}

(* fixed: coordinates are stored; hasGPS: the board has a receiver; smart, *)
(* phg: on; comment: there is a comment or a voltage to append; status:    *)
(* the text is not empty.                                                  *)
Device == [role : Roles, source : Sources, hasGPS : BOOLEAN, fixed : BOOLEAN,
           smart : BOOLEAN, phg : BOOLEAN, comment : BOOLEAN, status : BOOLEAN]

Max2(a, b) == IF a >= b THEN a ELSE b

ASSUME BeaconingAssumption ==
  /\ "loop" \in Tasks /\ Tasks \subseteq {"loop", "web"}
  /\ Devices \subseteq Device
  /\ Profile \in [{"slowRate", "slowSpeed", "fastRate", "fastSpeed",
                   "turnMinTime"} -> Nat \ {0}]
  /\ {NonSmartRate, InitialInterval, PhgRate} \subseteq Nat \ {0}
  /\ CounterWrap \in Nat /\ CounterWrap >= 2
  /\ CommentAfter \in 1..(CounterWrap - 1) /\ CounterAtBoot \in 0..(CounterWrap - 2)
  /\ Speeds \subseteq Nat
  /\ Longest \in Nat
  /\ \A rate \in {NonSmartRate, InitialInterval, PhgRate, Profile.slowRate,
                  Profile.fastRate, Profile.turnMinTime} : rate <= Longest

VARIABLES
  device,        \* Config, as far as it matters here
  located,       \* getCurrentLocation() succeeds
  timer,         \* age of lastTxTime
  phgTimer,      \* age of phgLastTx, NeverSent while that is 0
  sendUpdate,
  txInterval,
  updateCounter,
  needsBeacon,   \* _needsBeacon of the APRS-IS client
  pc,            \* where loop() is
  job,           \* task -> its transmission under way
  sinceScheduled,\* history: age of the last beacon that was not on demand
  overlapped,    \* history: that beacon and one on demand overlapped in time
  uncommented    \* history: beacons since the last comment, those that
                 \* overlapped with another task's left out

timers  == <<timer, phgTimer, sendUpdate, txInterval>>
ghosts  == <<sinceScheduled, overlapped, uncommented>>
vars    == <<device, located, timers, updateCounter, needsBeacon, pc, job, ghosts>>

NeverSent == -1
NoJob     == [stage |-> "none"]
NoCounter == -1

Jobs == [stage : {"air", "sent"}, kind : {"position", "status", "phg"},
         onDemand : BOOLEAN, savedTimer : 0..Longest,
         savedCounter : (0..(CounterWrap - 1)) \cup {NoCounter}]

GpsIsActive == device.source = "GPS_INTERNAL" /\ device.hasGPS
BeaconsByRole == device.role \in {"ROLE_IGATE", "ROLE_DIGIPEATER"}
AdvertisesWithoutFix == BeaconsByRole /\ device.source # "GPS_NONE"

LocatedAtBoot(d) ==
  d.fixed /\ (d.source = "GPS_FIXED" \/ (d.source = "GPS_INTERNAL" /\ ~d.hasGPS))

-----------------------------------------------------------------------------

Init ==
  /\ device \in Devices
  /\ located = LocatedAtBoot(device)
  /\ timer = 0 /\ phgTimer = NeverSent
  /\ sendUpdate = TRUE /\ txInterval = InitialInterval
  /\ updateCounter = CounterAtBoot
  /\ needsBeacon = FALSE
  /\ pc = "requests"
  /\ job = [t \in Tasks |-> NoJob]
  /\ sinceScheduled = Longest /\ overlapped = FALSE /\ uncommented = 0

Alone(t) == \A u \in Tasks \ {t} : job[u] = NoJob

Transmit(t, kind, onDemand, savedCounter) ==
  job' = [job EXCEPT ![t] = [stage |-> "air", kind |-> kind, onDemand |-> onDemand,
                             savedTimer |-> timer, savedCounter |-> savedCounter]]

(* Mutant: the comment comes one beacon late. *)
CountBeaconLate(t, forced) ==
  LET count == (updateCounter + 1) % CounterWrap
      due   == count > CommentAfter
  IN  IF device.comment
      THEN /\ updateCounter' = IF due /\ ~forced THEN 0 ELSE count
           /\ uncommented' = IF due /\ ~forced THEN 0
                             ELSE IF Alone(t) /\ ~forced THEN uncommented + 1
                             ELSE uncommented
      ELSE UNCHANGED <<updateCounter, uncommented>>

(* The comment goes out with every CommentAfter-th beacon, or when forced, *)
(* which leaves the count as it is but for the increment.                  *)
CountBeacon(t, forced) ==
  LET count == (updateCounter + 1) % CounterWrap
      due   == count >= CommentAfter
  IN  IF device.comment
      THEN /\ updateCounter' = IF due /\ ~forced THEN 0 ELSE count
           /\ uncommented' = IF due /\ ~forced THEN 0
                             ELSE IF Alone(t) /\ ~forced THEN uncommented + 1
                             ELSE uncommented
      ELSE UNCHANGED <<updateCounter, uncommented>>

(* sendBeacon(), up to its stamps: a position, a status without one, or nothing. *)
SendBeacon(t, onDemand, forced) ==
  LET saved == IF forced THEN updateCounter ELSE NoCounter
  IN  \/ /\ located
         /\ Transmit(t, "position", onDemand, saved)
         /\ CountBeacon(t, forced)
      \/ /\ ~located /\ AdvertisesWithoutFix
         /\ Transmit(t, "status", onDemand, saved)
         /\ UNCHANGED <<updateCounter, uncommented>>
      \/ /\ ~located /\ ~AdvertisesWithoutFix
         /\ UNCHANGED <<job, updateCounter, uncommented>>

(* sendStatusBeacon(). *)
SendStatus(t, onDemand) ==
  \/ /\ device.status
     /\ Transmit(t, "status", onDemand, NoCounter)
     /\ UNCHANGED <<updateCounter, uncommented>>
  \/ ~device.status /\ SendBeacon(t, onDemand, FALSE)

(* sendCommentBeaconNow() and sendStatusBeaconNow(): what they save is put *)
(* back by Restore.  Two tasks that save each other's count can raise it,  *)
(* one at a time; the model leaves off below the wrap.                     *)
OnDemand(t) ==
  \/ updateCounter < CounterWrap - 2 /\ SendBeacon(t, TRUE, TRUE)
  \/ SendStatus(t, TRUE)

AtLoop(at) == pc = at /\ job["loop"] = NoJob

-----------------------------------------------------------------------------
(* One pass of loop(). *)

(* The console, the button (short or long), or a query that is answered    *)
(* with a beacon; or nothing.                                              *)
Request ==
  /\ AtLoop("requests") /\ pc' = "trigger"
  /\ \/ OnDemand("loop")
     \/ SendBeacon("loop", FALSE, FALSE)
     \/ SendStatus("loop", FALSE)
     \/ UNCHANGED <<job, updateCounter, uncommented>>
  /\ UNCHANGED <<device, located, timers, needsBeacon, sinceScheduled, overlapped>>

(* consumeBeaconTrigger() of an iGate that has just logged in. *)
Trigger ==
  /\ AtLoop("trigger") /\ pc' = "interval"
  /\ IF BeaconsByRole /\ needsBeacon
     THEN needsBeacon' = FALSE /\ SendBeacon("loop", FALSE, FALSE)
     ELSE UNCHANGED <<needsBeacon, job, updateCounter, uncommented>>
  /\ UNCHANGED <<device, located, timers, sinceScheduled, overlapped>>

(* The interval of iGate and digipeater. *)
Interval ==
  /\ AtLoop("interval") /\ pc' = "phg"
  /\ IF BeaconsByRole /\ timer >= NonSmartRate
     THEN SendBeacon("loop", FALSE, FALSE)
     ELSE UNCHANGED <<job, updateCounter, uncommented>>
  /\ UNCHANGED <<device, located, timers, needsBeacon, sinceScheduled, overlapped>>

(* Mutant: the PHG beacon goes by the timer of the other beacons. *)
PhgOnSharedTimer ==
  /\ AtLoop("phg") /\ pc' = "gps"
  /\ IF device.phg /\ timer >= PhgRate
     THEN IF located
          THEN Transmit("loop", "phg", FALSE, NoCounter) /\ UNCHANGED phgTimer
          ELSE phgTimer' = 0 /\ UNCHANGED job
     ELSE UNCHANGED <<job, phgTimer>>
  /\ UNCHANGED <<device, located, timer, sendUpdate, txInterval, updateCounter,
                 needsBeacon, ghosts>>

(* The PHG beacon.  Without a position it is skipped, and its timer starts all the same. *)
Phg ==
  /\ AtLoop("phg") /\ pc' = "gps"
  /\ IF device.phg /\ (phgTimer = NeverSent \/ phgTimer >= PhgRate)
     THEN IF located
          THEN Transmit("loop", "phg", FALSE, NoCounter) /\ UNCHANGED phgTimer
          ELSE phgTimer' = 0 /\ UNCHANGED job
     ELSE UNCHANGED <<job, phgTimer>>
  /\ UNCHANGED <<device, located, timer, sendUpdate, txInterval, updateCounter,
                 needsBeacon, ghosts>>

(* Mutant: the distance is taken from the wrong end. *)
SmartIntervalSwapped(speed) ==
  LET range == Profile.fastSpeed - Profile.slowSpeed
      rise  == (Profile.slowRate - Profile.fastRate) * (speed - Profile.fastSpeed)
      Part(n) == IF n >= 0 THEN n \div range ELSE -((-n) \div range)
  IN  IF speed <= 1 THEN NonSmartRate
      ELSE IF speed < Profile.slowSpeed THEN Profile.slowRate
      ELSE IF speed > Profile.fastSpeed \/ range <= 0 THEN Profile.fastRate
      ELSE Profile.fastRate + Part(rise)

(* checkInterval(): by the speed, linear between the two speeds of the profile. *)
SmartInterval(speed) ==
  LET range == Profile.fastSpeed - Profile.slowSpeed
      rise  == (Profile.slowRate - Profile.fastRate) * (Profile.fastSpeed - speed)
      Part(n) == IF n >= 0 THEN n \div range ELSE -((-n) \div range)
  IN  IF speed <= 1 THEN NonSmartRate
      ELSE IF speed < Profile.slowSpeed THEN Profile.slowRate
      ELSE IF speed > Profile.fastSpeed \/ range <= 0 THEN Profile.fastRate
      ELSE Profile.fastRate + Part(rise)

(* Mutant: the update wanted at boot is not looked at. *)
BeaconIsDueByTimer(updated, speed, turned) ==
  \/ device.smart /\ updated /\ timer >= txInterval
  \/ device.smart /\ updated /\ turned
       /\ speed >= Max2(2, Profile.slowSpeed) /\ timer >= Profile.turnMinTime
  \/ ~device.smart /\ timer >= NonSmartRate

(* calculateDistanceTraveled(), calculateHeadingDelta(), checkFixedBeaconTime(). *)
BeaconIsDue(updated, speed, turned) ==
  \/ sendUpdate
  \/ device.smart /\ updated /\ timer >= txInterval
  \/ device.smart /\ updated /\ turned
       /\ speed >= Max2(2, Profile.slowSpeed) /\ timer >= Profile.turnMinTime
  \/ ~device.smart /\ timer >= NonSmartRate

(* The end of the pass with a GPS: updated and timed say what was read,    *)
(* turned that the heading has changed by more than the angle at speed.    *)
Sense(updated, timed, speed, turned) ==
  LET due == BeaconIsDue(updated, speed, turned)
  IN  /\ AtLoop("gps") /\ pc' = "requests"
      /\ GpsIsActive
      /\ located' = (located \/ updated)
      /\ sendUpdate' = due
      /\ IF due /\ updated
         THEN Transmit("loop", "position", FALSE, NoCounter) /\ CountBeacon("loop", FALSE)
         ELSE UNCHANGED <<job, updateCounter, uncommented>>
      /\ txInterval' = IF timed /\ device.smart THEN SmartInterval(speed) ELSE txInterval
      /\ UNCHANGED <<device, timer, phgTimer, needsBeacon, sinceScheduled, overlapped>>

SenseUpdate ==
  \E timed, turned \in BOOLEAN, speed \in Speeds : Sense(TRUE, timed, speed, turned)

SenseNothing ==
  \E timed, turned \in BOOLEAN, speed \in Speeds : Sense(FALSE, timed, speed, turned)

(* Mutant: the interval is left to the smart beacon, which needs a GPS. *)
TrackerIntervalUnlessSmart ==
  /\ AtLoop("gps") /\ pc' = "requests"
  /\ ~GpsIsActive
  /\ IF device.role = "ROLE_TRACKER" /\ ~device.smart /\ timer >= NonSmartRate
     THEN SendBeacon("loop", FALSE, FALSE)
     ELSE UNCHANGED <<job, updateCounter, uncommented>>
  /\ UNCHANGED <<device, located, timers, needsBeacon, sinceScheduled, overlapped>>

(* The end of the pass without a GPS: the interval of a tracker. *)
TrackerInterval ==
  /\ AtLoop("gps") /\ pc' = "requests"
  /\ ~GpsIsActive
  /\ IF device.role = "ROLE_TRACKER" /\ timer >= NonSmartRate
     THEN SendBeacon("loop", FALSE, FALSE)
     ELSE UNCHANGED <<job, updateCounter, uncommented>>
  /\ UNCHANGED <<device, located, timers, needsBeacon, sinceScheduled, overlapped>>

-----------------------------------------------------------------------------
(* Either task. *)

(* Mutant: a status does not stamp the timer. *)
SentStatusUnstamped(t) ==
  LET j == job[t]
  IN  /\ j.stage = "air"
      /\ timer' = IF j.kind = "status" THEN timer ELSE 0
      /\ sendUpdate' = (j.kind = "phg" /\ sendUpdate)
      /\ phgTimer' = IF j.kind = "phg" THEN 0 ELSE phgTimer
      /\ job' = [job EXCEPT ![t] = IF j.onDemand THEN [j EXCEPT !.stage = "sent"] ELSE NoJob]
      /\ IF j.onDemand THEN UNCHANGED <<sinceScheduled, overlapped>>
                       ELSE sinceScheduled' = 0 /\ overlapped' = ~Alone(t)
      /\ UNCHANGED <<device, located, txInterval, updateCounter, needsBeacon, pc,
                     uncommented>>

(* sendNewPacket() returns: the stamps at the end of the three senders. *)
Sent(t) ==
  LET j == job[t]
  IN  /\ j.stage = "air"
      /\ timer' = 0
      /\ sendUpdate' = (j.kind = "phg" /\ sendUpdate)
      /\ phgTimer' = IF j.kind = "phg" THEN 0 ELSE phgTimer
      /\ job' = [job EXCEPT ![t] = IF j.onDemand THEN [j EXCEPT !.stage = "sent"] ELSE NoJob]
      /\ IF j.onDemand THEN UNCHANGED <<sinceScheduled, overlapped>>
                       ELSE sinceScheduled' = 0 /\ overlapped' = ~Alone(t)
      /\ UNCHANGED <<device, located, txInterval, updateCounter, needsBeacon, pc,
                     uncommented>>

(* The end of sendCommentBeaconNow() and sendStatusBeaconNow(). *)
Restore(t) ==
  /\ job[t].stage = "sent"
  /\ timer' = job[t].savedTimer
  /\ updateCounter' = IF job[t].savedCounter = NoCounter THEN updateCounter
                                                         ELSE job[t].savedCounter
  /\ job' = [job EXCEPT ![t] = NoJob]
  /\ UNCHANGED <<device, located, phgTimer, sendUpdate, txInterval, needsBeacon, pc,
                 ghosts>>

(* handleAction() of the web server. *)
WebRequest ==
  /\ "web" \in Tasks /\ job["web"] = NoJob
  /\ OnDemand("web")
  /\ UNCHANGED <<device, located, timers, needsBeacon, pc, sinceScheduled, overlapped>>

(* The APRS-IS client has logged in; only iGates run it. *)
LoggedIn ==
  /\ device.role = "ROLE_IGATE"
  /\ needsBeacon' = TRUE
  /\ UNCHANGED <<device, located, timers, updateCounter, pc, job, ghosts>>

Older(age) == IF age < Longest THEN age + 1 ELSE age

Tick ==
  /\ timer' = Older(timer) /\ sinceScheduled' = Older(sinceScheduled)
  /\ phgTimer' = IF phgTimer = NeverSent THEN NeverSent ELSE Older(phgTimer)
  /\ job' = [t \in Tasks |->
       IF job[t] = NoJob THEN NoJob
                         ELSE [job[t] EXCEPT !.savedTimer = Older(@)]]
  /\ UNCHANGED <<device, located, sendUpdate, txInterval, updateCounter, needsBeacon,
                 pc, overlapped, uncommented>>

LoopStep ==
  \/ Request \/ Trigger \/ Interval \/ Phg
  \/ SenseUpdate \/ SenseNothing \/ TrackerInterval
  \/ Sent("loop") \/ Restore("loop")

WebStep == "web" \in Tasks /\ (Sent("web") \/ Restore("web"))

Next == LoopStep \/ WebRequest \/ WebStep \/ LoggedIn \/ Tick

(* loop() never returns and a transmission ends; a receiver that is on     *)
(* reports a position again and again.                                     *)
Fairness == WF_vars(LoopStep) /\ WF_vars(WebStep) /\ WF_vars(Tick) /\ SF_vars(SenseUpdate)

Spec == Init /\ [][Next]_vars /\ Fairness

-----------------------------------------------------------------------------

JobsOK ==
  /\ job \in [Tasks -> Jobs \cup {NoJob}]
  /\ \A t \in Tasks : job[t].stage # "none" /\ job[t].kind = "phg" => ~job[t].onDemand

CountersOK == updateCounter \in 0..(CounterWrap - 1) /\ uncommented \in Nat

AgesOK == /\ timer \in 0..Longest /\ sinceScheduled \in 0..Longest
          /\ phgTimer \in (0..Longest) \cup {NeverSent}

(* Types; a PHG beacon is never on demand. *)
TypeOK ==
  /\ device \in Devices /\ located \in BOOLEAN
  /\ AgesOK /\ CountersOK /\ JobsOK
  /\ sendUpdate \in BOOLEAN /\ needsBeacon \in BOOLEAN /\ overlapped \in BOOLEAN
  /\ txInterval \in 1..Longest
  /\ pc \in {"requests", "trigger", "interval", "phg", "gps"}

(* loop() starts a beacon because a timer has run out. *)
StartsOnTimer ==
  /\ job["loop"] = NoJob /\ job'["loop"] # NoJob
  /\ pc \in {"interval", "gps"}

(* The least time the configuration puts between two of them. *)
Spacing ==
  IF pc = "gps" /\ GpsIsActive /\ device.smart
  THEN IF txInterval < Profile.turnMinTime THEN txInterval ELSE Profile.turnMinTime
  ELSE NonSmartRate

(* No double beacon (device_role.cpp:169-173): a timer starts a beacon     *)
(* only when the spacing has gone by since the last beacon of any trigger  *)
(* but those on demand.  Two cases are left out: an overlap of that beacon *)
(* with one on demand, and, on a device with PHG beacons, an update that   *)
(* was wanted before.                                                      *)
BeaconsAreSpaced ==
  [][StartsOnTimer =>
       \/ sinceScheduled >= Spacing
       \/ overlapped
       \/ (device.phg /\ sendUpdate)]_vars

(* "on every Xth beacon": beacons on demand, which count and un-count, do  *)
(* not put the comment off (station_utils.cpp:403-424, 469-475).           *)
CommentIsRegular == uncommented < CommentAfter

(* sendUpdate is true from boot (main.cpp:76): a tracker reports its first *)
(* position as soon as it has it.  Of a tracker with a status text it      *)
(* does not hold, as a status sent before clears sendUpdate.               *)
FirstPositionIsReported ==
  [][device.role = "ROLE_TRACKER" /\ ~device.status /\ ~located /\ located' =>
       job'["loop"].stage = "air"]_vars

OnAir(kinds) ==
  \E t \in Tasks : job[t].stage = "air" /\ job[t].kind \in kinds

(* A device that knows where it is, or is an iGate or digipeater with a    *)
(* source, is heard again and again, whatever resets the timer.            *)
Advertises ==
  (located \/ AdvertisesWithoutFix) ~> OnAir({"position", "status", "phg"})

(* The PHG beacon is "sent on its own timer" (README.md:120): no other     *)
(* beacon keeps it from being sent.                                        *)
PhgIsSent == (device.phg /\ located) ~> OnAir({"phg"})
=============================================================================
