------------------------- MODULE Beaconing_proofs -------------------------
(***************************************************************************)
(* Proofs about Beaconing: the interval of the smart beacon, the           *)
(* regularity of the comment, the spacing of the beacons and the report of *)
(* the first position, for all values of the constants.                    *)
(***************************************************************************)
EXTENDS Beaconing, TLAPS

USE BeaconingAssumption

-----------------------------------------------------------------------------
(* The interval of the smart beacon (checkInterval()). *)

(* A share of a whole, rounded down, lies between nothing and the whole. *)
LEMMA ShareOfWhole ==
  ASSUME NEW whole \in Nat, NEW range \in Nat \ {0}, NEW part \in 0..range
  PROVE  (whole * part) \div range \in 0..whole
<1> DEFINE product == whole * part
<1>1. product \in Nat /\ product <= whole * range
  OBVIOUS
<1>2. whole * range \in Nat
  OBVIOUS
<1>3. product \div range \in Nat
  BY <1>1
<1>4. range * (product \div range) <= product
  BY <1>1
<1>5. range * (product \div range) <= range * whole
  BY <1>1, <1>2, <1>3, <1>4
<1>6. product \div range <= whole
  BY <1>3, <1>5
<1> QED
  BY <1>3, <1>6

(* Between the two speeds the interval lies between the two rates, whichever *)
(* of them is the longer; the ranges of the custom profile allow both.       *)
LEMMA InterpolationWithinRates ==
  ASSUME NEW slow \in Nat \ {0}, NEW fast \in Nat \ {0},
         NEW range \in Nat \ {0}, NEW part \in 0..range,
         NEW rise, rise = (slow - fast) * part
  PROVE  LET share == IF rise >= 0 THEN rise \div range ELSE -((-rise) \div range)
         IN  fast + share \in (fast..slow) \cup (slow..fast)
<1>1. CASE slow >= fast
  <2> DEFINE whole == slow - fast
  <2>1. whole \in Nat
    BY <1>1
  <2>2. rise >= 0
    BY <1>1
  <2>3. (whole * part) \div range \in 0..whole
    BY <2>1, ShareOfWhole
  <2> QED
    BY <2>1, <2>2, <2>3, <1>1
<1>2. CASE slow < fast /\ part # 0
  <2> DEFINE whole == fast - slow
  <2>1. whole \in Nat \ {0}
    BY <1>2
  <2>2. -rise = whole * part /\ whole * part \in Nat /\ whole * part > 0
    BY <1>2
  <2>3. ~(rise >= 0)
    BY <2>2
  <2>4. (whole * part) \div range \in 0..whole
    BY <2>1, ShareOfWhole
  <2>5. fast - ((-rise) \div range) \in slow..fast
    BY <2>1, <2>2, <2>4
  <2> QED
    BY <2>3, <2>4, <2>2, <2>5
<1>3. CASE part = 0
  BY <1>3
<1> QED
  BY <1>1, <1>2, <1>3

(* checkInterval() never gives an interval outside the rates of the        *)
(* profile, except that of a parked device, for every profile and speed:   *)
(* no division by zero, no sign lost in C's rounding towards zero.         *)
THEOREM SmartIntervalWithinRates ==
  ASSUME NEW speed \in Nat
  PROVE  \/ SmartInterval(speed) = NonSmartRate
         \/ SmartInterval(speed) \in Profile.fastRate..Profile.slowRate
         \/ SmartInterval(speed) \in Profile.slowRate..Profile.fastRate
<1> DEFINE range == Profile.fastSpeed - Profile.slowSpeed
           part  == Profile.fastSpeed - speed
           rise  == (Profile.slowRate - Profile.fastRate) * part
           share == IF rise >= 0 THEN rise \div range ELSE -((-rise) \div range)
<1>0. /\ Profile.slowRate \in Nat \ {0} /\ Profile.fastRate \in Nat \ {0}
      /\ Profile.slowSpeed \in Nat \ {0} /\ Profile.fastSpeed \in Nat \ {0}
  OBVIOUS
<1>1. CASE speed <= 1
  BY <1>1 DEF SmartInterval
<1>2. CASE speed > 1 /\ speed < Profile.slowSpeed
  BY <1>0, <1>2 DEF SmartInterval
<1>3. CASE /\ speed > 1 /\ speed >= Profile.slowSpeed
           /\ speed > Profile.fastSpeed \/ range <= 0
  BY <1>0, <1>3 DEF SmartInterval, Max2
<1>4. CASE /\ speed > 1 /\ speed >= Profile.slowSpeed
           /\ speed <= Profile.fastSpeed /\ range > 0
  <2>1. range \in Nat \ {0} /\ part \in 0..range
    BY <1>0, <1>4
  <2>2. SmartInterval(speed) = Profile.fastRate + share
    BY <1>0, <1>4 DEF SmartInterval, Max2
  <2> HIDE DEF range, part
  <2>3. Profile.fastRate + share \in (Profile.fastRate..Profile.slowRate)
                                       \cup (Profile.slowRate..Profile.fastRate)
    BY <2>1, <1>0, InterpolationWithinRates
  <2> QED
    BY <2>2, <2>3
<1> QED
  BY <1>0, <1>1, <1>2, <1>3, <1>4

-----------------------------------------------------------------------------
(* Types. *)

(* A task that starts a transmission has a job of the right type. *)
LEMMA TransmitType ==
  ASSUME JobsOK, timer \in 0..Longest, NEW t \in Tasks,
         NEW kind \in {"position", "status", "phg"}, NEW onDemand \in BOOLEAN,
         kind = "phg" => ~onDemand,
         NEW saved \in (0..(CounterWrap - 1)) \cup {NoCounter},
         Transmit(t, kind, onDemand, saved)
  PROVE  JobsOK'
<1> DEFINE j == [stage |-> "air", kind |-> kind, onDemand |-> onDemand,
                 savedTimer |-> timer, savedCounter |-> saved]
<1>1. j \in Jobs
  BY DEF Jobs
<1>2. job' = [job EXCEPT ![t] = j]
  BY DEF Transmit
<1>3. job' \in [Tasks -> Jobs \cup {NoJob}]
  BY <1>1, <1>2 DEF JobsOK
<1>4. \A u \in Tasks : job'[u] = IF u = t THEN j ELSE job[u]
  BY <1>2 DEF JobsOK
<1> HIDE <1>2
<1>5. \A u \in Tasks :
        job'[u].stage # "none" /\ job'[u].kind = "phg" => ~job'[u].onDemand
  BY <1>4 DEF JobsOK
<1> QED
  BY <1>3, <1>5 DEF JobsOK

LEMMA CountType ==
  ASSUME CountersOK, NEW t \in Tasks, NEW forced \in BOOLEAN, CountBeacon(t, forced)
  PROVE  CountersOK'
BY DEF CountBeacon, CountersOK

LEMMA SendBeaconType ==
  ASSUME JobsOK, CountersOK, timer \in 0..Longest,
         NEW t \in Tasks, NEW onDemand \in BOOLEAN, NEW forced \in BOOLEAN,
         SendBeacon(t, onDemand, forced)
  PROVE  JobsOK' /\ CountersOK'
<1> DEFINE saved == IF forced THEN updateCounter ELSE NoCounter
<1>0. saved \in (0..(CounterWrap - 1)) \cup {NoCounter}
  BY DEF CountersOK
<1> HIDE DEF saved
<1>1. CASE Transmit(t, "position", onDemand, saved) /\ CountBeacon(t, forced)
  BY <1>0, <1>1, TransmitType, CountType
<1>2. CASE Transmit(t, "status", onDemand, saved) /\ UNCHANGED <<updateCounter, uncommented>>
  <2>1. JobsOK'
    BY <1>0, <1>2, TransmitType
  <2> QED
    BY <1>2, <2>1 DEF CountersOK
<1>3. CASE UNCHANGED <<job, updateCounter, uncommented>>
  BY <1>3 DEF JobsOK, CountersOK
<1> QED
  BY <1>1, <1>2, <1>3 DEF SendBeacon, saved

LEMMA SendStatusType ==
  ASSUME JobsOK, CountersOK, timer \in 0..Longest,
         NEW t \in Tasks, NEW onDemand \in BOOLEAN, SendStatus(t, onDemand)
  PROVE  JobsOK' /\ CountersOK'
<1>1. CASE /\ Transmit(t, "status", onDemand, NoCounter)
           /\ UNCHANGED <<updateCounter, uncommented>>
  <2>1. JobsOK'
    BY <1>1, TransmitType
  <2> QED
    BY <1>1, <2>1 DEF CountersOK
<1>2. CASE SendBeacon(t, onDemand, FALSE)
  BY <1>2, SendBeaconType
<1> QED
  BY <1>1, <1>2 DEF SendStatus

LEMMA OnDemandType ==
  ASSUME JobsOK, CountersOK, timer \in 0..Longest, NEW t \in Tasks, OnDemand(t)
  PROVE  JobsOK' /\ CountersOK'
BY SendBeaconType, SendStatusType DEF OnDemand

LEMMA InitTypeOK == Init => TypeOK
<1> SUFFICES ASSUME Init PROVE TypeOK
  OBVIOUS
<1>1. device \in Devices /\ device.fixed \in BOOLEAN
  BY DEF Init, Device
<1>2. located \in BOOLEAN
  BY <1>1 DEF Init, LocatedAtBoot
<1>3. JobsOK
  BY DEF Init, JobsOK, NoJob
<1>4. AgesOK /\ CountersOK
  BY DEF Init, AgesOK, CountersOK
<1>5. txInterval \in 1..Longest
  BY DEF Init
<1>6. sendUpdate \in BOOLEAN /\ needsBeacon \in BOOLEAN /\ overlapped \in BOOLEAN
  BY DEF Init
<1>7. pc \in {"requests", "trigger", "interval", "phg", "gps"}
  BY DEF Init
<1> QED
  BY <1>1, <1>2, <1>3, <1>4, <1>5, <1>6, <1>7 DEF TypeOK

LEMMA SmartIntervalType ==
  ASSUME NEW speed \in Speeds
  PROVE  SmartInterval(speed) \in 1..Longest
<1>1. /\ Profile.slowRate \in 1..Longest /\ Profile.fastRate \in 1..Longest
      /\ NonSmartRate \in 1..Longest /\ speed \in Nat
  OBVIOUS
<1> QED
  BY <1>1, SmartIntervalWithinRates

(* The steps of loop() that only start a transmission. *)
LEMMA StartKeepsType ==
  ASSUME TypeOK, JobsOK', CountersOK',
         pc' \in {"requests", "trigger", "interval", "phg", "gps"},
         needsBeacon' \in BOOLEAN,
         UNCHANGED <<device, located, timers, sinceScheduled, overlapped>>
  PROVE  TypeOK'
BY DEF TypeOK, AgesOK, timers

LEMMA NextTypeOK == TypeOK /\ [Next]_vars => TypeOK'
<1> SUFFICES ASSUME TypeOK, [Next]_vars PROVE TypeOK'
  OBVIOUS
<1>0. /\ JobsOK /\ CountersOK /\ timer \in 0..Longest /\ "loop" \in Tasks
      /\ TRUE \in BOOLEAN /\ FALSE \in BOOLEAN
  BY DEF TypeOK, AgesOK
<1>00. UNCHANGED <<job, updateCounter, uncommented>> => JobsOK' /\ CountersOK'
  BY <1>0 DEF JobsOK, CountersOK
<1>1. CASE Request
  <2>1. JobsOK' /\ CountersOK'
    BY <1>0, <1>00, <1>1, OnDemandType, SendBeaconType, SendStatusType DEF Request
  <2> QED
    BY <1>1, <2>1, StartKeepsType DEF Request, TypeOK
<1>2. CASE Trigger
  <2>1. JobsOK' /\ CountersOK'
    BY <1>0, <1>00, <1>2, SendBeaconType DEF Trigger
  <2> QED
    BY <1>2, <2>1, StartKeepsType DEF Trigger, TypeOK
<1>3. CASE Interval
  <2>1. JobsOK' /\ CountersOK'
    BY <1>0, <1>00, <1>3, SendBeaconType DEF Interval
  <2> QED
    BY <1>3, <2>1, StartKeepsType DEF Interval, TypeOK
<1>4. CASE Phg
  <2>1. JobsOK'
    <3>1. CASE Transmit("loop", "phg", FALSE, NoCounter)
      BY <1>0, <3>1, TransmitType
    <3>2. CASE UNCHANGED job
      BY <1>0, <3>2 DEF JobsOK
    <3> QED
      BY <1>4, <3>1, <3>2 DEF Phg
  <2>2. phgTimer' = phgTimer \/ phgTimer' = 0
    BY <1>4 DEF Phg
  <2>3. AgesOK'
    BY <1>4, <2>2 DEF Phg, TypeOK, AgesOK, ghosts
  <2>4. CountersOK'
    BY <1>4 DEF Phg, TypeOK, CountersOK, ghosts
  <2> QED
    BY <1>4, <2>1, <2>3, <2>4 DEF Phg, TypeOK, ghosts
<1>5. ASSUME NEW updated \in BOOLEAN, NEW timed \in BOOLEAN, NEW turned \in BOOLEAN,
             NEW speed \in Speeds, Sense(updated, timed, speed, turned)
      PROVE  TypeOK'
  <2>1. JobsOK' /\ CountersOK'
    <3>1. CASE Transmit("loop", "position", FALSE, NoCounter) /\ CountBeacon("loop", FALSE)
      BY <1>0, <3>1, TransmitType, CountType
    <3> QED
      BY <1>00, <1>5, <3>1 DEF Sense
  <2>2. located' \in BOOLEAN
    BY <1>5 DEF Sense, TypeOK
  <2>3. sendUpdate' \in BOOLEAN
    BY <1>5 DEF Sense, BeaconIsDue
  <2>4. txInterval' \in 1..Longest
    BY <1>5, SmartIntervalType DEF Sense, TypeOK
  <2>5. AgesOK' /\ overlapped' \in BOOLEAN /\ needsBeacon' \in BOOLEAN /\ device' \in Devices
    BY <1>5 DEF Sense, TypeOK, AgesOK
  <2>6. pc' = "requests"
    BY <1>5 DEF Sense
  <2> QED
    BY <2>1, <2>2, <2>3, <2>4, <2>5, <2>6 DEF TypeOK
<1>6. CASE TrackerInterval
  <2>1. JobsOK' /\ CountersOK'
    BY <1>0, <1>00, <1>6, SendBeaconType DEF TrackerInterval
  <2> QED
    BY <1>6, <2>1, StartKeepsType DEF TrackerInterval, TypeOK
<1>7. ASSUME NEW t \in Tasks, Sent(t) PROVE TypeOK'
  <2> DEFINE j == job[t]
             k == IF j.onDemand THEN [j EXCEPT !.stage = "sent"] ELSE NoJob
  <2>1. j \in Jobs
    BY <1>0, <1>7 DEF Sent, JobsOK, NoJob
  <2>2. k \in Jobs \cup {NoJob} /\ (k.stage # "none" /\ k.kind = "phg" => ~k.onDemand)
    BY <1>0, <1>7, <2>1 DEF Sent, JobsOK, Jobs, NoJob
  <2>3. \A u \in Tasks : job'[u] = IF u = t THEN k ELSE job[u]
    BY <1>0, <1>7 DEF Sent, JobsOK
  <2>4. job' \in [Tasks -> Jobs \cup {NoJob}]
    BY <1>0, <1>7, <2>2 DEF Sent, JobsOK
  <2> HIDE DEF k
  <2>5. JobsOK'
    BY <1>0, <2>2, <2>3, <2>4 DEF JobsOK
  <2>6. AgesOK' /\ CountersOK'
    BY <1>7 DEF Sent, TypeOK, AgesOK, CountersOK, NeverSent
  <2>7. sendUpdate' \in BOOLEAN
    BY <1>7 DEF Sent, TypeOK
  <2>8. overlapped' \in BOOLEAN
    BY <1>7 DEF Sent, TypeOK, Alone
  <2> QED
    BY <1>7, <2>5, <2>6, <2>7, <2>8 DEF Sent, TypeOK
<1>8. ASSUME NEW t \in Tasks, Restore(t) PROVE TypeOK'
  <2>1. job[t] \in Jobs
    BY <1>0, <1>8 DEF Restore, JobsOK, NoJob
  <2>2. JobsOK'
    BY <1>0, <1>8 DEF Restore, JobsOK, NoJob
  <2>3. AgesOK' /\ CountersOK'
    BY <1>8, <2>1 DEF Restore, TypeOK, AgesOK, CountersOK, Jobs, ghosts
  <2> QED
    BY <1>8, <2>2, <2>3 DEF Restore, TypeOK, ghosts
<1>9. CASE WebRequest
  <2>1. JobsOK' /\ CountersOK'
    BY <1>0, <1>9, OnDemandType DEF WebRequest
  <2> QED
    BY <1>9, <2>1, StartKeepsType DEF WebRequest, TypeOK
<1>10. CASE LoggedIn
  <2>1. JobsOK' /\ CountersOK'
    BY <1>0, <1>10 DEF LoggedIn, JobsOK, CountersOK, ghosts
  <2> QED
    BY <1>10, <2>1, StartKeepsType DEF LoggedIn, TypeOK, ghosts
<1>11. CASE Tick
  <2>1. AgesOK' /\ CountersOK'
    BY <1>11 DEF Tick, TypeOK, AgesOK, CountersOK, Older, NeverSent
  <2>2. JobsOK'
    <3>1. \A t \in Tasks :
            LET k == IF job[t] = NoJob THEN NoJob
                                       ELSE [job[t] EXCEPT !.savedTimer = Older(@)]
            IN  /\ k \in Jobs \cup {NoJob}
                /\ k.stage = job[t].stage /\ (job[t] # NoJob => k.kind = job[t].kind)
                /\ (job[t] # NoJob => k.onDemand = job[t].onDemand)
      BY <1>0 DEF JobsOK, Jobs, Older
    <3>2. job' \in [Tasks -> Jobs \cup {NoJob}]
      BY <1>11, <3>1 DEF Tick
    <3>3. ASSUME NEW t \in Tasks, job'[t].stage # "none", job'[t].kind = "phg"
          PROVE  ~job'[t].onDemand
      BY <1>0, <1>11, <3>1, <3>3 DEF Tick, JobsOK, NoJob
    <3> QED
      BY <3>2, <3>3 DEF JobsOK
  <2> QED
    BY <1>11, <2>1, <2>2 DEF Tick, TypeOK
<1>12. CASE UNCHANGED vars
  BY <1>12 DEF TypeOK, AgesOK, CountersOK, JobsOK, vars, timers, ghosts
<1>13. SenseUpdate \/ SenseNothing => TypeOK'
  BY <1>5 DEF SenseUpdate, SenseNothing
<1> QED
  BY <1>1, <1>2, <1>3, <1>4, <1>6, <1>7, <1>8, <1>9, <1>10, <1>11, <1>12, <1>13
  DEF Next, LoopStep, WebStep

(* Every variable keeps its type, for all values of the constants. *)
THEOREM SpecTypeOK == Spec => []TypeOK
BY InitTypeOK, NextTypeOK, PTL DEF Spec

-----------------------------------------------------------------------------
(* The comment.  The count may be put back to what another task saved, so  *)
(* that uncommented < CommentAfter is not inductive: every saved count     *)
(* must cover the beacons since the last comment, as the count does.  The  *)
(* history counts only beacons of a task that is alone, and while a count  *)
(* is saved its task is not.                                               *)
CountsCover ==
  /\ updateCounter \in 0..(CounterWrap - 2)
  /\ uncommented <= updateCounter
  /\ \A t \in Tasks : job[t].stage # "none" /\ job[t].savedCounter # NoCounter =>
       job[t].savedCounter \in uncommented..(CounterWrap - 2)

CInv == TypeOK /\ CommentIsRegular /\ CountsCover

LEMMA InitCInv == Init => CInv
<1> SUFFICES ASSUME Init PROVE CInv
  OBVIOUS
<1>1. TypeOK
  BY InitTypeOK
<1> QED
  BY <1>1 DEF CInv, CommentIsRegular, CountsCover, Init, NoJob

(* Each way to start a transmission keeps the cover. *)
LEMMA StartKeepsCover ==
  ASSUME CInv, NEW t \in Tasks, job[t] = NoJob,
         NEW kind, NEW onDemand, NEW saved \in {updateCounter, NoCounter},
         Transmit(t, kind, onDemand, saved),
         \/ UNCHANGED <<updateCounter, uncommented>>
         \/ saved = NoCounter /\ CountBeacon(t, FALSE)
         \/ updateCounter < CounterWrap - 2 /\ CountBeacon(t, TRUE)
  PROVE  CommentIsRegular' /\ CountsCover'
<1> DEFINE j == [stage |-> "air", kind |-> kind, onDemand |-> onDemand,
                 savedTimer |-> timer, savedCounter |-> saved]
<1>1. \A u \in Tasks : job'[u] = IF u = t THEN j ELSE job[u]
  BY DEF Transmit, CInv, TypeOK, JobsOK
<1>2. updateCounter \in 0..(CounterWrap - 2) /\ uncommented \in 0..updateCounter
  BY DEF CInv, CountsCover, TypeOK, CountersOK
<1>3. \/ uncommented' <= uncommented
      \/ uncommented' = uncommented + 1 /\ Alone(t) /\ saved = NoCounter
  BY <1>2 DEF CountBeacon
<1>4. /\ updateCounter' \in 0..(CounterWrap - 2)
      /\ uncommented' \in 0..updateCounter'
      /\ uncommented' < CommentAfter
  BY <1>2 DEF CountBeacon, CInv, CommentIsRegular
<1>5. ASSUME NEW u \in Tasks, job'[u].stage # "none", job'[u].savedCounter # NoCounter
      PROVE  job'[u].savedCounter \in uncommented'..(CounterWrap - 2)
  <2>1. CASE u = t
    BY <1>1, <1>2, <1>3, <1>4, <1>5, <2>1
  <2>2. CASE u # t
    <3>1. ~Alone(t) /\ job[u].savedCounter \in uncommented..(CounterWrap - 2)
      BY <1>1, <1>5, <2>2 DEF Alone, CInv, CountsCover, NoJob
    <3> QED
      BY <1>1, <1>2, <1>3, <1>4, <2>2, <3>1
  <2> QED
    BY <2>1, <2>2
<1> QED
  BY <1>4, <1>5 DEF CommentIsRegular, CountsCover

LEMMA IdleKeepsCover ==
  ASSUME CInv, UNCHANGED <<job, updateCounter, uncommented>>
  PROVE  CommentIsRegular' /\ CountsCover'
BY DEF CInv, CommentIsRegular, CountsCover

LEMMA SendBeaconKeepsCover ==
  ASSUME CInv, NEW t \in Tasks, job[t] = NoJob,
         NEW onDemand \in BOOLEAN, NEW forced \in BOOLEAN,
         forced => updateCounter < CounterWrap - 2,
         SendBeacon(t, onDemand, forced)
  PROVE  CommentIsRegular' /\ CountsCover'
<1> DEFINE saved == IF forced THEN updateCounter ELSE NoCounter
<1>1. CASE Transmit(t, "position", onDemand, saved) /\ CountBeacon(t, forced)
  <2>1. CASE forced
    BY <1>1, <2>1, StartKeepsCover
  <2>2. CASE ~forced
    <3>1. Transmit(t, "position", onDemand, NoCounter) /\ CountBeacon(t, FALSE)
      BY <1>1, <2>2
    <3> QED
      BY <3>1, StartKeepsCover
  <2> QED
    BY <2>1, <2>2
<1>2. CASE Transmit(t, "status", onDemand, saved) /\ UNCHANGED <<updateCounter, uncommented>>
  BY <1>2, StartKeepsCover
<1>3. CASE UNCHANGED <<job, updateCounter, uncommented>>
  BY <1>3, IdleKeepsCover
<1> QED
  BY <1>1, <1>2, <1>3 DEF SendBeacon

LEMMA SendStatusKeepsCover ==
  ASSUME CInv, NEW t \in Tasks, job[t] = NoJob,
         NEW onDemand \in BOOLEAN, SendStatus(t, onDemand)
  PROVE  CommentIsRegular' /\ CountsCover'
<1>1. CASE /\ Transmit(t, "status", onDemand, NoCounter)
           /\ UNCHANGED <<updateCounter, uncommented>>
  BY <1>1, StartKeepsCover
<1>2. CASE SendBeacon(t, onDemand, FALSE)
  BY <1>2, SendBeaconKeepsCover
<1> QED
  BY <1>1, <1>2 DEF SendStatus

LEMMA OnDemandKeepsCover ==
  ASSUME CInv, NEW t \in Tasks, job[t] = NoJob, OnDemand(t)
  PROVE  CommentIsRegular' /\ CountsCover'
BY SendBeaconKeepsCover, SendStatusKeepsCover DEF OnDemand

LEMMA NextCInv == CInv /\ [Next]_vars => CInv'
<1> SUFFICES ASSUME CInv, [Next]_vars PROVE CommentIsRegular' /\ CountsCover'
  BY NextTypeOK DEF CInv
<1>0. "loop" \in Tasks /\ TRUE \in BOOLEAN /\ FALSE \in BOOLEAN
  OBVIOUS
<1>1. CASE Request
  BY <1>0, <1>1, OnDemandKeepsCover, SendBeaconKeepsCover, SendStatusKeepsCover,
     IdleKeepsCover DEF Request, AtLoop
<1>2. CASE Trigger
  BY <1>0, <1>2, SendBeaconKeepsCover, IdleKeepsCover DEF Trigger, AtLoop
<1>3. CASE Interval
  BY <1>0, <1>3, SendBeaconKeepsCover, IdleKeepsCover DEF Interval, AtLoop
<1>4. CASE Phg
  <2>1. UNCHANGED <<updateCounter, uncommented>> /\ job["loop"] = NoJob
    BY <1>4 DEF Phg, AtLoop, ghosts
  <2>2. Transmit("loop", "phg", FALSE, NoCounter) \/ UNCHANGED job
    BY <1>4 DEF Phg
  <2> QED
    BY <1>0, <2>1, <2>2, StartKeepsCover, IdleKeepsCover
<1>5. CASE SenseUpdate \/ SenseNothing
  <2>1. PICK updated \in BOOLEAN, timed \in BOOLEAN, turned \in BOOLEAN, speed \in Speeds :
          Sense(updated, timed, speed, turned)
    BY <1>0, <1>5 DEF SenseUpdate, SenseNothing
  <2>2. CASE Transmit("loop", "position", FALSE, NoCounter) /\ CountBeacon("loop", FALSE)
    BY <1>0, <2>1, <2>2, StartKeepsCover DEF Sense, AtLoop
  <2>3. CASE UNCHANGED <<job, updateCounter, uncommented>>
    BY <2>3, IdleKeepsCover
  <2> QED
    BY <2>1, <2>2, <2>3 DEF Sense
<1>6. CASE TrackerInterval
  BY <1>0, <1>6, SendBeaconKeepsCover, IdleKeepsCover DEF TrackerInterval, AtLoop
<1>7. ASSUME NEW t \in Tasks, Sent(t) PROVE CommentIsRegular' /\ CountsCover'
  <2>1. \A u \in Tasks : job'[u].stage # "none" =>
          job[u].stage # "none" /\ job'[u].savedCounter = job[u].savedCounter
    BY <1>7 DEF Sent, CInv, TypeOK, JobsOK, Jobs, NoJob
  <2>2. UNCHANGED <<updateCounter, uncommented>>
    BY <1>7 DEF Sent
  <2> QED
    BY <2>1, <2>2 DEF CInv, CommentIsRegular, CountsCover
<1>8. ASSUME NEW t \in Tasks, Restore(t) PROVE CommentIsRegular' /\ CountsCover'
  <2>1. \A u \in Tasks : job'[u] = IF u = t THEN NoJob ELSE job[u]
    BY <1>8 DEF Restore, CInv, TypeOK, JobsOK
  <2>2. updateCounter' = updateCounter \/ updateCounter' \in uncommented..(CounterWrap - 2)
    BY <1>8 DEF Restore, CInv, CountsCover
  <2>3. uncommented' = uncommented /\ uncommented \in Nat
    BY <1>8 DEF Restore, ghosts, CInv, TypeOK, CountersOK
  <2> QED
    BY <2>1, <2>2, <2>3 DEF CInv, CommentIsRegular, CountsCover, NoJob
<1>9. CASE WebRequest
  BY <1>9, OnDemandKeepsCover DEF WebRequest
<1>10. CASE LoggedIn
  BY <1>10, IdleKeepsCover DEF LoggedIn, ghosts
<1>11. CASE Tick
  <2>1. \A u \in Tasks : job'[u].stage # "none" =>
          job[u].stage # "none" /\ job'[u].savedCounter = job[u].savedCounter
    BY <1>11 DEF Tick, CInv, TypeOK, JobsOK, Jobs, NoJob
  <2>2. UNCHANGED <<updateCounter, uncommented>>
    BY <1>11 DEF Tick
  <2> QED
    BY <2>1, <2>2 DEF CInv, CommentIsRegular, CountsCover
<1>12. CASE UNCHANGED vars
  BY <1>12, IdleKeepsCover DEF vars, ghosts
<1> QED
  BY <1>1, <1>2, <1>3, <1>4, <1>5, <1>6, <1>7, <1>8, <1>9, <1>10, <1>11, <1>12
  DEF Next, LoopStep, WebStep

(* The comment comes with every CommentAfter-th beacon at the latest, for  *)
(* every count at boot, every CommentAfter the counter can hold, and any   *)
(* interleaving of the two tasks (station_utils.cpp:402-424, 469-475).     *)
THEOREM SpecCommentIsRegular == Spec => []CommentIsRegular
<1>1. CInv => CommentIsRegular
  BY DEF CInv
<1> QED
  BY <1>1, InitCInv, NextCInv, PTL DEF Spec

-----------------------------------------------------------------------------
(* The spacing.  timer says how long ago the last scheduled beacon was, or *)
(* less, as long as no stamp older than that beacon is put back: every     *)
(* saved stamp must be as young.  An update still wanted is one of boot,   *)
(* one of the fixed interval, or one whose beacon is on the air.           *)
StampsAreYoung ==
  \/ overlapped
  \/ /\ timer <= sinceScheduled
     /\ \A t \in Tasks : job[t].stage # "none" => job[t].savedTimer <= sinceScheduled

UpdateIsOwed ==
  sendUpdate /\ ~device.phg =>
    \/ overlapped
    \/ sinceScheduled = Longest
    \/ ~device.smart /\ sinceScheduled >= NonSmartRate
    \/ job["loop"].stage = "air"

PhgNeedsSetting ==
  \A t \in Tasks : job[t].stage # "none" /\ job[t].kind = "phg" => device.phg

SInv == TypeOK /\ StampsAreYoung /\ UpdateIsOwed /\ PhgNeedsSetting

LEMMA InitSInv == Init => SInv
<1> SUFFICES ASSUME Init PROVE SInv
  OBVIOUS
<1>1. TypeOK
  BY InitTypeOK
<1> QED
  BY <1>1 DEF SInv, StampsAreYoung, UpdateIsOwed, PhgNeedsSetting, Init, NoJob

(* What a step of task t that starts a transmission or none leaves alone. *)
LEMMA StartKeepsStamps ==
  ASSUME SInv, NEW t \in Tasks, job[t] = NoJob,
         NEW kind, NEW onDemand, NEW saved,
         kind = "phg" => device.phg,
         Transmit(t, kind, onDemand, saved),
         UNCHANGED <<timer, sinceScheduled, overlapped, device>>
  PROVE  /\ StampsAreYoung' /\ PhgNeedsSetting'
         /\ job'[t].stage = "air"
         /\ \A u \in Tasks \ {t} : job'[u] = job[u]
<1> DEFINE j == [stage |-> "air", kind |-> kind, onDemand |-> onDemand,
                 savedTimer |-> timer, savedCounter |-> saved]
<1>1. \A u \in Tasks : job'[u] = IF u = t THEN j ELSE job[u]
  BY DEF Transmit, SInv, TypeOK, JobsOK
<1>2. StampsAreYoung'
  BY <1>1 DEF SInv, StampsAreYoung
<1>3. PhgNeedsSetting'
  BY <1>1 DEF SInv, PhgNeedsSetting
<1> QED
  BY <1>1, <1>2, <1>3

(* Task t starts a transmission or nothing. *)
Begins(t) ==
  \/ UNCHANGED job
  \/ \E kind \in {"position", "status", "phg"}, onDemand \in BOOLEAN,
        saved \in {updateCounter, NoCounter} :
       (kind = "phg" => device.phg) /\ Transmit(t, kind, onDemand, saved)

LEMMA SendersBegin ==
  ASSUME NEW t \in Tasks, NEW onDemand \in BOOLEAN, NEW forced \in BOOLEAN
  PROVE  /\ SendBeacon(t, onDemand, forced) => Begins(t)
         /\ SendStatus(t, onDemand) => Begins(t)
<1> DEFINE saved == IF forced THEN updateCounter ELSE NoCounter
<1>1. SendBeacon(t, onDemand, forced) => Begins(t)
  <2>1. saved \in {updateCounter, NoCounter}
    OBVIOUS
  <2> HIDE DEF saved
  <2>2. Transmit(t, "position", onDemand, saved) => Begins(t)
    BY <2>1 DEF Begins
  <2>3. Transmit(t, "status", onDemand, saved) => Begins(t)
    BY <2>1 DEF Begins
  <2> QED
    BY <2>2, <2>3 DEF SendBeacon, Begins, saved
<1>2. SendBeacon(t, onDemand, FALSE) => Begins(t)
  <2>1. Transmit(t, "position", onDemand, NoCounter) => Begins(t)
    BY DEF Begins
  <2>2. Transmit(t, "status", onDemand, NoCounter) => Begins(t)
    BY DEF Begins
  <2> QED
    BY <2>1, <2>2 DEF SendBeacon, Begins
<1>3. Transmit(t, "status", onDemand, NoCounter) => Begins(t)
  BY DEF Begins
<1> QED
  BY <1>1, <1>2, <1>3 DEF SendStatus

LEMMA OnDemandBegins == ASSUME NEW t \in Tasks PROVE OnDemand(t) => Begins(t)
BY SendersBegin DEF OnDemand

LEMMA BeginKeepsStamps ==
  ASSUME SInv, NEW t \in Tasks, job[t] = NoJob, Begins(t),
         UNCHANGED <<timer, sinceScheduled, overlapped, device>>
  PROVE  /\ StampsAreYoung' /\ PhgNeedsSetting'
         /\ job' = job \/ job'[t].stage = "air"
         /\ \A u \in Tasks \ {t} : job'[u] = job[u]
<1>1. CASE UNCHANGED job
  BY <1>1 DEF SInv, StampsAreYoung, PhgNeedsSetting
<1>2. ASSUME NEW kind \in {"position", "status", "phg"}, NEW onDemand \in BOOLEAN,
             NEW saved \in {updateCounter, NoCounter},
             kind = "phg" => device.phg, Transmit(t, kind, onDemand, saved)
      PROVE  /\ StampsAreYoung' /\ PhgNeedsSetting' /\ job'[t].stage = "air"
             /\ \A u \in Tasks \ {t} : job'[u] = job[u]
  BY <1>2, StartKeepsStamps
<1> QED
  BY <1>1, <1>2 DEF Begins

(* A step that begins and leaves sendUpdate alone keeps the invariant. *)
LEMMA BeginKeepsSInv ==
  ASSUME SInv, NEW t \in Tasks, job[t] = NoJob, Begins(t),
         UNCHANGED <<timer, sendUpdate, sinceScheduled, overlapped, device>>
  PROVE  StampsAreYoung' /\ UpdateIsOwed' /\ PhgNeedsSetting'
<1>1. job["loop"].stage = "air" => job'["loop"].stage = "air"
  BY BeginKeepsStamps DEF NoJob
<1>2. UpdateIsOwed'
  BY <1>1 DEF SInv, UpdateIsOwed
<1> QED
  BY <1>2, BeginKeepsStamps

LEMMA NextSInv == SInv /\ [Next]_vars => SInv'
<1> SUFFICES ASSUME SInv, [Next]_vars
             PROVE  StampsAreYoung' /\ UpdateIsOwed' /\ PhgNeedsSetting'
  BY NextTypeOK DEF SInv
<1>0. "loop" \in Tasks /\ TRUE \in BOOLEAN /\ FALSE \in BOOLEAN
  OBVIOUS
<1>00. UNCHANGED job => \A t \in Tasks : Begins(t)
  BY DEF Begins
<1>1. CASE Request
  <2>1. Begins("loop")
    BY <1>0, <1>00, <1>1, OnDemandBegins, SendersBegin DEF Request
  <2> QED
    BY <1>0, <1>1, <2>1, BeginKeepsSInv DEF Request, AtLoop, timers
<1>2. CASE Trigger
  <2>1. Begins("loop")
    BY <1>0, <1>00, <1>2, SendersBegin DEF Trigger
  <2> QED
    BY <1>0, <1>2, <2>1, BeginKeepsSInv DEF Trigger, AtLoop, timers
<1>3. CASE Interval
  <2>1. Begins("loop")
    BY <1>0, <1>00, <1>3, SendersBegin DEF Interval
  <2> QED
    BY <1>0, <1>3, <2>1, BeginKeepsSInv DEF Interval, AtLoop, timers
<1>4. CASE Phg
  <2>1. Begins("loop")
    <3>1. device.phg /\ Transmit("loop", "phg", FALSE, NoCounter) => Begins("loop")
      BY DEF Begins
    <3> QED
      BY <1>0, <1>00, <1>4, <3>1 DEF Phg
  <2> QED
    BY <1>0, <1>4, <2>1, BeginKeepsSInv DEF Phg, AtLoop, ghosts
<1>5. CASE SenseUpdate \/ SenseNothing
  <2>1. PICK updated \in BOOLEAN, timed \in BOOLEAN, turned \in BOOLEAN, speed \in Speeds :
          Sense(updated, timed, speed, turned)
    BY <1>0, <1>5 DEF SenseUpdate, SenseNothing
  <2>2. Begins("loop")
    <3>1. Transmit("loop", "position", FALSE, NoCounter) => Begins("loop")
      BY DEF Begins
    <3> QED
      BY <1>0, <1>00, <2>1, <3>1 DEF Sense
  <2>3. /\ job["loop"] = NoJob /\ job["loop"].stage # "air"
        /\ UNCHANGED <<timer, sinceScheduled, overlapped, device>>
        /\ sendUpdate' = BeaconIsDue(updated, speed, turned)
    BY <2>1 DEF Sense, AtLoop, NoJob
  <2>4. StampsAreYoung' /\ PhgNeedsSetting'
    BY <1>0, <2>2, <2>3, BeginKeepsStamps
  <2>5. CASE sendUpdate' /\ updated
    <3>1. Transmit("loop", "position", FALSE, NoCounter)
      BY <2>1, <2>3, <2>5 DEF Sense
    <3>2. job'["loop"].stage = "air"
      BY <1>0, <2>3, <3>1, StartKeepsStamps
    <3> QED
      BY <2>4, <3>2 DEF UpdateIsOwed
  <2>6. CASE sendUpdate' /\ ~updated /\ ~device.phg
    <3>1. sendUpdate \/ (~device.smart /\ timer >= NonSmartRate)
      BY <2>3, <2>6 DEF BeaconIsDue
    <3>2. timer \in Nat /\ sinceScheduled \in Nat /\ NonSmartRate \in Nat
      BY DEF SInv, TypeOK, AgesOK
    <3>3. CASE sendUpdate
      BY <2>3, <2>4, <2>6, <3>3 DEF SInv, UpdateIsOwed
    <3>4. CASE ~device.smart /\ timer >= NonSmartRate
      BY <2>3, <2>4, <3>2, <3>4 DEF SInv, StampsAreYoung, UpdateIsOwed
    <3> QED
      BY <3>1, <3>3, <3>4
  <2>7. CASE ~sendUpdate' \/ device.phg
    BY <2>3, <2>4, <2>7 DEF UpdateIsOwed
  <2> QED
    BY <2>5, <2>6, <2>7
<1>6. CASE TrackerInterval
  <2>1. Begins("loop")
    BY <1>0, <1>00, <1>6, SendersBegin DEF TrackerInterval
  <2> QED
    BY <1>0, <1>6, <2>1, BeginKeepsSInv DEF TrackerInterval, AtLoop, timers
<1>7. ASSUME NEW t \in Tasks, Sent(t)
      PROVE  StampsAreYoung' /\ UpdateIsOwed' /\ PhgNeedsSetting'
  <2>1. \A u \in Tasks : job'[u].stage # "none" =>
          /\ job[u].stage # "none" /\ job'[u].kind = job[u].kind
          /\ job'[u].savedTimer = job[u].savedTimer
    BY <1>7 DEF Sent, SInv, TypeOK, JobsOK, Jobs, NoJob
  <2>2. PhgNeedsSetting'
    BY <1>7, <2>1 DEF SInv, PhgNeedsSetting, Sent
  <2>3. ~sendUpdate' \/ device'.phg
    BY <1>7 DEF Sent, SInv, PhgNeedsSetting
  <2>4. StampsAreYoung'
    <3>1. CASE job[t].onDemand
      BY <1>7, <2>1, <3>1 DEF Sent, SInv, StampsAreYoung, TypeOK, AgesOK
    <3>2. CASE ~job[t].onDemand /\ Alone(t)
      <4>1. \A u \in Tasks : job'[u] = NoJob
        BY <1>7, <3>2 DEF Sent, Alone, SInv, TypeOK, JobsOK
      <4> QED
        BY <1>7, <3>2, <4>1 DEF Sent, StampsAreYoung, NoJob
    <3>3. CASE ~job[t].onDemand /\ ~Alone(t)
      BY <1>7, <3>3 DEF Sent, StampsAreYoung
    <3> QED
      BY <3>1, <3>2, <3>3
  <2> QED
    BY <2>2, <2>3, <2>4 DEF UpdateIsOwed
<1>8. ASSUME NEW t \in Tasks, Restore(t)
      PROVE  StampsAreYoung' /\ UpdateIsOwed' /\ PhgNeedsSetting'
  <2>1. \A u \in Tasks : job'[u] = IF u = t THEN NoJob ELSE job[u]
    BY <1>8 DEF Restore, SInv, TypeOK, JobsOK
  <2>2. StampsAreYoung'
    BY <1>8, <2>1 DEF Restore, SInv, StampsAreYoung, ghosts, NoJob
  <2>3. PhgNeedsSetting'
    BY <1>8, <2>1 DEF Restore, SInv, PhgNeedsSetting, NoJob
  <2>4. job["loop"].stage = "air" => job'["loop"].stage = "air"
    BY <1>0, <1>8, <2>1 DEF Restore
  <2>5. UpdateIsOwed'
    BY <1>8, <2>4 DEF Restore, SInv, UpdateIsOwed, ghosts
  <2> QED
    BY <2>2, <2>3, <2>5
<1>9. CASE WebRequest
  <2>1. Begins("web")
    BY <1>9, OnDemandBegins DEF WebRequest
  <2> QED
    BY <1>9, <2>1, BeginKeepsSInv DEF WebRequest, timers
<1>10. CASE LoggedIn
  BY <1>10 DEF LoggedIn, timers, ghosts, SInv, StampsAreYoung, UpdateIsOwed, PhgNeedsSetting
<1>11. CASE Tick
  <2>1. \A u \in Tasks : job'[u].stage # "none" =>
          /\ job[u].stage # "none" /\ job'[u].kind = job[u].kind
          /\ job[u].savedTimer \in 0..Longest
          /\ job'[u].savedTimer = Older(job[u].savedTimer)
    BY <1>11 DEF Tick, SInv, TypeOK, JobsOK, Jobs, NoJob
  <2>2. \A a, b \in 0..Longest : a <= b => Older(a) <= Older(b)
    BY DEF Older
  <2>3. timer \in 0..Longest /\ sinceScheduled \in 0..Longest
    BY DEF SInv, TypeOK, AgesOK
  <2>4. StampsAreYoung'
    BY <1>11, <2>1, <2>2, <2>3 DEF Tick, SInv, StampsAreYoung
  <2>5. PhgNeedsSetting'
    BY <1>11, <2>1 DEF Tick, SInv, PhgNeedsSetting
  <2>6. job["loop"].stage = "air" => job'["loop"].stage = "air"
    BY <1>0, <1>11 DEF Tick, SInv, TypeOK, JobsOK, Jobs, NoJob
  <2>7. UpdateIsOwed'
    BY <1>11, <2>3, <2>6 DEF Tick, SInv, UpdateIsOwed, Older
  <2> QED
    BY <2>4, <2>5, <2>7
<1>12. CASE UNCHANGED vars
  BY <1>12 DEF vars, timers, ghosts, SInv, StampsAreYoung, UpdateIsOwed, PhgNeedsSetting
<1> QED
  BY <1>1, <1>2, <1>3, <1>4, <1>5, <1>6, <1>7, <1>8, <1>9, <1>10, <1>11, <1>12
  DEF Next, LoopStep, WebStep

(* What BeaconsAreSpaced says of one step. *)
TimerWasDue ==
  StartsOnTimer =>
    \/ sinceScheduled >= Spacing
    \/ overlapped
    \/ (device.phg /\ sendUpdate)

(* The timer does not overstate the time since the last scheduled beacon.  *)
LEMMA TimerIsEvidence ==
  ASSUME SInv, job["loop"] = NoJob, NEW rate \in Nat, timer >= rate
  PROVE  sinceScheduled >= rate \/ overlapped
<1>1. timer \in Nat /\ sinceScheduled \in Nat
  BY DEF SInv, TypeOK, AgesOK
<1> QED
  BY <1>1 DEF SInv, StampsAreYoung

LEMMA StepIsSpaced == SInv /\ [Next]_vars => [TimerWasDue]_vars
<1> SUFFICES ASSUME SInv, [Next]_vars, StartsOnTimer
             PROVE  sinceScheduled >= Spacing \/ overlapped \/ (device.phg /\ sendUpdate)
  BY DEF TimerWasDue
<1>0. /\ "loop" \in Tasks
      /\ job["loop"] = NoJob /\ job'["loop"] # NoJob /\ pc \in {"interval", "gps"}
      /\ job["loop"].stage = "none"
  BY DEF StartsOnTimer, NoJob
<1>1. NonSmartRate \in Nat /\ txInterval \in Nat /\ Profile.turnMinTime \in Nat
  BY DEF SInv, TypeOK
<1>2. CASE Request \/ Trigger \/ Phg
  BY <1>0, <1>2 DEF Request, Trigger, Phg, AtLoop
<1>3. CASE Interval
  <2>1. timer >= NonSmartRate /\ Spacing = NonSmartRate
    BY <1>0, <1>3 DEF Interval, AtLoop, Spacing
  <2> QED
    BY <1>0, <1>1, <2>1, TimerIsEvidence
<1>4. CASE TrackerInterval
  <2>1. timer >= NonSmartRate /\ Spacing = NonSmartRate
    BY <1>0, <1>4 DEF TrackerInterval, Spacing
  <2> QED
    BY <1>0, <1>1, <2>1, TimerIsEvidence
<1>5. CASE SenseUpdate \/ SenseNothing
  <2>1. PICK updated \in BOOLEAN, timed \in BOOLEAN, turned \in BOOLEAN, speed \in Speeds :
          Sense(updated, timed, speed, turned)
    BY <1>5 DEF SenseUpdate, SenseNothing
  <2>2. BeaconIsDue(updated, speed, turned) /\ pc = "gps" /\ GpsIsActive
    BY <1>0, <2>1 DEF Sense, AtLoop
  <2>3. Spacing \in Nat
    BY <1>1 DEF Spacing
  <2>4. CASE sendUpdate
    <3>1. Spacing <= Longest
      BY <1>1 DEF SInv, TypeOK, Spacing
    <3>2. ~device.smart => Spacing = NonSmartRate
      BY DEF Spacing
    <3> QED
      BY <1>0, <2>4, <3>1, <3>2 DEF SInv, UpdateIsOwed
  <2>5. CASE ~sendUpdate
    <3>1. timer >= Spacing
      <4>1. timer \in Nat
        BY DEF SInv, TypeOK, AgesOK
      <4> QED
        BY <1>1, <2>2, <2>5, <4>1 DEF BeaconIsDue, Spacing
    <3> QED
      BY <1>0, <2>3, <3>1, TimerIsEvidence
  <2> QED
    BY <2>4, <2>5
<1>6. ASSUME NEW t \in Tasks, Sent(t) \/ Restore(t)
      PROVE  job'["loop"] = NoJob
  BY <1>0, <1>6 DEF Sent, Restore, SInv, TypeOK, JobsOK
<1>7. CASE WebRequest
  <2>1. Begins("web")
    BY <1>7, OnDemandBegins DEF WebRequest
  <2>2. job'["loop"] = job["loop"]
    BY <1>0, <1>7, <2>1, BeginKeepsStamps DEF WebRequest, timers
  <2> QED
    BY <1>0, <2>2
<1>8. CASE LoggedIn \/ UNCHANGED vars
  BY <1>0, <1>8 DEF LoggedIn, vars
<1>9. CASE Tick
  BY <1>0, <1>9 DEF Tick
<1> QED
  BY <1>0, <1>2, <1>3, <1>4, <1>5, <1>6, <1>7, <1>8, <1>9 DEF Next, LoopStep, WebStep

(* BeaconsAreSpaced: no beacon comes of a timer too early, for every       *)
(* configuration, whatever beacons on demand do to the timer.              *)
THEOREM SpecBeaconsAreSpaced == Spec => BeaconsAreSpaced
<1>1. SInv /\ [Next]_vars => [TimerWasDue]_vars
  BY StepIsSpaced
<1>2. [TimerWasDue]_vars =>
        [StartsOnTimer => \/ sinceScheduled >= Spacing
                         \/ overlapped
                         \/ (device.phg /\ sendUpdate)]_vars
  BY DEF TimerWasDue
<1> QED
  BY <1>1, <1>2, InitSInv, NextSInv, PTL DEF Spec, BeaconsAreSpaced

-----------------------------------------------------------------------------
(* The first position. *)

(* A tracker without a status text has nothing to send before it is        *)
(* located, so that nothing can clear the update wanted at boot.           *)
WaitsForPosition == device.role = "ROLE_TRACKER" /\ ~device.status /\ ~located

FirstUpdateKept ==
  WaitsForPosition => sendUpdate /\ \A t \in Tasks : job[t] = NoJob

PInv == TypeOK /\ FirstUpdateKept

LEMMA InitPInv == Init => PInv
BY InitTypeOK DEF Init, PInv, FirstUpdateKept

(* No sender, on demand or not, has anything to send. *)
LEMMA NothingToSend ==
  ASSUME WaitsForPosition, NEW t \in Tasks, NEW onDemand \in BOOLEAN, NEW forced \in BOOLEAN
  PROVE  /\ SendBeacon(t, onDemand, forced) => UNCHANGED job
         /\ SendStatus(t, onDemand) => UNCHANGED job
         /\ OnDemand(t) => UNCHANGED job
<1>1. ~located /\ ~AdvertisesWithoutFix /\ ~device.status
  BY DEF WaitsForPosition, AdvertisesWithoutFix, BeaconsByRole
<1>2. \A od, fo \in BOOLEAN : SendBeacon(t, od, fo) => UNCHANGED job
  BY <1>1 DEF SendBeacon
<1>3. \A od \in BOOLEAN : SendStatus(t, od) => UNCHANGED job
  BY <1>1, <1>2 DEF SendStatus
<1> QED
  BY <1>2, <1>3 DEF OnDemand

LEMMA NextPInv == PInv /\ [Next]_vars => PInv'
<1> SUFFICES ASSUME PInv, [Next]_vars, WaitsForPosition'
             PROVE  sendUpdate' /\ \A t \in Tasks : job'[t] = NoJob
  BY NextTypeOK DEF PInv, FirstUpdateKept
<1>0. "loop" \in Tasks /\ located \in BOOLEAN /\ sendUpdate \in BOOLEAN
  BY DEF PInv, TypeOK
<1>1. WaitsForPosition
  BY <1>0 DEF WaitsForPosition, Next, LoopStep, WebStep, vars, timers, ghosts,
     Request, Trigger, Interval, Phg, Sense, SenseUpdate, SenseNothing, TrackerInterval,
     Sent, Restore, WebRequest, LoggedIn, Tick
<1>2. sendUpdate /\ \A t \in Tasks : job[t] = NoJob
  BY <1>1 DEF PInv, FirstUpdateKept
<1>3. CASE UNCHANGED <<job, sendUpdate>>
  BY <1>2, <1>3
<1>4. CASE Request \/ Trigger \/ Interval \/ TrackerInterval
  BY <1>0, <1>1, <1>2, <1>4, NothingToSend
  DEF Request, Trigger, Interval, TrackerInterval, timers
<1>5. CASE Phg
  BY <1>1, <1>2, <1>5 DEF Phg, WaitsForPosition
<1>6. CASE SenseUpdate \/ SenseNothing
  <2>1. PICK updated \in BOOLEAN, timed \in BOOLEAN, turned \in BOOLEAN, speed \in Speeds :
          Sense(updated, timed, speed, turned)
    BY <1>6 DEF SenseUpdate, SenseNothing
  <2>2. ~updated
    BY <2>1 DEF Sense, WaitsForPosition
  <2> QED
    BY <1>2, <2>1, <2>2 DEF Sense, BeaconIsDue
<1>7. ASSUME NEW t \in Tasks, Sent(t) \/ Restore(t) PROVE FALSE
  <2>1. job[t].stage \in {"air", "sent"}
    BY <1>7 DEF Sent, Restore
  <2>2. job[t].stage = "none"
    BY <1>2 DEF NoJob
  <2> QED
    BY <2>1, <2>2
<1>8. CASE WebRequest
  <2>1. "web" \in Tasks /\ OnDemand("web") /\ sendUpdate' = sendUpdate
    BY <1>8 DEF WebRequest, timers
  <2>2. UNCHANGED job
    BY <1>1, <2>1, NothingToSend
  <2> QED
    BY <1>2, <2>1, <2>2
<1>9. CASE LoggedIn \/ UNCHANGED vars
  BY <1>2, <1>9 DEF LoggedIn, vars, timers
<1>10. CASE Tick
  BY <1>2, <1>10 DEF Tick
<1> QED
  BY <1>0, <1>4, <1>5, <1>6, <1>7, <1>8, <1>9, <1>10 DEF Next, LoopStep, WebStep

(* What FirstPositionIsReported says of one step. *)
PositionGoesOut ==
  device.role = "ROLE_TRACKER" /\ ~device.status /\ ~located /\ located' =>
    job'["loop"].stage = "air"

LEMMA StepReportsPosition == PInv /\ [Next]_vars => [PositionGoesOut]_vars
<1> SUFFICES ASSUME PInv, [Next]_vars, WaitsForPosition, located'
             PROVE  job'["loop"].stage = "air"
  BY DEF PositionGoesOut, WaitsForPosition
<1>0. "loop" \in Tasks /\ job \in [Tasks -> Jobs \cup {NoJob}]
  BY DEF PInv, TypeOK, JobsOK
<1>1. sendUpdate
  BY DEF PInv, FirstUpdateKept
<1>2. PICK updated \in BOOLEAN, timed \in BOOLEAN, turned \in BOOLEAN, speed \in Speeds :
        Sense(updated, timed, speed, turned)
  BY DEF WaitsForPosition, Next, LoopStep, WebStep, vars, timers, ghosts,
     Request, Trigger, Interval, Phg, SenseUpdate, SenseNothing, TrackerInterval,
     Sent, Restore, WebRequest, LoggedIn, Tick
<1>3. updated
  BY <1>2 DEF Sense, WaitsForPosition
<1>4. Transmit("loop", "position", FALSE, NoCounter)
  BY <1>1, <1>2, <1>3 DEF Sense, BeaconIsDue
<1> QED
  BY <1>0, <1>4 DEF Transmit

(* FirstPositionIsReported: the update wanted at boot survives every       *)
(* request, query and web beacon that comes before the position, for every *)
(* tracker without a status text.                                          *)
THEOREM SpecFirstPositionIsReported == Spec => FirstPositionIsReported
<1>1. [PositionGoesOut]_vars =>
        [device.role = "ROLE_TRACKER" /\ ~device.status /\ ~located /\ located' =>
           job'["loop"].stage = "air"]_vars
  BY DEF PositionGoesOut
<1> QED
  BY <1>1, StepReportsPosition, InitPInv, NextPInv, PTL DEF Spec, FirstPositionIsReported
=============================================================================
