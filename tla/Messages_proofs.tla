--------------------------- MODULE Messages_proofs ---------------------------
(***************************************************************************)
(* For any messages, filter, queue, window, lockout and number of tries:   *)
(* the types of Messages; that a message is processed once, that every     *)
(* copy gets its ack and replies go out after it, that the configuration   *)
(* is written whole and only by the sender whose token was accepted, and   *)
(* that the lockout holds.                                                 *)
(***************************************************************************)
EXTENDS Messages, WellFoundedInduction, TLAPS


(* A small number is its own remainder. *)
LEMMA SmallRemainder ==
  ASSUME NEW W \in Nat \ {0}, NEW r \in 0..(W - 1)
  PROVE  r % W = r
BY SMT

(* Every set of natural numbers that is not empty has a least one. *)
LEMMA LeastOf ==
  ASSUME NEW S \in SUBSET Nat, S # {}
  PROVE  \E m \in S : \A k \in S : m <= k
<1> DEFINE R == OpToRel(<, Nat)
<1>1. \A y, x \in Nat : y < x => <<y, x>> \in R
  BY DEF OpToRel
<1>2. IsWellFoundedOn(R, Nat)
  BY NatLessThanWellFounded
<1> HIDE DEF R
<1>3. PICK m \in S : \A k \in S : <<k, m>> \notin R
  BY <1>2, WFMin
<1>4. \A k \in S : m <= k
  <2> TAKE k \in S
  <2>1. k \in Nat /\ m \in Nat /\ ~(k < m)
    BY <1>1, <1>3
  <2>2. QED
    BY <2>1
<1>5. QED
  BY <1>4

(* A bounded one has a largest: the least distance from the bound. *)
LEMMA LargestOf ==
  ASSUME NEW n \in Nat, NEW S \in SUBSET (1..n), S # {}
  PROVE  \E m \in S : \A k \in S : k <= m
<1> DEFINE T == {n - k : k \in S}
<1>1. T \in SUBSET Nat
  <2>1. \A k \in S : n - k \in Nat
    OBVIOUS
  <2>2. QED
    BY <2>1
<1>2. PICK m \in T : \A k \in T : m <= k
  <2>1. T # {}
    OBVIOUS
  <2> HIDE DEF T
  <2>2. QED
    BY <1>1, <2>1, LeastOf
<1>3. PICK top \in S : m = n - top
  BY <1>2
<1>4. \A k \in S : k <= top
  <2> TAKE k \in S
  <2>1. m <= n - k
    BY <1>2
  <2>2. QED
    BY <1>3, <2>1
<1>5. QED
  BY <1>4

-----------------------------------------------------------------------------

Callers == {m.from : m \in AllMessages} \cup {Nobody}

RcState == [unlockExpiresAt : Nat, unlockedBy : Callers, failed : 0..(MaxFailed - 1),
            lockoutUntil : Nat, lastSenderSeen : Callers, lastSeenAt : Nat, rebootAt : Nat]

(* The types of Messages, of the rest of rc and of the history. *)
Types ==
  /\ TypeOK /\ ring \in [buf : [Slot -> Entry], head : Slot]
  /\ rc \in RcState
  /\ keyed \subseteq [kind : {"ack", "reply", "beacon"}, msg : AllMessages]
  /\ lost \subseteq Item /\ owed \subseteq AllMessages
  /\ grant \in [by : Callers, at : Nat] \cup {Nobodys}
  /\ wrongs \in Nat /\ lockedAt \in Nat \cup {Never}
  /\ last \in [Hashes -> [at : Nat \cup {Never}, newer : Nat]]

(* While the window of remote_cfg_utils.cpp is open, the last UNLOCKED is  *)
(* not forgotten, and the window is what it granted.                       *)
WindowIsGranted ==
  rc.unlockExpiresAt # 0 /\ clock < rc.unlockExpiresAt =>
    /\ grant \in [by : {rc.unlockedBy}, at : Nat]
    /\ grant.at + UnlockWindow = rc.unlockExpiresAt

(* The lockout in force is that of the last MaxFailed-th wrong token, and  *)
(* the failures counted are those since the last UNLOCKED or lockout.      *)
LockoutIsCounted ==
  /\ lockedAt # Never => rc.lockoutUntil = lockedAt + Lockout
  /\ (rc.lockoutUntil # 0 /\ clock < rc.lockoutUntil) <=> lockedAt # Never
  /\ rc.lockoutUntil # 0 => rc.failed = 0
  /\ wrongs = rc.failed

(* What an ack owes: in a queue every reply to a numbered message stands   *)
(* behind the ack, unless that is gone already.                            *)
AckLeads(q, gone) ==
  \A i \in DOMAIN q :
    q[i].kind = "reply" /\ q[i].msg.no # NoNumber =>
      Ack(q[i].msg) \in gone \/ \E j \in 1..(i - 1) : q[j] = Ack(q[i].msg)

QueueIsOrdered == AckLeads(outQueue, keyed \cup lost)

(* The slot written d others before the one at the head. *)
SlotBack(hd, d) == IF d < hd THEN hd - 1 - d ELSE hd - 1 - d + Slots

(* What the history remembers the ring still holds. *)
RememberedIsHeld ==
  \A h \in Hashes : last[h] # Forgotten =>
    /\ last[h].at \in 0..clock /\ clock - last[h].at < TTL
    /\ last[h].newer < Slots
    /\ ring.buf[SlotBack(ring.head, last[h].newer)] = [hash |-> h, seenAt |-> last[h].at]

IInv == /\ Types /\ WindowIsGranted /\ LockoutIsCounted /\ QueueIsOrdered /\ RepliesFollowAcks
        /\ CopiesAreAcked /\ RememberedIsHeld

-----------------------------------------------------------------------------
(* What a command does, field by field. *)

Handled(m) == HandleCommand(rc, config, m.from, m.text, clock)

IsLockedOut == rc.lockoutUntil # 0 /\ clock < rc.lockoutUntil

SameWindow(new)  == new.unlockExpiresAt = rc.unlockExpiresAt /\ new.unlockedBy = rc.unlockedBy
SameFailures(new) == new.failed = rc.failed /\ new.lockoutUntil = rc.lockoutUntil

(* The failures a try finds: a lockout that has run out is forgotten. *)
Failures == IF rc.lockoutUntil # 0 THEN 0 ELSE rc.failed

Answered(out) == out.reply \notin {"UNLOCKED", "ERR_BADTOKEN", "ERR_LOCKED_OUT"}

Idle(out) ==
  /\ SameWindow(out.rc) /\ SameFailures(out.rc) /\ out.config = config
  /\ Answered(out) \/ (out.reply = "ERR_LOCKED_OUT" /\ IsLockedOut)

Shut(out) ==
  /\ out.rc.unlockExpiresAt = 0 /\ SameFailures(out.rc) /\ out.config = config
  /\ Answered(out)

WritesThrough(m, out) ==
  /\ rc.unlockExpiresAt # 0 /\ clock < rc.unlockExpiresAt /\ m.from = rc.unlockedBy
  /\ SameWindow(out.rc) /\ SameFailures(out.rc) /\ out.rc.lastSenderSeen = m.from
  /\ out.config = Written(config, m.text.batch)
  /\ Answered(out)

Disabled(out) ==
  /\ ~IsLockedOut
  /\ SameWindow(out.rc) /\ out.config = config
  /\ out.rc.lockoutUntil = 0 /\ out.rc.failed = Failures
  /\ Answered(out)

Unlocks(m, out) ==
  /\ ~IsLockedOut
  /\ out.rc.unlockExpiresAt = clock + UnlockWindow /\ out.rc.unlockedBy = m.from
  /\ out.rc.lockoutUntil = 0 /\ out.rc.failed = 0 /\ out.config = config
  /\ m.text.token = Token /\ out.reply = "UNLOCKED"

Fails(m, out) ==
  /\ ~IsLockedOut
  /\ SameWindow(out.rc) /\ out.config = config
  /\ m.text.op = "CSU" /\ m.text.token # Token
  /\ \/ /\ Failures + 1 >= MaxFailed
        /\ out.rc.failed = 0 /\ out.rc.lockoutUntil = clock + Lockout
        /\ out.reply = "ERR_LOCKED_OUT"
     \/ /\ Failures + 1 < MaxFailed
        /\ out.rc.failed = Failures + 1 /\ out.rc.lockoutUntil = 0
        /\ out.reply = "ERR_BADTOKEN"

LEMMA MaxFailedType == MaxFailed \in Nat /\ MaxFailed >= 1
BY RemoteCfgAssumption

(* handleUnlock(). *)
LEMMA UnlockCases ==
  ASSUME NEW st \in RcState, NEW m \in AllMessages, clock \in Nat, m.text.op = "CSU",
         rc \in RcState, SameWindow(st), SameFailures(st)
  PROVE  LET out == HandleUnlock(st, config, m.from, m.text.token, clock)
         IN  out.rc \in RcState /\ (Idle(out) \/ Disabled(out) \/ Unlocks(m, out) \/ Fails(m, out))
<1> DEFINE out == HandleUnlock(st, config, m.from, m.text.token, clock)
           cleared == IF st.lockoutUntil # 0
                        THEN [st EXCEPT !.lockoutUntil = 0, !.failed = 0] ELSE st
<1>1. /\ cleared \in RcState /\ cleared.lockoutUntil = 0 /\ cleared.failed = Failures
      /\ cleared.unlockExpiresAt = rc.unlockExpiresAt /\ cleared.unlockedBy = rc.unlockedBy
  <2>1. 0 \in 0..(MaxFailed - 1)
    BY MaxFailedType
  <2>2. CASE st.lockoutUntil # 0
    BY <2>1, <2>2 DEF RcState, SameWindow, SameFailures, Failures
  <2>3. CASE st.lockoutUntil = 0
    BY <2>3 DEF SameWindow, SameFailures, Failures
  <2>4. QED
    BY <2>2, <2>3
<1>2. st.lockoutUntil = rc.lockoutUntil
  BY DEF SameFailures
<1>3. CASE IsLockedOut
  <2>1. out = Outcome(st, config, "ERR_LOCKED_OUT")
    BY <1>2, <1>3 DEF HandleUnlock, IsLockedOut
  <2>2. QED
    BY <1>3, <2>1 DEF Outcome, Idle
<1>4. CASE ~IsLockedOut /\ Token = NoToken
  <2>1. out = Outcome(cleared, config, "ERR_DISABLED")
    BY <1>2, <1>4 DEF HandleUnlock, IsLockedOut
  <2>2. QED
    BY <1>1, <1>4, <2>1 DEF Outcome, Disabled, SameWindow, Answered
<1>5. CASE ~IsLockedOut /\ Token # NoToken /\ m.text.token = Token
  <2> DEFINE new == [cleared EXCEPT !.unlockExpiresAt = clock + UnlockWindow,
                                    !.unlockedBy = m.from, !.failed = 0]
  <2>1. out = Outcome(new, config, "UNLOCKED")
    BY <1>2, <1>5 DEF HandleUnlock, IsLockedOut
  <2>2. /\ new \in RcState /\ new.unlockExpiresAt = clock + UnlockWindow
        /\ new.unlockedBy = m.from /\ new.failed = 0 /\ new.lockoutUntil = 0
    <3> HIDE DEF cleared
    <3>1. m.from \in Callers /\ clock + UnlockWindow \in Nat /\ 0 \in 0..(MaxFailed - 1)
      BY RemoteCfgAssumption, MaxFailedType DEF Callers
    <3>2. QED
      BY <1>1, <3>1 DEF RcState
  <2> HIDE DEF new
  <2>3. QED
    BY <1>5, <2>1, <2>2 DEF Outcome, Unlocks
<1>6. CASE ~IsLockedOut /\ Token # NoToken /\ m.text.token # Token
  <2> DEFINE wrong == FailedUnlock(cleared, clock)
  <2>1. out = Outcome(wrong.state, config, wrong.reply)
    BY <1>2, <1>6 DEF HandleUnlock, IsLockedOut
  <2>2. CASE Failures + 1 >= MaxFailed
    <3> DEFINE new == [cleared EXCEPT !.failed = 0, !.lockoutUntil = clock + Lockout]
    <3>1. wrong = [state |-> new, reply |-> "ERR_LOCKED_OUT"]
      BY <1>1, <2>2 DEF FailedUnlock
    <3>2. /\ new \in RcState /\ new.failed = 0 /\ new.lockoutUntil = clock + Lockout
          /\ new.unlockExpiresAt = rc.unlockExpiresAt /\ new.unlockedBy = rc.unlockedBy
      <4> HIDE DEF cleared
      <4>1. clock + Lockout \in Nat /\ 0 \in 0..(MaxFailed - 1)
        BY RemoteCfgAssumption, MaxFailedType
      <4>2. QED
        BY <1>1, <4>1 DEF RcState
    <3> HIDE DEF new
    <3>3. out.rc = new /\ out.config = config /\ out.reply = "ERR_LOCKED_OUT"
      BY <2>1, <3>1 DEF Outcome
    <3>4. QED
      BY <1>6, <2>2, <3>2, <3>3 DEF Fails, SameWindow
  <2>3. CASE ~(Failures + 1 >= MaxFailed)
    <3> DEFINE new == [cleared EXCEPT !.failed = @ + 1]
    <3>1. wrong = [state |-> new, reply |-> "ERR_BADTOKEN"]
      BY <1>1, <2>3 DEF FailedUnlock
    <3>2. /\ new \in RcState /\ new.failed = Failures + 1 /\ new.lockoutUntil = 0
          /\ new.unlockExpiresAt = rc.unlockExpiresAt /\ new.unlockedBy = rc.unlockedBy
      <4> HIDE DEF cleared
      <4>1. Failures + 1 \in 0..(MaxFailed - 1)
        BY <2>3, MaxFailedType DEF Failures, RcState
      <4>2. QED
        BY <1>1, <4>1 DEF RcState
    <3> HIDE DEF new
    <3>3. out.rc = new /\ out.config = config /\ out.reply = "ERR_BADTOKEN"
      BY <2>1, <3>1 DEF Outcome
    <3>4. Failures + 1 < MaxFailed
      BY <2>3, MaxFailedType DEF Failures, RcState
    <3>5. QED
      BY <1>6, <3>2, <3>3, <3>4 DEF Fails, SameWindow
  <2>4. QED
    BY <2>2, <2>3
<1>7. QED
  BY <1>3, <1>4, <1>5, <1>6

(* handleWrite(). *)
LEMMA WriteCases ==
  ASSUME NEW st \in RcState, NEW m \in AllMessages, clock \in Nat,
         SameWindow(st), SameFailures(st), st.lastSenderSeen = m.from
  PROVE  LET out == HandleWrite(st, config, m.from, m.text.batch, clock)
         IN  out.rc \in RcState /\ (Shut(out) \/ WritesThrough(m, out))
<1> DEFINE out == HandleWrite(st, config, m.from, m.text.batch, clock)
           boots == Accepted(config, m.text.batch) /\ Names(m.text.batch) \cap NeedsBoot # {}
<1>1. CASE ~WindowOpen(st, m.from, clock)
  <2> DEFINE new == [st EXCEPT !.unlockExpiresAt = 0, !.unlockedBy = Nobody]
  <2>1. out = Outcome(new, config, "ERR_LOCKED")
    BY <1>1 DEF HandleWrite
  <2>2. /\ new \in RcState /\ new.unlockExpiresAt = 0
        /\ new.failed = st.failed /\ new.lockoutUntil = st.lockoutUntil
    <3>1. Nobody \in Callers
      BY DEF Callers
    <3>2. QED
      BY <3>1 DEF RcState
  <2> HIDE DEF new
  <2>3. QED
    BY <2>1, <2>2 DEF Outcome, Shut, SameFailures, Answered
<1>2. CASE WindowOpen(st, m.from, clock)
  <2> DEFINE new == IF boots THEN [st EXCEPT !.rebootAt = clock + RebootDelay] ELSE st
             reply == IF Accepted(config, m.text.batch) THEN "OK" ELSE "ERR_BADVALUE"
  <2>1. out = Outcome(new, Written(config, m.text.batch), reply)
    BY <1>2 DEF HandleWrite
  <2>2. /\ new \in RcState /\ SameWindow(new) /\ SameFailures(new)
        /\ new.lastSenderSeen = m.from
    <3>1. clock + RebootDelay \in Nat
      BY RemoteCfgAssumption
    <3> HIDE DEF boots
    <3>2. CASE boots
      BY <3>1, <3>2 DEF RcState, SameWindow, SameFailures
    <3>3. CASE ~boots
      BY <3>3 DEF SameWindow, SameFailures
    <3>4. QED
      BY <3>2, <3>3
  <2>3. rc.unlockExpiresAt # 0 /\ clock < rc.unlockExpiresAt /\ m.from = rc.unlockedBy
    BY <1>2 DEF WindowOpen, SameWindow
  <2>4. reply \notin {"UNLOCKED", "ERR_BADTOKEN", "ERR_LOCKED_OUT"}
    OBVIOUS
  <2> HIDE DEF new, reply
  <2>5. QED
    BY <2>1, <2>2, <2>3, <2>4 DEF Outcome, WritesThrough, Answered, SameWindow, SameFailures
<1>3. QED
  BY <1>1, <1>2

(* handleCommand(). *)
LEMMA CommandCases ==
  ASSUME NEW m \in AllMessages, clock \in Nat, rc \in RcState, IsCommand(m.text)
  PROVE  /\ Handled(m).rc \in RcState
         /\ \/ Idle(Handled(m)) \/ Shut(Handled(m)) \/ WritesThrough(m, Handled(m))
            \/ Disabled(Handled(m)) \/ Unlocks(m, Handled(m)) \/ Fails(m, Handled(m))
<1> DEFINE seen == [rc EXCEPT !.lastSenderSeen = m.from, !.lastSeenAt = clock]
           fast == TooFast(rc, m.from, clock)
<1>1. /\ seen \in RcState /\ SameWindow(seen) /\ SameFailures(seen)
      /\ seen.lastSenderSeen = m.from
  <2>1. m.from \in Callers
    BY DEF Callers
  <2>2. QED
    BY <2>1 DEF RcState, SameWindow, SameFailures
<1>2. CASE fast
  <2>1. Handled(m) = Outcome(rc, config, "ERR_TOOFAST")
    BY <1>2 DEF Handled, HandleCommand
  <2>2. Idle(Handled(m))
    BY <2>1 DEF Outcome, Idle, SameWindow, SameFailures, Answered
  <2>3. QED
    BY <2>1, <2>2 DEF Outcome
<1> HIDE DEF seen, fast
<1>3. CASE ~fast /\ m.text.op = "CSR"
  <2>1. Handled(m) = Outcome(seen, config, "values")
    BY <1>3 DEF Handled, HandleCommand, fast, seen
  <2>2. Idle(Handled(m))
    BY <1>1, <2>1 DEF Outcome, Idle, Answered
  <2>3. QED
    BY <1>1, <2>1, <2>2 DEF Outcome
<1>4. CASE ~fast /\ m.text.op = "CSU"
  <2>1. Handled(m) = HandleUnlock(seen, config, m.from, m.text.token, clock)
    BY <1>4 DEF Handled, HandleCommand, fast, seen
  <2>2. QED
    BY <1>1, <1>4, <2>1, UnlockCases
<1>5. CASE ~fast /\ m.text.op = "CSW"
  <2>1. Handled(m) = HandleWrite(seen, config, m.from, m.text.batch, clock)
    BY <1>5 DEF Handled, HandleCommand, fast, seen
  <2>2. QED
    BY <1>1, <2>1, WriteCases
<1>6. QED
  BY <1>2, <1>3, <1>4, <1>5 DEF IsCommand

-----------------------------------------------------------------------------
(* What a batch leaves in the configuration. *)

(* The last pair for a code the batch names. *)
LEMMA LastForType ==
  ASSUME NEW S, NEW batch \in Seq([code : Codes, value : S]), NEW code \in Names(batch)
  PROVE  LastFor(batch, code) \in DOMAIN batch
<1> DEFINE sets == {i \in DOMAIN batch : batch[i].code = code}
<1>1. sets \in SUBSET (1..Len(batch)) /\ sets # {} /\ Len(batch) \in Nat
  BY DEF Names
<1>2. \E i \in sets : \A j \in sets : j <= i
  <2> HIDE DEF sets
  <2>1. QED
    BY <1>1, LargestOf
<1>3. LastFor(batch, code) \in sets
  BY <1>2 DEF LastFor
<1>4. QED
  BY <1>3

(* A batch without a bad value leaves a configuration. *)
LEMMA AppliedType ==
  ASSUME config \in [Codes -> Nat],
         NEW batch \in Seq([code : Codes, value : Nat \cup {Bad}]),
         \A i \in DOMAIN batch : batch[i].value # Bad
  PROVE  Applied(config, batch) \in [Codes -> Nat]
<1>1. ASSUME NEW code \in Names(batch) PROVE batch[LastFor(batch, code)].value \in Nat
  <2> DEFINE Pair == [code : Codes, value : Nat \cup {Bad}]
  <2>1. LastFor(batch, code) \in DOMAIN batch
    BY LastForType
  <2>2. PICK i \in 1..Len(batch) : i = LastFor(batch, code)
    BY <2>1
  <2>3. batch[i] \in Pair
    <3> HIDE DEF Pair
    <3>1. batch \in Seq(Pair)
      BY DEF Pair
    <3>2. QED
      BY <2>2, <3>1
  <2>4. QED
    BY <2>2, <2>3
<1>2. \A code \in Codes : Applied(config, batch)[code] \in Nat
  BY <1>1 DEF Applied
<1>3. QED
  BY <1>2 DEF Applied

(* So does what the window lets through, and it writes all of it or none. *)
LEMMA WrittenCases ==
  ASSUME config \in [Codes -> Nat], NEW m \in AllMessages
  PROVE  /\ Written(config, m.text.batch) \in [Codes -> Nat]
         /\ Written(config, m.text.batch) # config =>
              /\ \A i \in DOMAIN m.text.batch : m.text.batch[i].value # Bad
              /\ Written(config, m.text.batch) = Applied(config, m.text.batch)
<1>1. m.text.batch \in Seq([code : Codes, value : Nat \cup {Bad}])
  BY MessagesAssumption
<1>2. CASE Accepted(config, m.text.batch)
  <2>1. \A i \in DOMAIN m.text.batch : m.text.batch[i].value # Bad
    BY <1>2 DEF Accepted
  <2>2. QED
    BY <1>1, <1>2, <2>1, AppliedType DEF Written
<1>3. CASE ~Accepted(config, m.text.batch)
  BY <1>3 DEF Written
<1>4. QED
  BY <1>2, <1>3

-----------------------------------------------------------------------------
(* The order of the queue. *)

(* all is cut into out, its first part, and keep. *)
Split(all, cut, keep, out) ==
  /\ all \in Seq(Item) /\ keep \in Seq(Item) /\ out \in Seq(Item)
  /\ cut \in 0..Len(all) /\ Len(out) = cut /\ Len(keep) = Len(all) - cut
  /\ \A i \in 1..Len(keep) : keep[i] = all[cut + i]
  /\ \A i \in 1..cut : out[i] = all[i]

(* addToOutputPacketBuffer() cuts, and keeps no more than the queue holds. *)
LEMMA QueuedSplits ==
  ASSUME NEW q \in Seq(Item), NEW more \in Seq(Item)
  PROVE  LET new == Queued(q, more)
         IN  /\ Len(new.keep) <= MaxOutQueue
             /\ \E cut \in 0..Len(q \o more) : Split(q \o more, cut, new.keep, new.lost)
<1> DEFINE all == q \o more
           cut == IF Len(all) > MaxOutQueue THEN Len(all) - MaxOutQueue ELSE 0
           keep == SubSeq(all, cut + 1, Len(all))
           out == SubSeq(all, 1, cut)
<1>1. all \in Seq(Item) /\ Len(all) \in Nat /\ MaxOutQueue \in Nat
  BY MessagesAssumption
<1>2. Queued(q, more) = [keep |-> keep, lost |-> out]
  BY DEF Queued
<1> HIDE DEF all
<1>3. cut \in 0..Len(all) /\ Len(all) - cut <= MaxOutQueue
  BY <1>1
<1> HIDE DEF cut
<1>4. /\ keep \in Seq(Item) /\ Len(keep) = Len(all) - cut
      /\ \A i \in 1..Len(keep) : keep[i] = all[cut + i]
  BY <1>1, <1>3
<1>5. out \in Seq(Item) /\ Len(out) = cut /\ \A i \in 1..cut : out[i] = all[i]
  BY <1>1, <1>3
<1> HIDE DEF keep, out
<1>6. Split(all, cut, keep, out)
  BY <1>1, <1>3, <1>4, <1>5 DEF Split
<1>7. QED
  BY <1>2, <1>3, <1>4, <1>6 DEF all

(* So does keying the oldest packet. *)
LEMMA KeyingSplits ==
  ASSUME NEW q \in Seq(Item), q # <<>>
  PROVE  Split(q, 1, Tail(q), <<Head(q)>>)
<1>1. Tail(q) \in Seq(Item) /\ Head(q) \in Item /\ Len(q) >= 1 /\ Len(q) \in Nat
  OBVIOUS
<1>2. Len(Tail(q)) = Len(q) - 1 /\ \A i \in 1..Len(Tail(q)) : Tail(q)[i] = q[1 + i]
  BY <1>1
<1>3. <<Head(q)>> \in Seq(Item) /\ Len(<<Head(q)>>) = 1 /\ <<Head(q)>>[1] = q[1]
  BY <1>1
<1>4. QED
  BY <1>1, <1>2, <1>3 DEF Split

(* A cut keeps the order of what stays, and of what goes. *)
LEMMA SplitKeepsOrder ==
  ASSUME NEW all, NEW cut, NEW keep, NEW out, Split(all, cut, keep, out),
         NEW gone, AckLeads(all, gone), NEW now, gone \cup Acks(out) \subseteq now
  PROVE  /\ AckLeads(keep, now)
         /\ \A m \in AllMessages : m.no # NoNumber /\ Reply(m) \in Departures(out) =>
              Ack(m) \in now
<1>0. /\ DOMAIN out = 1..cut /\ DOMAIN keep = 1..Len(keep) /\ DOMAIN all = 1..Len(all)
      /\ cut \in Nat /\ Len(keep) \in Nat /\ Len(all) \in Nat /\ cut <= Len(all)
      /\ Len(keep) = Len(all) - cut
  <2>1. all \in Seq(Item) /\ keep \in Seq(Item) /\ out \in Seq(Item)
    BY DEF Split
  <2>2. cut \in 0..Len(all) /\ Len(out) = cut /\ Len(keep) = Len(all) - cut
    BY DEF Split
  <2>3. QED
    BY <2>1, <2>2
<1>1. ASSUME NEW j \in 1..cut, out[j].msg.no # NoNumber, out[j].kind = "ack"
      PROVE  out[j] \in now
  <2>1. out[j] \in ToSet(out)
    BY <1>0 DEF ToSet
  <2>2. QED
    BY <1>1, <2>1 DEF Departures, Acks
<1>2. AckLeads(keep, now)
  <2> SUFFICES ASSUME NEW i \in DOMAIN keep, keep[i].kind = "reply",
                      keep[i].msg.no # NoNumber
               PROVE  \/ Ack(keep[i].msg) \in now
                      \/ \E j \in 1..(i - 1) : keep[j] = Ack(keep[i].msg)
    BY DEF AckLeads
  <2>1. /\ i \in 1..Len(keep) /\ cut + i \in DOMAIN all /\ all[cut + i] = keep[i]
        /\ cut \in Nat /\ Len(keep) \in Nat /\ Len(keep) = Len(all) - cut
    <3>1. i \in 1..Len(keep) /\ cut + i \in 1..Len(all)
      BY <1>0
    <3>2. QED
      BY <1>0, <3>1 DEF Split
  <2> DEFINE k == cut + i
  <2>2. k \in DOMAIN all /\ all[k] = keep[i] /\ k \in Nat
    BY <2>1
  <2>3. k = cut + i
    OBVIOUS
  <2> HIDE DEF k
  <2>4. all[k].kind = "reply" /\ all[k].msg.no # NoNumber
    BY <2>2
  <2>5. Ack(all[k].msg) \in gone \/ \E j \in 1..(k - 1) : all[j] = Ack(all[k].msg)
    BY <2>2, <2>4 DEF AckLeads
  <2>6. ASSUME NEW j \in 1..(k - 1), all[j] = Ack(keep[i].msg)
        PROVE  \/ Ack(keep[i].msg) \in now
               \/ \E n \in 1..(i - 1) : keep[n] = Ack(keep[i].msg)
    <3>1. CASE j <= cut
      <4>1. j \in 1..cut /\ out[j] = Ack(keep[i].msg)
        BY <2>1, <2>3, <2>6, <3>1 DEF Split
      <4>2. out[j].msg.no # NoNumber /\ out[j].kind = "ack"
        BY <4>1 DEF Ack
      <4>3. QED
        BY <1>1, <4>1, <4>2
    <3>2. CASE ~(j <= cut)
      <4>1. j - cut \in 1..(i - 1) /\ j - cut \in 1..Len(keep) /\ cut + (j - cut) = j
        BY <2>1, <2>3, <3>2
      <4>2. keep[j - cut] = all[j]
        BY <4>1 DEF Split
      <4>3. QED
        BY <2>6, <4>1, <4>2
    <3>3. QED
      BY <3>1, <3>2
  <2>7. QED
    BY <2>2, <2>5, <2>6
<1>3. ASSUME NEW m \in AllMessages, m.no # NoNumber, Reply(m) \in Departures(out)
      PROVE  Ack(m) \in now
  <2>1. PICK i \in 1..cut : out[i] = Reply(m)
    BY <1>3 DEF Departures, ToSet, Split
  <2>2. i \in DOMAIN all /\ all[i] = Reply(m) /\ i \in Nat /\ cut \in Nat
    BY <2>1 DEF Split
  <2>3. all[i].kind = "reply" /\ all[i].msg = m
    BY <2>2 DEF Reply
  <2>4. Ack(m) \in gone \/ \E j \in 1..(i - 1) : all[j] = Ack(m)
    BY <1>3, <2>2, <2>3 DEF AckLeads
  <2>5. ASSUME NEW j \in 1..(i - 1), all[j] = Ack(m) PROVE Ack(m) \in now
    <3>1. j \in 1..cut
      BY <2>2
    <3>2. out[j] = Ack(m)
      BY <2>5, <3>1 DEF Split
    <3>3. out[j].msg.no # NoNumber /\ out[j].kind = "ack"
      BY <1>3, <3>2 DEF Ack
    <3>4. QED
      BY <1>1, <3>1, <3>2, <3>3
  <2>6. QED
    BY <2>4, <2>5
<1>4. QED
  BY <1>2, <1>3

(* What a cut does not take stays. *)
LEMMA SplitKeepsRest ==
  ASSUME NEW all, NEW cut, NEW keep, NEW out, Split(all, cut, keep, out),
         NEW x \in ToSet(all), x \notin ToSet(out)
  PROVE  x \in ToSet(keep)
<1>1. /\ DOMAIN out = 1..cut /\ DOMAIN keep = 1..Len(keep) /\ DOMAIN all = 1..Len(all)
      /\ cut \in Nat /\ Len(all) \in Nat /\ Len(keep) = Len(all) - cut
  <2>1. all \in Seq(Item) /\ keep \in Seq(Item) /\ out \in Seq(Item)
    BY DEF Split
  <2>2. cut \in 0..Len(all) /\ Len(out) = cut /\ Len(keep) = Len(all) - cut
    BY DEF Split
  <2>3. QED
    BY <2>1, <2>2
<1>2. PICK i \in 1..Len(all) : all[i] = x
  BY <1>1 DEF ToSet
<1>3. ~(i <= cut)
  <2> SUFFICES ASSUME i \in 1..cut PROVE FALSE
    BY <1>1, <1>2
  <2>1. out[i] = x
    BY <1>2 DEF Split
  <2>2. QED
    BY <1>1, <2>1 DEF ToSet
<1>4. i - cut \in 1..Len(keep) /\ cut + (i - cut) = i
  BY <1>1, <1>2, <1>3
<1>5. keep[i - cut] = x
  BY <1>2, <1>4 DEF Split
<1>6. QED
  BY <1>1, <1>4, <1>5 DEF ToSet

(* What a message is answered with joins the queue in order. *)
LEMMA AnswersKeepOrder ==
  ASSUME NEW m \in AllMessages, NEW reply \in {<<>>, <<Reply(m)>>},
         NEW q \in Seq(Item), NEW gone, AckLeads(q, gone)
  PROVE  Answers(m, reply) \in Seq(Item) /\ AckLeads(q \o Answers(m, reply), gone)
<1> DEFINE more == Answers(m, reply)
           all == q \o more
<1>1. Ack(m) \in Item /\ Reply(m) \in Item
  BY DEF Ack, Reply, Item
<1>2. /\ more \in Seq(Item) /\ Len(more) \in 0..2
      /\ \A k \in 1..Len(more) :
           \/ more[k] = Ack(m)
           \/ more[k] = Reply(m) /\ (m.no # NoNumber => k = 2 /\ more[1] = Ack(m))
  <2>1. CASE m.no # NoNumber /\ reply = <<>>
    <3>1. more = <<Ack(m)>>
      BY <2>1 DEF Answers
    <3>2. QED
      BY <1>1, <3>1
  <2>2. CASE m.no # NoNumber /\ reply = <<Reply(m)>>
    <3>1. more = <<Ack(m)>> \o <<Reply(m)>>
      BY <2>2 DEF Answers
    <3>2. more \in Seq(Item) /\ Len(more) = 2 /\ more[1] = Ack(m) /\ more[2] = Reply(m)
      BY <1>1, <3>1
    <3>3. QED
      BY <1>1, <3>2
  <2>3. CASE m.no = NoNumber /\ reply = <<>>
    <3>1. more = <<>>
      BY <2>3 DEF Answers
    <3>2. QED
      BY <1>1, <3>1
  <2>4. CASE m.no = NoNumber /\ reply = <<Reply(m)>>
    <3>1. more = <<Reply(m)>>
      BY <2>4 DEF Answers
    <3>2. more \in Seq(Item) /\ Len(more) = 1 /\ more[1] = Reply(m)
      BY <1>1, <3>1
    <3>3. QED
      BY <2>4, <3>2
  <2>5. QED
    BY <2>1, <2>2, <2>3, <2>4
<1> HIDE DEF more
<1>3. /\ Len(q) \in Nat /\ Len(all) = Len(q) + Len(more) /\ all \in Seq(Item)
      /\ \A i \in 1..Len(q) : all[i] = q[i]
      /\ \A k \in 1..Len(more) : all[Len(q) + k] = more[k]
  BY <1>2
<1> HIDE DEF all
<1>4. ASSUME NEW i \in DOMAIN all, all[i].kind = "reply", all[i].msg.no # NoNumber
      PROVE  Ack(all[i].msg) \in gone \/ \E j \in 1..(i - 1) : all[j] = Ack(all[i].msg)
  <2>1. CASE i <= Len(q)
    <3>1. i \in DOMAIN q /\ all[i] = q[i]
      BY <1>3, <2>1
    <3>2. Ack(all[i].msg) \in gone \/ \E j \in 1..(i - 1) : q[j] = Ack(all[i].msg)
      BY <1>4, <3>1 DEF AckLeads
    <3>3. \A j \in 1..(i - 1) : all[j] = q[j]
      BY <1>3, <2>1, <3>1
    <3>4. QED
      BY <3>2, <3>3
  <2>2. CASE ~(i <= Len(q))
    <3>1. PICK k \in 1..Len(more) : i = Len(q) + k
      <4>1. i - Len(q) \in 1..Len(more) /\ i = Len(q) + (i - Len(q))
        BY <1>2, <1>3, <2>2
      <4>2. QED
        BY <4>1
    <3>2. all[i] = more[k]
      BY <1>3, <3>1
    <3>3. all[i] = Reply(m)
      BY <1>2, <1>4, <3>2 DEF Ack
    <3>4. all[i].msg = m
      BY <3>3 DEF Reply
    <3>5. more[k] # Ack(m)
      BY <1>4, <3>2 DEF Ack
    <3>6. k = 2 /\ more[1] = Ack(m)
      BY <1>2, <1>4, <3>2, <3>4, <3>5
    <3>7. all[Len(q) + 1] = Ack(m) /\ Len(q) + 1 \in 1..(i - 1)
      BY <1>2, <1>3, <3>1, <3>6
    <3>8. QED
      BY <3>4, <3>7
  <2>3. QED
    BY <2>1, <2>2
<1>5. QED
  BY <1>2, <1>4 DEF AckLeads, all, more

(* So the queue and what has left it are in order after any answer, and    *)
(* the copy just received has its ack.                                     *)
LEMMA SendKeepsOrder ==
  ASSUME Types, QueueIsOrdered, RepliesFollowAcks, CopiesAreAcked,
         NEW m \in AllMessages, NEW reply \in {<<>>, <<Reply(m)>>},
         NEW beacon \in SUBSET {[kind |-> "beacon", msg |-> m]},
         Send(m, reply, beacon)
  PROVE  /\ outQueue' \in Seq(Item) /\ Len(outQueue') <= MaxOutQueue
         /\ keyed' \subseteq [kind : {"ack", "reply", "beacon"}, msg : AllMessages]
         /\ lost' \subseteq Item /\ owed' \subseteq AllMessages
         /\ QueueIsOrdered' /\ RepliesFollowAcks' /\ CopiesAreAcked'
<1> DEFINE more == Answers(m, reply)
           q    == Queued(outQueue, more)
           all  == outQueue \o more
<1>1. outQueue \in Seq(Item) /\ AckLeads(outQueue, keyed \cup lost)
  BY DEF Types, TypeOK, QueueIsOrdered
<1>2. more \in Seq(Item) /\ AckLeads(all, keyed \cup lost)
  BY <1>1, AnswersKeepOrder
<1>3. /\ outQueue' = q.keep
      /\ keyed' = keyed \cup beacon
      /\ lost'  = (lost \cup Acks(q.lost)) \ keyed
      /\ owed'  = {x \in owed \cup {m} : x.no # NoNumber /\ Ack(x) \notin ToSet(q.lost)}
  BY DEF Send, Owed
<1>4. m.no # NoNumber => Ack(m) \in ToSet(all)
  <2> SUFFICES ASSUME m.no # NoNumber PROVE Ack(m) \in ToSet(all)
    OBVIOUS
  <2>1. more = <<Ack(m)>> \o reply
    BY DEF Answers
  <2>2. Len(more) >= 1 /\ more[1] = Ack(m)
    BY <2>1 DEF Reply, Ack
  <2> HIDE DEF more
  <2>3. /\ Len(outQueue) + 1 \in 1..Len(all) /\ all[Len(outQueue) + 1] = more[1]
        /\ DOMAIN all = 1..Len(all)
    BY <1>1, <1>2, <2>2
  <2>4. QED
    BY <2>2, <2>3 DEF ToSet
<1>5. \A x \in owed : Ack(x) \in ToSet(all)
  <2> SUFFICES ASSUME NEW x \in owed PROVE Ack(x) \in ToSet(all)
    OBVIOUS
  <2>1. PICK i \in DOMAIN outQueue : outQueue[i] = Ack(x)
    BY DEF CopiesAreAcked, ToSet
  <2> HIDE DEF more
  <2>2. i \in DOMAIN all /\ all[i] = Ack(x)
    BY <1>1, <1>2, <2>1
  <2>3. QED
    BY <2>2 DEF ToSet
<1> HIDE DEF more
<1>6. Len(q.keep) <= MaxOutQueue
  BY <1>1, <1>2, QueuedSplits
<1>7. PICK cut \in 0..Len(all) : Split(all, cut, q.keep, q.lost)
  BY <1>1, <1>2, QueuedSplits
<1> HIDE DEF q, all
<1>8. q.keep \in Seq(Item) /\ q.lost \in Seq(Item)
  BY <1>7 DEF Split
<1>9. Acks(q.lost) \subseteq Item
  BY <1>8 DEF Acks, Departures, ToSet
<1>10. AckLeads(q.keep, keyed' \cup lost')
  <2>1. (keyed \cup lost) \cup Acks(q.lost) \subseteq keyed' \cup lost'
    BY <1>3
  <2>2. QED
    BY <1>2, <1>7, <2>1, SplitKeepsOrder
<1>11. RepliesFollowAcks'
  <2> SUFFICES ASSUME NEW x \in AllMessages, x.no # NoNumber, Reply(x) \in keyed'
               PROVE  Ack(x) \in keyed' \cup lost'
    BY DEF RepliesFollowAcks, Reply, Ack
  <2>1. Reply(x) \notin beacon
    BY DEF Reply
  <2>2. Ack(x) \in keyed \cup lost
    BY <1>3, <2>1 DEF RepliesFollowAcks, Reply, Ack
  <2>3. QED
    BY <1>3, <2>2
<1>12. CopiesAreAcked'
  <2> SUFFICES ASSUME NEW x \in owed' PROVE Ack(x) \in ToSet(q.keep)
    BY <1>3 DEF CopiesAreAcked, Ack
  <2>1. x.no # NoNumber /\ Ack(x) \notin ToSet(q.lost) /\ Ack(x) \in ToSet(all)
    BY <1>3, <1>4, <1>5
  <2>2. QED
    BY <1>7, <2>1, SplitKeepsRest
<1>13. QED
  BY <1>3, <1>6, <1>8, <1>9, <1>10, <1>11, <1>12 DEF Types, QueueIsOrdered

-----------------------------------------------------------------------------
(* The ring and its history. *)

LEMMA SlotBackType ==
  ASSUME NEW hd \in Slot, NEW d \in 0..(Slots - 1)
  PROVE  SlotBack(hd, d) \in Slot
BY SlotsAssumption DEF SlotBack, Slot

(* After a write, the slot it used is 0 back and the others are one more. *)
LEMMA SlotBackSteps ==
  ASSUME NEW hd \in Slot
  PROVE  /\ NextSlot(hd) \in Slot
         /\ SlotBack(NextSlot(hd), 0) = hd
         /\ \A d \in Nat : d + 1 < Slots =>
              /\ SlotBack(NextSlot(hd), d + 1) = SlotBack(hd, d)
              /\ SlotBack(hd, d) # hd
<1>1. NextSlot(hd) = IF hd = Slots - 1 THEN 0 ELSE hd + 1
  BY SlotsAssumption DEF Slot, NextSlot
<1>2. QED
  BY <1>1, SlotsAssumption DEF Slot, SlotBack

(* The clock of one life does not wrap. *)
LEMMA ClockIsMillis == clock \in 0..MaxClock => Millis(clock) = clock /\ clock \in Word
<1> SUFFICES ASSUME clock \in 0..MaxClock PROVE Millis(clock) = clock /\ clock \in Word
  OBVIOUS
<1>1. clock \in 0..(Wrap - 1) /\ Wrap \in Nat \ {0}
  BY MessagesAssumption, WrapAssumption
<1>2. QED
  BY <1>1, SmallRemainder DEF Millis, Word

(* What the history remembers is not new. *)
LEMMA NewIsForgotten ==
  ASSUME Types, RememberedIsHeld, NEW m \in AllMessages, IsNew(m)
  PROVE  last[m.hash] = Forgotten
<1> DEFINE h == m.hash
           k == SlotBack(ring.head, last[h].newer)
<1> SUFFICES ASSUME last[h] # Forgotten PROVE FALSE
  OBVIOUS
<1>1. h \in Hashes /\ last[h] \in [at : Nat \cup {Never}, newer : Nat]
  BY DEF Hashes, Types
<1>2. /\ last[h].at \in 0..clock /\ clock - last[h].at < TTL /\ last[h].newer < Slots
      /\ ring.buf[k] = [hash |-> h, seenAt |-> last[h].at]
  BY <1>1 DEF RememberedIsHeld
<1>3. clock \in 0..MaxClock /\ ring.head \in Slot
  BY DEF Types, TypeOK
<1>4. k \in Slot
  BY <1>1, <1>2, <1>3, SlotBackType, SlotsAssumption
<1> HIDE DEF k
<1>5. Age(clock, ring.buf[k]) = clock - last[h].at
  <2>1. Age(clock, ring.buf[k]) = (clock - last[h].at) % Wrap
    BY <1>2, <1>3, ClockIsMillis DEF Age
  <2>2. clock - last[h].at \in 0..(Wrap - 1) /\ Wrap \in Nat \ {0}
    BY <1>2, <1>3, MessagesAssumption, WrapAssumption
  <2>3. QED
    BY <2>1, <2>2, SmallRemainder
<1>6. Holds(ring.buf, h, clock)
  BY <1>2, <1>4, <1>5 DEF Holds
<1>7. QED
  BY <1>6 DEF IsNew

(* Recording keeps the ring and the history together. *)
LEMMA RecordKeeps ==
  ASSUME Types, RememberedIsHeld, NEW m \in AllMessages, Record(m), clock' = clock
  PROVE  /\ ring' \in [buf : [Slot -> Entry], head : Slot]
         /\ last' \in [Hashes -> [at : Nat \cup {Never}, newer : Nat]]
         /\ RememberedIsHeld'
         /\ ring'.buf[ring.head].hash = m.hash
<1> DEFINE new == [hash |-> m.hash, seenAt |-> clock]
<1>1. /\ clock \in Nat /\ Millis(clock) = clock /\ clock \in Word
      /\ ring \in [buf : [Slot -> Entry], head : Slot] /\ ring.head \in Slot
      /\ m.hash \in Word /\ last \in [Hashes -> [at : Nat \cup {Never}, newer : Nat]]
  BY ClockIsMillis, MessagesAssumption DEF Types, TypeOK
<1>2. new \in Entry
  BY <1>1 DEF Entry
<1>3. ring' = [buf |-> [ring.buf EXCEPT ![ring.head] = new], head |-> NextSlot(ring.head)]
  BY <1>1 DEF Record, Recorded
<1>4. /\ ring' \in [buf : [Slot -> Entry], head : Slot]
      /\ ring'.head = NextSlot(ring.head) /\ ring'.buf[ring.head] = new
      /\ \A k \in Slot : k # ring.head => ring'.buf[k] = ring.buf[k]
  <2> HIDE DEF new
  <2>1. NextSlot(ring.head) \in Slot
    BY <1>1, SlotBackSteps
  <2>2. QED
    BY <1>1, <1>2, <1>3, <2>1
<1>5. ASSUME NEW h \in Hashes
      PROVE  /\ last'[h] \in [at : Nat \cup {Never}, newer : Nat]
             /\ \/ h = m.hash /\ last'[h] = [at |-> clock, newer |-> 0]
                \/ last'[h] = Forgotten
                \/ /\ last[h] # Forgotten /\ last[h].newer + 1 < Slots
                   /\ last'[h].at = last[h].at /\ last'[h].newer = last[h].newer + 1
  <2>1. last[h] \in [at : Nat \cup {Never}, newer : Nat]
    BY <1>1
  <2>2. CASE h = m.hash
    BY <1>1, <2>2 DEF Record
  <2>3. CASE h # m.hash /\ last[h] # Forgotten /\ last[h].newer + 1 < Slots
    <3>1. last'[h] = [last[h] EXCEPT !.newer = @ + 1]
      BY <2>3 DEF Record
    <3>2. QED
      BY <2>1, <2>3, <3>1
  <2>4. CASE h # m.hash /\ ~(last[h] # Forgotten /\ last[h].newer + 1 < Slots)
    <3>1. last'[h] = Forgotten
      BY <2>4 DEF Record
    <3>2. QED
      BY <3>1 DEF Forgotten
  <2>5. QED
    BY <2>2, <2>3, <2>4
<1>6. last' \in [Hashes -> [at : Nat \cup {Never}, newer : Nat]]
  BY <1>5 DEF Record
<1>7. ASSUME NEW h \in Hashes, last'[h] # Forgotten
      PROVE  /\ last'[h].at \in 0..clock /\ clock - last'[h].at < TTL
             /\ last'[h].newer < Slots
             /\ ring'.buf[SlotBack(ring'.head, last'[h].newer)]
                  = [hash |-> h, seenAt |-> last'[h].at]
  <2>1. CASE h = m.hash /\ last'[h] = [at |-> clock, newer |-> 0]
    <3>1. last'[h].at = clock /\ last'[h].newer = 0
      BY <2>1
    <3>2. SlotBack(ring'.head, 0) = ring.head
      BY <1>1, <1>4, SlotBackSteps
    <3>3. QED
      BY <1>1, <1>4, <2>1, <3>1, <3>2, WrapAssumption, SlotsAssumption
  <2>2. CASE /\ last[h] # Forgotten /\ last[h].newer + 1 < Slots
             /\ last'[h].at = last[h].at /\ last'[h].newer = last[h].newer + 1
    <3>1. /\ last[h].at \in 0..clock /\ clock - last[h].at < TTL /\ last[h].newer \in Nat
          /\ ring.buf[SlotBack(ring.head, last[h].newer)] = [hash |-> h, seenAt |-> last[h].at]
      BY <1>1, <2>2 DEF RememberedIsHeld
    <3>2. /\ SlotBack(ring'.head, last'[h].newer) = SlotBack(ring.head, last[h].newer)
          /\ SlotBack(ring.head, last[h].newer) # ring.head
      BY <1>1, <1>4, <2>2, <3>1, SlotBackSteps
    <3>3. SlotBack(ring.head, last[h].newer) \in Slot
      BY <1>1, <2>2, <3>1, SlotBackType, SlotsAssumption
    <3>4. QED
      BY <1>4, <2>2, <3>1, <3>2, <3>3
  <2>3. QED
    BY <1>5, <1>7, <2>1, <2>2
<1>8. RememberedIsHeld'
  BY <1>7 DEF RememberedIsHeld
<1>9. QED
  BY <1>4, <1>6, <1>8

-----------------------------------------------------------------------------
(* What a command does to the window, the lockout and their history. *)

(* A try counts as a failure exactly when handleUnlock() counts it. *)
LEMMA TriesAreFailures ==
  ASSUME Types, LockoutIsCounted, NEW m \in AllMessages, NEW reply
  PROVE  /\ IsLockedOut <=> lockedAt # Never
         /\ ~IsLockedOut => Failures = wrongs
         /\ wrongs \in 0..(MaxFailed - 1)
         /\ reply \notin {"ERR_BADTOKEN", "ERR_LOCKED_OUT"} => ~WrongTry(m, reply)
         /\ IsLockedOut => ~WrongTry(m, reply)
BY DEF Types, RcState, LockoutIsCounted, IsLockedOut, Failures, WrongTry

LEMMA CommandKeeps ==
  ASSUME Types, WindowIsGranted, LockoutIsCounted, NEW m \in AllMessages, Command(m)
  PROVE  /\ rc' \in RcState /\ config' \in [Codes -> Nat]
         /\ grant' \in [by : Callers, at : Nat] \cup {Nobodys}
         /\ wrongs' \in Nat /\ lockedAt' \in Nat \cup {Never}
         /\ WindowIsGranted' /\ LockoutIsCounted'
         /\ config' # config =>
              /\ grant # Nobodys /\ grant.by = rc'.lastSenderSeen
              /\ \A i \in DOMAIN m.text.batch : m.text.batch[i].value # Bad
              /\ config' = Applied(config, m.text.batch)
         /\ grant' # grant => lockedAt = Never
<1> DEFINE out == Handled(m)
           try == WrongTry(m, out.reply)
<1>1. /\ rc' = out.rc /\ config' = out.config /\ clock' = clock
      /\ grant' = IF out.reply = "UNLOCKED" THEN [by |-> m.from, at |-> clock] ELSE grant
      /\ wrongs' = CASE out.reply = "UNLOCKED"        -> 0
                     [] try /\ wrongs + 1 = MaxFailed -> 0
                     [] try /\ wrongs + 1 # MaxFailed -> wrongs + 1
                     [] OTHER                         -> wrongs
      /\ lockedAt' = IF try /\ wrongs + 1 = MaxFailed THEN clock ELSE lockedAt
  BY DEF Command, Handled
<1>2. /\ clock \in Nat /\ rc \in RcState /\ config \in [Codes -> Nat]
      /\ grant \in [by : Callers, at : Nat] \cup {Nobodys}
      /\ wrongs \in Nat /\ lockedAt \in Nat \cup {Never}
  <2>1. clock \in 0..MaxClock /\ MaxClock \in Nat
    BY MessagesAssumption DEF Types, TypeOK
  <2>2. QED
    BY <2>1 DEF Types, TypeOK
<1>3. /\ out.rc \in RcState
      /\ \/ Idle(out) \/ Shut(out) \/ WritesThrough(m, out)
         \/ Disabled(out) \/ Unlocks(m, out) \/ Fails(m, out)
  <2>1. IsCommand(m.text)
    BY DEF Command
  <2>2. QED
    BY <1>2, <2>1, CommandCases
<1>4. /\ IsLockedOut <=> lockedAt # Never
      /\ ~IsLockedOut => Failures = wrongs
      /\ wrongs \in 0..(MaxFailed - 1)
      /\ out.reply \notin {"ERR_BADTOKEN", "ERR_LOCKED_OUT"} => ~try
      /\ IsLockedOut => ~try
  <2> HIDE DEF out
  <2>1. QED
    BY TriesAreFailures
<1> HIDE DEF out, try
<1>5. m.from \in Callers
  BY DEF Callers
<1>6. rc' \in RcState
  BY <1>1, <1>3
<1>7. CASE Idle(out)
  <2>1. ~try /\ out.reply # "UNLOCKED"
    BY <1>4, <1>7 DEF Idle, Answered
  <2>2. UNCHANGED <<config, grant, wrongs, lockedAt>>
    BY <1>1, <1>7, <2>1 DEF Idle
  <2>3. SameWindow(rc') /\ SameFailures(rc')
    BY <1>1, <1>7 DEF Idle
  <2>4. QED
    BY <1>1, <1>2, <1>6, <2>2, <2>3
       DEF WindowIsGranted, LockoutIsCounted, SameWindow, SameFailures
<1>8. CASE Shut(out)
  <2>1. ~try /\ out.reply # "UNLOCKED"
    BY <1>4, <1>8 DEF Shut, Answered
  <2>2. UNCHANGED <<config, grant, wrongs, lockedAt>>
    BY <1>1, <1>8, <2>1 DEF Shut
  <2>3. rc'.unlockExpiresAt = 0 /\ SameFailures(rc')
    BY <1>1, <1>8 DEF Shut
  <2>4. QED
    BY <1>1, <1>2, <1>6, <2>2, <2>3 DEF WindowIsGranted, LockoutIsCounted, SameFailures
<1>9. CASE WritesThrough(m, out)
  <2>1. ~try /\ out.reply # "UNLOCKED"
    BY <1>4, <1>9 DEF WritesThrough, Answered
  <2>2. UNCHANGED <<grant, wrongs, lockedAt>> /\ config' = Written(config, m.text.batch)
    BY <1>1, <1>9, <2>1 DEF WritesThrough
  <2>3. SameWindow(rc') /\ SameFailures(rc') /\ rc'.lastSenderSeen = rc.unlockedBy
    BY <1>1, <1>9 DEF WritesThrough
  <2>4. grant \in [by : {rc.unlockedBy}, at : Nat]
    BY <1>9 DEF WritesThrough, WindowIsGranted
  <2>5. grant # Nobodys /\ grant.by = rc'.lastSenderSeen
    BY <2>3, <2>4 DEF Nobodys, Never
  <2>6. /\ config' \in [Codes -> Nat]
        /\ config' # config =>
             /\ \A i \in DOMAIN m.text.batch : m.text.batch[i].value # Bad
             /\ config' = Applied(config, m.text.batch)
    BY <1>2, <2>2, WrittenCases
  <2>7. WindowIsGranted' /\ LockoutIsCounted'
    BY <1>1, <2>2, <2>3 DEF WindowIsGranted, LockoutIsCounted, SameWindow, SameFailures
  <2>8. QED
    BY <1>2, <1>6, <2>2, <2>5, <2>6, <2>7
<1>10. CASE Disabled(out)
  <2>1. ~try /\ out.reply # "UNLOCKED"
    BY <1>4, <1>10 DEF Disabled, Answered
  <2>2. UNCHANGED <<config, grant, wrongs, lockedAt>>
    BY <1>1, <1>10, <2>1 DEF Disabled
  <2>3. SameWindow(rc') /\ rc'.lockoutUntil = 0 /\ rc'.failed = wrongs /\ lockedAt = Never
    BY <1>1, <1>4, <1>10 DEF Disabled
  <2>4. QED
    BY <1>1, <1>2, <1>6, <2>2, <2>3 DEF WindowIsGranted, LockoutIsCounted, SameWindow
<1>11. CASE Unlocks(m, out)
  <2>1. ~try /\ out.reply = "UNLOCKED" /\ lockedAt = Never
    BY <1>4, <1>11 DEF Unlocks
  <2>2. /\ UNCHANGED <<config, lockedAt>> /\ wrongs' = 0
        /\ grant' = [by |-> m.from, at |-> clock]
    BY <1>1, <1>11, <2>1 DEF Unlocks
  <2>3. /\ rc'.unlockExpiresAt = clock + UnlockWindow /\ rc'.unlockedBy = m.from
        /\ rc'.lockoutUntil = 0 /\ rc'.failed = 0
    BY <1>1, <1>11 DEF Unlocks
  <2>4. QED
    BY <1>1, <1>2, <1>5, <1>6, <2>1, <2>2, <2>3 DEF WindowIsGranted, LockoutIsCounted
<1>12. CASE Fails(m, out)
  <2>1. /\ try /\ out.reply # "UNLOCKED" /\ lockedAt = Never /\ Failures = wrongs
    <3>1. ~IsLockedOut /\ m.text.op = "CSU" /\ m.text.token # Token
          /\ out.reply \in {"ERR_BADTOKEN", "ERR_LOCKED_OUT"}
      BY <1>12 DEF Fails
    <3>2. QED
      BY <1>4, <3>1 DEF try, WrongTry
  <2>2. UNCHANGED <<config, grant>> /\ SameWindow(rc')
    BY <1>1, <1>12, <2>1 DEF Fails
  <2>3. WindowIsGranted'
    BY <1>1, <2>2 DEF WindowIsGranted, SameWindow
  <2>4. CASE wrongs + 1 = MaxFailed
    <3>1. wrongs' = 0 /\ lockedAt' = clock
      BY <1>1, <2>1, <2>4
    <3>2. rc'.failed = 0 /\ rc'.lockoutUntil = clock + Lockout
      BY <1>1, <1>2, <1>12, <2>1, <2>4 DEF Fails
    <3>3. clock < clock + Lockout /\ clock + Lockout # 0
      BY <1>2, RemoteCfgAssumption
    <3>4. LockoutIsCounted'
      BY <1>1, <1>2, <3>1, <3>2, <3>3 DEF LockoutIsCounted, Never
    <3>5. QED
      BY <1>2, <1>6, <2>2, <2>3, <3>1, <3>4
  <2>5. CASE wrongs + 1 # MaxFailed
    <3>1. wrongs' = wrongs + 1 /\ lockedAt' = Never
      BY <1>1, <2>1, <2>5
    <3>2. rc'.failed = wrongs + 1 /\ rc'.lockoutUntil = 0
      BY <1>1, <1>2, <1>4, <1>12, <2>1, <2>5, MaxFailedType DEF Fails
    <3>3. LockoutIsCounted'
      BY <3>1, <3>2 DEF LockoutIsCounted
    <3>4. QED
      BY <1>2, <1>6, <2>2, <2>3, <3>1, <3>3
  <2>6. QED
    BY <2>4, <2>5
<1>13. QED
  BY <1>3, <1>7, <1>8, <1>9, <1>10, <1>11, <1>12

-----------------------------------------------------------------------------
(* The invariant, action by action. *)

LEMMA InitIInv == Init => IInv
<1> SUFFICES ASSUME Init PROVE IInv
  OBVIOUS
<1>1. Blank \in Entry /\ 0 \in Slot /\ Nobody \in Callers /\ 0 \in 0..(MaxFailed - 1)
  BY SlotsAssumption, WrapAssumption, MaxFailedType DEF Blank, Entry, Word, Slot, Callers
<1>2. Types
  <2>1. rc \in RcState
    BY <1>1 DEF Init, Locked, RcState
  <2>2. ring \in [buf : [Slot -> Entry], head : Slot]
    BY <1>1 DEF Init, FreshRing
  <2>3. last \in [Hashes -> [at : Nat \cup {Never}, newer : Nat]]
    BY DEF Init, Forgotten
  <2>4. outQueue \in Seq(Item) /\ Len(outQueue) <= MaxOutQueue
    BY MessagesAssumption DEF Init
  <2>5. QED
    BY <2>1, <2>2, <2>3, <2>4, MessagesAssumption DEF Init, Types, TypeOK, RcState
<1>3. WindowIsGranted /\ LockoutIsCounted
  BY DEF Init, Locked, WindowIsGranted, LockoutIsCounted, Never
<1>4. QueueIsOrdered /\ RepliesFollowAcks /\ CopiesAreAcked /\ RememberedIsHeld
  BY DEF Init, QueueIsOrdered, AckLeads, RepliesFollowAcks, CopiesAreAcked, RememberedIsHeld
<1>5. QED
  BY <1>2, <1>3, <1>4 DEF IInv

LEMMA RepeatKeeps ==
  ASSUME IInv, NEW m \in AllMessages, Repeat(m)
  PROVE  IInv'
<1>1. /\ UNCHANGED <<clock, ring, rc, config, last, grant, wrongs, lockedAt>>
      /\ Send(m, <<>>, {})
  BY DEF Repeat
<1>2. /\ outQueue' \in Seq(Item) /\ Len(outQueue') <= MaxOutQueue
      /\ keyed' \subseteq [kind : {"ack", "reply", "beacon"}, msg : AllMessages]
      /\ lost' \subseteq Item /\ owed' \subseteq AllMessages
      /\ QueueIsOrdered' /\ RepliesFollowAcks' /\ CopiesAreAcked'
  <2> DEFINE reply == <<>>
             beacon == {}
  <2>1. reply \in {<<>>, <<Reply(m)>>} /\ beacon \in SUBSET {[kind |-> "beacon", msg |-> m]}
    OBVIOUS
  <2>2. Send(m, reply, beacon)
    BY <1>1
  <2> HIDE DEF reply, beacon
  <2>3. QED
    BY <2>1, <2>2, SendKeepsOrder DEF IInv
<1>3. Types'
  BY <1>1, <1>2 DEF IInv, Types, TypeOK
<1>4. WindowIsGranted' /\ LockoutIsCounted' /\ RememberedIsHeld'
  BY <1>1 DEF IInv, WindowIsGranted, LockoutIsCounted, RememberedIsHeld
<1>5. QED
  BY <1>2, <1>3, <1>4 DEF IInv

LEMMA ConverseKeeps ==
  ASSUME IInv, NEW m \in AllMessages, Converse(m)
  PROVE  IInv'
<1> DEFINE reply == IF AnsweredByQueue(m) THEN <<Reply(m)>> ELSE <<>>
<1>1. /\ UNCHANGED <<clock, rc, config, grant, wrongs, lockedAt>> /\ Record(m)
      /\ \E beacon \in Beacons(m) : Send(m, reply, beacon)
  BY DEF Converse
<1>2. /\ outQueue' \in Seq(Item) /\ Len(outQueue') <= MaxOutQueue
      /\ keyed' \subseteq [kind : {"ack", "reply", "beacon"}, msg : AllMessages]
      /\ lost' \subseteq Item /\ owed' \subseteq AllMessages
      /\ QueueIsOrdered' /\ RepliesFollowAcks' /\ CopiesAreAcked'
  <2>1. reply \in {<<>>, <<Reply(m)>>}
    OBVIOUS
  <2>2. PICK beacon \in SUBSET {[kind |-> "beacon", msg |-> m]} : Send(m, reply, beacon)
    BY <1>1 DEF Beacons
  <2> HIDE DEF reply
  <2>3. QED
    BY <2>1, <2>2, SendKeepsOrder DEF IInv
<1>3. /\ ring' \in [buf : [Slot -> Entry], head : Slot]
      /\ last' \in [Hashes -> [at : Nat \cup {Never}, newer : Nat]]
      /\ RememberedIsHeld'
  BY <1>1, RecordKeeps DEF IInv
<1>4. Types'
  BY <1>1, <1>2, <1>3 DEF IInv, Types, TypeOK
<1>5. WindowIsGranted' /\ LockoutIsCounted'
  BY <1>1 DEF IInv, WindowIsGranted, LockoutIsCounted
<1>6. QED
  BY <1>2, <1>3, <1>4, <1>5 DEF IInv

LEMMA CommandKeepsAll ==
  ASSUME IInv, NEW m \in AllMessages, Command(m)
  PROVE  IInv'
<1>1. clock' = clock /\ Record(m) /\ Send(m, <<Reply(m)>>, {})
  BY DEF Command
<1>2. /\ outQueue' \in Seq(Item) /\ Len(outQueue') <= MaxOutQueue
      /\ keyed' \subseteq [kind : {"ack", "reply", "beacon"}, msg : AllMessages]
      /\ lost' \subseteq Item /\ owed' \subseteq AllMessages
      /\ QueueIsOrdered' /\ RepliesFollowAcks' /\ CopiesAreAcked'
  <2> DEFINE reply == <<Reply(m)>>
             beacon == {}
  <2>1. reply \in {<<>>, <<Reply(m)>>} /\ beacon \in SUBSET {[kind |-> "beacon", msg |-> m]}
    OBVIOUS
  <2>2. Send(m, reply, beacon)
    BY <1>1
  <2> HIDE DEF reply, beacon
  <2>3. QED
    BY <2>1, <2>2, SendKeepsOrder DEF IInv
<1>3. /\ ring' \in [buf : [Slot -> Entry], head : Slot]
      /\ last' \in [Hashes -> [at : Nat \cup {Never}, newer : Nat]]
      /\ RememberedIsHeld'
  BY <1>1, RecordKeeps DEF IInv
<1>4. /\ rc' \in RcState /\ config' \in [Codes -> Nat]
      /\ grant' \in [by : Callers, at : Nat] \cup {Nobodys}
      /\ wrongs' \in Nat /\ lockedAt' \in Nat \cup {Never}
      /\ WindowIsGranted' /\ LockoutIsCounted'
  BY CommandKeeps DEF IInv
<1>5. Types'
  BY <1>1, <1>2, <1>3, <1>4 DEF IInv, Types, TypeOK, RcState
<1>6. QED
  BY <1>2, <1>3, <1>4, <1>5 DEF IInv

LEMMA KeyNextKeeps == IInv /\ KeyNext => IInv'
<1> SUFFICES ASSUME IInv, KeyNext PROVE IInv'
  OBVIOUS
<1> DEFINE out == <<Head(outQueue)>>
<1>1. /\ UNCHANGED <<clock, ring, rc, config, last, grant, wrongs, lockedAt>>
      /\ outQueue # <<>> /\ outQueue' = Tail(outQueue)
      /\ keyed' = keyed \cup Departures(out)
      /\ lost'  = lost \ keyed'
      /\ owed'  = {x \in owed : x.no # NoNumber /\ Ack(x) \notin ToSet(out)}
  BY DEF KeyNext, Owed
<1>2. /\ outQueue \in Seq(Item) /\ Len(outQueue) <= MaxOutQueue
      /\ AckLeads(outQueue, keyed \cup lost)
  BY DEF IInv, Types, TypeOK, QueueIsOrdered
<1>3. Split(outQueue, 1, outQueue', out)
  BY <1>1, <1>2, KeyingSplits
<1>4. outQueue' \in Seq(Item) /\ Len(outQueue') <= MaxOutQueue
  <2>1. Len(Tail(outQueue)) = Len(outQueue) - 1 /\ Len(outQueue) \in Nat
    BY <1>1, <1>2
  <2>2. QED
    BY <1>1, <1>2, <2>1, MessagesAssumption
<1> HIDE DEF out
<1>5. /\ AckLeads(outQueue', keyed' \cup lost')
      /\ \A x \in AllMessages : x.no # NoNumber /\ Reply(x) \in Departures(out) =>
           Ack(x) \in keyed' \cup lost'
  <2>1. (keyed \cup lost) \cup Acks(out) \subseteq keyed' \cup lost'
    BY <1>1 DEF Acks
  <2>2. QED
    BY <1>2, <1>3, <2>1, SplitKeepsOrder
<1>6. keyed' \subseteq [kind : {"ack", "reply", "beacon"}, msg : AllMessages]
  <2>1. Departures(out) \subseteq Item
    BY <1>3 DEF Split, Departures, ToSet
  <2>2. QED
    BY <1>1, <2>1 DEF IInv, Types, Item
<1>7. RepliesFollowAcks'
  <2> SUFFICES ASSUME NEW x \in AllMessages, x.no # NoNumber, Reply(x) \in keyed'
               PROVE  Ack(x) \in keyed' \cup lost'
    BY DEF RepliesFollowAcks, Reply, Ack
  <2>1. CASE Reply(x) \in keyed
    <3>1. Ack(x) \in keyed \cup lost
      BY <2>1 DEF IInv, RepliesFollowAcks, Reply, Ack
    <3>2. QED
      BY <1>1, <3>1
  <2>2. CASE Reply(x) \in Departures(out)
    BY <1>5, <2>2
  <2>3. QED
    BY <1>1, <2>1, <2>2
<1>8. CopiesAreAcked'
  <2> SUFFICES ASSUME NEW x \in owed' PROVE Ack(x) \in ToSet(outQueue')
    BY DEF CopiesAreAcked, Ack
  <2>1. Ack(x) \notin ToSet(out) /\ Ack(x) \in ToSet(outQueue)
    BY <1>1 DEF IInv, CopiesAreAcked
  <2>2. QED
    BY <1>3, <2>1, SplitKeepsRest
<1>9. Types'
  BY <1>1, <1>4, <1>6 DEF IInv, Types, TypeOK
<1>10. WindowIsGranted' /\ LockoutIsCounted' /\ RememberedIsHeld'
  BY <1>1 DEF IInv, WindowIsGranted, LockoutIsCounted, RememberedIsHeld
<1>11. QED
  BY <1>5, <1>7, <1>8, <1>9, <1>10 DEF IInv, QueueIsOrdered

LEMMA TickKeeps == IInv /\ Tick => IInv'
<1> SUFFICES ASSUME IInv, Tick PROVE IInv'
  OBVIOUS
<1>1. /\ UNCHANGED <<ring, rc, config, outQueue, wrongs, keyed, lost, owed>>
      /\ clock' = clock + 1 /\ clock < MaxClock
      /\ last' = [h \in Hashes |->
                    IF clock' - last[h].at >= TTL THEN Forgotten ELSE last[h]]
      /\ grant' = IF clock' - grant.at >= UnlockWindow THEN Nobodys ELSE grant
      /\ lockedAt' = IF clock' - lockedAt >= Lockout THEN Never ELSE lockedAt
  BY DEF Tick
<1>2. /\ clock \in Nat /\ clock' \in 0..MaxClock /\ rc \in RcState
      /\ grant \in [by : Callers, at : Nat] \cup {Nobodys}
      /\ lockedAt \in Nat \cup {Never} /\ wrongs \in Nat
      /\ last \in [Hashes -> [at : Nat \cup {Never}, newer : Nat]]
      /\ UnlockWindow \in Nat /\ Lockout \in Nat \ {0} /\ TTL \in Nat
  BY <1>1, MessagesAssumption, RemoteCfgAssumption, WrapAssumption DEF IInv, Types, TypeOK
<1>3. Types'
  <2>1. last' \in [Hashes -> [at : Nat \cup {Never}, newer : Nat]]
    BY <1>1, <1>2 DEF Forgotten
  <2>2. grant' \in [by : Callers, at : Nat] \cup {Nobodys}
    BY <1>1, <1>2
  <2>3. lockedAt' \in Nat \cup {Never}
    BY <1>1, <1>2
  <2>4. QED
    BY <1>1, <1>2, <2>1, <2>2, <2>3 DEF IInv, Types, TypeOK
<1>4. WindowIsGranted'
  <2> SUFFICES ASSUME rc.unlockExpiresAt # 0, clock + 1 < rc.unlockExpiresAt
               PROVE  /\ grant' \in [by : {rc.unlockedBy}, at : Nat]
                      /\ grant'.at + UnlockWindow = rc.unlockExpiresAt
    BY <1>1 DEF WindowIsGranted
  <2>1. rc.unlockExpiresAt \in Nat
    BY <1>2 DEF RcState
  <2>2. /\ grant \in [by : {rc.unlockedBy}, at : Nat]
        /\ grant.at + UnlockWindow = rc.unlockExpiresAt
    BY <1>2, <2>1 DEF IInv, WindowIsGranted
  <2>3. ~(clock' - grant.at >= UnlockWindow)
    BY <1>1, <1>2, <2>1, <2>2
  <2>4. grant' = grant
    BY <1>1, <2>3
  <2>5. QED
    BY <2>2, <2>4
<1>5. LockoutIsCounted'
  <2>1. rc.lockoutUntil \in Nat
    BY <1>2 DEF RcState
  <2>2. /\ lockedAt # Never => rc.lockoutUntil = lockedAt + Lockout
        /\ (rc.lockoutUntil # 0 /\ clock < rc.lockoutUntil) <=> lockedAt # Never
        /\ rc.lockoutUntil # 0 => rc.failed = 0
        /\ wrongs = rc.failed
    BY DEF IInv, LockoutIsCounted
  <2>3. CASE lockedAt = Never
    <3>1. lockedAt' = Never
      BY <1>1, <2>3
    <3>2. QED
      BY <1>1, <1>2, <2>1, <2>2, <2>3, <3>1 DEF LockoutIsCounted
  <2>4. CASE lockedAt # Never
    <3>1. lockedAt \in Nat /\ rc.lockoutUntil = lockedAt + Lockout
      BY <1>2, <2>2, <2>4
    <3>2. CASE clock' - lockedAt >= Lockout
      <4>1. lockedAt' = Never
        BY <1>1, <3>2
      <4>2. ~(clock + 1 < rc.lockoutUntil)
        BY <1>1, <1>2, <3>1, <3>2
      <4>3. QED
        BY <1>1, <2>2, <4>1, <4>2 DEF LockoutIsCounted
    <3>3. CASE ~(clock' - lockedAt >= Lockout)
      <4>1. lockedAt' = lockedAt
        BY <1>1, <3>3
      <4>2. rc.lockoutUntil # 0 /\ clock + 1 < rc.lockoutUntil
        BY <1>1, <1>2, <3>1, <3>3
      <4>3. QED
        BY <1>1, <2>2, <2>4, <4>1, <4>2 DEF LockoutIsCounted
    <3>4. QED
      BY <3>2, <3>3
  <2>5. QED
    BY <2>3, <2>4
<1>6. QueueIsOrdered' /\ RepliesFollowAcks' /\ CopiesAreAcked'
  BY <1>1 DEF IInv, QueueIsOrdered, RepliesFollowAcks, CopiesAreAcked
<1>7. RememberedIsHeld'
  <2>1. ASSUME NEW h \in Hashes, last'[h] # Forgotten
        PROVE  /\ last'[h] = last[h] /\ last[h] # Forgotten
               /\ last'[h].at \in 0..clock' /\ clock' - last'[h].at < TTL
    <3>1. last'[h] = last[h] /\ ~(clock' - last[h].at >= TTL) /\ last[h] # Forgotten
      BY <1>1, <2>1
    <3>2. last[h].at \in 0..clock
      BY <3>1 DEF IInv, RememberedIsHeld
    <3>3. QED
      BY <1>1, <1>2, <3>1, <3>2
  <2>2. QED
    BY <1>1, <2>1 DEF IInv, RememberedIsHeld
<1>8. QED
  BY <1>3, <1>4, <1>5, <1>6, <1>7 DEF IInv

LEMMA RebootKeeps == IInv /\ Reboot => IInv'
<1> SUFFICES ASSUME IInv, Reboot PROVE IInv'
  OBVIOUS
<1>1. Blank \in Entry /\ 0 \in Slot /\ Nobody \in Callers /\ 0 \in 0..(MaxFailed - 1)
  BY SlotsAssumption, WrapAssumption, MaxFailedType DEF Blank, Entry, Word, Slot, Callers
<1>2. Types'
  <2>1. rc' \in RcState
    BY <1>1 DEF Reboot, Locked, RcState
  <2>2. ring' \in [buf : [Slot -> Entry], head : Slot]
    BY <1>1 DEF Reboot, FreshRing
  <2>3. last' \in [Hashes -> [at : Nat \cup {Never}, newer : Nat]]
    BY DEF Reboot, Forgotten
  <2>4. outQueue' \in Seq(Item) /\ Len(outQueue') <= MaxOutQueue
    BY MessagesAssumption DEF Reboot
  <2>5. /\ clock' = 0 /\ grant' = Nobodys /\ wrongs' = 0 /\ lockedAt' = Never
        /\ owed' = {} /\ UNCHANGED <<config, keyed, lost>>
    BY DEF Reboot
  <2>6. QED
    BY <2>1, <2>2, <2>3, <2>4, <2>5, MessagesAssumption DEF IInv, Types, TypeOK, RcState
<1>3. WindowIsGranted' /\ LockoutIsCounted'
  BY DEF Reboot, Locked, WindowIsGranted, LockoutIsCounted, Never
<1>4. QueueIsOrdered' /\ RepliesFollowAcks' /\ CopiesAreAcked' /\ RememberedIsHeld'
  BY DEF IInv, Reboot, QueueIsOrdered, AckLeads, RepliesFollowAcks, CopiesAreAcked,
         RememberedIsHeld
<1>5. QED
  BY <1>2, <1>3, <1>4 DEF IInv

LEMMA NextIInv == IInv /\ [Next]_vars => IInv'
<1> SUFFICES ASSUME IInv, [Next]_vars PROVE IInv'
  OBVIOUS
<1>1. ASSUME UNCHANGED vars PROVE IInv'
  BY <1>1 DEF vars, device, ghosts, IInv, Types, TypeOK, WindowIsGranted, LockoutIsCounted,
              QueueIsOrdered, RepliesFollowAcks, CopiesAreAcked, RememberedIsHeld
<1>2. ASSUME NEW m \in AllMessages, Ignore(m) PROVE IInv'
  BY <1>1, <1>2 DEF Ignore
<1>3. ASSUME NEW m \in AllMessages, Repeat(m) PROVE IInv'
  BY <1>3, RepeatKeeps
<1>4. ASSUME NEW m \in AllMessages, Converse(m) PROVE IInv'
  BY <1>4, ConverseKeeps
<1>5. ASSUME NEW m \in AllMessages, Command(m) PROVE IInv'
  BY <1>5, CommandKeepsAll
<1>6. CASE KeyNext
  BY <1>6, KeyNextKeeps
<1>7. CASE Tick
  BY <1>7, TickKeeps
<1>8. CASE Reboot
  BY <1>8, RebootKeeps
<1>9. QED
  BY <1>1, <1>2, <1>3, <1>4, <1>5, <1>6, <1>7, <1>8 DEF Next

-----------------------------------------------------------------------------

(* The inductive invariant holds in every reachable state. *)
THEOREM InductiveInvariant == Spec => []IInv
<1>1. Init => IInv
  BY InitIInv
<1>2. IInv /\ [Next]_vars => IInv'
  BY NextIInv
<1>3. QED
  BY <1>1, <1>2, PTL DEF Spec

(* The filter's slots and head, the failure count, the configuration and   *)
(* the bounded queue keep their types.                                     *)
THEOREM TypesOK == Spec => []TypeOK
<1>1. IInv => TypeOK
  BY DEF IInv, Types
<1>2. QED
  BY <1>1, InductiveInvariant, PTL

(* No reply is keyed before an ack of the message it answers was, unless a *)
(* full queue displaced that ack.                                          *)
THEOREM RepliesAfterAcks == Spec => []RepliesFollowAcks
<1>1. IInv => RepliesFollowAcks
  BY DEF IInv
<1>2. QED
  BY <1>1, InductiveInvariant, PTL

(* A copy that has come in since the last ack of its message was keyed,    *)
(* displaced or lost in a reboot has an ack waiting.                       *)
THEOREM CopiesGetAcks == Spec => []CopiesAreAcked
<1>1. IInv => CopiesAreAcked
  BY DEF IInv
<1>2. QED
  BY <1>1, InductiveInvariant, PTL

(* A message that was processed is not new again while it is remembered.   *)
THEOREM NothingProcessedTwice == Spec => ProcessedOnce
<1> DEFINE A == ring' \notin {ring, FreshRing} =>
                  last[ring'.buf[ring.head].hash] = Forgotten
<1>1. IInv /\ [Next]_vars => [A]_vars
  <2> SUFFICES ASSUME IInv, Next PROVE A
    OBVIOUS
  <2>1. ASSUME NEW m \in AllMessages, Record(m), IsNew(m), clock' = clock PROVE A
    <3>1. ring'.buf[ring.head].hash = m.hash
      BY <2>1, RecordKeeps DEF IInv
    <3>2. last[m.hash] = Forgotten
      BY <2>1, NewIsForgotten DEF IInv
    <3>3. QED
      BY <3>1, <3>2
  <2>2. ASSUME NEW m \in AllMessages, Ignore(m) \/ Repeat(m) PROVE A
    BY <2>2 DEF Ignore, Repeat, vars, device
  <2>3. ASSUME NEW m \in AllMessages, Converse(m) PROVE A
    BY <2>1, <2>3 DEF Converse
  <2>4. ASSUME NEW m \in AllMessages, Command(m) PROVE A
    BY <2>1, <2>4 DEF Command
  <2>5. CASE KeyNext \/ Tick \/ Reboot
    BY <2>5 DEF KeyNext, Tick, Reboot
  <2>6. QED
    BY <2>2, <2>3, <2>4, <2>5 DEF Next
<1>2. QED
  BY <1>1, InductiveInvariant, PTL DEF Spec, ProcessedOnce

(* A step that writes the configuration is a command. *)
LEMMA OnlyCommandsWrite ==
  ASSUME Next, config' # config
  PROVE  \E m \in AllMessages : Command(m)
BY DEF Next, Ignore, Repeat, Converse, KeyNext, Tick, Reboot, vars, device

(* The configuration changes only for the sender whose token was accepted  *)
(* last, within the window after that and in the same life of the device.  *)
THEOREM WritesNeedUnlock == Spec => WriteNeedsUnlock
<1> DEFINE A == config' # config => grant # Nobodys /\ grant.by = rc'.lastSenderSeen
<1>1. IInv /\ [Next]_vars => [A]_vars
  <2> SUFFICES ASSUME IInv, Next, config' # config
               PROVE  grant # Nobodys /\ grant.by = rc'.lastSenderSeen
    OBVIOUS
  <2>1. PICK m \in AllMessages : Command(m)
    BY OnlyCommandsWrite
  <2>2. QED
    BY <2>1, CommandKeeps DEF IInv
<1>2. QED
  BY <1>1, InductiveInvariant, PTL DEF Spec, WriteNeedsUnlock

(* A batch with a bad value changes nothing; what changes the              *)
(* configuration is written whole.                                         *)
THEOREM BatchesAreAtomic == Spec => BatchIsAtomic
<1> DEFINE A == config' # config =>
                  \E m \in AllMessages :
                    /\ \A i \in DOMAIN m.text.batch : m.text.batch[i].value # Bad
                    /\ config' = Applied(config, m.text.batch)
<1>1. IInv /\ [Next]_vars => [A]_vars
  <2> SUFFICES ASSUME IInv, Next, config' # config PROVE A
    OBVIOUS
  <2>1. PICK m \in AllMessages : Command(m)
    BY OnlyCommandsWrite
  <2>2. QED
    BY <2>1, CommandKeeps DEF IInv
<1>2. QED
  BY <1>1, InductiveInvariant, PTL DEF Spec, BatchIsAtomic

(* No token is accepted during a lockout. *)
THEOREM LockoutsHold == Spec => LockoutHolds
<1> DEFINE A == grant' \notin {grant, Nobodys} => lockedAt = Never
<1>1. IInv /\ [Next]_vars => [A]_vars
  <2> SUFFICES ASSUME IInv, Next, grant' \notin {grant, Nobodys} PROVE lockedAt = Never
    OBVIOUS
  <2>1. PICK m \in AllMessages : Command(m)
    BY DEF Next, Ignore, Repeat, Converse, KeyNext, Tick, Reboot, vars, ghosts
  <2>2. QED
    BY <2>1, CommandKeeps DEF IInv
<1>2. QED
  BY <1>1, InductiveInvariant, PTL DEF Spec, LockoutHolds
=============================================================================
