----------------------------- MODULE RemoteCfg -----------------------------
(***************************************************************************)
(* The remote-configuration protocol of remote_cfg_utils.cpp as operators  *)
(* on its file-scope state, the record rc, and on the configuration.  Each *)
(* handler returns the new rc and config and the reply.                    *)
(*                                                                         *)
(* A command is [op, token, batch]: CSR reads, CSU tries a token, CSW      *)
(* writes a batch, a sequence of [code, value] pairs.  Values that fail    *)
(* validateField() are the one value Bad; which check fails is abstracted. *)
(* Times are absolute millis() stamps compared with < and >=, as in the    *)
(* code.                                                                   *)
(***************************************************************************)
EXTENDS Integers, SequencesExt

CONSTANTS
  Token,         \* Config.remoteCfg.token, NoToken when empty
  UnlockWindow,  \* Config.remoteCfg.unlockWindowSec
  MaxFailed,     \* MAX_FAILED_ATTEMPTS, 5
  Lockout,       \* LOCKOUT_MS
  ReadCooldown,  \* READ_COOLDOWN_MS
  RebootDelay    \* REBOOT_DELAY_MS

ASSUME RemoteCfgAssumption ==
  /\ MaxFailed \in Nat \ {0} /\ Lockout \in Nat \ {0}
  /\ {UnlockWindow, ReadCooldown, RebootDelay} \subseteq Nat

NoToken == "noToken"
Bad     == -1
Nobody  == ""

(* The state at boot. *)
Locked == [unlockExpiresAt |-> 0, unlockedBy |-> Nobody, failed |-> 0,
           lockoutUntil |-> 0, lastSenderSeen |-> Nobody, lastSeenAt |-> 0,
           rebootAt |-> 0]

Outcome(rc, config, reply) == [rc |-> rc, config |-> config, reply |-> reply]

-----------------------------------------------------------------------------

(* Mutant: the fifth failure does not start the lockout. *)
FailedUnlockUncounted(rc, now) ==
  IF rc.failed + 1 >= MaxFailed
    THEN [state |-> [rc EXCEPT !.failed = 0], reply |-> "ERR_LOCKED_OUT"]
    ELSE [state |-> [rc EXCEPT !.failed = @ + 1], reply |-> "ERR_BADTOKEN"]

(* A wrong token. *)
FailedUnlock(rc, now) ==
  IF rc.failed + 1 >= MaxFailed
    THEN [state |-> [rc EXCEPT !.failed = 0, !.lockoutUntil = now + Lockout],
          reply |-> "ERR_LOCKED_OUT"]
    ELSE [state |-> [rc EXCEPT !.failed = @ + 1], reply |-> "ERR_BADTOKEN"]

(* handleUnlock(): a lockout that has run out is forgotten on the way. *)
HandleUnlock(rc, config, sender, token, now) ==
  LET lockedOut == rc.lockoutUntil # 0 /\ now < rc.lockoutUntil
      cleared   == IF rc.lockoutUntil # 0
                     THEN [rc EXCEPT !.lockoutUntil = 0, !.failed = 0] ELSE rc
      wrong     == FailedUnlock(cleared, now)
  IN  CASE lockedOut -> Outcome(rc, config, "ERR_LOCKED_OUT")
        [] ~lockedOut /\ Token = NoToken -> Outcome(cleared, config, "ERR_DISABLED")
        [] ~lockedOut /\ Token # NoToken /\ token = Token ->
             Outcome([cleared EXCEPT !.unlockExpiresAt = now + UnlockWindow,
                                     !.unlockedBy = sender, !.failed = 0],
                     config, "UNLOCKED")
        [] OTHER -> Outcome(wrong.state, config, wrong.reply)

-----------------------------------------------------------------------------

Codes      == {"RO", "GS", "BR", "LA"}   \* LA stands for LA, LO and EL
NeedsBoot  == {"RO", "GS"}
GPS_FIXED  == 1

Names(batch) == {batch[i].code : i \in DOMAIN batch}

(* The last pair a batch has for a code: the one that the loops over the   *)
(* pairs leave standing.                                                   *)
LastFor(batch, code) ==
  LET sets == {i \in DOMAIN batch : batch[i].code = code}
  IN  CHOOSE i \in sets : \A j \in sets : j <= i

(* Pass 1 of handleWrite(): every pair is valid and coordinates come with  *)
(* a GS that ends up fixed, or find the position fixed already.            *)
Accepted(config, batch) ==
  /\ batch # <<>>
  /\ \A i \in DOMAIN batch : batch[i].value # Bad
  /\ "LA" \in Names(batch) =>
       \/ "GS" \in Names(batch) /\ batch[LastFor(batch, "GS")].value = GPS_FIXED
       \/ config.GS = GPS_FIXED

(* applyField() for every pair, in order.                                  *)
Applied(config, batch) ==
  [code \in DOMAIN config |->
     IF code \in Names(batch) THEN batch[LastFor(batch, code)].value ELSE config[code]]

(* Mutant: each pair is applied as it is validated. *)
WrittenPairByPair(config, batch) ==
  Applied(config, SelectSeq(batch, LAMBDA w : w.value # Bad))

(* The configuration after a batch the window lets through. *)
Written(config, batch) ==
  IF Accepted(config, batch) THEN Applied(config, batch) ELSE config

(* Mutant: the window never runs out. *)
WindowOpenForEver(rc, sender, now) == rc.unlockExpiresAt # 0 /\ sender = rc.unlockedBy

WindowOpen(rc, sender, now) ==
  /\ rc.unlockExpiresAt # 0
  /\ now < rc.unlockExpiresAt
  /\ sender = rc.unlockedBy

(* handleWrite(): a write outside the window closes it, whoever holds it. *)
HandleWrite(rc, config, sender, batch, now) ==
  LET reboots == Accepted(config, batch) /\ Names(batch) \cap NeedsBoot # {}
  IN  IF ~WindowOpen(rc, sender, now)
        THEN Outcome([rc EXCEPT !.unlockExpiresAt = 0, !.unlockedBy = Nobody],
                     config, "ERR_LOCKED")
        ELSE Outcome(IF reboots THEN [rc EXCEPT !.rebootAt = now + RebootDelay] ELSE rc,
                     Written(config, batch),
                     IF Accepted(config, batch) THEN "OK" ELSE "ERR_BADVALUE")

-----------------------------------------------------------------------------

TooFast(rc, sender, now) ==
  sender = rc.lastSenderSeen /\ now - rc.lastSeenAt < ReadCooldown

(* handleCommand(), remote configuration being enabled. *)
HandleCommand(rc, config, sender, cmd, now) ==
  LET seen == [rc EXCEPT !.lastSenderSeen = sender, !.lastSeenAt = now]
  IN  CASE TooFast(rc, sender, now) -> Outcome(rc, config, "ERR_TOOFAST")
        [] ~TooFast(rc, sender, now) /\ cmd.op = "CSR" -> Outcome(seen, config, "values")
        [] ~TooFast(rc, sender, now) /\ cmd.op = "CSU" ->
             HandleUnlock(seen, config, sender, cmd.token, now)
        [] ~TooFast(rc, sender, now) /\ cmd.op = "CSW" ->
             HandleWrite(seen, config, sender, cmd.batch, now)

(* pollReboot(). *)
RebootDue(rc, now) == rc.rebootAt # 0 /\ now >= rc.rebootAt
=============================================================================
