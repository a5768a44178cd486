------------------------------ MODULE Messages ------------------------------
(***************************************************************************)
(* The message handler of query_utils.cpp with the remote configuration    *)
(* behind it.  Copies of messages arrive in any order and number, as the   *)
(* senders repeat those they have heard no ack for; the device acks,       *)
(* filters duplicates, answers through its output queue or with a beacon,  *)
(* and reboots itself after some writes.                                   *)
(*                                                                         *)
(* A message is [from, to, text, no, hash]: to is "us" (callsign or        *)
(* tactical name), "APRS", "IGATE" or "other"; text is [op, token, batch]; *)
(* no is its message number or NoNumber; hash is what the duplicate filter *)
(* sees of sender and text.  A message an iGate wrapped in third-party     *)
(* format is the message itself: it is unwrapped first.                    *)
(***************************************************************************)
EXTENDS DedupRing, RemoteCfg

CONSTANTS
  AllMessages,  \* the messages stations may send
  IsIGate,      \* Config.deviceRole = ROLE_IGATE
  MaxOutQueue,  \* MAX_OUT_QUEUE, 20
  InitConfig,   \* the configuration stored at first
  MaxClock      \* model bound: the clock stops here

ASSUME MessagesAssumption ==
  /\ \A m \in AllMessages :
       /\ m.hash \in Word
       /\ m.text.batch \in Seq([code : Codes, value : Nat \cup {Bad}])
  /\ InitConfig \in [Codes -> Nat]
  /\ MaxOutQueue \in Nat \ {0}
  /\ MaxClock \in Nat /\ MaxClock < Wrap

VARIABLES
  clock,      \* millis()
  ring,       \* queryDedup, [buf, head]
  rc,         \* the state of remote_cfg_utils.cpp
  config,     \* the configuration, stored and in use
  outQueue,   \* replies waiting to be keyed
  last,       \* history: hash -> [at, newer], its last isNew() = true call and
              \* how many others came after; forgotten after TTL or Slots others
  grant,      \* history: the last UNLOCKED [by, at], for the time of the window
  wrongs,     \* history: wrong tokens since the last UNLOCKED or lockout
  lockedAt,   \* history: time of the last MaxFailed-th wrong token, for the
              \* time of the lockout
  keyed,      \* history: [kind, msg] of what went out
  lost,       \* history: the acks that a full queue displaced, if no other of
              \* the same message has been keyed
  owed        \* history: the numbered messages of which a copy has come since
              \* their last ack was keyed, displaced or forgotten in a reboot

device == <<clock, ring, rc, config, outQueue>>
ghosts == <<last, grant, wrongs, lockedAt, keyed, lost, owed>>
vars   == <<device, ghosts>>

NoNumber == 0
Never    == -1
Hashes   == {m.hash : m \in AllMessages}

FreshRing == [buf |-> [k \in Slot |-> Blank], head |-> 0]

Forgotten == [at |-> Never, newer |-> 0]
Nobodys   == [by |-> Nobody, at |-> Never]

-----------------------------------------------------------------------------

Init ==
  /\ clock = 0 /\ ring = FreshRing /\ rc = Locked /\ config = InitConfig
  /\ outQueue = <<>>
  /\ last = [h \in Hashes |-> Forgotten]
  /\ grant = Nobodys
  /\ wrongs = 0 /\ lockedAt = Never
  /\ keyed = {} /\ lost = {} /\ owed = {}

Ack(m)   == [kind |-> "ack", msg |-> m]
Reply(m) == [kind |-> "reply", msg |-> m]

(* Mutant: the queue holds one packet too many. *)
QueuedOverfull(q, more) ==
  LET all == q \o more
      cut == IF Len(all) > MaxOutQueue + 1 THEN Len(all) - MaxOutQueue - 1 ELSE 0
  IN  [keep |-> SubSeq(all, cut + 1, Len(all)), lost |-> SubSeq(all, 1, cut)]

(* What addToOutputPacketBuffer() displaces to make room for more, and     *)
(* what is left: the oldest go first.                                      *)
Queued(q, more) ==
  LET all == q \o more
      cut == IF Len(all) > MaxOutQueue THEN Len(all) - MaxOutQueue ELSE 0
  IN  [keep |-> SubSeq(all, cut + 1, Len(all)), lost |-> SubSeq(all, 1, cut)]

Departures(items) == {x \in ToSet(items) : x.msg.no # NoNumber}
Acks(items)       == {x \in Departures(items) : x.kind = "ack"}

(* History: the messages still owed an ack when these packets are gone.    *)
Owed(messages, gone) ==
  {m \in messages : m.no # NoNumber /\ Ack(m) \notin ToSet(gone)}

IsQuery(text)   == text.op \in {"?", "?APRS", "?APRSP", "?PING", "?IGATE", "?other"}
IsCommand(text) == text.op \in {"CSR", "CSU", "CSW"}

(* The early returns: not for us, an ack or rej, free text to an alias. *)
Heeded(m) ==
  /\ m.to \in {"us", "APRS", "IGATE"}
  /\ m.text.op # "ack"
  /\ IsQuery(m.text) \/ m.to = "us"

(* Which queries are answered through the queue; ?APRS and ?APRSP are      *)
(* answered with a beacon, keyed at once, or skipped by a tracker without  *)
(* a position.                                                             *)
AnsweredByQueue(m) ==
  \/ m.text.op = "?" /\ m.to = "us"
  \/ m.text.op = "?PING"
  \/ m.text.op = "?IGATE" /\ IsIGate

AnsweredByBeacon(m) == \/ m.text.op = "?APRS" /\ m.to \in {"APRS", "us"}
                       \/ m.text.op = "?APRSP"

Beacons(m) ==
  IF AnsweredByBeacon(m) THEN {{}, {[kind |-> "beacon", msg |-> m]}} ELSE {{}}

IsNew(m) == ~Holds(ring.buf, m.hash, clock)

-----------------------------------------------------------------------------
(* QUERY_Utils::processLoRaPacket() on a copy of m. *)

(* Mutant: the reply goes in front of its ack. *)
AnswersReplyFirst(m, reply) ==
  reply \o (IF m.no # NoNumber THEN <<Ack(m)>> ELSE <<>>)

(* Every copy that bears a number is acked, then comes the reply if any. *)
Answers(m, reply) ==
  (IF m.no # NoNumber THEN <<Ack(m)>> ELSE <<>>) \o reply

(* The answers to a copy of m: through the queue, and by a beacon.         *)
Send(m, reply, beacon) ==
  LET q == Queued(outQueue, Answers(m, reply))
  IN  /\ outQueue' = q.keep
      /\ keyed' = keyed \cup beacon
      /\ lost'  = (lost \cup Acks(q.lost)) \ keyed
      /\ owed'  = Owed(owed \cup {m}, q.lost)

(* isNew() recording m, with its history. *)
Record(m) ==
  /\ ring' = [buf |-> Recorded(ring.buf, ring.head, m.hash, clock),
              head |-> NextSlot(ring.head)]
  /\ last' = [h \in Hashes |->
       CASE h = m.hash -> [at |-> clock, newer |-> 0]
         [] h # m.hash /\ last[h] # Forgotten /\ last[h].newer + 1 < Slots ->
              [last[h] EXCEPT !.newer = @ + 1]
         [] OTHER -> Forgotten]

Ignore(m) ==
  /\ ~Heeded(m)
  /\ UNCHANGED vars

(* Mutant: the duplicate filter comes before the ack. *)
RepeatUnacked(m) ==
  /\ Heeded(m) /\ ~IsNew(m)
  /\ owed' = Owed(owed \cup {m}, <<>>)
  /\ UNCHANGED <<device, last, grant, wrongs, lockedAt, keyed, lost>>

Repeat(m) ==
  /\ Heeded(m) /\ ~IsNew(m)
  /\ Send(m, <<>>, {})
  /\ UNCHANGED <<clock, ring, rc, config, last, grant, wrongs, lockedAt>>

Converse(m) ==
  /\ Heeded(m) /\ IsNew(m) /\ ~IsCommand(m.text)
  /\ Record(m)
  /\ \E beacon \in Beacons(m) :
       Send(m, IF AnsweredByQueue(m) THEN <<Reply(m)>> ELSE <<>>, beacon)
  /\ UNCHANGED <<clock, rc, config, grant, wrongs, lockedAt>>

(* Whether a wrong token was tried, and not during a lockout. *)
WrongTry(m, reply) ==
  /\ m.text.op = "CSU" /\ m.text.token # Token
  /\ reply \in {"ERR_BADTOKEN", "ERR_LOCKED_OUT"}
  /\ lockedAt = Never

Command(m) ==
  LET out == HandleCommand(rc, config, m.from, m.text, clock)
      try == WrongTry(m, out.reply)
  IN  /\ Heeded(m) /\ IsNew(m) /\ IsCommand(m.text)
      /\ Record(m)
      /\ rc' = out.rc
      /\ config' = out.config
      /\ Send(m, <<Reply(m)>>, {})
      /\ grant' = IF out.reply = "UNLOCKED" THEN [by |-> m.from, at |-> clock]
                                            ELSE grant
      /\ wrongs' = CASE out.reply = "UNLOCKED"      -> 0
                     [] try /\ wrongs + 1 = MaxFailed -> 0
                     [] try /\ wrongs + 1 # MaxFailed -> wrongs + 1
                     [] OTHER                         -> wrongs
      /\ lockedAt' = IF try /\ wrongs + 1 = MaxFailed THEN clock ELSE lockedAt
      /\ UNCHANGED clock

-----------------------------------------------------------------------------

(* The oldest waiting packet is keyed. *)
KeyNext ==
  /\ outQueue # <<>>
  /\ outQueue' = Tail(outQueue)
  /\ keyed' = keyed \cup Departures(<<Head(outQueue)>>)
  /\ lost'  = lost \ keyed'
  /\ owed'  = Owed(owed, <<Head(outQueue)>>)
  /\ UNCHANGED <<clock, ring, rc, config, last, grant, wrongs, lockedAt>>

(* Time passes; a reboot that is due comes first (pollReboot()). *)
Tick ==
  /\ ~RebootDue(rc, clock)
  /\ clock < MaxClock
  /\ clock' = clock + 1
  /\ last' = [h \in Hashes |-> IF clock' - last[h].at >= TTL THEN Forgotten ELSE last[h]]
  /\ grant' = IF clock' - grant.at >= UnlockWindow THEN Nobodys ELSE grant
  /\ lockedAt' = IF clock' - lockedAt >= Lockout THEN Never ELSE lockedAt
  /\ UNCHANGED <<ring, rc, config, outQueue, wrongs, keyed, lost, owed>>

(* pollReboot(): only the stored configuration survives. *)
Reboot ==
  /\ RebootDue(rc, clock)
  /\ clock' = 0 /\ ring' = FreshRing /\ rc' = Locked
  /\ outQueue' = <<>>
  /\ last' = [h \in Hashes |-> Forgotten]
  /\ grant' = Nobodys
  /\ wrongs' = 0 /\ lockedAt' = Never /\ owed' = {}
  /\ UNCHANGED <<config, keyed, lost>>

Next ==
  \/ \E m \in AllMessages : Ignore(m)
  \/ \E m \in AllMessages : Repeat(m)
  \/ \E m \in AllMessages : Converse(m)
  \/ \E m \in AllMessages : Command(m)
  \/ KeyNext
  \/ Tick
  \/ Reboot

Spec == Init /\ [][Next]_vars

-----------------------------------------------------------------------------

Item == [kind : {"ack", "reply"}, msg : AllMessages]

TypeOK ==
  /\ clock \in 0..MaxClock
  /\ ring.buf \in [Slot -> Entry] /\ ring.head \in Slot
  /\ config \in [Codes -> Nat]
  /\ rc.failed \in 0..(MaxFailed - 1)
  /\ outQueue \in Seq(Item) /\ Len(outQueue) <= MaxOutQueue

(* A message or query that was processed is processed again only after the *)
(* TTL or after Slots others, however often its sender repeats it and      *)
(* however the copies interleave (query_utils.cpp:306-312, 348-353).       *)
ProcessedOnce ==
  [][ring' \notin {ring, FreshRing} =>
       last[ring'.buf[ring.head].hash] = Forgotten]_vars

(* No reply goes out through the queue before an ack of the message it     *)
(* answers has, not with retries or reboots in between, unless a full      *)
(* queue has displaced that ack (query_utils.cpp:303-304, 325-332).        *)
RepliesFollowAcks ==
  \A m \in AllMessages :
    m.no # NoNumber /\ Reply(m) \in keyed => Ack(m) \in keyed \cup lost

(* Every copy of a numbered message is acked, those that the duplicate     *)
(* filter drops too: one that has come in since the last ack of it was     *)
(* keyed has one waiting in the queue, whatever came between, unless the   *)
(* queue was full or the device has rebooted (query_utils.cpp:300-304,     *)
(* 345-346).                                                               *)
CopiesAreAcked ==
  \A m \in owed : Ack(m) \in ToSet(outQueue)

(* "ACKed with ackN before any reply" (README.md:433), of the replies that *)
(* go through the queue and of the beacons that answer a query.  The code  *)
(* keeps neither: messages_displaced.cfg and messages_beacon.cfg show it.  *)
AckedBeforeReply ==
  \A m \in AllMessages :
    m.no # NoNumber /\ Reply(m) \in keyed => Ack(m) \in keyed

(* The same of the beacons.                                                *)
AckedBeforeBeacon ==
  \A m \in AllMessages :
    m.no # NoNumber /\ [kind |-> "beacon", msg |-> m] \in keyed => Ack(m) \in keyed

(* The configuration changes only on behalf of the sender whose token was  *)
(* accepted last, within the window after that, and in this life of the    *)
(* device (remote_cfg_utils.cpp:280-284, SERIAL_SETUP.md:241).             *)
WriteNeedsUnlock ==
  [][config' # config => grant # Nobodys /\ grant.by = rc'.lastSenderSeen]_vars

(* A batch is written whole or not at all (SERIAL_SETUP.md:481, "any       *)
(* invalid field rejects the whole batch").                                *)
BatchIsAtomic ==
  [][config' # config =>
       \E m \in AllMessages :
         /\ \A i \in DOMAIN m.text.batch : m.text.batch[i].value # Bad
         /\ config' = Applied(config, m.text.batch)]_vars

(* After MaxFailed wrong tokens in a row, whoever sent them, no token is   *)
(* accepted for the time of the lockout (SERIAL_SETUP.md:490).             *)
LockoutHolds == [][grant' \notin {grant, Nobodys} => lockedAt = Never]_vars

(* The comment on the cross-field rule, "otherwise the coordinates would   *)
(* be silently stored but not active" (remote_cfg_utils.cpp:311-313).      *)
CoordinatesActive ==
  [][config'.LA # config.LA => config'.GS = GPS_FIXED]_vars
=============================================================================
