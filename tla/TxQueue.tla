------------------------------- MODULE TxQueue -------------------------------
(***************************************************************************)
(* The output queue of station_utils.cpp: every digipeated packet, ack and *)
(* reply waits in outBuffer, and one pass of loop() keys at most one of    *)
(* them.  processOutputPacketBuffer() holds a packet back for a gap after  *)
(* the previous one and for a quiet window after the last RX activity,     *)
(* until the queue has been waiting too long.                              *)
(*                                                                         *)
(* All stamps are millis() values, so the clock is cyclic modulo Wrap and  *)
(* every age is a difference modulo Wrap.  A packet is its number in       *)
(* queueing order (modulo Ids) and whether its text holds ":ack".          *)
(* sendNewPacket() blocks loop() for the airtime, one of AirTimes.         *)
(*                                                                         *)
(* The three "true" ages are history: what a stopwatch would show, held at  *)
(* the largest value a property compares with.                             *)
(***************************************************************************)
EXTENDS Integers, Sequences

CONSTANTS
  MaxOutQueue,      \* MAX_OUT_QUEUE, 20
  OutDelay,         \* OUT_DELAY_MS, 200
  OutDelayAfterAck, \* OUT_DELAY_AFTER_ACK_MS, 2000
  RxQuietWindow,    \* RX_QUIET_WINDOW_MS, 150
  MaxQueueWait,     \* MAX_QUEUE_WAIT_MS, 4000
  AirTimes,         \* how long transmit() may block
  Ids,              \* modulus of the packet numbers
  Wrap,             \* 2^32: the modulus of uint32_t
  Longest           \* where the history ages stop growing

ASSUME QueueAssumption ==
  /\ MaxOutQueue \in Nat \ {0}
  /\ Ids \in Nat /\ Ids > MaxOutQueue

ASSUME TimeAssumption ==
  /\ Wrap \in Nat \ {0}
  /\ OutDelay \in Nat /\ OutDelayAfterAck \in Nat
  /\ RxQuietWindow \in Nat /\ MaxQueueWait \in Nat
  /\ AirTimes \subseteq Nat
  /\ Longest \in Nat /\ Longest > MaxQueueWait /\ Longest >= RxQuietWindow
  /\ Longest >= OutDelay /\ Longest >= OutDelayAfterAck

(* The clock cycle is long enough for the gap to be over at some moment at *)
(* which the queue has also waited too long (2^32 ms is 49 days).          *)
ASSUME WindowsMeet ==
  /\ Wrap > MaxQueueWait + 1 + OutDelay
  /\ Wrap > MaxQueueWait + 1 + OutDelayAfterAck

VARIABLES
  outBuffer,        \* the waiting packets, oldest first
  next,             \* number of the next packet queued
  now,              \* millis()
  lastOutTx,        \* stamp taken before the last packet was keyed
  lastOutWasAck,    \* the last packet keyed was an ack
  oldestQueuedMs,   \* stamp of the push into an empty queue, 0 when emptied
  lastRxActivityMs, \* stamp of the last RX-done interrupt consumed
  keyed,            \* history: number of the last packet keyed, None at first
  sinceRx,          \* history: true age of the last RX activity
  sinceStart,       \* history: true time since the last packet was keyed
  backlog           \* history: true time the queue has been non-empty

vars == <<outBuffer, next, now, lastOutTx, lastOutWasAck, oldestQueuedMs,
              lastRxActivityMs, keyed, sinceRx, sinceStart, backlog>>

Number == 0..(Ids - 1)
Stamp  == 0..(Wrap - 1)
Packet == [id : Number, ack : BOOLEAN]
None   == -1

Held(t) == IF t < Longest THEN t ELSE Longest

(* a - b in uint32_t arithmetic. *)
Since(stamp) == (now - stamp) % Wrap

(* Mutants: no longer gap after an ack; the wait measured since the last   *)
(* transmission; no escape from the quiet window.                          *)
GapWithoutAck     == OutDelay
WaitedSinceLastTx == Since(lastOutTx) > MaxQueueWait
NeverTooLong      == FALSE

Gap           == IF lastOutWasAck THEN OutDelayAfterAck ELSE OutDelay
WaitedTooLong == Since(oldestQueuedMs) > MaxQueueWait
Quiet         == Since(lastRxActivityMs) >= RxQuietWindow

(* The early returns of processOutputPacketBuffer(). *)
MayKey ==
  /\ outBuffer # <<>>
  /\ Since(lastOutTx) >= Gap
  /\ WaitedTooLong \/ Quiet

-----------------------------------------------------------------------------

Init ==
  /\ outBuffer = <<>> /\ next = 0 /\ keyed = None
  /\ now = 0
  /\ lastOutTx = 0 /\ lastOutWasAck = FALSE
  /\ oldestQueuedMs = 0 /\ lastRxActivityMs = 0
  /\ sinceRx = 0 /\ sinceStart = 0 /\ backlog = 0

(* Mutants: a full queue loses the packet being queued; a full queue takes *)
(* one more.                                                               *)
EnqueueDroppingNewest(isAck) ==
  LET full == Len(outBuffer) >= MaxOutQueue
  IN  /\ outBuffer' = IF full THEN outBuffer
                      ELSE Append(outBuffer, [id |-> next, ack |-> isAck])
      /\ next' = (next + 1) % Ids
      /\ oldestQueuedMs' = IF outBuffer = <<>> THEN now ELSE oldestQueuedMs
      /\ backlog' = IF outBuffer = <<>> THEN 0 ELSE backlog
      /\ UNCHANGED <<now, lastOutTx, lastOutWasAck, lastRxActivityMs, keyed,
                     sinceRx, sinceStart>>
EnqueueOverfull(isAck) ==
  LET kept == IF Len(outBuffer) > MaxOutQueue THEN Tail(outBuffer)
                                              ELSE outBuffer
  IN  /\ outBuffer' = Append(kept, [id |-> next, ack |-> isAck])
      /\ next' = (next + 1) % Ids
      /\ oldestQueuedMs' = IF kept = <<>> THEN now ELSE oldestQueuedMs
      /\ backlog' = IF kept = <<>> THEN 0 ELSE backlog
      /\ UNCHANGED <<now, lastOutTx, lastOutWasAck, lastRxActivityMs, keyed,
                     sinceRx, sinceStart>>

(* addToOutputPacketBuffer(): a full queue loses its oldest packet. *)
Enqueue(isAck) ==
  LET kept == IF Len(outBuffer) >= MaxOutQueue THEN Tail(outBuffer)
                                               ELSE outBuffer
  IN  /\ outBuffer' = Append(kept, [id |-> next, ack |-> isAck])
      /\ next' = (next + 1) % Ids
      /\ oldestQueuedMs' = IF kept = <<>> THEN now ELSE oldestQueuedMs
      /\ backlog' = IF kept = <<>> THEN 0 ELSE backlog
      /\ UNCHANGED <<now, lastOutTx, lastOutWasAck, lastRxActivityMs, keyed,
                     sinceRx, sinceStart>>

(* processOutputPacketBuffer() getting past its early returns.  The stamp  *)
(* lastOutTx is the one taken before the blocking sendNewPacket().         *)
Key(air) ==
  LET pkt  == Head(outBuffer)
      rest == Tail(outBuffer)
  IN  /\ MayKey
      /\ outBuffer' = rest
      /\ oldestQueuedMs' = IF rest = <<>> THEN 0 ELSE oldestQueuedMs
      /\ lastOutWasAck' = pkt.ack
      /\ lastOutTx' = now
      /\ now' = (now + air) % Wrap
      /\ keyed' = pkt.id
      /\ sinceRx' = Held(sinceRx + air)
      /\ sinceStart' = Held(air)
      /\ backlog' = IF rest = <<>> THEN 0 ELSE Held(backlog + air)
      /\ UNCHANGED <<next, lastRxActivityMs>>

(* receivePacket() consuming an RX-done interrupt, read or CRC failure. *)
RxActivity ==
  /\ lastRxActivityMs' = now
  /\ sinceRx' = 0
  /\ UNCHANGED <<outBuffer, next, now, lastOutTx, lastOutWasAck,
                 oldestQueuedMs, keyed, sinceStart, backlog>>

(* A millisecond of loop() that keys nothing. *)
Tick ==
  /\ now' = (now + 1) % Wrap
  /\ sinceRx' = Held(sinceRx + 1)
  /\ sinceStart' = Held(sinceStart + 1)
  /\ backlog' = IF outBuffer = <<>> THEN 0 ELSE Held(backlog + 1)
  /\ UNCHANGED <<outBuffer, next, lastOutTx, lastOutWasAck, oldestQueuedMs,
                 lastRxActivityMs, keyed>>

Next ==
  \/ \E isAck \in BOOLEAN : Enqueue(isAck)
  \/ \E air \in AirTimes : Key(air)
  \/ RxActivity
  \/ Tick

Spec == Init /\ [][Next]_vars

(* loop() runs for ever, so millis() advances and processOutputPacketBuffer *)
(* is called again and again.  Strong fairness of Key: the times at which  *)
(* the early returns let a packet pass recur, and last up to 49 days each, *)
(* so that a pass of loop() falls into one of them.                        *)
Fairness ==
  /\ WF_vars(Tick)
  /\ SF_vars(\E air \in AirTimes : Key(air))

FairSpec == Spec /\ Fairness

-----------------------------------------------------------------------------

TypeOK ==
  /\ outBuffer \in Seq(Packet)
  /\ Len(outBuffer) <= MaxOutQueue
  /\ next \in Number
  /\ now \in Stamp
  /\ lastOutTx \in Stamp /\ lastOutWasAck \in BOOLEAN
  /\ oldestQueuedMs \in Stamp /\ lastRxActivityMs \in Stamp
  /\ keyed \in Number \cup {None}
  /\ {sinceRx, sinceStart, backlog} \subseteq 0..Longest

(* A step in which a packet is keyed. *)
Keys == Len(outBuffer') < Len(outBuffer)

(* No packet is keyed within the quiet window after RX activity unless the *)
(* queue has been non-empty for longer than MAX_QUEUE_WAIT_MS, in true     *)
(* time: neither the sentinel 0 of oldestQueuedMs nor the wrap of millis() *)
(* opens the window (station_utils.cpp:134-138).                           *)
QuietUnlessBacklogged ==
  [][Keys => sinceRx >= RxQuietWindow \/ backlog > MaxQueueWait]_vars

(* Two packets are keyed at least the gap apart, the long one after an ack *)
(* (station_utils.cpp:130-132), whatever was queued or heard in between.   *)
GapBetweenKeyings ==
  [][Keys => sinceStart >= IF lastOutWasAck THEN OutDelayAfterAck
                                            ELSE OutDelay]_vars

(* The queue keeps the promise of TxFifo. *)
Fifo == INSTANCE TxFifo WITH Capacity <- MaxOutQueue, waiting <- Len(outBuffer)
ImplementsTxFifo == Fifo!Spec

(* The packet at the front leaves: however busy the channel, the queue is  *)
(* not starved (the MAX_QUEUE_WAIT_MS escape, station_utils.cpp:134-138).  *)
FrontLeaves ==
  \A n \in Number :
    (outBuffer # <<>> /\ Head(outBuffer).id = n)
      ~> (outBuffer = <<>> \/ Head(outBuffer).id # n)
=============================================================================
