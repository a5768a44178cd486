--------------------------- MODULE TxQueue_proofs ---------------------------
(***************************************************************************)
(* For every queue size, delay, window, airtime and clock width: the types *)
(* of TxQueue, the quiet window and the gap in true time although the code *)
(* compares wrapped stamps, and that the queue implements TxFifo.          *)
(***************************************************************************)
EXTENDS TxQueue, TLAPS

(* A remainder is unique. *)
LEMMA RemainderUnique ==
  ASSUME NEW W \in Nat \ {0}, NEW k \in Int, NEW r \in 0..(W - 1)
  PROVE  (W * k + r) % W = r
<1> DEFINE y == W * k + r
           q == y \div W
           s == y % W
           m == k - q
<1>1. y \in Int /\ q \in Int /\ m \in Int /\ s \in 0..(W - 1)
  BY SMT
<1>2. y = W * q + s
  BY SMT
<1>3. W * m = s - r
  BY <1>1, <1>2, SMT
<1>4. ~(m >= 1)
  <2>1. m >= 1 => W * m >= W
    BY <1>1, SMT
  <2>2. QED
    BY <2>1, <1>1, <1>3
<1>5. ~(m <= -1)
  <2>1. m <= -1 => W * m <= -W
    BY <1>1, SMT
  <2>2. QED
    BY <2>1, <1>1, <1>3
<1>6. m = 0
  BY <1>1, <1>4, <1>5
<1>7. QED
  BY <1>1, <1>3, <1>6

(* A small number is its own remainder. *)
LEMMA SmallRemainder ==
  ASSUME NEW W \in Nat \ {0}, NEW r \in 0..(W - 1)
  PROVE  r % W = r
BY SMT

(* A remainder need not be taken before adding. *)
LEMMA RemainderAbsorbed ==
  ASSUME NEW W \in Nat \ {0}, NEW a \in Int, NEW b \in Int
  PROVE  ((a % W) + b) % W = (a + b) % W
<1> DEFINE qa == a \div W
           c  == a + b
           qc == c \div W
           x  == (a % W) + b
<1>1. qa \in Int /\ qc \in Int /\ a % W \in 0..(W - 1) /\ c % W \in 0..(W - 1)
  BY SMT
<1>2. a = W * qa + (a % W) /\ c = W * qc + (c % W)
  BY SMT
<1>3. x = W * (qc - qa) + (c % W)
  BY <1>1, <1>2, SMT
<1> HIDE DEF qa, qc, c, x
<1>4. qc - qa \in Int
  BY <1>1
<1>5. (W * (qc - qa) + (c % W)) % W = c % W
  BY <1>1, <1>4, RemainderUnique
<1>6. QED
  BY <1>3, <1>5 DEF x, c

(* A remainder is no larger than the number. *)
LEMMA RemainderBelow ==
  ASSUME NEW W \in Nat \ {0}, NEW a \in Nat
  PROVE  a % W <= a
<1>1. a \div W \in Int /\ a % W \in 0..(W - 1) /\ a = W * (a \div W) + (a % W)
  BY SMT
<1>2. a \div W <= -1 => W * (a \div W) <= -W
  BY <1>1, SMT
<1>3. a \div W >= 0 => W * (a \div W) >= 0
  BY <1>1, SMT
<1>4. QED
  BY <1>1, <1>2, <1>3

(* The wrapped age of a stamp grows by no more than the time that passes. *)
LEMMA WrappedAgeGrows ==
  ASSUME NEW W \in Nat \ {0}, NEW t \in Int, NEW stamp \in Int, NEW d \in Nat
  PROVE  (((t + d) % W) - stamp) % W <= ((t - stamp) % W) + d
<1> DEFINE age == (t - stamp) % W
<1>1. age \in Nat
  BY SMT
<1>2. (((t + d) % W) + (-stamp)) % W = (t + d + (-stamp)) % W
  <2>1. t + d \in Int /\ -stamp \in Int
    OBVIOUS
  <2> DEFINE a == t + d
             b == -stamp
  <2> HIDE DEF a, b
  <2>2. ((a % W) + b) % W = (a + b) % W
    BY <2>1, RemainderAbsorbed DEF a, b
  <2>3. QED
    BY <2>2 DEF a, b
<1>3. (age + d) % W = (t - stamp + d) % W
  <2> DEFINE a == t - stamp
  <2>1. a \in Int /\ d \in Int
    OBVIOUS
  <2> HIDE DEF a
  <2>2. ((a % W) + d) % W = (a + d) % W
    BY <2>1, RemainderAbsorbed
  <2>3. QED
    BY <2>2 DEF a
<1>4. (age + d) % W <= age + d
  BY <1>1, RemainderBelow
<1>5. t + d + (-stamp) = t - stamp + d
  OBVIOUS
<1>6. ((t + d) % W) + (-stamp) = ((t + d) % W) - stamp
  OBVIOUS
<1> HIDE DEF age
<1>7. QED
  BY <1>2, <1>3, <1>4, <1>5, <1>6 DEF age

-----------------------------------------------------------------------------

(* A wrapped age never shows more than the stopwatch does, as long as the  *)
(* stopwatch is not at its end: the wrap of millis(), and the zero that    *)
(* stands for "empty", make the code wait longer but never shorter.        *)
Covers(stopwatch, stamp) == stopwatch = Longest \/ Since(stamp) <= stopwatch

AgesCovered ==
  /\ Covers(sinceRx, lastRxActivityMs)
  /\ Covers(sinceStart, lastOutTx)
  /\ outBuffer # <<>> => Covers(backlog, oldestQueuedMs)

(* The waiting packets are the ones queued last, in order. *)
IdsInOrder ==
  \A i \in 1..Len(outBuffer) :
    outBuffer[i].id = (next - Len(outBuffer) + (i - 1)) % Ids

IInv == TypeOK /\ AgesCovered /\ IdsInOrder

-----------------------------------------------------------------------------

(* What a full queue keeps, and the queue with a packet appended to it. *)
Kept == IF Len(outBuffer) >= MaxOutQueue THEN Tail(outBuffer) ELSE outBuffer

LEMMA KeptShape ==
  ASSUME TypeOK
  PROVE  /\ Kept \in Seq(Packet) /\ Len(Kept) < MaxOutQueue
         /\ Len(Kept) = IF Len(outBuffer) >= MaxOutQueue THEN Len(outBuffer) - 1
                                                         ELSE Len(outBuffer)
         /\ \A i \in 1..Len(Kept) :
              Kept[i] = IF Len(outBuffer) >= MaxOutQueue THEN outBuffer[i + 1]
                                                         ELSE outBuffer[i]
<1>1. /\ outBuffer \in Seq(Packet) /\ Len(outBuffer) \in Nat
      /\ Len(outBuffer) <= MaxOutQueue /\ MaxOutQueue \in Nat \ {0}
  BY QueueAssumption DEF TypeOK
<1>2. CASE Len(outBuffer) >= MaxOutQueue
  <2>1. outBuffer # <<>>
    BY <1>1, <1>2
  <2>2. /\ Tail(outBuffer) \in Seq(Packet)
        /\ Len(Tail(outBuffer)) = Len(outBuffer) - 1
        /\ \A i \in 1..Len(Tail(outBuffer)) : Tail(outBuffer)[i] = outBuffer[i + 1]
    BY <1>1, <2>1
  <2>3. QED
    BY <1>1, <1>2, <2>2 DEF Kept
<1>3. CASE Len(outBuffer) < MaxOutQueue
  BY <1>1, <1>3 DEF Kept
<1>4. QED
  BY <1>1, <1>2, <1>3

(* What remains when the packet at the front is taken. *)
LEMMA TailShape ==
  ASSUME TypeOK, outBuffer # <<>>
  PROVE  /\ Tail(outBuffer) \in Seq(Packet)
         /\ Len(outBuffer) \in Nat \ {0}
         /\ Len(Tail(outBuffer)) = Len(outBuffer) - 1
         /\ \A i \in 1..Len(Tail(outBuffer)) : Tail(outBuffer)[i] = outBuffer[i + 1]
         /\ Head(outBuffer) = outBuffer[1] /\ outBuffer[1] \in Packet
BY DEF TypeOK

LEMMA HeldType ==
  ASSUME NEW t \in Nat
  PROVE  Held(t) \in 0..Longest /\ (Held(t) = Longest \/ Held(t) = t)
BY TimeAssumption DEF Held

-----------------------------------------------------------------------------

(* Every initial state is well typed, with a queue that is empty. *)
LEMMA InitIInv == Init => IInv
<1> SUFFICES ASSUME Init PROVE IInv
  OBVIOUS
<1>1. TypeOK
  <2>1. outBuffer \in Seq(Packet) /\ Len(outBuffer) = 0
    BY DEF Init
  <2>2. next \in Number /\ keyed \in Number \cup {None} /\ lastOutWasAck \in BOOLEAN
    <3>1. next \in Number
      BY QueueAssumption DEF Init, Number
    <3>2. QED
      BY <3>1 DEF Init
  <2>3. {now, lastOutTx, oldestQueuedMs, lastRxActivityMs} \subseteq Stamp
    BY TimeAssumption DEF Init, Stamp
  <2>4. {sinceRx, sinceStart, backlog} \subseteq 0..Longest
    BY TimeAssumption DEF Init
  <2>5. QED
    BY <2>1, <2>2, <2>3, <2>4, QueueAssumption DEF TypeOK
<1>2. Since(0) <= 0
  <2>1. (0 % Wrap) = 0
    BY TimeAssumption, SmallRemainder
  <2>2. QED
    BY <2>1 DEF Init, Since
<1>3. QED
  BY <1>1, <1>2 DEF Init, IInv, AgesCovered, Covers, IdsInOrder

(* Every step keeps the types (the queue is never longer than              *)
(* MAX_OUT_QUEUE, the packet numbers stay numbers, the stamps stay words). *)
LEMMA NextTypeOK == TypeOK /\ [Next]_vars => TypeOK'
<1> SUFFICES ASSUME TypeOK, [Next]_vars PROVE TypeOK'
  OBVIOUS
<1>1. ASSUME NEW isAck \in BOOLEAN, Enqueue(isAck) PROVE TypeOK'
  <2>1. next \in Number /\ (next + 1) % Ids \in Number
    BY QueueAssumption DEF TypeOK, Number
  <2> DEFINE pkt == [id |-> next, ack |-> isAck]
  <2>2. pkt \in Packet
    BY <2>1 DEF Packet
  <2>3. outBuffer' = Append(Kept, pkt)
    BY <1>1 DEF Enqueue, Kept
  <2> HIDE DEF pkt
  <2>4. outBuffer' \in Seq(Packet) /\ Len(outBuffer') <= MaxOutQueue
    BY <2>2, <2>3, KeptShape, QueueAssumption
  <2>5. backlog' \in 0..Longest /\ oldestQueuedMs' \in Stamp
    BY <1>1, TimeAssumption DEF Enqueue, TypeOK
  <2>6. QED
    BY <1>1, <2>1, <2>4, <2>5 DEF Enqueue, TypeOK
<1>2. ASSUME NEW air \in AirTimes, Key(air) PROVE TypeOK'
  <2>1. outBuffer # <<>> /\ air \in Nat
    BY <1>2, TimeAssumption DEF Key, MayKey
  <2>2. /\ outBuffer' \in Seq(Packet) /\ Len(outBuffer') <= MaxOutQueue
        /\ keyed' \in Number \cup {None} /\ lastOutWasAck' \in BOOLEAN
    <3>1. /\ Tail(outBuffer) \in Seq(Packet)
          /\ Len(Tail(outBuffer)) = Len(outBuffer) - 1
          /\ Head(outBuffer) \in Packet /\ Len(outBuffer) \in Nat
          /\ Len(outBuffer) <= MaxOutQueue
      BY <2>1, TailShape DEF TypeOK
    <3>2. Head(outBuffer).id \in Number /\ Head(outBuffer).ack \in BOOLEAN
      BY <3>1 DEF Packet
    <3>3. /\ outBuffer' = Tail(outBuffer) /\ keyed' = Head(outBuffer).id
          /\ lastOutWasAck' = Head(outBuffer).ack
      BY <1>2 DEF Key
    <3>4. QED
      BY <3>1, <3>2, <3>3, QueueAssumption
  <2>3. now' \in Stamp /\ lastOutTx' \in Stamp /\ oldestQueuedMs' \in Stamp
    BY <1>2, <2>1, TimeAssumption DEF Key, TypeOK, Stamp
  <2>4. {sinceRx', sinceStart', backlog'} \subseteq 0..Longest
    <3>1. sinceRx + air \in Nat /\ backlog + air \in Nat
      BY <2>1, TimeAssumption DEF TypeOK
    <3>2. QED
      BY <1>2, <2>1, <3>1, HeldType, TimeAssumption DEF Key
  <2>5. next' \in Number /\ lastRxActivityMs' \in Stamp
    BY <1>2 DEF Key, TypeOK
  <2>6. QED
    BY <2>2, <2>3, <2>4, <2>5 DEF TypeOK
<1>3. CASE RxActivity
  BY <1>3, TimeAssumption DEF RxActivity, TypeOK
<1>4. CASE Tick
  <2>1. now' \in Stamp
    BY <1>4, TimeAssumption DEF Tick, TypeOK, Stamp
  <2>2. {sinceRx', sinceStart', backlog'} \subseteq 0..Longest
    <3>1. /\ sinceRx + 1 \in Nat /\ sinceStart + 1 \in Nat
          /\ backlog + 1 \in Nat
      BY TimeAssumption DEF TypeOK
    <3>2. QED
      BY <1>4, <3>1, HeldType, TimeAssumption DEF Tick
  <2>3. QED
    BY <1>4, <2>1, <2>2 DEF Tick, TypeOK
<1>5. CASE UNCHANGED vars
  BY <1>5 DEF vars, TypeOK
<1>6. QED
  BY <1>1, <1>2, <1>3, <1>4, <1>5 DEF Next

-----------------------------------------------------------------------------

(* A stopwatch reset together with its stamp covers it. *)
LEMMA ResetCovered ==
  ASSUME TypeOK
  PROVE  Since(now) = 0
<1>1. now - now = 0 /\ 0 % Wrap = 0
  BY TimeAssumption, SmallRemainder DEF TypeOK, Stamp
<1>2. QED
  BY <1>1 DEF Since

LEMMA SinceType ==
  ASSUME TypeOK, NEW stamp \in Stamp
  PROVE  Since(stamp) \in Nat
<1>1. now - stamp \in Int /\ Wrap \in Nat \ {0}
  BY TimeAssumption DEF TypeOK, Stamp
<1>2. QED
  BY <1>1 DEF Since

(* Time passing keeps a stamp covered by its stopwatch. *)
LEMMA StillCovered ==
  ASSUME TypeOK, NEW stopwatch \in 0..Longest, NEW stamp \in Stamp, NEW d \in Nat,
         Covers(stopwatch, stamp), now' = (now + d) % Wrap
  PROVE  \/ Held(stopwatch + d) = Longest
         \/ (now' - stamp) % Wrap <= Held(stopwatch + d)
<1>1. /\ now \in Int /\ stamp \in Int /\ Wrap \in Nat \ {0}
      /\ stopwatch \in Nat /\ Longest \in Nat
  BY TimeAssumption DEF TypeOK, Stamp
<1>2. (now' - stamp) % Wrap <= ((now - stamp) % Wrap) + d
  BY <1>1, WrappedAgeGrows
<1>3. (now - stamp) % Wrap \in Nat /\ (now' - stamp) % Wrap \in Nat
  BY <1>1 DEF TypeOK
<1>4. CASE stopwatch = Longest
  BY <1>1, <1>4 DEF Held
<1>5. CASE (now - stamp) % Wrap <= stopwatch
  BY <1>1, <1>2, <1>3, <1>5, HeldType DEF Held
<1>6. QED
  BY <1>4, <1>5 DEF Covers, Since

(* Every step keeps the stamps covered. *)
LEMMA NextAges == TypeOK /\ AgesCovered /\ [Next]_vars => AgesCovered'
<1> SUFFICES ASSUME TypeOK, AgesCovered, [Next]_vars PROVE AgesCovered'
  OBVIOUS
<1> USE DEF AgesCovered, Covers, Since
<1>1. ASSUME NEW isAck \in BOOLEAN, Enqueue(isAck) PROVE AgesCovered'
  <2>1. /\ now' = now /\ sinceRx' = sinceRx /\ sinceStart' = sinceStart
        /\ lastRxActivityMs' = lastRxActivityMs /\ lastOutTx' = lastOutTx
    BY <1>1 DEF Enqueue
  <2>2. CASE Kept = <<>>
    <3>1. oldestQueuedMs' = now /\ backlog' = 0
      BY <1>1, <2>2 DEF Enqueue, Kept
    <3>2. (now' - oldestQueuedMs') % Wrap = 0
      BY <2>1, <3>1, ResetCovered
    <3>3. QED
      BY <2>1, <3>1, <3>2
  <2>3. CASE Kept # <<>>
    <3>1. oldestQueuedMs' = oldestQueuedMs /\ backlog' = backlog
      BY <1>1, <2>3 DEF Enqueue, Kept
    <3>2. outBuffer # <<>>
      <4>1. CASE Len(outBuffer) >= MaxOutQueue
        BY <4>1, QueueAssumption
      <4>2. CASE ~(Len(outBuffer) >= MaxOutQueue)
        BY <4>2, <2>3 DEF Kept
      <4>3. QED
        BY <4>1, <4>2
    <3>3. QED
      BY <2>1, <3>1, <3>2
  <2>4. QED
    BY <2>2, <2>3
<1>2. ASSUME NEW air \in AirTimes, Key(air) PROVE AgesCovered'
  <2>1. /\ air \in Nat /\ now' = (now + air) % Wrap /\ lastOutTx' = now
        /\ sinceRx' = Held(sinceRx + air) /\ sinceStart' = Held(air)
        /\ lastRxActivityMs' = lastRxActivityMs
    BY <1>2, TimeAssumption DEF Key
  <2>2. /\ sinceRx \in 0..Longest /\ backlog \in 0..Longest /\ 0 \in 0..Longest
        /\ lastRxActivityMs \in Stamp /\ oldestQueuedMs \in Stamp /\ now \in Stamp
    BY TimeAssumption DEF TypeOK
  <2>3. Covers(sinceRx, lastRxActivityMs)'
    BY <2>1, <2>2, StillCovered
  <2>4. Covers(sinceStart, lastOutTx)'
    <3>1. Covers(0, now)
      BY ResetCovered
    <3>2. \/ Held(0 + air) = Longest
          \/ (now' - now) % Wrap <= Held(0 + air)
      BY <2>1, <2>2, <3>1, StillCovered
    <3>3. QED
      BY <2>1, <3>2
  <2>5. (outBuffer # <<>> => Covers(backlog, oldestQueuedMs))'
    <3>1. SUFFICES ASSUME Tail(outBuffer) # <<>>
                   PROVE  Covers(backlog, oldestQueuedMs)'
      BY <1>2 DEF Key
    <3>2. outBuffer # <<>>
      BY <1>2 DEF Key, MayKey
    <3>3. oldestQueuedMs' = oldestQueuedMs /\ backlog' = Held(backlog + air)
      BY <1>2, <3>1 DEF Key
    <3>4. QED
      BY <2>1, <2>2, <3>2, <3>3, StillCovered
  <2>6. QED
    BY <2>3, <2>4, <2>5
<1>3. CASE RxActivity
  BY <1>3, ResetCovered DEF RxActivity
<1>4. CASE Tick
  <2>1. /\ now' = (now + 1) % Wrap /\ 1 \in Nat
        /\ sinceRx' = Held(sinceRx + 1) /\ sinceStart' = Held(sinceStart + 1)
        /\ lastRxActivityMs' = lastRxActivityMs /\ lastOutTx' = lastOutTx
        /\ outBuffer' = outBuffer /\ oldestQueuedMs' = oldestQueuedMs
        /\ outBuffer # <<>> => backlog' = Held(backlog + 1)
    BY <1>4 DEF Tick
  <2>2. /\ sinceRx \in 0..Longest /\ backlog \in 0..Longest
        /\ sinceStart \in 0..Longest /\ lastOutTx \in Stamp
        /\ lastRxActivityMs \in Stamp /\ oldestQueuedMs \in Stamp
    BY DEF TypeOK
  <2>3. Covers(sinceRx, lastRxActivityMs)' /\ Covers(sinceStart, lastOutTx)'
    BY <2>1, <2>2, StillCovered
  <2>4. (outBuffer # <<>> => Covers(backlog, oldestQueuedMs))'
    BY <2>1, <2>2, StillCovered
  <2>5. QED
    BY <2>3, <2>4
<1>5. CASE UNCHANGED vars
  BY <1>5 DEF vars
<1>6. QED
  BY <1>1, <1>2, <1>3, <1>4, <1>5 DEF Next

-----------------------------------------------------------------------------

(* A number counted from one later is the same number, modulo Ids.         *)
LEMMA NumberShifts ==
  ASSUME NEW n \in Int, NEW k \in Int
  PROVE  (((n + 1) % Ids) - k) % Ids = (n + 1 - k) % Ids
<1> DEFINE a == n + 1
           b == -k
<1>1. a \in Int /\ b \in Int /\ Ids \in Nat \ {0}
  BY QueueAssumption
<1> HIDE DEF a, b
<1>2. ((a % Ids) + b) % Ids = (a + b) % Ids
  BY <1>1, RemainderAbsorbed
<1>3. (a % Ids) + b = ((n + 1) % Ids) - k /\ a + b = n + 1 - k
  <2>1. (n + 1) % Ids \in Int
    BY <1>1 DEF a
  <2>2. QED
    BY <2>1 DEF a, b
<1>4. QED
  BY <1>2, <1>3

(* Queueing keeps the numbers in order. *)
LEMMA EnqueueInOrder ==
  ASSUME TypeOK, IdsInOrder, NEW isAck \in BOOLEAN, Enqueue(isAck)
  PROVE  IdsInOrder'
<1> DEFINE pkt == [id |-> next, ack |-> isAck]
           n   == Len(Kept)
<1>1. /\ outBuffer' = Append(Kept, pkt) /\ next' = (next + 1) % Ids
      /\ next \in Int /\ next \in 0..(Ids - 1) /\ Ids \in Nat \ {0}
      /\ pkt \in Packet
  BY QueueAssumption DEF Enqueue, Kept, TypeOK, Number, Packet
<1>2. pkt.id = next
  OBVIOUS
<1> HIDE DEF pkt
<1>3. /\ n \in Nat /\ Len(outBuffer') = n + 1 /\ outBuffer'[n + 1] = pkt
      /\ \A i \in 1..n : outBuffer'[i] = Kept[i]
  BY <1>1, KeptShape
<1>4. ASSUME NEW i \in 1..n PROVE Kept[i].id = (next + 1 - (n + 1) + (i - 1)) % Ids
  <2>1. CASE Len(outBuffer) >= MaxOutQueue
    <3>1. /\ Kept[i] = outBuffer[i + 1] /\ n = Len(outBuffer) - 1
          /\ i + 1 \in 1..Len(outBuffer)
      BY <2>1, KeptShape DEF TypeOK
    <3>2. outBuffer[i + 1].id = (next - Len(outBuffer) + (i + 1 - 1)) % Ids
      BY <3>1 DEF IdsInOrder
    <3>3. next - Len(outBuffer) + (i + 1 - 1) = next + 1 - (n + 1) + (i - 1)
      BY <1>1, <1>3, <3>1
    <3>4. QED
      BY <3>1, <3>2, <3>3
  <2>2. CASE ~(Len(outBuffer) >= MaxOutQueue)
    <3>1. /\ Kept[i] = outBuffer[i] /\ n = Len(outBuffer) /\ i \in 1..Len(outBuffer)
      BY <2>2, KeptShape DEF TypeOK
    <3>2. outBuffer[i].id = (next - Len(outBuffer) + (i - 1)) % Ids
      BY <3>1 DEF IdsInOrder
    <3>3. next - Len(outBuffer) + (i - 1) = next + 1 - (n + 1) + (i - 1)
      BY <1>1, <1>3, <3>1
    <3>4. QED
      BY <3>1, <3>2, <3>3
  <2>3. QED
    BY <2>1, <2>2
<1> HIDE DEF n
<1>5. SUFFICES ASSUME NEW i \in 1..(n + 1)
               PROVE  outBuffer'[i].id = (((next + 1) % Ids) - (n + 1) + (i - 1)) % Ids
  BY <1>1, <1>3 DEF IdsInOrder
<1>6. (((next + 1) % Ids) - (n + 1 - (i - 1))) % Ids = (next + 1 - (n + 1 - (i - 1))) % Ids
  <2>1. n + 1 - (i - 1) \in Int
    BY <1>3
  <2>2. QED
    BY <1>1, <2>1, NumberShifts
<1>7. /\ ((next + 1) % Ids) - (n + 1 - (i - 1)) = ((next + 1) % Ids) - (n + 1) + (i - 1)
      /\ next + 1 - (n + 1 - (i - 1)) = next + 1 - (n + 1) + (i - 1)
  <2>1. (next + 1) % Ids \in Int
    BY <1>1
  <2>2. QED
    BY <1>1, <1>3, <2>1
<1>8. CASE i = n + 1
  <2>1. next + 1 - (n + 1) + (i - 1) = next
    BY <1>1, <1>3, <1>8
  <2>2. next % Ids = next
    BY <1>1, SmallRemainder
  <2>3. QED
    BY <1>2, <1>3, <1>6, <1>7, <1>8, <2>1, <2>2
<1>9. CASE i # n + 1
  <2>1. i \in 1..n
    BY <1>3, <1>9
  <2>2. QED
    BY <1>3, <1>4, <1>6, <1>7, <2>1
<1>10. QED
  BY <1>8, <1>9

(* Every step keeps the numbers in order. *)
LEMMA NextInOrder == TypeOK /\ IdsInOrder /\ [Next]_vars => IdsInOrder'
<1> SUFFICES ASSUME TypeOK, IdsInOrder, [Next]_vars PROVE IdsInOrder'
  OBVIOUS
<1>1. ASSUME NEW isAck \in BOOLEAN, Enqueue(isAck) PROVE IdsInOrder'
  BY <1>1, EnqueueInOrder
<1>2. ASSUME NEW air \in AirTimes, Key(air) PROVE IdsInOrder'
  <2>1. outBuffer # <<>> /\ outBuffer' = Tail(outBuffer) /\ next' = next
    BY <1>2 DEF Key, MayKey
  <2>2. SUFFICES ASSUME NEW i \in 1..Len(Tail(outBuffer))
                 PROVE  Tail(outBuffer)[i].id
                          = (next - Len(Tail(outBuffer)) + (i - 1)) % Ids
    BY <2>1 DEF IdsInOrder
  <2>3. /\ Tail(outBuffer)[i] = outBuffer[i + 1] /\ i + 1 \in 1..Len(outBuffer)
        /\ Len(Tail(outBuffer)) = Len(outBuffer) - 1 /\ Len(outBuffer) \in Nat
    BY <2>1, TailShape
  <2>4. outBuffer[i + 1].id = (next - Len(outBuffer) + (i + 1 - 1)) % Ids
    BY <2>3 DEF IdsInOrder
  <2>5. next - Len(outBuffer) + (i + 1 - 1) = next - Len(Tail(outBuffer)) + (i - 1)
    <3>1. next \in Int
      BY DEF TypeOK, Number
    <3>2. i \in Int
      BY <2>2
    <3> DEFINE n == Len(outBuffer)
               m == Len(Tail(outBuffer))
    <3>3. n \in Nat /\ m = n - 1
      BY <2>3
    <3> HIDE DEF n, m
    <3>4. next - n + (i + 1 - 1) = next - m + (i - 1)
      BY <3>1, <3>2, <3>3
    <3>5. QED
      BY <3>4 DEF n, m
  <2>6. QED
    BY <2>3, <2>4, <2>5
<1>3. CASE RxActivity \/ Tick \/ UNCHANGED vars
  BY <1>3 DEF RxActivity, Tick, vars, IdsInOrder
<1>4. QED
  BY <1>1, <1>2, <1>3 DEF Next

-----------------------------------------------------------------------------

(* A step shortens the queue only by keying, past the early returns. *)
LEMMA OnlyKeyKeys ==
  ASSUME TypeOK, [Next]_vars, Keys
  PROVE  MayKey
<1>1. ASSUME NEW isAck \in BOOLEAN, Enqueue(isAck) PROVE FALSE
  <2> DEFINE pkt == [id |-> next, ack |-> isAck]
  <2>1. outBuffer' = Append(Kept, pkt)
    BY <1>1 DEF Enqueue, Kept
  <2> HIDE DEF pkt
  <2>2. Len(outBuffer') >= Len(outBuffer)
    BY <2>1, KeptShape DEF TypeOK
  <2>3. QED
    BY <2>2 DEF Keys, TypeOK
<1>2. ASSUME outBuffer' = outBuffer PROVE FALSE
  BY <1>2 DEF Keys, TypeOK
<1>3. QED
  BY <1>1, <1>2 DEF Next, Key, RxActivity, Tick, vars

-----------------------------------------------------------------------------

(* The types, the covered stamps and the order of the packets hold in      *)
(* every reachable state (station_utils.cpp:115-146).                      *)
THEOREM SpecIInv == Spec => []IInv
<1>1. IInv /\ [Next]_vars => IInv'
  BY NextTypeOK, NextAges, NextInOrder DEF IInv
<1>2. QED
  BY <1>1, InitIInv, PTL DEF Spec

(* The queue holds MAX_OUT_QUEUE packets at most, and every stamp is a     *)
(* word (station_utils.cpp:88, 115-146).                                   *)
THEOREM SpecTypeOK == Spec => []TypeOK
BY SpecIInv, PTL DEF IInv

(* processOutputPacketBuffer() keys nothing inside the quiet window, but   *)
(* for a queue that has not been empty for MAX_QUEUE_WAIT_MS, in true time *)
(* and for every width of the clock (station_utils.cpp:134-138).           *)
THEOREM SpecQuiet == Spec => QuietUnlessBacklogged
<1>1. ASSUME IInv, [Next]_vars, Keys
      PROVE  sinceRx >= RxQuietWindow \/ backlog > MaxQueueWait
  <2>1. outBuffer # <<>> /\ (WaitedTooLong \/ Quiet)
    BY <1>1, OnlyKeyKeys DEF IInv, MayKey
  <2>2. /\ Since(lastRxActivityMs) \in Nat /\ Since(oldestQueuedMs) \in Nat
        /\ sinceRx \in 0..Longest /\ backlog \in 0..Longest
    BY <1>1, SinceType DEF IInv, TypeOK
  <2>3. CASE WaitedTooLong
    <3>1. Covers(backlog, oldestQueuedMs) /\ Since(oldestQueuedMs) > MaxQueueWait
      BY <1>1, <2>1, <2>3 DEF IInv, AgesCovered, WaitedTooLong
    <3>2. QED
      BY <2>2, <3>1, TimeAssumption DEF Covers
  <2>4. CASE Quiet
    <3>1. Covers(sinceRx, lastRxActivityMs) /\ Since(lastRxActivityMs) >= RxQuietWindow
      BY <1>1, <2>4 DEF IInv, AgesCovered, Quiet
    <3>2. QED
      BY <2>2, <3>1, TimeAssumption DEF Covers
  <2>5. QED
    BY <2>1, <2>3, <2>4
<1>2. QED
  BY <1>1, SpecIInv, PTL DEF Spec, QuietUnlessBacklogged

(* processOutputPacketBuffer() leaves the gap between two packets, the     *)
(* long one after an ack, in true time and for every width of the clock    *)
(* (station_utils.cpp:130-132).                                            *)
THEOREM SpecGap == Spec => GapBetweenKeyings
<1>1. ASSUME IInv, [Next]_vars, Keys
      PROVE  sinceStart >= IF lastOutWasAck THEN OutDelayAfterAck ELSE OutDelay
  <2>1. Since(lastOutTx) >= Gap /\ Covers(sinceStart, lastOutTx)
    BY <1>1, OnlyKeyKeys DEF IInv, MayKey, AgesCovered
  <2>2. Since(lastOutTx) \in Nat /\ sinceStart \in 0..Longest
    BY <1>1, SinceType DEF IInv, TypeOK
  <2>3. QED
    BY <2>1, <2>2, TimeAssumption DEF Covers, Gap
<1>2. QED
  BY <1>1, SpecIInv, PTL DEF Spec, GapBetweenKeyings

-----------------------------------------------------------------------------

(* Queueing is a Put. *)
LEMMA EnqueueIsPut ==
  ASSUME TypeOK, NEW isAck \in BOOLEAN, Enqueue(isAck)
  PROVE  Fifo!Put
<1> DEFINE pkt == [id |-> next, ack |-> isAck]
<1>1. /\ outBuffer' = Append(Kept, pkt) /\ next' = (next + 1) % Ids
      /\ keyed' = keyed
  BY DEF Enqueue, Kept
<1> HIDE DEF pkt
<1>2. Len(outBuffer') = Len(Kept) + 1
  BY <1>1, KeptShape
<1>3. Len(outBuffer') = IF Len(outBuffer) < MaxOutQueue THEN Len(outBuffer) + 1
                                                        ELSE Len(outBuffer)
  <2> DEFINE n == Len(outBuffer)
             k == Len(Kept)
  <2>1. n \in Nat /\ MaxOutQueue \in Nat /\ k = IF n >= MaxOutQueue THEN n - 1 ELSE n
    BY KeptShape, QueueAssumption DEF TypeOK
  <2> HIDE DEF n, k
  <2>2. k + 1 = IF n < MaxOutQueue THEN n + 1 ELSE n
    BY <2>1
  <2>3. QED
    BY <1>2, <2>2 DEF n, k
<1>4. QED
  BY <1>1, <1>3 DEF Fifo!Put

(* Keying is a Take: the packet that leaves is the oldest. *)
LEMMA KeyIsTake ==
  ASSUME TypeOK, IdsInOrder, NEW air \in AirTimes, Key(air)
  PROVE  Fifo!Take
<1>1. /\ outBuffer # <<>> /\ outBuffer' = Tail(outBuffer)
      /\ keyed' = Head(outBuffer).id /\ next' = next
  BY DEF Key, MayKey
<1>2. /\ Len(outBuffer) \in Nat \ {0} /\ Len(Tail(outBuffer)) = Len(outBuffer) - 1
      /\ Head(outBuffer) = outBuffer[1]
  BY <1>1, TailShape
<1>3. outBuffer[1].id = (next - Len(outBuffer)) % Ids
  <2>1. outBuffer[1].id = (next - Len(outBuffer) + (1 - 1)) % Ids
    BY <1>2 DEF IdsInOrder
  <2>2. next - Len(outBuffer) + (1 - 1) = next - Len(outBuffer)
    BY <1>2 DEF TypeOK, Number
  <2>3. QED
    BY <2>1, <2>2
<1>4. QED
  BY <1>1, <1>2, <1>3 DEF Fifo!Take, Fifo!Oldest

(* addToOutputPacketBuffer() and processOutputPacketBuffer() keep the      *)
(* promise of TxFifo: packets leave in the order they were queued, each    *)
(* once, and only a full queue loses one, its oldest, whatever the clock   *)
(* and the channel do (station_utils.cpp:115-146).                         *)
THEOREM SpecImplementsTxFifo == Spec => ImplementsTxFifo
<1>1. Init => Fifo!Init
  BY DEF Init, Fifo!Init, None, Fifo!None
<1>2. IInv /\ [Next]_vars => [Fifo!Next]_(Fifo!vars)
  <2> SUFFICES ASSUME IInv, [Next]_vars PROVE [Fifo!Next]_(Fifo!vars)
    OBVIOUS
  <2>1. ASSUME NEW isAck \in BOOLEAN, Enqueue(isAck) PROVE Fifo!Next
    BY <2>1, EnqueueIsPut DEF IInv, Fifo!Next
  <2>2. ASSUME NEW air \in AirTimes, Key(air) PROVE Fifo!Next
    BY <2>2, KeyIsTake DEF IInv, Fifo!Next
  <2>3. CASE RxActivity \/ Tick \/ UNCHANGED vars
    BY <2>3 DEF RxActivity, Tick, vars, Fifo!vars
  <2>4. QED
    BY <2>1, <2>2, <2>3 DEF Next
<1>3. QED
  BY <1>1, <1>2, SpecIInv, PTL DEF Spec, ImplementsTxFifo, Fifo!Spec
=============================================================================
