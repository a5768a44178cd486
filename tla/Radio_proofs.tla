---------------------------- MODULE Radio_proofs ----------------------------
(***************************************************************************)
(* For every number of slots, backoff, wait, airtime and watchdog timeout: *)
(* the types of Radio, that no wake-up is lost, that receivePacket() reads *)
(* only frames that are there, and that the carrier is keyed on a channel  *)
(* that was clear for longer than the DIFS.                                *)
(***************************************************************************)
EXTENDS Radio, TLAPS

(* Outside a transmission the two flags say what the chip does: reception  *)
(* is running exactly when transmitFlag is down, but for the moment        *)
(* between startReceive() and the assignment after it.                     *)
FlagTellsMode ==
  /\ pc \in Polling \cup {"rest"} => (mode = "rx" <=> ~transmitFlag \/ pc = "rearmed")
  /\ pc \in {"rearm", "rearmed"} => transmitFlag
  /\ pc \in {"read", "clear", "handOver"} => ~transmitFlag

(* Inside one the place of loop() says it.                                 *)
ModeFollowsSend ==
  /\ pc \in {"difsScan", "bebScan"} => mode = "cad"
  /\ pc \in {"beb", "returned"} => mode = "standby"
  /\ mode = "tx" <=> pc = "onAir"

(* While reception runs the flag is raised only by a frame, and stays down *)
(* from the poll that sees it until the line is cleared.                   *)
FlagMeansFrame ==
  /\ pc \in Polling \cup {"rest"} /\ mode = "rx" /\ operationDone => line /\ unread
  /\ pc = "rearm" => ~operationDone
  /\ pc \in {"read", "clear"} => line /\ ~operationDone

(* The clear scans in a row pay for the slots and the backoff that are no  *)
(* longer wanted; a backoff that was drawn survives a busy channel and is  *)
(* at least one until a scan after the DIFS takes it.                      *)
ScansPay ==
  /\ pc = "key" => ~CadActive
  /\ pc \in {"difs", "difsScan"} => /\ slots > 0 /\ backoff # 0
                                    /\ clearRun + slots = DifsSlots
  /\ pc \in {"beb", "bebScan"} => /\ backoff # NotDrawn
                                  /\ clearRun + backoff <= DifsSlots + BackoffMax
                                  /\ backoff = 0 => clearRun > DifsSlots
                                  /\ TimedOut \/ clearRun >= DifsSlots
  /\ pc = "bebScan" => backoff > 0 /\ clearRun >= DifsSlots

(* The types in two halves, as the two halves of the invariant are proved  *)
(* apart: the flags and the chip never depend on a count.                  *)
FlagTypes ==
  /\ {operationDone, transmitFlag, line, unread, polled, silent} \subseteq BOOLEAN
  /\ mode \in {"standby", "rx", "cad", "tx"}
  /\ pc \in {"poll", "rest"} \cup Polling \cup Sending

CountTypes ==
  /\ sends \in 0..SendsPerPass
  /\ slots \in 0..DifsSlots /\ backoff \in NotDrawn..BackoffMax
  /\ clearRun \in 0..(DifsSlots + BackoffMax)
  /\ waited \in Nat /\ sinceFeed \in Nat

FlagInv == /\ FlagTypes /\ NoLostWakeup /\ ReadsAreFresh
           /\ FlagTellsMode /\ ModeFollowsSend /\ FlagMeansFrame

ScanInv == CountTypes /\ ScansPay

IInv == FlagInv /\ ScanInv

-----------------------------------------------------------------------------

(* The types of the variables, one by one, and the bounds as numbers.      *)
LEMMA Bounds ==
  /\ DifsSlots \in Nat /\ DifsSlots > 0 /\ BackoffMax \in Nat /\ BackoffMax > 0
  /\ CadMaxWait \in Nat /\ AirTime \in Nat /\ WatchdogTimeout \in Nat
 /\ SendsPerPass \in Nat
BY RadioAssumption

LEMMA InitIInv == Init => IInv
<1> SUFFICES ASSUME Init PROVE IInv
  OBVIOUS
<1>1. FlagTypes
  <2>1. {operationDone, transmitFlag, line, unread, polled, silent} \subseteq BOOLEAN
    BY DEF Init
  <2>2. QED
    BY <2>1 DEF Init, FlagTypes
<1>2. CountTypes
  BY Bounds DEF Init, CountTypes, NotDrawn
<1>3. /\ NoLostWakeup /\ ReadsAreFresh /\ FlagTellsMode /\ ModeFollowsSend
      /\ FlagMeansFrame /\ ScansPay
  BY DEF Init, NoLostWakeup, ReadsAreFresh, FlagTellsMode, ModeFollowsSend, FlagMeansFrame,
         ScansPay, Polling
<1>4. QED
  BY <1>1, <1>2, <1>3 DEF IInv, FlagInv, ScanInv

(* What a poll does, case by case.                                         *)
LEMMA PollCases ==
  ASSUME Poll
  PROVE  \/ ~operationDone /\ pc' = "rest"
         \/ operationDone /\ transmitFlag /\ pc' = "rearm"
         \/ operationDone /\ ~transmitFlag /\ pc' = "read"
BY DEF Poll

(* No step breaks what the flags and the chip agree on.                    *)
LEMMA NextFlagInv == FlagInv /\ [Next]_vars => FlagInv'
<1> SUFFICES ASSUME FlagInv, [Next]_vars PROVE FlagInv'
  OBVIOUS
<1> USE DEF FlagInv, FlagTypes, NoLostWakeup, ReadsAreFresh, FlagTellsMode, ModeFollowsSend,
        FlagMeansFrame, Polling, Sending, chip, cad, pass
<1>1. CASE Arrive
  BY <1>1 DEF Arrive, Interrupt
<1>2. CASE Poll
  BY <1>2 DEF Poll
<1>3. CASE Rearm
  BY <1>3 DEF Rearm
<1>4. CASE Rearmed
  BY <1>4 DEF Rearmed
<1>5. CASE ReadBuffer
  BY <1>5 DEF ReadBuffer
<1>6. CASE ClearLine
  BY <1>6 DEF ClearLine
<1>7. CASE HandOver
  BY <1>7 DEF HandOver
<1>8. CASE Send
  BY <1>8 DEF Send
<1>9. CASE StartScan
  BY <1>9 DEF StartScan
<1>10. CASE DifsScanned
  BY <1>10 DEF DifsScanned, ScanEnds, Interrupt, DrawBackoff
<1>11. CASE BackoffScanned
  BY <1>11 DEF BackoffScanned, ScanEnds, Interrupt
<1>12. CASE Transmit
  BY <1>12 DEF Transmit
<1>13. CASE TransmitEnds
  BY <1>13 DEF TransmitEnds, Interrupt
<1>14. CASE Return
  BY <1>14 DEF Return
<1>15. CASE NextPass
  BY <1>15 DEF NextPass
<1>16. CASE Bite
  BY <1>16 DEF Bite
<1>17. CASE UNCHANGED vars
  BY <1>17 DEF vars
<1>18. QED
  BY <1>1, <1>2, <1>3, <1>4, <1>5, <1>6, <1>7, <1>8, <1>9, <1>10, <1>11, <1>12, <1>13, <1>14, <1>15, <1>16, <1>17 DEF Next

(* No step breaks the count of clear scans.                                *)
LEMMA NextScanInv == ScanInv /\ [Next]_vars => ScanInv'
<1> SUFFICES ASSUME ScanInv, [Next]_vars PROVE ScanInv'
  OBVIOUS
<1> USE DEF ScanInv, CountTypes, ScansPay, NotDrawn, TimedOut, chip, cad, pass
<1>1. CASE Arrive
  BY <1>1, Bounds DEF Arrive, Interrupt
<1>2. CASE Poll
  BY <1>2, Bounds DEF Poll
<1>3. CASE Rearm
  BY <1>3, Bounds DEF Rearm
<1>4. CASE Rearmed
  BY <1>4, Bounds DEF Rearmed
<1>5. CASE ReadBuffer
  BY <1>5, Bounds DEF ReadBuffer
<1>6. CASE ClearLine
  BY <1>6, Bounds DEF ClearLine
<1>7. CASE HandOver
  BY <1>7, Bounds DEF HandOver
<1>8. CASE Send
  <2>1. /\ sends < SendsPerPass /\ sends' = sends + 1
        /\ slots' = DifsSlots /\ backoff' = -1 /\ waited' = 0 /\ clearRun' = 0
        /\ sinceFeed' = sinceFeed
        /\ \/ CadActive /\ pc' = "difs"
           \/ ~CadActive /\ pc' = "key"
    BY <1>8 DEF Send
  <2>2. CountTypes'
    BY <2>1, Bounds
  <2>3. ScansPay'
    BY <2>1, Bounds
  <2>4. QED
    BY <2>2, <2>3
<1>9. CASE StartScan
  <2>1. /\ \/ pc = "difs" /\ pc' = "difsScan"
           \/ pc = "beb" /\ backoff > 0 /\ ~TimedOut /\ pc' = "bebScan"
        /\ UNCHANGED <<sends, slots, backoff, waited, sinceFeed, clearRun>>
    BY <1>9 DEF StartScan
  <2>2. CountTypes'
    BY <2>1
  <2>3. ScansPay'
    BY <2>1, Bounds
  <2>4. QED
    BY <2>2, <2>3
<1>10. CASE DifsScanned
  <2>1. PICK busy \in BOOLEAN :
          /\ pc = "difsScan"
          /\ waited' = waited + 1 /\ sinceFeed' = sinceFeed + 1 /\ sends' = sends
          /\ clearRun' = IF busy THEN 0 ELSE clearRun + 1
          /\ slots' = IF busy THEN DifsSlots ELSE slots - 1
          /\ IF slots' = 0 \/ (busy /\ waited' > CadMaxWait)
               THEN pc' = "beb" /\ DrawBackoff
               ELSE pc' = "difs" /\ backoff' = backoff
    BY <1>10 DEF DifsScanned, ScanEnds
  <2>2. /\ slots > 0 /\ backoff # 0 /\ clearRun + slots = DifsSlots
    BY <2>1
  <2>3. backoff' \in NotDrawn..BackoffMax /\ backoff' # 0
    BY <2>1, <2>2, Bounds DEF DrawBackoff
  <2>4. CASE busy /\ ~(waited' > CadMaxWait)
    <3>1. /\ waited' = waited + 1 /\ sinceFeed' = sinceFeed + 1 /\ sends' = sends
          /\ clearRun' = 0 /\ slots' = DifsSlots /\ pc' = "difs"
      BY <2>1, <2>4, Bounds
    <3>2. QED
      BY <2>3, <3>1, Bounds
  <2>5. CASE busy /\ waited' > CadMaxWait
    <3>1. /\ waited' = waited + 1 /\ sinceFeed' = sinceFeed + 1 /\ sends' = sends
          /\ clearRun' = 0 /\ slots' = DifsSlots /\ pc' = "beb" /\ backoff' > 0
      BY <2>1, <2>2, <2>5, Bounds DEF DrawBackoff
    <3>2. CountTypes'
      BY <2>3, <3>1, Bounds
    <3>3. backoff' \in Int /\ backoff' > 0 /\ backoff' <= BackoffMax
      BY <2>3, <3>1, Bounds
    <3>4. clearRun' + backoff' <= DifsSlots + BackoffMax
      <4>1. PICK drawn \in 1..BackoffMax : drawn = backoff'
        BY <3>3, Bounds
      <4>2. clearRun' + backoff' = 0 + drawn
        BY <3>1, <4>1, Zenon
      <4>3. 0 + drawn <= DifsSlots + BackoffMax
        BY Bounds
      <4>4. QED
        BY <4>2, <4>3
    <3>5. TimedOut'
      BY <2>5
    <3>6. ScansPay'
      BY <3>1, <3>3, <3>4, <3>5
    <3>7. QED
      BY <3>2, <3>6
  <2>6. CASE ~busy
    <3>1. /\ waited' = waited + 1 /\ sinceFeed' = sinceFeed + 1 /\ sends' = sends
          /\ clearRun' = clearRun + 1 /\ slots' = slots - 1
          /\ \/ slots' = 0 /\ pc' = "beb" /\ backoff' > 0
             \/ slots' > 0 /\ pc' = "difs"
      BY <2>1, <2>2, <2>6, Bounds DEF DrawBackoff
    <3>2. CountTypes'
      BY <2>2, <2>3, <3>1, Bounds
    <3>3. /\ clearRun' + slots' = DifsSlots
          /\ pc' = "beb" => clearRun' = DifsSlots /\ backoff' \in 1..BackoffMax
      BY <2>2, <2>3, <3>1, Bounds
    <3>4. ScansPay'
      <4>1. CASE pc' = "beb"
        BY <3>3, <4>1, Bounds
      <4>2. CASE pc' = "difs"
        BY <2>3, <3>1, <3>3, <4>2, Bounds
      <4>3. QED
        BY <3>1, <4>1, <4>2
    <3>5. QED
      BY <3>2, <3>4
  <2>7. QED
    BY <2>4, <2>5, <2>6
<1>11. CASE BackoffScanned
  <2>1. PICK busy \in BOOLEAN :
          /\ pc = "bebScan"
          /\ waited' = waited + 1 /\ sinceFeed' = sinceFeed + 1 /\ sends' = sends
          /\ clearRun' = IF busy THEN 0 ELSE clearRun + 1
          /\ backoff' = IF busy THEN backoff ELSE backoff - 1
          /\ slots' = IF busy THEN DifsSlots ELSE slots
          /\ pc' = IF busy THEN "difs" ELSE "beb"
    BY <1>11 DEF BackoffScanned, ScanEnds
  <2>2. /\ backoff > 0 /\ clearRun >= DifsSlots
        /\ clearRun + backoff <= DifsSlots + BackoffMax
    BY <2>1
  <2>3. CASE busy
    BY <2>1, <2>2, <2>3, Bounds
  <2>4. CASE ~busy
    <3>1. /\ waited' = waited + 1 /\ sinceFeed' = sinceFeed + 1 /\ sends' = sends
          /\ clearRun' = clearRun + 1 /\ backoff' = backoff - 1 /\ slots' = slots
          /\ pc' = "beb"
      BY <2>1, <2>4
    <3>2. CountTypes'
      BY <2>2, <3>1, Bounds
    <3>3. ScansPay'
      BY <2>2, <3>1, Bounds
    <3>4. QED
      BY <3>2, <3>3
  <2>5. QED
    BY <2>3, <2>4
<1>12. CASE Transmit
  BY <1>12, Bounds DEF Transmit
<1>13. CASE TransmitEnds
  <2>1. /\ pc' = "returned" /\ sinceFeed' = sinceFeed + AirTime
        /\ UNCHANGED <<sends, slots, backoff, waited, clearRun>>
    BY <1>13 DEF TransmitEnds
  <2>2. QED
    BY <2>1, Bounds
<1>14. CASE Return
  BY <1>14, Bounds DEF Return
<1>15. CASE NextPass
  BY <1>15, Bounds DEF NextPass
<1>16. CASE Bite
  <2>1. /\ sends' = 0 /\ slots' = 0 /\ backoff' = -1 /\ waited' = 0
        /\ sinceFeed' = 0 /\ clearRun' = 0 /\ pc' = "poll"
    BY <1>16 DEF Bite
  <2>2. QED
    BY <2>1, Bounds
<1>17. CASE UNCHANGED vars
  BY <1>17 DEF vars
<1>18. QED
  BY <1>1, <1>2, <1>3, <1>4, <1>5, <1>6, <1>7, <1>8, <1>9, <1>10, <1>11, <1>12, <1>13, <1>14, <1>15, <1>16, <1>17 DEF Next

-----------------------------------------------------------------------------

(* What the flags, the chip and the counts agree on holds in every         *)
(* reachable state, whatever interrupts come in between.                   *)
THEOREM InductiveInvariant == Spec => []IInv
<1>1. IInv /\ [Next]_vars => IInv'
  BY NextFlagInv, NextScanInv DEF IInv
<1>2. QED
  BY InitIInv, <1>1, PTL DEF Spec

(* The types hold in every reachable state: no count leaves its range, for *)
(* any setting of the CAD (waitForDIFS(), doBEB()).                        *)
THEOREM TypesOK == Spec => []TypeOK
<1>1. IInv => TypeOK
  BY DEF IInv, FlagInv, ScanInv, FlagTypes, CountTypes, TypeOK
<1>2. QED
  BY InductiveInvariant, <1>1, PTL

(* No interleaving of the interrupt with receivePacket() and the handlers  *)
(* that send leaves the line of a receiving chip high with nobody to clear *)
(* it (setFlag(), receivePacket()).                                        *)
THEOREM WakeupsKept == Spec => []NoLostWakeup
<1>1. IInv => NoLostWakeup
  BY DEF IInv, FlagInv
<1>2. QED
  BY InductiveInvariant, <1>1, PTL

(* Every frame that receivePacket() reads out is one that had not been     *)
(* read: it never takes the interrupt of a scan or a transmission for it.  *)
THEOREM FreshReads == Spec => []ReadsAreFresh
<1>1. IInv => ReadsAreFresh
  BY DEF IInv, FlagInv
<1>2. QED
  BY InductiveInvariant, <1>1, PTL

(* With CAD on no transmission begins on a channel that was not clear for  *)
(* the DIFS and one scan of backoff, unless the wait has reached its cap   *)
(* (waitForDIFS(), doBEB(), sendNewPacket()).                              *)
THEOREM ClearWhenKeyed == Spec => KeyedOnClearChannel
<1> DEFINE Keying == CadActive /\ mode' = "tx" /\ mode # "tx" => TimedOut \/ clearRun > DifsSlots
<1>1. IInv /\ [Next]_vars => [Keying]_vars
  <2> SUFFICES ASSUME IInv, [Next]_vars, CadActive, mode' = "tx", mode # "tx"
               PROVE  TimedOut \/ clearRun > DifsSlots
    OBVIOUS
  <2>1. Transmit
    BY DEF Next, vars, chip, Arrive, Poll, Rearm, Rearmed, ReadBuffer, ClearLine, HandOver,
       Send, StartScan, DifsScanned, BackoffScanned, ScanEnds, TransmitEnds, Return,
       NextPass, Bite
  <2>2. pc # "key"
    BY DEF IInv, ScanInv, ScansPay
  <2>3. pc = "beb" /\ (backoff = 0 \/ TimedOut)
    BY <2>1, <2>2 DEF Transmit
  <2>4. QED
    BY <2>3 DEF IInv, ScanInv, ScansPay
<1>2. QED
  BY InductiveInvariant, <1>1, PTL DEF Spec, KeyedOnClearChannel
=============================================================================
