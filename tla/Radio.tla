------------------------------- MODULE Radio -------------------------------
(***************************************************************************)
(* The radio driver of lora_utils.cpp: one pass of loop() after another    *)
(* polls receivePacket() and calls sendNewPacket(), while the DIO1         *)
(* interrupt of the chip sets operationDone behind its back.  RX-done,     *)
(* CAD-done and TX-done share that one interrupt and that one flag;        *)
(* transmitFlag tells receivePacket() which of them it is looking at.      *)
(*                                                                         *)
(* Time is counted in CAD scans.  The chip and RadioLib are external and   *)
(* modelled from how lora_utils.cpp uses them: a rising edge of the line   *)
(* runs setFlag(), a call that ends clears the line, only a chip in        *)
(* receive mode receives, and a later frame overwrites an unread one.      *)
(***************************************************************************)
EXTENDS Integers

CONSTANTS
  CadActive,       \* Config.cadActive
  DifsSlots,       \* DIFS_SLOTS, 2
  BackoffMax,      \* backoffMax, 4
  CadMaxWait,      \* CAD_MAX_WAIT_MS
  AirTime,         \* time transmit() blocks
  WatchdogTimeout, \* WATCHDOG_TIMEOUT_SEC
  SendsPerPass,    \* model bound: transmissions in one pass of loop()
  TxMayFail        \* transmit() may return an error

ASSUME RadioAssumption ==
  /\ CadActive \in BOOLEAN /\ TxMayFail \in BOOLEAN
  /\ DifsSlots \in Nat \ {0} /\ BackoffMax \in Nat \ {0}
  /\ {CadMaxWait, AirTime, WatchdogTimeout, SendsPerPass} \subseteq Nat

VARIABLES
  operationDone, \* set by the interrupt, cleared by receivePacket()
  transmitFlag,  \* set after transmit(), cleared when reception is re-armed
  mode,          \* chip: what it is doing
  line,          \* chip: DIO1 is high
  unread,        \* chip: the buffer holds a frame that was not read out
  pc,            \* where loop() is
  polled,        \* receivePacket() was called in this pass
  sends,         \* transmissions begun in this pass
  slots,         \* doDIFS(): clear scans still wanted
  backoff,       \* doBEB(): clear scans still wanted, NotDrawn before it
  waited,        \* time since cadStartTime
  sinceFeed,     \* time since feedWatchdog()
  clearRun,      \* history: clear scans in a row before this moment
  silent         \* history: the last sendNewPacket() has raised no interrupt

chip    == <<mode, line, unread>>
cad     == <<slots, backoff, waited, clearRun>>
pass    == <<polled, sends>>
vars    == <<operationDone, transmitFlag, chip, pc, pass, cad, sinceFeed,
             silent>>

NotDrawn == -1

Polling == {"poll", "rearm", "rearmed", "read", "clear", "handOver"}
Sending == {"difs", "difsScan", "beb", "bebScan", "key", "onAir", "returned"}

-----------------------------------------------------------------------------

(* Power-up: setup() has configured the chip and both flags start true, so *)
(* that the first poll arms reception.                                     *)
Init ==
  /\ operationDone = TRUE /\ transmitFlag = TRUE
  /\ mode = "standby" /\ line = FALSE /\ unread = FALSE
  /\ pc = "poll" /\ polled = FALSE /\ sends = 0
  /\ slots = 0 /\ backoff = NotDrawn /\ waited = 0
  /\ sinceFeed = 0
  /\ clearRun = 0 /\ silent = FALSE

(* setFlag(), run by a rising edge of DIO1. *)
Interrupt(rising) == operationDone' = (operationDone \/ rising)

(* A frame comes in. *)
Arrive ==
  /\ mode = "rx"
  /\ line' = TRUE /\ unread' = TRUE
  /\ Interrupt(~line)
  /\ UNCHANGED <<transmitFlag, mode, pc, pass, cad, sinceFeed, silent>>

-----------------------------------------------------------------------------
(* receivePacket(). *)

Poll ==
  /\ pc = "poll"
  /\ polled' = TRUE
  /\ operationDone' = FALSE
  /\ pc' = CASE ~operationDone -> "rest"
             [] operationDone /\ transmitFlag -> "rearm"
             [] OTHER -> "read"
  /\ UNCHANGED <<transmitFlag, chip, sends, cad, sinceFeed, silent>>

(* Mutant: reception is not started. *)
RearmForgotten ==
  /\ pc = "rearm"
  /\ pc' = "rearmed"
  /\ UNCHANGED <<operationDone, transmitFlag, chip, pass, cad, sinceFeed,
                 silent>>

(* radio.startReceive(). *)
Rearm ==
  /\ pc = "rearm"
  /\ mode' = "rx" /\ line' = FALSE
  /\ pc' = "rearmed"
  /\ UNCHANGED <<operationDone, transmitFlag, unread, pass, cad, sinceFeed,
                 silent>>

Rearmed ==
  /\ pc = "rearmed"
  /\ transmitFlag' = FALSE
  /\ pc' = "rest"
  /\ UNCHANGED <<operationDone, chip, pass, cad, sinceFeed, silent>>

(* radio.readData() takes the frame out of the buffer ... *)
ReadBuffer ==
  /\ pc = "read"
  /\ unread' = FALSE
  /\ pc' = "clear"
  /\ UNCHANGED <<operationDone, transmitFlag, mode, line, pass, cad, sinceFeed,
                 silent>>

(* ... and clears the interrupt. *)
ClearLine ==
  /\ pc = "clear"
  /\ line' = FALSE
  /\ pc' = "handOver"
  /\ UNCHANGED <<operationDone, transmitFlag, mode, unread, pass, cad, sinceFeed,
                 silent>>

(* Mutant: the flag is cleared here, after the work, as well. *)
HandOverClearing ==
  /\ pc = "handOver"
  /\ operationDone' = FALSE
  /\ pc' = "rest"
  /\ UNCHANGED <<transmitFlag, chip, pass, cad, sinceFeed, silent>>

HandOver ==
  /\ pc = "handOver"
  /\ pc' = "rest"
  /\ UNCHANGED <<operationDone, transmitFlag, chip, pass, cad, sinceFeed, silent>>

-----------------------------------------------------------------------------
(* sendNewPacket(), for a packet that passes the NOCALL gate. *)

TimedOut == waited > CadMaxWait

(* Some handler of this pass sends: before the poll (serial, button) or    *)
(* after it.                                                               *)
Send ==
  /\ pc \in {"poll", "rest"}
  /\ sends < SendsPerPass
  /\ sends' = sends + 1
  /\ silent' = TRUE
  /\ slots' = DifsSlots /\ backoff' = NotDrawn
  /\ waited' = 0 /\ clearRun' = 0
  /\ pc' = IF CadActive THEN "difs" ELSE "key"
  /\ UNCHANGED <<operationDone, transmitFlag, chip, polled, sinceFeed>>

(* doCAD(): the scan is started, and ends with an interrupt or an error. *)
StartScan ==
  /\ \/ pc = "difs" /\ pc' = "difsScan"
     \/ pc = "beb" /\ backoff > 0 /\ ~TimedOut /\ pc' = "bebScan"
  /\ mode' = "cad" /\ line' = FALSE
  /\ UNCHANGED <<operationDone, transmitFlag, unread, pass, cad, sinceFeed,
                 silent>>

ScanEnds(busy) ==
  /\ mode' = "standby"
  /\ waited' = waited + 1
  /\ sinceFeed' = sinceFeed + 1
  /\ clearRun' = IF busy THEN 0 ELSE clearRun + 1
  /\ \/ Interrupt(TRUE) /\ silent' = FALSE
     \/ busy /\ UNCHANGED <<operationDone, silent>>
  /\ UNCHANGED <<transmitFlag, line, unread, pass>>

(* waitForDIFS() is over: doBEB() draws, or goes on, with its countdown. *)
DrawBackoff ==
  IF backoff = NotDrawn THEN backoff' \in 1..BackoffMax
                        ELSE UNCHANGED backoff

(* Mutant: a busy scan does not restart the DIFS. *)
DifsScannedKeepingSlots ==
  \E busy \in BOOLEAN :
    /\ pc = "difsScan"
    /\ ScanEnds(busy)
    /\ slots' = slots - 1
    /\ IF slots' = 0 \/ (busy /\ waited' > CadMaxWait)
         THEN pc' = "beb" /\ DrawBackoff
         ELSE pc' = "difs" /\ UNCHANGED backoff

(* waitForDIFS(): a busy scan starts it again unless the wait is over. *)
DifsScanned ==
  \E busy \in BOOLEAN :
    /\ pc = "difsScan"
    /\ ScanEnds(busy)
    /\ slots' = IF busy THEN DifsSlots ELSE slots - 1
    /\ IF slots' = 0 \/ (busy /\ waited' > CadMaxWait)
         THEN pc' = "beb" /\ DrawBackoff
         ELSE pc' = "difs" /\ UNCHANGED backoff

(* doBEB(): a busy scan freezes the countdown until the DIFS passes again. *)
BackoffScanned ==
  \E busy \in BOOLEAN :
    /\ pc = "bebScan"
    /\ ScanEnds(busy)
    /\ backoff' = IF busy THEN backoff ELSE backoff - 1
    /\ slots' = IF busy THEN DifsSlots ELSE slots
    /\ pc' = IF busy THEN "difs" ELSE "beb"

(* radio.transmit() puts the chip on the air, or returns at once ... *)
Transmit ==
  /\ \/ pc = "key"
     \/ pc = "beb" /\ (backoff = 0 \/ TimedOut)
  /\ line' = FALSE
  /\ \/ pc' = "onAir" /\ mode' = "tx"
     \/ TxMayFail /\ pc' = "returned" /\ mode' = "standby"
  /\ UNCHANGED <<operationDone, transmitFlag, unread, pass, cad, sinceFeed,
                 silent>>

(* ... and ends with the TX-done interrupt, or with a timeout. *)
TransmitEnds ==
  /\ pc = "onAir"
  /\ mode' = "standby"
  /\ sinceFeed' = sinceFeed + AirTime
  /\ \/ Interrupt(TRUE) /\ silent' = FALSE
     \/ TxMayFail /\ UNCHANGED <<operationDone, silent>>
  /\ pc' = "returned"
  /\ UNCHANGED <<transmitFlag, line, unread, pass, cad>>

(* Mutant: transmitFlag is not set. *)
ReturnUnflagged ==
  /\ pc = "returned"
  /\ pc' = IF polled THEN "rest" ELSE "poll"
  /\ UNCHANGED <<operationDone, transmitFlag, chip, pass, cad, sinceFeed, silent>>

Return ==
  /\ pc = "returned"
  /\ transmitFlag' = TRUE
  /\ pc' = IF polled THEN "rest" ELSE "poll"
  /\ UNCHANGED <<operationDone, chip, pass, cad, sinceFeed, silent>>

-----------------------------------------------------------------------------

(* loop() starts over and feeds the watchdog. *)
NextPass ==
  /\ pc = "rest"
  /\ pc' = "poll"
  /\ polled' = FALSE /\ sends' = 0
  /\ sinceFeed' = 0
  /\ UNCHANGED <<operationDone, transmitFlag, chip, cad, silent>>

(* The watchdog is due: nothing happens any more but the reset, which      *)
(* leaves what power-up leaves.                                            *)
Due == sinceFeed > WatchdogTimeout

Bite ==
  /\ Due
  /\ operationDone' = TRUE /\ transmitFlag' = TRUE
  /\ mode' = "standby" /\ line' = FALSE /\ unread' = FALSE
  /\ pc' = "poll" /\ polled' = FALSE /\ sends' = 0
  /\ slots' = 0 /\ backoff' = NotDrawn /\ waited' = 0
  /\ sinceFeed' = 0
  /\ clearRun' = 0 /\ silent' = FALSE

Next ==
  \/ ~Due /\ Arrive
  \/ ~Due /\ Poll
  \/ ~Due /\ Rearm
  \/ ~Due /\ Rearmed
  \/ ~Due /\ ReadBuffer
  \/ ~Due /\ ClearLine
  \/ ~Due /\ HandOver
  \/ ~Due /\ Send
  \/ ~Due /\ StartScan
  \/ ~Due /\ DifsScanned
  \/ ~Due /\ BackoffScanned
  \/ ~Due /\ Transmit
  \/ ~Due /\ TransmitEnds
  \/ ~Due /\ Return
  \/ ~Due /\ NextPass
  \/ Bite

Spec == Init /\ [][Next]_vars

(* loop() runs for ever, every call it makes of the chip ends, and the     *)
(* watchdog is hardware.  Nothing makes a frame arrive or a handler send.  *)
Fairness ==
  /\ WF_vars(~Due /\ Poll) /\ WF_vars(~Due /\ Rearm) /\ WF_vars(~Due /\ Rearmed)
  /\ WF_vars(~Due /\ ReadBuffer) /\ WF_vars(~Due /\ ClearLine)
  /\ WF_vars(~Due /\ HandOver)
  /\ WF_vars(~Due /\ StartScan) /\ WF_vars(~Due /\ DifsScanned)
  /\ WF_vars(~Due /\ BackoffScanned)
  /\ WF_vars(~Due /\ Transmit) /\ WF_vars(~Due /\ TransmitEnds)
  /\ WF_vars(~Due /\ Return) /\ WF_vars(~Due /\ NextPass)
  /\ WF_vars(Bite)

FairSpec == Spec /\ Fairness

-----------------------------------------------------------------------------

(* The types, proved for every value of the constants in Radio_proofs.     *)
TypeOK ==
  /\ {operationDone, transmitFlag, line, unread, polled, silent} \subseteq BOOLEAN
  /\ mode \in {"standby", "rx", "cad", "tx"}
  /\ pc \in {"poll", "rest"} \cup Polling \cup Sending
  /\ sends \in 0..SendsPerPass
  /\ slots \in 0..DifsSlots /\ backoff \in NotDrawn..BackoffMax
  /\ clearRun \in 0..(DifsSlots + BackoffMax)
  /\ waited \in Nat /\ sinceFeed \in Nat

(* No wake-up is lost: while the interrupt line of a receiving chip is     *)
(* high, and so can give no further edge, the flag is set or               *)
(* receivePacket() is on its way to clear the line (lora_utils.cpp:406-    *)
(* 425): no interleaving of the interrupt leaves the receiver stuck.       *)
NoLostWakeup ==
  line /\ mode = "rx" => operationDone \/ pc \in {"read", "clear"}

(* receivePacket() reads the buffer only when it holds a frame that was    *)
(* not read before: the interrupts of CAD scans and transmissions are      *)
(* never taken for a reception (lora_utils.cpp:408, 425).                  *)
ReadsAreFresh == pc = "read" => unread

(* With CAD on, the carrier is keyed after DIFS_SLOTS clear scans in a row *)
(* and at least one more for the backoff, however often the channel turned *)
(* busy in between, or after the cap (lora_utils.cpp:277-295).             *)
KeyedOnClearChannel ==
  [][CadActive /\ mode' = "tx" /\ mode # "tx" =>
       TimedOut \/ clearRun > DifsSlots]_vars

(* A transmission that raised an interrupt is followed by reception: the   *)
(* receiver comes back, unless the watchdog resets the device first.       *)
ListensAgain == (pc = "returned" /\ ~silent) ~> (mode = "rx" \/ Due)
=============================================================================
