----------------------------- MODULE Transports -----------------------------
(***************************************************************************)
(* A KISS host and the way its frames take to the radio: over the socket   *)
(* of tcp_kiss_utils.cpp, the serial port of serial_setup.cpp, or the BLE  *)
(* service of ble_utils.cpp.  The first two parse in loop() and key at     *)
(* once.  BLE parses in the task of its stack and leaves the packet in a   *)
(* slot for loop(); and it lets in only a phone that has paired with the   *)
(* PIN, which outlives reboots as a bond in flash.  It is written twice,   *)
(* for the stacks of the ESP32 and of the nRF52.                           *)
(*                                                                         *)
(* The host, the phones and the BLE stack are external.  A host writes its *)
(* frames in pieces of any length and may stop in the middle of one.  The  *)
(* stack encrypts a link after a phone has shown a bond that the tracker   *)
(* still has, or has been given the PIN, and does not take that back while *)
(* the phone is connected; it refuses a second phone (on ESP32 onConnect() *)
(* does).                                                                  *)
(***************************************************************************)
EXTENDS KissFraming, FiniteSets

CONSTANTS
  Kinds,       \* of "socket", "serial", "esp32", "nrf52" (BLE): those looked at
  Payloads,    \* the packets the host sends, one after the other
  LongPayload, \* one too long for the buffers
  Phones, NoPhone,
  Pins,        \* PINs of 4 to 6 digits
  Knows,       \* [Phones -> SUBSET Pins]: those its user knows
  OddForms,    \* of "command", "empty", "long", "fend": one of them may be sent once
  MaxBoots     \* model bound: reboots

ASSUME TransportsAssumption ==
  /\ Kinds \subseteq {"socket", "serial", "esp32", "nrf52"}
  /\ Payloads \in Seq(Seq(Bytes) \ {<<>>}) /\ LongPayload \in Seq(Bytes)
  /\ \A i, j \in DOMAIN Payloads : Payloads[i] = Payloads[j] => i = j
  /\ \A i \in DOMAIN Payloads : Len(Encapsulate(Payloads[i], "Data")) <= KissBufSize
  /\ NoPhone \notin Phones /\ Knows \in [Phones -> SUBSET Pins]
  /\ Pins \cap {"open", "bad", "none"} = {}
  /\ MaxBoots \in Nat

VARIABLES
  kind,
  rest,       \* what the host has still to write of its frame
  buf,        \* inputBuf, kissSerialBuf, kissSerialBuffer
  slot,       \* BLEToLoRaPacket
  shouldSend, \* shouldSendBLEtoLoRa
  sending,    \* where sendToLoRa() is: "no", "waiting" for the channel or "keyed"
  begun,      \* history: packets the host has begun to write
  odd,        \* history: other things it has begun, and breaks
  streak,     \* history: packets begun since
  keyed,      \* history: what went out over the radio
  config,     \* Config.bluetooth: a PIN, "open", or "bad" for a malformed PIN
  stage,      \* of BLE_Utils::setup()
  policy,     \* pinRequired and blePasskeyDigits of this boot
  stored,     \* the policy in flash
  bonds,      \* the bonds in flash: phones with the PIN they paired with
  active,     \* activeConnHandle
  bluetoothConnected,
  timer,      \* pinPairingTimer: "idle", "armed", or "fired" with a disconnect to come
  boots       \* reboots so far

host    == <<rest, begun, odd, streak>>
parser  == <<buf, slot, shouldSend>>
air     == <<sending, keyed>>
flash   == <<config, stored, bonds>>
link    == <<active, bluetoothConnected, timer>>
vars    == <<kind, host, parser, air, flash, stage, policy, link, boots>>

IsBLE       == kind \in {"esp32", "nrf52"}
PinRequired == policy # "open"
Connected   == IsBLE => active # NoPhone

-----------------------------------------------------------------------------

Init ==
  /\ kind \in Kinds
  /\ rest = <<>> /\ begun = <<>> /\ odd = {} /\ streak = 0
  /\ buf = <<>> /\ slot = <<>> /\ shouldSend = FALSE
  /\ sending = "no" /\ keyed = <<>>
  /\ config \in IF IsBLE THEN Pins \cup {"open"} ELSE {"open"}
  /\ stored = "none" /\ bonds = {}
  /\ stage = IF IsBLE THEN "boot" ELSE "up"
  /\ policy = "open"
  /\ active = NoPhone /\ bluetoothConnected = FALSE /\ timer = "idle" /\ boots = 0

(* The host begins its next packet, with a FEND on either side, ...        *)
BeginPacket ==
  /\ Connected /\ rest = <<>> /\ Len(begun) < Len(Payloads)
  /\ LET payload == Payloads[Len(begun) + 1]
     IN  rest' = Encapsulate(payload, "Data") /\ begun' = Append(begun, payload)
  /\ streak' = streak + 1
  /\ UNCHANGED <<kind, odd, parser, air, flash, stage, policy, link, boots>>

(* ... or something else that KISS allows: a command, a frame without      *)
(* data, one that is too long, a FEND of its own.                          *)
OddFrame ==
  [command |-> <<"FEND", "Cmd", "x", "FEND">>, empty |-> <<"FEND", "Data", "FEND">>,
   long |-> Encapsulate(LongPayload, "Data"), fend |-> <<"FEND">>]

BeginOdd(form) ==
  /\ Connected /\ rest = <<>> /\ odd = {} /\ form \in OddForms
  /\ rest' = OddFrame[form] /\ odd' = {form} /\ streak' = 0
  /\ UNCHANGED <<kind, begun, parser, air, flash, stage, policy, link, boots>>

Reach(n) == SubSeq(rest, 1, n)

(* loop() reads what has arrived on the socket or the port, and keys every *)
(* data frame that its parser hands over before it reads on.               *)
WriteStream(n) ==
  LET parsed == Parse(kind, buf, Reach(n))
  IN  /\ ~IsBLE /\ n \in DOMAIN rest
      /\ rest' = SubSeq(rest, n + 1, Len(rest))
      /\ buf' = parsed.buf /\ keyed' = keyed \o parsed.out
      /\ UNCHANGED <<kind, begun, odd, streak, slot, shouldSend, sending, flash, stage, policy,
                     link, boots>>

Flagged(frames) == \E i \in DOMAIN frames : IsData(frames[i])

(* onWrite() or rxWriteCallback() in the task of the stack: each frame of  *)
(* the write takes the slot, and a data frame raises the flag.             *)
WriteBLE(n) ==
  LET parsed == ParseWrite(buf, Reach(n))
  IN  /\ IsBLE /\ active # NoPhone /\ n \in DOMAIN rest
      /\ rest' = SubSeq(rest, n + 1, Len(rest))
      /\ IF bluetoothConnected
         THEN /\ buf' = parsed.buf
              /\ slot' = IF parsed.out = <<>> THEN slot ELSE Decode(Last(parsed.out))
              /\ shouldSend' = (shouldSend \/ Flagged(parsed.out))
         ELSE UNCHANGED parser
      /\ UNCHANGED <<kind, begun, odd, streak, air, flash, stage, policy, link, boots>>

(* The host of the socket or the port stops in the middle and starts anew: *)
(* a new connection has a new buffer, the port has the one it had.         *)
Break ==
  /\ ~IsBLE /\ rest # <<>> /\ odd = {}
  /\ rest' = <<>> /\ odd' = {"break"} /\ streak' = 0
  /\ buf' = IF kind = "socket" THEN <<>> ELSE buf
  /\ UNCHANGED <<kind, begun, slot, shouldSend, air, flash, stage, policy, link, boots>>

(* sendToLoRa(): the flag is looked at, the packet is read when the channel *)
(* is clear, and both are cleared after the transmission.                  *)
StartSending ==
  /\ sending = "no" /\ shouldSend /\ bluetoothConnected
  /\ sending' = "waiting"
  /\ UNCHANGED <<kind, host, parser, keyed, flash, stage, policy, link, boots>>

Key ==
  /\ sending = "waiting" /\ sending' = "keyed"
  /\ keyed' = Append(keyed, slot)
  /\ UNCHANGED <<kind, host, parser, flash, stage, policy, link, boots>>

(* Mutant: the flag stays.                                                 *)
EmptiedKeepingFlag == slot' = <<>> /\ UNCHANGED shouldSend

Emptied == slot' = <<>> /\ shouldSend' = FALSE

DoneSending ==
  /\ sending = "keyed" /\ sending' = "no"
  /\ Emptied
  /\ UNCHANGED <<kind, host, buf, keyed, flash, stage, policy, link, boots>>

-----------------------------------------------------------------------------

(* Mutant: the stored policy is not compared.                              *)
LoadPolicyIfAny ==
  /\ stage = "boot" /\ policy' = config
  /\ stage' = IF stored # "none" THEN "up" ELSE "wiped"
  /\ bonds' = IF stored # "none" THEN bonds ELSE {}
  /\ UNCHANGED <<kind, host, parser, air, config, stored, link, boots>>

(* enforceBondPolicy(), first half: nothing to do, or the bonds are wiped. *)
(* A malformed PIN leaves BLE off, and so does, on ESP32, a failed wipe.   *)
LoadPolicy ==
  /\ stage = "boot"
  /\ \/ config = "bad" /\ stage' = "off" /\ UNCHANGED <<policy, bonds>>
     \/ /\ config # "bad" /\ policy' = config
        /\ \/ stored = config /\ stage' = "up" /\ UNCHANGED bonds
           \/ stored # config /\ stage' = "wiped" /\ bonds' = {}
           \/ /\ stored # config /\ stage' = "off" /\ kind = "esp32"
              /\ \E left \in SUBSET bonds : left # {} /\ bonds' = left
  /\ UNCHANGED <<kind, host, parser, air, config, stored, link, boots>>

(* Second half: the new policy is recorded, or BLE stays off.  The nRF52   *)
(* removes the old record first and appends to the new one: one cut short  *)
(* is as good as none.                                                     *)
RecordPolicy ==
  /\ stage = "wiped"
  /\ \/ stored' = policy /\ stage' = "up"
     \/ stored' \in {stored, "none"} /\ stage' \in {"wiped", "off"}
  /\ UNCHANGED <<kind, host, parser, air, config, bonds, policy, link, boots>>

Closed ==
  /\ active' = NoPhone /\ bluetoothConnected' = FALSE
  /\ shouldSend' = FALSE /\ buf' = <<>> /\ rest' = <<>>

(* A crash or a reboot, at any moment; and the PIN may have been edited.   *)
Reboot ==
  /\ IsBLE /\ boots < MaxBoots /\ boots' = boots + 1
  /\ config' \in Pins \cup {"open", "bad"}
  /\ stage' = "boot" /\ policy' = "open" /\ sending' = "no" /\ timer' = "idle" /\ slot' = <<>>
  /\ Closed
  /\ UNCHANGED <<kind, begun, odd, streak, keyed, stored, bonds>>

-----------------------------------------------------------------------------

(* connectCallback() of the nRF52: open at once, or closed until the PIN.  *)
Accepted(phone) ==
  /\ stage = "up" /\ active = NoPhone
  /\ active' = phone /\ buf' = <<>> /\ shouldSend' = FALSE
  /\ bluetoothConnected' = ~PinRequired

(* Mutant: no timer on either.                                             *)
ConnectUntimed(phone) ==
  /\ IsBLE /\ Accepted(phone)
  /\ UNCHANGED <<kind, host, slot, air, flash, stage, policy, timer, boots>>

(* onConnect(), which also starts the timer of the pairing.                *)
Connect(phone) ==
  /\ IsBLE /\ Accepted(phone)
  /\ timer' = IF kind = "esp32" /\ PinRequired THEN "armed" ELSE timer
  /\ UNCHANGED <<kind, host, slot, air, flash, stage, policy, boots>>

(* A pairing with the PIN, or the key of an earlier pairing that the       *)
(* tracker still has, which securedCallback() takes for the PIN.           *)
Secured ==
  \/ policy \in Knows[active] /\ bonds' \in {bonds, bonds \cup {<<active, policy>>}}
  \/ \E pin \in Pins : <<active, pin>> \in bonds /\ UNCHANGED bonds

(* onAuthenticationComplete() on a secured link.  After a failed pairing   *)
(* the link stays closed; the nRF52 also disconnects.                      *)
Authenticate ==
  /\ active # NoPhone /\ PinRequired /\ ~bluetoothConnected
  /\ Secured
  /\ bluetoothConnected' = TRUE
  /\ timer' = IF timer = "armed" THEN "idle" ELSE timer
  /\ UNCHANGED <<kind, host, parser, air, config, stored, stage, policy, active, boots>>

(* onDisconnect(), disconnectCallback(): the phone has left, or has been   *)
(* sent away.                                                              *)
Disconnect ==
  /\ active # NoPhone
  /\ Closed
  /\ timer' = IF timer = "armed" THEN "idle" ELSE timer
  /\ UNCHANGED <<kind, begun, odd, streak, slot, air, flash, stage, policy, boots>>

(* onPinPairingTimeout(): what it found is acted upon a moment later.      *)
PairingTimeout ==
  /\ timer = "armed"
  /\ timer' = IF bluetoothConnected \/ active = NoPhone THEN "idle" ELSE "fired"
  /\ UNCHANGED <<kind, host, parser, air, flash, stage, policy, active, bluetoothConnected, boots>>

TimeoutDisconnects ==
  /\ timer = "fired" /\ timer' = "idle"
  /\ \/ active # NoPhone /\ Closed
     \/ active = NoPhone /\ UNCHANGED <<active, bluetoothConnected, shouldSend, buf, rest>>
  /\ UNCHANGED <<kind, begun, odd, streak, slot, air, flash, stage, policy, boots>>

Next ==
  \/ BeginPacket \/ \E form \in DOMAIN OddFrame : BeginOdd(form)
  \/ \E n \in DOMAIN rest : WriteStream(n) \/ WriteBLE(n)
  \/ Break \/ StartSending \/ Key \/ DoneSending
  \/ LoadPolicy \/ RecordPolicy \/ Reboot
  \/ \E phone \in Phones : Connect(phone)
  \/ Authenticate \/ Disconnect \/ PairingTimeout \/ TimeoutDisconnects

(* The timer service runs what has expired.                                *)
Spec == Init /\ [][Next]_vars /\ WF_vars(PairingTimeout) /\ WF_vars(TimeoutDisconnects)

-----------------------------------------------------------------------------

Place(payload) == SelectInSeq(begun, LAMBDA p : p = payload)

(* Packets between their own FENDs come out whole, in order and no more    *)
(* than once, cut into whatever pieces: over the port all of them, over    *)
(* the socket all but those of the tracker's own callsign, over BLE those  *)
(* that the slot has not lost (encapsulateKISS(), decapsulateKISS(), the   *)
(* parsers, sendToLoRa()).                                                 *)
FramesArrive ==
  odd = {} => /\ ~IsBLE /\ rest = <<>> =>
                   ToSet(keyed) = IF kind = "socket" THEN ToSet(begun) \ Own ELSE ToSet(begun)
              /\ \A i, j \in DOMAIN keyed : i < j => Place(keyed[i]) < Place(keyed[j])
              /\ \A i \in DOMAIN keyed : Place(keyed[i]) > 0

(* Whatever has gone over the socket before, the third packet between its  *)
(* own FENDs and every one after it gets through, unless its sender is the *)
(* tracker itself (handleInputChar()).                                     *)
SocketRecovers ==
  kind = "socket" /\ rest = <<>> /\ streak >= 3 /\ Last(begun) \notin Own
    => keyed # <<>> /\ Last(keyed) = Last(begun)

(* The link is open only to a phone whose user knows the PIN in force, not *)
(* to one that has a bond from before, through every crash of the boot     *)
(* (enforceBondPolicy(), onAuthenticationComplete()).                      *)
OnlyPairedPhones ==
  bluetoothConnected /\ PinRequired => policy \in Knows[active]

(* A phone that does not pair does not keep the single connection of an    *)
(* ESP32 (startPinPairingTimer(), onPinPairingTimeout()); the nRF52 has no *)
(* timer for it.                                                           *)
ConnectionIsFreed ==
  kind = "esp32" /\ active # NoPhone ~> bluetoothConnected \/ active = NoPhone

(* What goes out is a packet of the host ("KISS data frame queued",        *)
(* ble_utils.cpp:680).                                                     *)
OnlyPacketsAreKeyed ==
  \A i \in DOMAIN keyed : \E j \in DOMAIN begun : keyed[i] = begun[j]
=============================================================================
