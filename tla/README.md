# A formal model of the LoRa FieldOps APRS tracker firmware

This directory holds TLA+ modules that model the firmware under `src/`, TLC
configurations that check them on small instances, and proofs that TLAPS checks
for every value of the constants. Paths below are relative to the repository
root (`src/digi_utils.cpp` is the C++ file of that name).

## 1. The system

The firmware runs on ESP32 and nRF52 boards with a LoRa radio. After `setup()`
one task executes `loop()` (`src/main.cpp:243`) for ever; interrupts, the
Bluetooth stack and (on boards with a web page) a web-server task run besides it.
One pass of `loop()` does, in this order: feed the watchdog, the serial console,
the button, poll the radio and hand a received packet to the heard log, the
digipeater, the iGate, the KISS clients and the query handler, the deferred
reboot, packets from the phone, the tasks of the device's role (beacon timer,
WiFi, APRS-IS, KISS clients), the output queue, the smart beacon.

| Component | State it keeps | Operations | Hard behaviour | What makes it correct |
|---|---|---|---|---|
| Duplicate filter (`include/dedup_utils.h`) | ring of 50 (hash, stamp), head | `isNew` | eviction, wrap of `millis()` | a packet comes through twice within 60 s only by eviction; a refusal has a cause |
| Digipeater (`src/digi_utils.cpp`) | one filter | `processLoRaPacket` | copies over several paths, failed allocation | no loop, a hop spent for every relay |
| Output queue (`src/station_utils.cpp:62-146`) | queue of 20, stamps | `addToOutputPacketBuffer`, `processOutputPacketBuffer` | sentinel 0, wrap, busy channel | FIFO with loss of the oldest, gap, quiet window, no starvation |
| Radio driver (`src/lora_utils.cpp`) | `operationDone`, `transmitFlag`, CAD bookkeeping | `receivePacket`, `sendNewPacket` | interrupt against loop, one flag for three events, watchdog | the receiver is not left with an interrupt nobody serves, no invented reception, listen before talk, the receiver comes back |
| Messages and queries (`src/query_utils.cpp`) | one filter | `processLoRaPacket` | repeats, full queue | every copy acked, ack before reply, executed once |
| Remote configuration (`src/remote_cfg_utils.cpp`) | window, lockout, cooldown, reboot time | CSR, CSU, CSW, `pollReboot` | interleaved senders, expiry, reboot | writes only in the window, whole batches, lockout |
| Beaconing (`src/station_utils.cpp`, `src/smartbeacon_utils.cpp`, `src/gps_utils.cpp`) | `lastTxTime`, `sendUpdate`, `updateCounter`, `phgLastTx` | beacon triggers of loop, role, button, web | several triggers for one timer, a second task that puts stamps back | no double beacon, no lost beacon, comments in turn |
| Heard stations (`src/station_utils.cpp:149-280`) | ring of 20 stations | `updateLastHeard`, `minutesSinceHeard`, `wasHeardDirect` | update in place, eviction by position | one entry per station, the last packet of each |
| Role and WiFi (`src/device_role.cpp`, `src/wifi_utils.cpp`) | attempt stamp, index, flags | `initializeIGate`, `tickWiFiReconnect`, `handleIGateTasks` | drop against timeout, sentinel 0, list edited meanwhile | every network is tried, the link comes back |
| APRS-IS (`src/aprs_is_utils.cpp`) | socket, `passcodeValid`, `awaitingVerify`, timers, filter | connect, verify, uplink, downlink, answer | two readers of one socket, drops, gates that hear each other | the session comes back, no packet goes round |
| KISS transports (`src/kiss_utils.cpp`, `src/tcp_kiss_utils.cpp`, `src/ble_utils.cpp`, `src/serial_setup.cpp`) | frame buffers, one-packet slot, bonds and their policy | parsers, `onWrite`, `sendToLoRa`, boot, pairing | callback task against loop, reboot between two writes to flash | frames whole and in order, only paired phones, no phone keeps the link |
| Configuration store (`src/configuration.cpp`) | the file and `Config` | `readFile`, `writeFile`, boot, and every caller that saves | power failure during a write, two writers, migration, values changed as they are read, rewrite and restart | what is clean is saved, a cut costs defaults, digits and list entries only, the boot ends |
| Web, OTA, log (`src/web_utils.cpp`, `src/log_buffer.cpp`) | update state, ring of 50 lines | handlers, flush | second task | see Beaconing and Configuration store |
| Serial console (`src/serial_setup.cpp`) | mode, `dirty`, paste buffer | commands | paste cut off, edits between passes | see Configuration store |
| Thermal, battery, power, LED, display, packet library | | | | see section 8 |

The components meet in five places: the output queue (digipeater, acks, replies),
the direct call of `sendNewPacket()` (beacons, button, web, KISS, downlink), the
configuration (written by web, serial console and remote configuration, read by
all), the beacon timer, and the duplicate filter, a type of which each of digipeater,
iGate and query handler has an instance of its own.

`PROJECT.json` lists the hazards, each at its line, with the properties that
would catch it.

## 2. Modules

| Module | Models | Composes |
|---|---|---|
| `DedupRing` | the filter as operators on its data | |
| `PacketDedup` | one filter and its calls, with their history; the abstract machine the others refine | `DedupRing` |
| `DigiPath` | the path rewriting, as pure operators | |
| `DigiNetwork` | several digipeaters, the trackers around them and a lossy channel | `DedupRing`, `DigiPath`; `PacketDedup` as refinement |
| `TxFifo` | abstract: a bounded FIFO that loses its oldest | |
| `TxQueue` | the output queue with its clock | `TxFifo` as refinement |
| `Radio` | the radio driver, the chip, its interrupt and the watchdog | |
| `RemoteCfg` | the remote configuration, as operators on its state | |
| `Messages` | the message handler, with the filter, the remote configuration, the output queue and the reboot | `DedupRing`, `RemoteCfg` |
| `Beaconing` | the triggers and timers of the device's own beacons, with two tasks that transmit | |
| `IGateLink` | WiFi reconnection and the session above it, with access points, server and console around them | |
| `HeardLog` | the heard stations, as operators on the ring | |
| `LastHeard` | abstract: the last packet of every station ever heard, and which stations are remembered | |
| `Gateway` | several iGates between one channel and APRS-IS | `DedupRing`, `HeardLog`; `LastHeard` as refinement |
| `KissFraming` | escaping and the three parsers, as operators | |
| `Transports` | a KISS host over socket, serial port or BLE, with the slot, the bonds and the pairing timer | `KissFraming` |
| `ConfigStore` | the file, its readers and writers, and every way down | |
| `DigiNetwork_proofs`, `TxQueue_proofs`, `Radio_proofs`, `Messages_proofs`, `Beaconing_proofs`, `Gateway_proofs`, `Transports_proofs`, `ConfigStore_proofs` | proofs about the module of that name; the first also about `DigiPath` and `PacketDedup` | |
| `MCDigiNetwork`, `MCTxQueue`, `MCMessages`, `MCBeaconing`, `MCIGateLink`, `MCGateway`, `MCTransports`, `MCConfigStore` | values of the constants for TLC | |

How they correspond to the code (line by line in `PROJECT.json`, "map"):

**`DedupRing`, `PacketDedup`.** `buf` and `head` are the fields of the struct.
`Accept` is `isNew()` answering true, `Suppress` is `isNew()` answering false. A
hash is any 32-bit word, 0 included: djb2 is abstracted to its result, so that
two packets of one hash are one packet, as they are for the code. `clock`,
`accepted` and `suppressed` are history; the code sees `clock % Wrap`.

**`DigiPath`, `DigiNetwork`.** A path is a sequence of hops (a name and the `*`).
`Stamp` keeps the order in which the code looks for the aliases, the global
`String::replace` (`Replace`, which stamps every hop of the name and so grows the path), and the refusal of a used alias; `StampOutOfMemory` is the
same call when the replacement fails for lack of memory, where the code's check
finds the callsign only if it was in the path before. A frame carries its first path and, as history,
`trips`, the relays it has made. `Ignore`, `DropDuplicate`
and `Process` are the three ways through `processLoRaPacket()`; `SendOwnBeacon`
registers the beacon in the filter as `sendBeacon()` does; `KeyNext` is the output
queue without its timing, which `TxQueue` has. `OnAir` lets any part of the
stations in range receive a frame and overwrites a frame not yet read.

**`TxQueue`.** The variables have the names of the code. `Enqueue` is
`addToOutputPacketBuffer()`, `Key` is `processOutputPacketBuffer()` past its early
returns (it blocks for the airtime), `RxActivity` is `receivePacket()` consuming an
interrupt, `Tick` a millisecond of the rest of `loop()`. The clock is cyclic. The four
"true" ages are stopwatches that stop at `Longest`; properties are stated over
them so that they do not repeat the code's wrapped arithmetic.

**`Radio`.** `pc` is where `loop()` is; each interrupt-visible step of
`receivePacket()`, `doDIFS()`, `doBEB()` and `sendNewPacket()` is an action,
and `Arrive` (the interrupt of a received frame) may come between any two.
Time is counted in CAD scans. RadioLib and the chip are external: a rising edge of
the line calls `setFlag()`, a call that ends clears the line.

**`RemoteCfg`, `Messages`.** `RemoteCfg` is a set of operators: each handler maps
the file-scope state and the configuration to a new state, configuration and
reply. `Messages` applies them to copies of messages in any order: `Ignore`,
`Repeat`, `Converse` and `Command` are the ways through `processLoRaPacket()`,
`KeyNext` drains the queue, `Reboot` is `pollReboot()`. `keyed`, `lost` and `owed` are history: what
went out, the acks that a full queue displaced, and the messages of which a copy has come
since their last ack was keyed, displaced or lost in a reboot.

**`Beaconing`.** `pc` is where a pass of `loop()` is: `Request` is the console, the
button or a query, `Trigger`, `Interval` and `Phg` are `handleRoleSpecificTasks()`, the
`Sense` actions are the end of the pass with a GPS, `TrackerInterval` the end
without. A transmission blocks its task, so `job[t]` holds it: begun (with the count and
the stamp that `sendCommentBeaconNow()` and `sendStatusBeaconNow()` save),
`Sent` when `sendNewPacket()` returns and the stamps are written, `Restore` when
an on-demand beacon puts back what it saved. `WebRequest` is the web server's task,
which may do so in the middle of any of this. `timer` and `phgTimer` are the ages of
`lastTxTime` and `phgLastTx`. `SmartInterval` is `checkInterval()` with C's division.
The last three variables are history: `sinceScheduled` is what `lastTxTime`
would be if beacons on demand did not touch it.

**`IGateLink`.** `pc` goes once through `initializeIGate()` (`ConnectSTA`, `StartIGate`) and
then round `loop()`: `HandleIGateTasks` is `tickWiFiReconnect()`, the start of the services
on a first connection and `checkConnection()` with `tickVerify()` in it; `ListenAPRSIS`
empties the socket, the verdict of the server included when it comes too late for
`tickVerify()`, and lets time go on. A stamp is kept as its age; the stamp 0, with which
the code says "at once", has the uptime for its age, as it has in the code.
The WiFi core (which retries a lost association by itself until `WiFi.disconnect(true)`),
the access points, the server and the console are the environment.
`EditNetworks` is the console's `wifista add`, `remove` and `ssid`: they
change the list under the index of the current network without a restart.

**`HeardLog`, `LastHeard`, `Gateway`.** `HeardLog` keeps the head, the count and the walk backwards
from the newest insertion that every reader makes. `Gateway` puts that log and an upload
filter in each of several iGates: `Receive` is a received packet on its way through
`updateLastHeard()` and `processLoRaPacket()`, and `Skip`, `Answer` and `Downlink` are the ways
through `listenAPRSIS()`. A packet carries what these look at (sender, third-party
wrap, `TCPIP` in the header, direct or not, q construct) and, as history, the
borders it has crossed. The channel may deliver it directly, by a digipeater or not at all.
`last` is history that the ring has no part in: for every gate and station, the clock and the way of the last packet received.
`LastHeard` has one step, `Hear`, which puts the report of a packet both into that map and into
what is remembered.

**`KissFraming`, `Transports`.** A frame is a sequence of the bytes that framing tells
apart. `Parse` is both `handleInputChar()` and the serial loop, which differ in two things: the length from
which a FEND closes a frame (`LongerThan`), and the packets with the tracker's own callsign for sender, which
only the socket drops (`Refused`, `src/tcp_kiss_utils.cpp:46-51`); `ParseWrite` is the
loop of the two write callbacks with its ten rounds. `WriteStream` and `WriteBLE` hand over
any part of what the host has still to write. `StartSending`, `Key` and `DoneSending` are
`sendToLoRa()` around its transmission, during which the BLE task may run; `LoadPolicy` and
`RecordPolicy` are the two halves of `enforceBondPolicy()`, between which the
device may go down. Both BLE stacks are there: only the ESP32 has the pairing timer, only the
nRF52 removes the old record of the policy first.

**`ConfigStore`.** The file is a function from keys to values. A write is two actions
(`OpenFile`, `Flush`) because a power failure (`Crash`) or the other task may come between them:
`writing[t]` is the write of the console, the boot, the remote configuration or the
import in `loop()`, or of the web form in the web task. `OpenFile` also makes the document from `Config`,
as `writeFile()` does once the file is open; an edit after that is not in it. `Cut` is what a document cut
short leaves of itself: the keys before the cut (the parser keeps them, and `readFile()`
only logs its error) and perhaps, of the key at the cut, the first digits of a number of 32 bits (`Shortened`, `ShortVolts`) or
the first entries of the list of networks, the last of them without its password (`Broken`); a string goes as a whole.
`Read` and `Incomplete` are `readFile()` with its migrations, the values it changes and its `needsRewrite`. Eight settings stand
for the rest: one read as it is (the role), three migrated with a rewrite (the rate, the digipeater
mode, the networks) and one without (the path), one clamped with a rewrite (`Fit`, the slow rate of the custom
SmartBeacon profile, for its eight numbers), one raised without (`Upgraded`, the sleep voltage of the `T_BEAM_1W`), one that the
embedded default document of the nRF52 lacks. `Platform` tells the three kinds of board apart. The web form writes all settings, one of
them changed; the page's reboot is `WebReboot`. `wanted` and `cut` are history: what users
have asked the device to keep, and whether what is in the file was cut, by a failure or by two writers at once. A write that had the
file to itself and finds `Config` as its document has it (`Settles`) ends both: the
device was then asked for that alone. The writes of the boot sequence, which nobody asked for, are not among `wanted`.

## 3. What the runs check

| Run | Properties | What it shows |
|---|---|---|
| `digi` | `HopBudgetKept`, `NoLoop`, `EachDigiDeduplicates` | two digipeaters in range of each other, with losses, evictions, TTLs running out and a failed allocation: a relay is recorded in the path for every hop spent, and only a failed allocation makes one that spends none |
| `txqueue` | `QuietUnlessBacklogged`, `GapBetweenKeyings`, `ImplementsTxFifo`, `FrontLeaves` | the queue while the clock wraps again and again |
| `radio` | `NoLostWakeup`, `ReadsAreFresh`, `KeyedOnClearChannel`, `ListensAgain` | all interleavings of loop and interrupt, failing scans and transmissions |
| `messages` | `RepliesFollowAcks`, `CopiesAreAcked`, `ProcessedOnce`, `WriteNeedsUnlock`, `BatchIsAtomic`, `LockoutHolds` | two senders, any order and number of copies, a queue that displaces acks, and reboots: every copy has its ack in the queue, a reply goes out behind one unless that was displaced; a message is processed once, a batch whole and only by who is unlocked |
| `beacon` | `CommentIsRegular`, `BeaconsAreSpaced`, `FirstPositionIsReported`, `Advertises`, `PhgIsSent` | six devices (tracker with and without smart beacon, tracker at a fixed position, iGate, digipeater, no position source) with every trigger and beacons on demand from a second task |
| `link` | `EverySlotIsTried`, `LoginEndsInBeacon`, `Reconnects`, `SessionReturns` | access points that come and go, lost associations, a server that goes down or closes the session, verdicts at any time, an edit of the list |
| `gateway` | `NoGateLoop`, `EachGateRemembers` | two iGates in range of each other and of a digipeater, logins that are lost, renewed and unverified, with messages, commands and answers in both directions; what readers find in a heard log is each station's last packet |
| `transports` | `FramesArrive`, `SocketRecovers`, `OnlyPairedPhones`, `ConnectionIsFreed` | a host that cuts its frames anywhere, sends a command, an empty frame, one too long, a packet of the tracker's own callsign or a FEND of its own, or breaks off; on BLE, phones that pair or do not, PINs that change, reboots at any step |
| `store` | `CleanMeansSaved`, `CrashOnlyResets`, `BootSettles` | a `T_BEAM_1W`, the file of an early firmware with a number out of range, console, paste, remote write, web form and reboot, a power failure and a failed or short write |

The runs of `DigiNetwork`, `TxQueue`, `Messages`, `Beaconing` and `IGateLink` also check the
type invariant of the module; that of `Radio` is proved. Three runs are expected to fail; each states what a comment says:

| Run | Statement | What the code does |
|---|---|---|
| `messages_coords` | coordinates are never "silently stored but not active" (`src/remote_cfg_utils.cpp:311-313`) | `GS=0,LA=...` is accepted where the position was fixed |
| `link_unverified` | a session that is not verified "falls back to Rx-only / qAO uploads" (`src/aprs_is_utils.cpp:143-144`) | the search for `verified` also finds it in `unverified` |
| `transports_command` | what is queued is a "KISS data frame" (`src/ble_utils.cpp:679-680`) | a command takes the slot of a data frame that waits, whose flag sends it |

Other disagreements between the code and what is said of it. The first four have a property and a
configuration with which TLC shows the counterexample at once (`tlc -config digi_unstamped.cfg MCDigiNetwork` and so on); they
are not among the runs of `PROJECT.json`:

- A relay that could not be stamped is dropped: "Don't transmit with the alias unstamped"
  (`src/digi_utils.cpp:45-47`). The check behind it looks for the callsign anywhere in the path; where the digipeater has relayed the packet
  before, and its filter has forgotten it, the path has the callsign already, and the copy goes out with its
  alias unstamped and no hop spent (`NoUnstampedRelay`, `digi_unstamped.cfg`).
- A numbered message "is ACKed with `ackN` before any reply" (`README.md:433`). A full queue drops its oldest packet,
  which may be the ack, and the reply behind it goes out (`AckedBeforeReply`, `messages_displaced.cfg`);
- and the beacon that answers `?APRSP` is keyed at once and overtakes the queued ack
  (`src/query_utils.cpp:373`; `AckedBeforeBeacon`, `messages_beacon.cfg`).
- What the `T_BEAM_1W` raises is "a single-cell default stored in flash" (`src/configuration.cpp:283`), and "`save`
  persists to flash" (`README.md:361`), but any cutoff below 5 V that a user saved is raised to 6 V at every boot, and the file keeps
  the other value (`OnlyDefaultRaised`, `store_upgrade.cfg`).
- The 2 s after an ack that "give receiver time to re-arm RX" (`src/station_utils.cpp:67`) are
  counted from a stamp taken before the ack's own transmission (line 145).
- A busy channel "can never silence the tracker" (`src/lora_utils.cpp:49-51`), but two waits of 10 s
  in one pass reach the 20 s of the watchdog (line 338).
- The missing log "pinpoints the hang location" (`src/lora_utils.cpp:360-363`): a transmission
  that raises no interrupt leaves the receiver off with the log written, and nothing hangs.
- "restore timer so schedule is unaffected" (`src/station_utils.cpp:473`): a beacon on
  demand from the web task that overlaps one of `loop()` puts back a stamp older than it.
- The stamp of a PHG beacon "prevents a regular beacon from firing seconds after"
  (`src/station_utils.cpp:526-528`), but an update already wanted follows with the next position.
- `?APRSL` answers "newest first" (`src/query_utils.cpp:384`); the ring updates a station in
  place, so the order is that of first hearing.
- The pairing timer is there because a phone that never pairs "would otherwise hold the single
  connection slot forever" (`src/ble_utils.cpp:429-430`); the nRF52 half has none.
- `discard` says that it drops unsaved changes (`src/serial_setup.cpp:1025`); a save from the web or
  over the air, which writes the whole `Config`, has stored them by then.
- A pasted file of 8 to 16 KB is accepted, and the nRF52 formats the partition at the next
  boot because of it (`src/configuration.cpp:590`).
- After a parse error the log says that the default configuration is used
  (`src/configuration.cpp:200`); what was parsed before the error counts, a shortened number included.

## 4. Bounds

- `digi`: one slot per ring, so that a second packet evicts the first (with 50
  slots the same happens after 50); TTL 2 and a clock of 3 ticks, so that entries
  run out; queues of one, so that a relay is displaced; two transmissions by
  senders (`MaxSends`), enough for a packet, its repetition or its rival, with a path of three hops, so that a
  digipeater hears its own relay again by the other one; one failed
  allocation (`MaxFailures`). `Wrap` is above `MaxClock`; the wrap is covered by the
  proofs, which hold for every `Wrap`, TTL and number of slots.
- `txqueue`: a queue of two, so that the third packet displaces one; `Wrap` 6, so
  that the clock passes zero (the sentinel) and every stamp many times; windows
  of 1 to 2 ticks in the order they have in the code; nothing else is bounded.
- `radio`: the cap 4, the watchdog 8 scans (10 s against 20 s in the code), two
  transmissions in a pass (`SendsPerPass`); nothing else is bounded.
- `messages`: two tries before the lockout (five in the code), windows of 1 to 2
  ticks, a clock of 3 ticks in each life of the device (a reboot starts it anew,
  any number of times), two slots in the filter, a queue of two, seven messages:
  a right and a wrong token, a batch that is valid and reboots, one with a bad
  pair, a write by the wrong sender, a query that is answered by a beacon, an ack.
  Each may arrive any number of times. The valid batch has a number, and its ack and its reply fill the queue, so that
  the next answer displaces the ack.
- `beacon`: rates of 1 and 2 ticks in the order they have in the code, ages that stop at
  `Longest` 2, which no comparison of the code tells from more; a comment with every
  second beacon; a counter that wraps at 5 (256 in the code); four speeds, one in
  each branch of `checkInterval()`. The configured comment interval must be below
  the wrap of the counter (`BeaconingAssumption`): the code does not clamp it, and a
  larger one would never be reached. On-demand comments are not begun within one
  step of the wrap: two tasks that save each other's count can raise it by one each
  time, and following that up to the wrap would need as many overlaps as the counter is wide.
- `link`: the unit of time is the 15 s of a connection attempt; the cool-down and the retry of the
  session (30 s) are two, the wait for the verdict (5 s) less than one, and ages from 3 on are
  one, above every comparison. Two access points and a list of two that may grow to
  three, so that an index can lie past the end, a slot be skipped and the scan
  wrap; one edit; one line waiting.
- `gateway`: two gates, four packets (a message from RF, one from APRS-IS, a command, the answer), three
  events that are not reactions, so that a packet, its rival and a change of login meet; a
  filter of one slot and a log of two, so that both evict; a clock of two values
  and a window of one tick, so that a heard station can be too old.
- `transports`: buffers of 6 and 9 bytes (512 and 1024), three rounds (ten in the code; a write holds a piece
  of one frame only, for which two are enough); four packets with every byte that is escaped, one of them of the
  own callsign; a frame too long for either buffer; one odd thing per behaviour; one phone that knows the first of two PINs, and two reboots: one to change
  the PIN and one in the middle of what follows from that.
- `store`: one power failure, one failed or short write, two changes or saves, thirteen keys in one first file
  and one paste; the board is the one with the most ways of reading. The nRF52, which removes the old file first, starts from the embedded
  document and has no web task, is the constant `Platform`: the proofs are for every platform, and
  `store_nrf52.cfg`, which is not among the runs, checks the same three properties there. One failure suffices for a cut, and a second change
  for two writers; `CrashOnlyResets` compares with what was ever wanted, so that a chain of
  restarts after the cut is covered however long it is. `BootSettles` needs a file system that takes a whole document in the end: a
  write that fails at every boot (beyond `MaxFaults`) is followed by a restart for ever, which is what
  the code does (`src/configuration.cpp:413-421`). A write with the file open in both tasks counts as cut, so that
  `CleanMeansSaved` says nothing of what two overlapping writers leave, and `CrashOnlyResets` bounds it.
- Deadlock is not checked in the runs whose clocks, events or packets are bounded (`gateway`,
  `transports` and those before them with a clock): they end when the bounds are used up.

## 5. Fairness

`loop()` never returns and every call in it ends, so each step of `loop()` is weakly fair
in `TxQueue`, `Radio`, `Beaconing`, `IGateLink` (`Device`) and `ConfigStore` (`Device`: the boot,
the writes and the restarts). The rest:

- `TxQueue`: `Key` is strongly fair. The times at which the early returns let a packet pass come and go
  with the clock, and a pass of `loop()` takes milliseconds where each such time lasts, in
  the code's numbers, for up to 49 days; `WindowsMeet` says that they come at all.
- `Radio`: the watchdog's `Bite` is weakly fair, it is hardware.
- `Beaconing`: the end of a web transmission and `Tick` are weakly fair, the waits of a
  transmission are bounded. `SenseUpdate` is strongly fair: a pass may find no new position, but a
  receiver that is on reports one again and again. A tracker whose receiver never
  gets a fix has nothing to advertise, so that `Advertises` without a position
  is stated for iGates and digipeaters only.
- `IGateLink`: strong fairness of the pass in which time goes on keeps clocks from standing
  still, and strong fairness of `Join` says that a network in reach that is tried
  again and again is joined some time; without it no software reconnects. Nothing
  makes an access point, a server or its answer come: `Reconnects` and `SessionReturns` suppose them.
- `Transports`: an armed timer fires and what it decided is carried out (`PairingTimeout`,
  `TimeoutDisconnects`), the service of the ESP32's timers. No phone or host is fair.

Nothing makes a frame arrive, a handler send, a transmission succeed, a channel
become free, a user act or a failure happen.

## 6. What is proved

Each proof module extends the module it is about. Its assumptions are the named `ASSUME`s of that
module (they say which values the configuration can have, and TLC evaluates them in the
runs); everything else is for every value of the constants, the two model bounds
`MaxClock` and `MaxEvents` and the like included.

| Property | Theorem |
|---|---|
| `DigiNetwork`: `TypeOK`, `HopBudgetKept`, `NoLoop`, `EachDigiDeduplicates` | `SpecTypeOK`, `SpecHopBudgetKept`, `SpecNoLoop`, `SpecEachDigiDeduplicates` |
| `PacketDedup`: `RepeatNeedsEviction`, `SuppressionHasCause` | `SpecFilters` (every digipeater), `FilterCorrect` (one filter by itself) |
| `TxQueue`: `TypeOK`, `QuietUnlessBacklogged`, `GapBetweenKeyings`, `ImplementsTxFifo` | `SpecTypeOK`, `SpecQuiet`, `SpecGap`, `SpecImplementsTxFifo` |
| `Radio`: `TypeOK`, `NoLostWakeup`, `ReadsAreFresh`, `KeyedOnClearChannel` | `TypesOK`, `WakeupsKept`, `FreshReads`, `ClearWhenKeyed` |
| `Messages`: `TypeOK`, `RepliesFollowAcks`, `CopiesAreAcked`, `ProcessedOnce`, `WriteNeedsUnlock`, `BatchIsAtomic`, `LockoutHolds` | `TypesOK`, `RepliesAfterAcks`, `CopiesGetAcks`, `NothingProcessedTwice`, `WritesNeedUnlock`, `BatchesAreAtomic`, `LockoutsHold` |
| `Beaconing`: `TypeOK`, `CommentIsRegular`, `BeaconsAreSpaced`, `FirstPositionIsReported` | `SpecTypeOK`, `SpecCommentIsRegular`, `SpecBeaconsAreSpaced`, `SpecFirstPositionIsReported` |
| `Gateway`: `NoGateLoop`, `EachGateRemembers` | `NoLoopOfGates`, `LogsRememberStations` |
| `Transports`: `OnlyPairedPhones`, `FramesArrive`, `SocketRecovers` | `LinkIsPaired`, `SpecFramesArrive`, `SpecSocketRecovers` |
| `ConfigStore`: `CleanMeansSaved`, `CrashOnlyResets` | `SpecCleanMeansSaved`, `SpecCrashOnlyResets` |

Every invariant called inductive below was first checked by TLC on the run of its module.

The proofs about clocks rest on a few facts about `%`: a remainder is unique, the
difference of two stamps modulo 2^32 is the true difference while that is below 2^32, and grows
by what the clock grows by, modulo 2^32. Induction over data (the length of a path, the bytes of a
write) is done by least counterexample: a set of naturals that is not empty has a least member
(`LeastOf`, proved from the well-ordering that `Nat` inherits by ordinary induction), and a claim that fails
for some length fails for a least one.

**`DigiNetwork_proofs`** (from `NetworkAssumption`, `SlotsAssumption` and `WrapAssumption`; the first lets
senders use any aliases and own callsigns, but no alias twice in one path: with `WIDE1-1` twice,
`String::replace()` would stamp both at once and spend two hops for one relay). Three parts make
`IInv`. `FramesLawful` says of every frame anywhere, in the air, in an inbox or in an output queue, that the
relays its path records and the hops left add up to what the sender asked for, that it has made no more relays than those but for
one per failed allocation, that its aliases are distinct, and
that a digipeater stands in it as often as it logged a relay of it, at most. What keeps
it so is `ReplaceCount`, proved by induction over the length of the path: each occurrence of the alias becomes
a stamped callsign, with the rest of the alias behind it where there is one, so that only the counts of these names change.
`FiltersInStep` is `Ring` for the filter of every digipeater: the slot `d` writes behind the head holds
the `d`-th last packet it recorded, or is still blank, and what it answered lies in the past. The code keeps only the ring,
`RepeatNeedsEviction` and `SuppressionHasCause` speak of the history, so neither would be inductive without it.
A packet still in the window within the TTL makes `isNew()` say duplicate (`WindowSuppresses`), whatever
slot makes it say so is one of the window, and `NoLoop` follows for the network: no digipeater
relays a packet again before the TTL or `Slots` other packets. `SpecEachDigiDeduplicates` is the
refinement of `PacketDedup`, initial state and steps, one instance for each digipeater;
`FilterCorrect` proves the same two properties of `PacketDedup` by itself.

**`TxQueue_proofs`** (from `QueueAssumption` and `TimeAssumption`; the liveness alone
needs `WindowsMeet`). `QuietUnlessBacklogged` compares true ages, the code
compares wrapped ones. `AgesCovered` relates them: each wrapped age is at most the
stopwatch beside it unless the stopwatch stands at `Longest`, and the one of
`oldestQueuedMs` only while the queue is not empty, which is where the sentinel 0
would matter. `IdsInOrder` says that the waiting packets are consecutive numbers
that end before `next`. With them `SpecQuiet`, `SpecGap` and the refinement
`SpecImplementsTxFifo` follow for every clock width, window, airtime and queue
length.

**`Beaconing_proofs`** (from `BeaconingAssumption`). `CommentIsRegular` counts beacons since
the last comment, which the code does not keep: `updateCounter` also counts
beacons on demand and takes their counts back. `CountsCover` says that neither the
counter nor any count saved for later is below the true number, as long as the
beacons that overlapped are left out; with the types it is inductive.
`FirstPositionIsReported` needs `PInv`: a tracker without a status text that has no
position yet has nothing on the air, in either task, and still wants its first update; whatever is
asked of it before finds nothing to send, so that no stamp clears `sendUpdate`.
`BeaconsAreSpaced` needs `SInv`: `timer` and every stamp saved for later are at most the time
since the last scheduled beacon, unless that one overlapped (`StampsAreYoung`); an
update that is wanted is one of boot, one whose interval has passed, or one on
the air (`UpdateIsOwed`). The second part fails on a device with PHG beacons (section 3),
and the property says so. `SmartIntervalWithinRates` is
about the arithmetic of `checkInterval()`: no zero divisor, no interval outside the
rates, for every profile and speed.

**`Radio_proofs`** (from `RadioAssumption`). The three properties speak of `pc`, the flags and the chip
at one moment; what makes them inductive is how these agree everywhere else. `FlagTellsMode`
says that outside a transmission reception runs exactly when `transmitFlag` is down, but for
the moment between `startReceive()` and the assignment behind it; `ModeFollowsSend`
says what the chip does at each place inside one; `FlagMeansFrame` says that while reception
runs only a frame raises the flag, which is why a CAD scan or a transmission
is never read out. For `KeyedOnClearChannel`, `ScansPay` counts: the clear scans in a row
make up for the DIFS slots and the backoff that are no longer wanted, and a backoff that is drawn
survives a busy channel. The flags never depend on a count, so that the two halves
(`FlagInv`, `ScanInv`) are proved apart.

**`Messages_proofs`** (from `MessagesAssumption`, `RemoteCfgAssumption` and those of the filter).
`WindowIsGranted` ties the open window to the last token that was accepted, and `LockoutIsCounted` the lockout and
the failure count to the wrong tokens since. What the handlers of `RemoteCfg` do is
stated once, outcome by outcome (`Idle`, `Shut`, `WritesThrough`, `Disabled`, `Unlocks`, `Fails`), and every
property is proved from these. `QueueIsOrdered` says that every queued reply to a numbered message stands behind an ack of it,
or that one was keyed or displaced: losing the oldest packet of a full queue keeps
that, and `RepliesFollowAcks` follows. `CopiesAreAcked` is inductive: a copy puts its ack at the end of the queue, where the
oldest are lost, not the newest, and an ack that is lost all the same is no longer owed. `ProcessedOnce` compares the history with a ring that overwrites its
oldest slot; `RememberedIsHeld` says in which slot the ring still holds what the history
remembers, counted back from the head. What a batch leaves is the last pair it has for each
code, which exists because a bounded set of positions has a largest member.

**`Gateway_proofs`** (from `GatewayAssumption`, `HeardSlotsAssumption`). `NoGateLoop` bounds how many
borders an item has crossed; `CrossingsAreMarked` says what it bears of that: whatever came down
from APRS-IS and is on the air has `TCPIP` in its header or is wrapped as third party, and whatever was gated up
has one of the q constructs that `listenAPRSIS()` skips. Each of the two checks refuses exactly
these, so nothing crosses twice. `LogsAreRings` is the shape of the heard-station ring: the slots below the
count hold one station each, and the head follows them until the ring is full. From it, `WalkOnto` shows
that the readers' walk from the newest insertion passes every entry, `FoundSlot` that it finds a
station in its only slot, and `UpdateHears` that `updateLastHeard()` does to the map from stations to
their last packets what `Hear` of `LastHeard` does: it replaces the station's report, or adds it while there is
room, or forgets the one station whose slot it takes. The history `last` knows no ring; `LogsHoldLast`, the last part of `IInv`,
says that what readers find of a station is what `last` has. `ReceivedIsHeard` shows that every `Receive` is a `Hear` of the
packet just received, `HeardByReceiving` that nothing else touches a log: an `updateLastHeard()` that
left a repeat out or kept a stamp would be neither. `LogsRememberStations` is the refinement, initial
state and steps.

**`Transports_proofs`** (from `TransportsAssumption` and `KissFramingAssumption`: packets are not empty, no two
are the same, their frames fit `KISS_BUF_SIZE`, and `Bytes` holds the special ones). A link is let in by what the bond says,
a bond is as old as the policy it was made under. `BondsFitRecord` says that every bond in flash was made with the PIN of
the recorded policy by a phone that knows it, and that there is none between the wipe and the record;
`UpWithRecord` that the service is up only with the record of this boot's policy. A crash between
the two writes, a failed wipe and an edit of the PIN keep both.

The framing is a second invariant, `FramingInv`, which relates what the host has still to write to what the
parser holds. `Frame(n)` is the frame of the `n`-th packet, `After(f, w)` what is left of it behind `w` bytes. Over a
stream that carried only packets the parser is `InStep`: it holds just what was written of the frame, and all packets
before it are keyed but those that the link refuses (`AllSent`): over a socket those of the own callsign, over the port none. Over a socket that carried something else it may hold one of the `Leftovers`, and then be
a byte ahead of the next frame or take the end of one frame for the beginning of the next (`OutOfStep`), but only
for two packets (`BetweenFrames`). Over BLE (`BleInv`, `WriteOK`) the buffer holds what was written, or nothing, or the last
`FEND` of a frame whose beginning was ignored; what is keyed comes in the order of the
packets, and so it does with the slot behind it when `sendToLoRa()` is going to read that (`Pending`). A
disconnection clears the parser and drops what was being written; that it happens to a BLE link only is part of `IInv`. The
proof goes byte by byte: `Escaped`, `Unescaped`, `Parse` and `TakeFrames` are shown to be tables of
their steps (`Table`), so that each can be taken one step further; `RoundTrip` then says
that a payload survives escaping and holds no bare `FEND`, `ByteInStep`, `ByteAhead`, `ByteBehind` and `ByteOdd` what one byte does to
the parser, and `TakenIs` what one write does to the buffer: two rounds are enough for a piece of one frame, so any
`MaxIterations` from 2 on will do. `FramesArrive` and `SocketRecovers` are what `FramingInv` says between two frames.

**`ConfigStore_proofs`** (from `StoreAssumption`: the files and pastes are documents of some generation of the
firmware, numbers are of 32 bits, and lists of networks are as every writer keeps them, at most five, each with a name). Both
properties speak of a device at rest, where the file
and `Config` can be compared; what holds while writes are under way is `IInv`. `BootAlone`: during boot only
`loop()` writes, and only what the boot asked for. `BothMixed`: two writes under way at once both know it. `SaveAsked`: what is
in `Config` during a save was asked for, since the console waits and the other task asks for what it changes.
`OneMeaning`: when all that users asked for is one configuration and nothing was cut, then the file means it, or that as
the firmware adjusts it, or a write under way will make
it so, and so does `Config` unless the console is dirty. `AllHarmless`: each setting of `Config` is, as it is or adjusted, the default,
or was asked for, or is what cuts have left of such a value (`Harmless`); and in the file and in what the boot writes it
may also be such a remainder that has not been read, and so not adjusted, yet (`Legible`).
The lemmas about the operators carry it. `ReadMeans`: whatever `readFile()` makes of a document, through
its older keys, is what the document means, adjusted. `CutSettings`: a cut document is a document again, in which
each setting is as before, at its default, or what the cut left of it; it uses that the older key stands behind the
newer one in the order of the file (`OlderKeysLater`), so that no cut brings an older value back. `WornAgain`: what a second cut
leaves of a remainder a first one could have left (`TrimmedTwice`, where
digits are lost in the minutes of an older file and again in seconds once rewritten; `SlowTwice`, where a shortened
number is clamped in between; `SleepTwice` and `BrokenTwice`).

## 7. What is only model-checked

- Liveness (`FrontLeaves`, `ListensAgain`, `Advertises`, `PhgIsSent`, `LoginEndsInBeacon`,
  `Reconnects`, `SessionReturns`, `ConnectionIsFreed`, `BootSettles`): the prover has no
  rule for fairness.
- `EverySlotIsTried` and the types of `IGateLink`. TLC checks them on the instances above.

## 8. What is abstracted or not modelled

- Text: packets, callsigns and replies are names; frames too short to parse
  are left out. `?PING` stands for all queries that are always answered through
  the queue. Four fields of the remote configuration stand for ten (one that
  reboots, the GPS source, a plain one, a coordinate); remote configuration
  is taken to be enabled.
- The indicator on the display, the mirrors of received packets to KISS clients and phones
  (`sendToClients()`, `sendToPhone()`): they change nothing these modules keep.
- Wraps: the clock of `Messages` and the uptime of `IGateLink` stay below the wrap, and so does the
  age of a heard station (after 49 days it would look fresh). Deadlines near the
  wrap are listed as a hazard.
- `Radio` has one actor that transmits; the web server's task, which may transmit
  beside `loop()`, is listed as a hazard: its effect on the radio library's own state lies outside `src/`.
  Sleep and change of frequency are left out.
- `Beaconing` leaves out the text of a beacon, the smoothing of speed and heading, the
  distance test, the start of the receiver, and changes of the configuration while
  it runs. A beacon registers itself in the digipeater's filter: `DigiNetwork`.
- `IGateLink` starts as an iGate and remains one: the boot-time access point, the scan for
  networks, and a role changed at run time are left out; a tracker or digipeater with WiFi
  runs the same reconnection without the session. `Gateway` leaves out the socket's filter for lines
  with the own callsign, and the server's own rejection of duplicates, which could only help.
- `Transports` leaves out Bluetooth Classic, which no target builds, the AX.25 form of a packet,
  an authenticated link that is downgraded, and a `String` that two tasks change
  at once: the slot is read and written as a whole. A serial port that has been left with the
  beginning of a frame swallows the next one, so that `SocketRecovers` speaks of the socket only. Nor does
  BLE recover by itself: a phone whose first bytes were ignored because it had not paired leaves the last `FEND`
  of that frame in the buffer, and from then on every frame is cut at the wrong `FEND` and dropped until
  it disconnects or overruns the buffer. The model has this state (`WriteOK`); `FramesArrive` asks of BLE only that what is keyed is whole, in order and not twice.
- `ConfigStore` takes lists of networks as the program's writers keep them: a nameless network or a sixth one, which only a
  file made by hand can have, is dropped by `readFile()` without a rewrite (console and form refuse them,
  `src/serial_setup.cpp:866-896`). A few fields whose default in `readFile()` differs from that of
  `setDefaultValues()` are not among the eight settings, nor is the BLE PIN with its own check. It leaves out a file system that cannot be mounted or formatted, the limits on the size of a
  file, the log mode of the console, and the rule that an unchecked box of the web form means false.
- The firmware update, the pages of the web server and its log stream are I/O. Display, LED, battery,
  fan, power chips and the packet library are not modelled: they draw, measure or format, and no
  other component reads what they keep.

## 9. What could follow

1. `IGateLink`: a proof of `EverySlotIsTried`, by how far `tried` has come round the list.
2. A second transmitting task in `Radio`, and in `Beaconing` a PHG rate below
   the beacon rate, with which PHG beacons keep resetting `lastTxTime` (the run has equal rates,
   and `Advertises` counts a PHG beacon as an advertisement).
