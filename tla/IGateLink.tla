----------------------------- MODULE IGateLink -----------------------------
(***************************************************************************)
(* How an iGate keeps its link to APRS-IS: the WiFi reconnection of        *)
(* device_role.cpp over the configured networks, and above it the TCP      *)
(* session of aprs_is_utils.cpp with its login, the verification of the    *)
(* passcode and the retry of a lost connection.  The console may edit the  *)
(* list of networks while all this runs.                                   *)
(*                                                                         *)
(* One unit of time is WIFI_CONNECT_TIMEOUT_MS.  A stamp is kept as its    *)
(* age, and ages above Old are not told apart; the age of the stamp 0 is   *)
(* the uptime.  The radio, the access points and the server are external:  *)
(* WiFi.begin() starts an attempt that may succeed while the network is in *)
(* reach, a lost association is retried by the WiFi core itself until      *)
(* WiFi.disconnect(true) stops it, and the server answers a login with     *)
(* "verified" or "unverified" when it likes.                               *)
(***************************************************************************)
EXTENDS Integers, Sequences, SequencesExt, FiniteSetsExt

CONSTANTS
  Ssids,          \* names of access points
  NoSsid,         \* a slot of the list without a name
  InitialList,    \* Config.wifiSTA.networks at boot
  MaxNetworks,    \* MAX_WIFI_NETWORKS
  MaxEdits,       \* model bound: edits of the list on the console
  MaxLines,       \* model bound: lines waiting in the socket
  ConnectTimeout, \* WIFI_CONNECT_TIMEOUT_MS
  RetryInterval,  \* WIFI_RETRY_INTERVAL_MS
  ReconnectDelay, \* RECONNECT_MS of aprs_is_utils.cpp
  VerifyTimeout,  \* VERIFY_TIMEOUT_MS
  Old             \* model bound: ages from here on are one

ASSUME IGateLinkAssumption ==
  /\ NoSsid \notin Ssids
  /\ InitialList \in Seq(Ssids \cup {NoSsid}) /\ Len(InitialList) \in 1 .. MaxNetworks
  /\ {MaxNetworks, MaxEdits, MaxLines, ConnectTimeout, RetryInterval, ReconnectDelay,
      VerifyTimeout, Old} \subseteq Nat
  /\ \A t \in {ConnectTimeout, RetryInterval, ReconnectDelay, VerifyTimeout} : t < Old

VARIABLES
  networks,            \* Config.wifiSTA.networks
  edits,               \* edits left
  reach,               \* access points in reach
  wifi, target,        \* the WiFi core: "off", "trying" or "up", and with whom
  wifiConnecting, currentNetworkIndex, wasConnected,
  wifiConnectAge,      \* millis() - wifiConnectTimestamp
  uptime,              \* millis()
  services,            \* networkServicesStarted
  serverUp,            \* the server accepts connections
  tcp, inbox,          \* aprsIsClient: connected(), lines not yet read
  awaitingVerify, passcodeValid, needsBeacon,
  verifyAge,           \* millis() - verifyStartTime
  connectTryAge,       \* millis() - lastConnectTry
  verdict,             \* what the server has said of this login
  pc,                  \* where setup() or loop() is
  tried                \* history: networks begun since the list was last started

list    == <<networks, edits>>
radio   == <<reach, wifi, target>>
link    == <<wifiConnecting, currentNetworkIndex, wasConnected, wifiConnectAge, tried>>
socket  == <<tcp, inbox, verdict>>
session == <<awaitingVerify, passcodeValid, needsBeacon, verifyAge, connectTryAge>>
vars    == <<list, radio, link, uptime, services, serverUp, socket, session, pc>>

Slots  == 0 .. Len(networks) - 1
Slot(i) == networks[i + 1]
Listed == {Slot(i) : i \in Slots} \ {NoSsid}
Ages   == 0 .. Old
Lines  == {"banner", "verified", "unverified"}
None   == -1

-----------------------------------------------------------------------------

Round(from, k) == (from + k) % Len(networks)

(* Mutant: a slot without a name is not skipped.                           *)
NextConfiguredAny(from) == IF networks = <<>> THEN None ELSE Round(from, 0)

(* Mutant: the search starts at the slot that has just failed.             *)
NextConfiguredAgain(from) ==
  LET Named == {k \in Slots : Slot(Round(from + Len(networks) - 1, k)) # NoSsid}
  IN  IF Named = {} THEN None ELSE Round(from + Len(networks) - 1, Min(Named))

(* nextConfiguredNetwork(): the first slot with a name from this one on,   *)
(* going round once.                                                       *)
NextConfigured(from) ==
  LET Named == {k \in Slots : Slot(Round(from, k)) # NoSsid}
  IN  IF Named = {} THEN None ELSE Round(from, Min(Named))

(* beginSTAConnect(i) and the bookkeeping around it.                       *)
Begin(i) ==
  /\ wifi' = "trying" /\ target' = Slot(i)
  /\ currentNetworkIndex' = i /\ wifiConnectAge' = 0 /\ wifiConnecting' = TRUE

(* tickWiFiReconnect(): the index brought back into the list, the edge of  *)
(* a drop, and then one of six ways out.  It returns TRUE (just) only when *)
(* an attempt of its own has succeeded.                                    *)
TickWiFiReconnect(just) ==
  LET connected == wifi = "up"
      dropped   == wasConnected /\ ~connected
      index     == IF dropped \/ currentNetworkIndex \notin Slots THEN 0
                   ELSE currentNetworkIndex
      age       == IF dropped THEN uptime ELSE wifiConnectAge
      trying    == wifiConnecting /\ ~dropped
      next      == NextConfigured(index + 1)
      first     == NextConfigured(index)
  IN  /\ wasConnected' = connected
      /\ just = (connected /\ trying)
      /\ \/ /\ connected
            /\ wifiConnecting' = FALSE
            /\ currentNetworkIndex' = index /\ wifiConnectAge' = age
            /\ UNCHANGED <<radio, tried>>
         \/ /\ ~connected /\ trying /\ age <= ConnectTimeout
            /\ currentNetworkIndex' = index /\ wifiConnectAge' = age
            /\ UNCHANGED <<radio, wifiConnecting, tried>>
         \/ /\ ~connected /\ trying /\ age > ConnectTimeout
            /\ next = None \/ next <= index
            /\ wifi' = "off" /\ wifiConnecting' = FALSE
            /\ currentNetworkIndex' = 0 /\ wifiConnectAge' = 0
            /\ UNCHANGED <<reach, target, tried>>
         \/ /\ ~connected /\ trying /\ age > ConnectTimeout
            /\ next > index
            /\ Begin(next) /\ tried' = tried \cup {Slot(next)}
            /\ UNCHANGED reach
         \/ /\ ~connected /\ ~trying /\ age < RetryInterval
            /\ currentNetworkIndex' = index /\ wifiConnectAge' = age
            /\ wifiConnecting' = FALSE
            /\ UNCHANGED <<radio, tried>>
         \/ /\ ~connected /\ ~trying /\ age >= RetryInterval /\ first # None
            /\ Begin(first) /\ tried' = {Slot(first)}
            /\ UNCHANGED reach
         \/ /\ ~connected /\ ~trying /\ age >= RetryInterval /\ first = None
            /\ currentNetworkIndex' = index /\ wifiConnectAge' = 0
            /\ wifiConnecting' = FALSE
            /\ UNCHANGED <<radio, tried>>

-----------------------------------------------------------------------------

(* The first "#" line with "verified" in it ends the reading: the lines    *)
(* before it are consumed, the lines behind it stay.                       *)
SaysVerified(line) == line \in {"verified", "unverified"}

UpToVerdict(lines) ==
  {i \in DOMAIN lines : SaysVerified(lines[i]) /\ \A j \in 1 .. i - 1 : ~SaysVerified(lines[j])}

(* connect(): one attempt; a login that got through starts the wait for    *)
(* the verdict.                                                            *)
Connect ==
  IF serverUp
  THEN /\ tcp' = TRUE /\ inbox' = <<>> /\ verdict' = "none"
       /\ passcodeValid' = FALSE /\ awaitingVerify' = TRUE /\ verifyAge' = 0
  ELSE /\ awaitingVerify' = FALSE
       /\ UNCHANGED <<socket, passcodeValid, verifyAge>>

(* Mutant: no timeout.                                                     *)
TickVerifyForEver ==
  LET found == UpToVerdict(inbox)
      valid == passcodeValid \/ found # {}
      ended == valid
  IN  /\ inbox' = IF found = {} THEN <<>>
                  ELSE SubSeq(inbox, (CHOOSE i \in found : TRUE) + 1, Len(inbox))
      /\ passcodeValid' = valid
      /\ awaitingVerify' = ~ended
      /\ needsBeacon' = ended
      /\ UNCHANGED <<tcp, verdict, verifyAge>>

(* tickVerify() on a live socket while a verdict is awaited.               *)
TickVerify ==
  LET found == UpToVerdict(inbox)
      valid == passcodeValid \/ found # {}
      ended == valid \/ verifyAge > VerifyTimeout
  IN  /\ inbox' = IF found = {} THEN <<>>
                  ELSE SubSeq(inbox, (CHOOSE i \in found : TRUE) + 1, Len(inbox))
      /\ passcodeValid' = valid
      /\ awaitingVerify' = ~ended
      /\ needsBeacon' = ended
      /\ UNCHANGED <<tcp, verdict, verifyAge>>

(* Mutant: the delay is begun anew in every pass.                          *)
StampedAlways(just, age) == 0

(* resetConnectTimer(), when the WiFi has just come back.                  *)
Stamped(just, age) == IF just THEN uptime ELSE age

(* checkConnection(), after resetConnectTimer() when the WiFi has just     *)
(* come back.  The beacon trigger was consumed earlier in the same pass.   *)
CheckConnection(just) ==
  LET age == Stamped(just, connectTryAge)
  IN  \/ /\ tcp /\ awaitingVerify
         /\ TickVerify
         /\ connectTryAge' = age
      \/ /\ tcp /\ ~awaitingVerify
         /\ needsBeacon' = FALSE /\ connectTryAge' = age
         /\ UNCHANGED <<socket, awaitingVerify, passcodeValid, verifyAge>>
      \/ /\ ~tcp /\ age < ReconnectDelay
         /\ awaitingVerify' = FALSE /\ needsBeacon' = FALSE /\ connectTryAge' = age
         /\ UNCHANGED <<socket, passcodeValid, verifyAge>>
      \/ /\ ~tcp /\ age >= ReconnectDelay
         /\ Connect
         /\ needsBeacon' = FALSE /\ connectTryAge' = 0

-----------------------------------------------------------------------------

Init ==
  /\ networks = InitialList /\ edits = MaxEdits
  /\ reach \in SUBSET Ssids /\ wifi = "off" /\ target = NoSsid
  /\ wifiConnecting = FALSE /\ currentNetworkIndex = 0 /\ wasConnected = FALSE
  /\ wifiConnectAge = 0 /\ uptime = 0 /\ connectTryAge = 0 /\ verifyAge = 0
  /\ services = FALSE /\ serverUp \in BOOLEAN
  /\ tcp = FALSE /\ inbox = <<>> /\ verdict = "none"
  /\ awaitingVerify = FALSE /\ passcodeValid = FALSE /\ needsBeacon = FALSE
  /\ pc = "boot" /\ tried = {}

(* initializeIGate(), first half: connectSTA() waits for the first network *)
(* of the list and gives up for good when it does not come.                *)
ConnectSTA ==
  LET first == NextConfigured(0)
  IN  /\ pc = "boot" /\ pc' = "role"
      /\ IF first = None
         THEN UNCHANGED radio
         ELSE /\ target' = Slot(first)
              /\ \/ Slot(first) \in reach /\ wifi' = "up"
                 \/ wifi' = "off"
              /\ UNCHANGED reach
      /\ UNCHANGED <<list, link, uptime, services, serverUp, socket, session>>

(* Second half: what the state of the WiFi is now decides.                 *)
StartIGate ==
  /\ pc = "role" /\ pc' = "tasks"
  /\ IF wifi = "up"
     THEN /\ Connect /\ services' = TRUE
     ELSE UNCHANGED <<socket, awaitingVerify, passcodeValid, verifyAge, services>>
  /\ UNCHANGED <<list, radio, link, uptime, serverUp, needsBeacon, connectTryAge>>

(* handleRoleSpecificTasks() of an iGate up to checkConnection().          *)
HandleIGateTasks ==
  /\ pc = "tasks" /\ pc' = "listen"
  /\ \E just \in BOOLEAN :
       /\ TickWiFiReconnect(just)
       /\ services' = (services \/ just)
       /\ IF wifi = "up"
          THEN CheckConnection(just)
          ELSE /\ needsBeacon' = FALSE
               /\ UNCHANGED <<socket, awaitingVerify, passcodeValid, verifyAge,
                              connectTryAge>>
  /\ UNCHANGED <<list, uptime, serverUp>>

Older(age, units) == IF age + units > Old THEN Old ELSE age + units

(* listenAPRSIS() reads the socket empty, "#" lines included; then the     *)
(* rest of the pass, in which at most one unit of time goes by.            *)
ListenAPRSIS(units) ==
  /\ pc = "listen" /\ pc' = "tasks"
  /\ inbox' = IF tcp /\ wifi = "up" THEN <<>> ELSE inbox
  /\ uptime' = Older(uptime, units)
  /\ wifiConnectAge' = Older(wifiConnectAge, units)
  /\ verifyAge' = IF awaitingVerify THEN Older(verifyAge, units) ELSE 0
  /\ connectTryAge' = Older(connectTryAge, units)
  /\ UNCHANGED <<list, radio, wifiConnecting, currentNetworkIndex, wasConnected, tried,
                 services, serverUp, tcp, verdict, awaitingVerify, passcodeValid,
                 needsBeacon>>

Device == ConnectSTA \/ StartIGate \/ HandleIGateTasks \/ \E units \in {0, 1} : ListenAPRSIS(units)

-----------------------------------------------------------------------------

(* An attempt succeeds, by begin() or by the core's own retry.             *)
Join ==
  /\ wifi = "trying" /\ target \in reach
  /\ wifi' = "up"
  /\ UNCHANGED <<list, reach, target, link, uptime, services, serverUp, socket,
                 session, pc>>

(* The association is lost; the socket may or may not survive it.          *)
Drop ==
  /\ wifi = "up" /\ wifi' = "trying"
  /\ \/ tcp' = FALSE /\ inbox' = <<>> /\ verdict' = "none"
     \/ UNCHANGED socket
  /\ UNCHANGED <<list, reach, target, link, uptime, services, serverUp, session, pc>>

Move ==
  /\ \E s \in Ssids : reach' = (reach \ {s}) \cup ({s} \ reach)
  /\ UNCHANGED <<list, wifi, target, link, uptime, services, serverUp, socket,
                 session, pc>>

(* The server goes down, or comes back; a session may end with it.         *)
ToggleServer ==
  /\ serverUp' = ~serverUp
  /\ tcp' = FALSE /\ inbox' = <<>> /\ verdict' = "none"
  /\ UNCHANGED <<list, radio, link, uptime, services, session, pc>>

CloseSession ==
  /\ tcp
  /\ tcp' = FALSE /\ inbox' = <<>> /\ verdict' = "none"
  /\ UNCHANGED <<list, radio, link, uptime, services, serverUp, session, pc>>

(* A "#" line arrives while one is waited for, the verdict once.  Later    *)
(* lines and traffic are read and forgotten as far as the link goes.       *)
Arrive ==
  /\ tcp /\ wifi = "up" /\ awaitingVerify /\ Len(inbox) < MaxLines
  /\ \E line \in Lines :
       /\ SaysVerified(line) => verdict = "none"
       /\ inbox' = Append(inbox, line)
       /\ verdict' = IF SaysVerified(line) THEN line ELSE verdict
  /\ UNCHANGED <<list, radio, link, uptime, services, serverUp, tcp, session, pc>>

(* The console: `wifista remove`, `add` and `ssid`, between two passes and *)
(* without a reboot.  An edit waives what tried is recorded for.           *)
EditNetworks ==
  /\ pc = "tasks" /\ edits > 0 /\ edits' = edits - 1
  /\ \/ \E i \in DOMAIN networks : networks' = RemoveAt(networks, i)
     \/ \E s \in Ssids :
          Len(networks) < MaxNetworks /\ networks' = Append(networks, s)
     \/ \E i \in DOMAIN networks, s \in Ssids \cup {NoSsid} :
          networks' = [networks EXCEPT ![i] = s]
  /\ tried' = Ssids
  /\ UNCHANGED <<radio, wifiConnecting, currentNetworkIndex, wasConnected, wifiConnectAge,
                 uptime, services, serverUp, socket, session, pc>>

Environment ==
  Join \/ Drop \/ Move \/ ToggleServer \/ CloseSession \/ Arrive \/ EditNetworks

Next == Device \/ Environment

(* loop() never stops, and time goes on.  A network in reach that is       *)
(* tried again and again is joined some time.                              *)
Fairness ==
  /\ WF_vars(Device)
  /\ SF_vars(ListenAPRSIS(1))
  /\ SF_vars(Join)

Spec == Init /\ [][Next]_vars /\ Fairness

-----------------------------------------------------------------------------

TypeOK ==
  /\ networks \in Seq(Ssids \cup {NoSsid}) /\ edits \in 0 .. MaxEdits
  /\ reach \in SUBSET Ssids /\ wifi \in {"off", "trying", "up"}
  /\ target \in Ssids \cup {NoSsid} /\ (wifi # "off" => target # NoSsid)
  /\ wifiConnecting \in BOOLEAN /\ wasConnected \in BOOLEAN /\ services \in BOOLEAN
  /\ currentNetworkIndex \in Nat
  /\ {wifiConnectAge, uptime, verifyAge, connectTryAge} \subseteq Ages
  /\ serverUp \in BOOLEAN /\ tcp \in BOOLEAN
  /\ inbox \in Seq(Lines) /\ Len(inbox) <= MaxLines
  /\ verdict \in {"none", "verified", "unverified"}
  /\ awaitingVerify \in BOOLEAN /\ passcodeValid \in BOOLEAN /\ needsBeacon \in BOOLEAN
  /\ pc \in {"boot", "role", "tasks", "listen"}
  /\ tried \in SUBSET Ssids

(* No slot is left out: the cool-down starts only after every configured   *)
(* network has been tried since the list was last started from its head    *)
(* (tickWiFiReconnect(), the wrap of nextConfiguredNetwork()).             *)
EverySlotIsTried ==
  [][wifi = "trying" /\ wifi' = "off" => Listed \subseteq tried]_vars

(* A login that lasts ends in the beacon trigger, with a verdict or        *)
(* without one, whoever reads the banner.                                  *)
LoginEndsInBeacon ==
  awaitingVerify ~> needsBeacon \/ ~tcp \/ wifi # "up"

(* A configured network that stays in reach is joined again after every    *)
(* drop, wherever in the list it is and whatever was edited before.        *)
Reconnects ==
  \A s \in Ssids : <>[](s \in Listed /\ s \in reach) => []<>(wifi = "up")

(* While the WiFi holds and the server answers, the session is taken up    *)
(* again after every loss.                                                 *)
SessionReturns ==
  <>[](wifi = "up" /\ serverUp) => []<>tcp

(* An unverified login is receive-only: uploads as qAO, no downlink, no    *)
(* remote configuration (README.md:472, aprs_is_utils.cpp:131).            *)
UnverifiedIsReceiveOnly ==
  tcp /\ passcodeValid => verdict = "verified"
=============================================================================
