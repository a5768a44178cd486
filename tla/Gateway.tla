------------------------------ MODULE Gateway ------------------------------
(***************************************************************************)
(* Several iGates between one radio channel and APRS-IS.  Each gates what  *)
(* it hears to the server (processLoRaPacket() of aprs_is_utils.cpp) and   *)
(* messages from the server to stations it has heard (listenAPRSIS()),     *)
(* keeps the heard-station log and the duplicate filter of its uploads,    *)
(* and answers what is addressed to itself.                                *)
(*                                                                         *)
(* A packet is a sender with an information field; a frame on the air is   *)
(* a packet with what the gates look at: the sender in its header, whether *)
(* it is wrapped as third party, whether its header has TCPIP in it, and   *)
(* whether it came without a hop.  A line of APRS-IS is a packet with its  *)
(* q construct.  trip records which borders it has crossed on its way.     *)
(* The channel and the server are external: both lose and reorder, and the *)
(* server passes a line on to any of the other clients.                    *)
(***************************************************************************)
EXTENDS DedupRing, HeardLog

CONSTANTS
  Gates,         \* callsigns of the iGates
  Packets,
  Sender,        \* [Packets -> callsigns]
  Addressee,     \* [Packets -> callsigns], NoOne for a packet that is no message
  Hash,          \* [Packets -> Word]: the djb2 hash of sender and payload
  NoOne,
  NoGate,        \* packets that say NOGATE
  Commands,      \* packets that unlock or write the remote configuration
  Reply,         \* [Packets -> Packets]: the answer to a packet
  FromRF,        \* packets that begin on the radio channel, beacons of gates included
  FromIS,        \* packets that begin at a client of APRS-IS
  DownlinkEnabled, \* Config.aprsIS.downlinkEnabled
  HeardWindow,   \* HEARD_WINDOW_MS
  MaxClock,      \* model bound
  MaxEvents      \* model bound: packets begun and changes of a session

ASSUME GatewayAssumption ==
  /\ Sender \in [Packets -> STRING] /\ Addressee \in [Packets -> STRING]
  /\ Hash \in [Packets -> Word] /\ Reply \in [Packets -> Packets]
  /\ NoGate \cup Commands \cup FromRF \cup FromIS \subseteq Packets
  /\ DownlinkEnabled \in BOOLEAN
  /\ {HeardWindow, MaxClock, MaxEvents} \subseteq Nat
  /\ MaxClock < Wrap

VARIABLES
  clock,
  heard,      \* gate -> heard-station log
  dedup,      \* gate -> igDedup
  connected,  \* gate -> aprsIsClient.connected()
  valid,      \* gate -> passcodeValid
  inbox,      \* gate -> frame it has received and not handled, a set of one or none
  socket,     \* gate -> line waiting in its socket, a set of one or none
  outQueue,   \* gate -> packets in the output buffer
  events,     \* packets begun and changes of a session so far
  last        \* history: gate -> station -> the last packet received from it

session == <<connected, valid>>
vars    == <<clock, heard, dedup, session, inbox, socket, outQueue, events, last>>

Calls == Gates \cup {Sender[p] : p \in Packets}
Fresh(p) == [pkt |-> p, from |-> Sender[p], wrapped |-> FALSE, marked |-> FALSE,
             direct |-> TRUE, trip |-> <<>>]
NoBox == [g \in Gates |-> {}]

(* History: when the packet that just came in did so, and which way.       *)
HeardNow(g, frame) ==
  last' = [last EXCEPT ![g] =
             [c \in DOMAIN last[g] \cup {frame.from} |->
                IF c = frame.from THEN [at |-> clock, direct |-> frame.direct]
                ELSE last[g][c]]]

-----------------------------------------------------------------------------

(* A frame on the air: each other gate hears it directly, through a digi,  *)
(* or not at all.                                                          *)
OnAir(from, frame) ==
  \E way \in [Gates \ {from} -> {"direct", "digi", "lost"}] :
    inbox' = [g \in Gates |->
                IF g = from THEN inbox[g]
                ELSE IF way[g] = "lost" THEN inbox[g]
                ELSE {[frame EXCEPT !.direct = way[g] = "direct"]}]

(* The server passes a line on to other clients; a gate that has not read  *)
(* its last line yet is taken not to get this one.                         *)
Passed(line, from, pending) ==
  \E to \in SUBSET {g \in Gates \ {from} : connected[g] /\ pending[g] = {}} :
    socket' = [g \in Gates |-> IF g \in to THEN {line} ELSE pending[g]]

(* isNew() of the upload filter.                                           *)
IsNew(g, p) == ~Holds(dedup[g].buf, Hash[p], clock)

Remembered(g, p) ==
  [buf  |-> Recorded(dedup[g].buf, dedup[g].head, Hash[p], clock),
   head |-> NextSlot(dedup[g].head)]

(* uploadSelfBeacon(): registered in the filter, sent whatever it says.    *)
UploadSelf(g, p) ==
  IF connected[g]
  THEN /\ dedup' = IF IsNew(g, p) THEN [dedup EXCEPT ![g] = Remembered(g, p)] ELSE dedup
       /\ Passed([pkt |-> p, q |-> "none", trip |-> <<>>], g, socket)
  ELSE UNCHANGED <<dedup, socket>>

(* Mutant: no look at the information field.                               *)
IsEchoByHeader(g, frame) == frame.from = g \/ frame.marked

(* What processLoRaPacket() refuses to gate: the echo of a packet of our   *)
(* own, and anything that bears the mark of APRS-IS.                       *)
IsEcho(g, frame) == frame.from = g \/ frame.marked \/ frame.wrapped

Gated(g, frame) ==
  /\ connected[g] /\ frame.pkt \notin NoGate
  /\ ~IsEcho(g, frame)
  /\ IsNew(g, frame.pkt)

-----------------------------------------------------------------------------

Init ==
  /\ clock = 0 /\ events = 0
  /\ heard = [g \in Gates |-> EmptyLog]
  /\ dedup = [g \in Gates |-> [buf |-> [k \in Slot |-> Blank], head |-> 0]]
  /\ connected = [g \in Gates |-> TRUE] /\ valid = [g \in Gates |-> FALSE]
  /\ inbox = NoBox /\ socket = NoBox /\ outQueue = NoBox
  /\ last = [g \in Gates |-> <<>>]

(* A station sends, or a gate sends its beacon, which it uploads as well.  *)
SendOnRF(p) ==
  /\ p \in FromRF /\ events < MaxEvents /\ events' = events + 1
  /\ OnAir(Sender[p], Fresh(p))
  /\ IF Sender[p] \in Gates THEN UploadSelf(Sender[p], p) ELSE UNCHANGED <<dedup, socket>>
  /\ UNCHANGED <<clock, heard, session, outQueue, last>>

(* A client of APRS-IS sends, or a gate of another make gates the packet   *)
(* to RF under its own header, with TCPIP in the path.                     *)
SendOnIS(p) ==
  /\ p \in FromIS /\ events < MaxEvents /\ events' = events + 1
  /\ \/ Passed([pkt |-> p, q |-> "none", trip |-> <<>>], Sender[p], socket)
        /\ UNCHANGED inbox
     \/ /\ OnAir(Sender[p], [Fresh(p) EXCEPT !.marked = TRUE, !.trip = <<"down">>])
        /\ UNCHANGED socket
  /\ UNCHANGED <<clock, heard, dedup, session, outQueue, last>>

(* loop() with a received packet: updateLastHeard() and then the upload.   *)
Receive(g) ==
  \E frame \in inbox[g] :
    /\ inbox' = [inbox EXCEPT ![g] = {}]
    /\ heard' = [heard EXCEPT ![g] = UpdateLastHeard(@, frame.from, clock, frame.direct)]
    /\ HeardNow(g, frame)
    /\ IF Gated(g, frame)
       THEN /\ dedup' = [dedup EXCEPT ![g] = Remembered(g, frame.pkt)]
            /\ Passed([pkt |-> frame.pkt, q |-> IF valid[g] THEN "qAR" ELSE "qAO",
                       trip |-> Append(frame.trip, "up")], g, socket)
       ELSE UNCHANGED <<dedup, socket>>
    /\ UNCHANGED <<clock, session, outQueue, events>>

(* What listenAPRSIS() skips: what came from RF, what is ours, what is no  *)
(* message.                                                                *)
Skipped(g, line) ==
  \/ line.pkt \in NoGate \/ line.q \in {"qAR", "qAO"}
  \/ Sender[line.pkt] = g \/ Addressee[line.pkt] = NoOne

(* Whether a message goes out over RF: only with a verified login, to a    *)
(* station heard directly, from one that is not heard itself.              *)
Relayed(g, p) ==
  /\ DownlinkEnabled /\ valid[g]
  /\ ~HeardSince(heard[g], Sender[p], clock, HeardWindow)
  /\ WasHeardDirect(heard[g], Addressee[p], clock, HeardWindow)

Read(g, line) ==
  /\ connected[g] /\ line \in socket[g]
  /\ UNCHANGED <<clock, heard, session, events, last>>

Skip(g) ==
  \E line \in socket[g] :
    /\ Read(g, line)
    /\ \/ Skipped(g, line)
       \/ Addressee[line.pkt] # g /\ ~Relayed(g, line.pkt)
    /\ socket' = [socket EXCEPT ![g] = {}]
    /\ UNCHANGED <<dedup, inbox, outQueue>>

(* Addressed to this gate: a command over an unverified login is refused   *)
(* with an upload, anything else is answered on RF and by upload.          *)
Answer(g) ==
  \E line \in socket[g] :
    LET p       == line.pkt
        refused == ~valid[g] /\ p \in Commands
        answer  == [pkt |-> Reply[p], q |-> "none", trip |-> <<>>]
    IN  /\ Read(g, line) /\ ~Skipped(g, line) /\ Addressee[p] = g
        /\ outQueue' = IF refused THEN outQueue ELSE [outQueue EXCEPT ![g] = @ \cup {Reply[p]}]
        /\ dedup' = IF ~refused /\ IsNew(g, Reply[p])
                    THEN [dedup EXCEPT ![g] = Remembered(g, Reply[p])] ELSE dedup
        /\ Passed(answer, g, [socket EXCEPT ![g] = {}])
        /\ UNCHANGED <<inbox>>

(* A message for a station on RF, wrapped as third party.                  *)
Downlink(g) ==
  \E line \in socket[g] :
    LET p == line.pkt
    IN  /\ Read(g, line) /\ ~Skipped(g, line) /\ Addressee[p] # g /\ Relayed(g, p)
        /\ OnAir(g, [pkt |-> p, from |-> g, wrapped |-> TRUE, marked |-> FALSE,
                     direct |-> TRUE, trip |-> Append(line.trip, "down")])
        /\ socket' = [socket EXCEPT ![g] = {}]
        /\ UNCHANGED <<dedup, outQueue>>

(* processOutputPacketBuffer().                                            *)
KeyNext(g) ==
  \E p \in outQueue[g] :
    /\ outQueue' = [outQueue EXCEPT ![g] = @ \ {p}]
    /\ OnAir(g, Fresh(p))
    /\ UNCHANGED <<clock, heard, dedup, session, socket, events, last>>

(* A session ends with its unread lines, or begins and is verified or not. *)
SessionChanges(g) ==
  /\ events < MaxEvents /\ events' = events + 1
  /\ \/ ~connected[g] /\ connected' = [connected EXCEPT ![g] = TRUE]
        /\ valid' = [valid EXCEPT ![g] = FALSE]
     \/ connected[g] /\ ~valid[g] /\ UNCHANGED connected
        /\ valid' = [valid EXCEPT ![g] = TRUE]
     \/ connected[g] /\ connected' = [connected EXCEPT ![g] = FALSE] /\ UNCHANGED valid
  /\ socket' = [socket EXCEPT ![g] = {}]
  /\ UNCHANGED <<clock, heard, dedup, inbox, outQueue, last>>

Advance ==
  /\ clock < MaxClock /\ clock' = clock + 1
  /\ UNCHANGED <<heard, dedup, session, inbox, socket, outQueue, events, last>>

Next ==
  \/ \E p \in Packets : SendOnRF(p) \/ SendOnIS(p)
  \/ \E g \in Gates : \/ Receive(g) \/ Skip(g) \/ Answer(g) \/ Downlink(g)
                      \/ KeyNext(g) \/ SessionChanges(g)
  \/ Advance

Spec == Init /\ [][Next]_vars

-----------------------------------------------------------------------------

(* What has crossed from RF to APRS-IS does not come back to RF through an *)
(* iGate, nor the other way, however the iGates hear each other and        *)
(* whatever their logins are worth (the echo checks of processLoRaPacket() *)
(* and listenAPRSIS(), and the third-party wrap).                          *)
NoGateLoop ==
  \A g \in Gates : \A item \in inbox[g] \cup socket[g] : Len(item.trip) <= 1

(* What the readers of a log get from it.                                  *)
Known(g) ==
  [c \in {heard[g].entry[k].callsign : k \in DOMAIN heard[g].entry} |->
     [at |-> EntryOf(heard[g], c).timestamp, direct |-> EntryOf(heard[g], c).isDirect]]

Remembers(g) == INSTANCE LastHeard WITH
  Reports <- [at : 0 .. MaxClock, direct : BOOLEAN], last <- last[g], known <- Known(g)

(* What readers find in the log of a gate is, for each station that has    *)
(* not been forgotten, its last packet: the log takes every packet that is *)
(* received, whichever station it comes from and whether that is in the    *)
(* log or not, and forgets one station at a time, when it is full          *)
(* (updateLastHeard(), minutesSinceHeard(), wasHeardDirect()).             *)
EachGateRemembers ==
  /\ \A g \in Gates : Remembers(g)!Init
  /\ [][\A g \in Gates : [Remembers(g)!Next]_<<last[g], Known(g)>>]_vars
=============================================================================
