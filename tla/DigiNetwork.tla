---------------------------- MODULE DigiNetwork ----------------------------
(***************************************************************************)
(* Several digipeaters of digi_utils.cpp around the trackers they serve.   *)
(* A frame keyed by one station reaches any part of the stations that hear *)
(* it; the radio of each holds one unread frame (a later one overwrites    *)
(* it); loop() hands it to DIGI_Utils::processLoRaPacket(), which queues   *)
(* the relayed copy in the output queue (a TxFifo of MaxOutQueue packets). *)
(*                                                                         *)
(* A frame is a packet and the path it bears now; first, the path its      *)
(* sender put on it, and trips, its relays so far, are history.  A packet  *)
(* is what all its copies share: the sender, the payload and what that     *)
(* says.                                                                   *)
(* Each digipeater filters duplicates with a ring of its own (DedupRing).  *)
(***************************************************************************)
EXTENDS DedupRing, DigiPath, SequencesExt

CONSTANTS
  Digis,        \* callsigns of the digipeaters
  Packets,      \* the packets that may be on the air
  Sender,       \* packet -> callsign it was generated by
  Hash,         \* packet -> djb2 of sender and payload
  Addressee,    \* packet -> callsign a message is for, "" if no message
  NoGate,       \* the packets that contain the word NOGATE
  FirstPaths,   \* packet -> the paths its sender may put on it
  Hears,        \* station -> the digipeaters in its range
  Mode,         \* digipeater -> its digiMode
  Tactical,     \* digipeater -> its tactical callsign, "" if none
  MaxOutQueue,  \* MAX_OUT_QUEUE, 20
  MaxSends,     \* model bound: transmissions by the senders
  MaxFailures,  \* model bound: String::replace() calls out of memory
  MaxClock      \* model bound: the clock stops here

(* Callsigns are not aliases, and a sender puts aliases on its path, none  *)
(* of them twice.                                                          *)
ASSUME NetworkAssumption ==
  /\ \A p \in Packets : Hash[p] \in Word
  /\ \A d \in Digis : Mode[d] \in Modes /\ d \notin Aliases
  /\ \A p \in Packets : \A path \in FirstPaths[p] :
       /\ path \in Seq([name : Aliases, used : BOOLEAN])
       /\ \A i, j \in DOMAIN path : path[i].name = path[j].name => i = j
  /\ MaxOutQueue \in Nat \ {0}
  /\ {MaxSends, MaxFailures, MaxClock} \subseteq Nat

VARIABLES
  ring,     \* digipeater -> its digiDedup, [buf, head]
  inbox,    \* digipeater -> the received frame not yet read, at most one
  outQueue, \* digipeater -> frames waiting to be keyed
  sent,     \* transmissions made by the senders so far
  failures, \* allocations that failed so far
  clock,    \* true time since boot
  log,      \* history: digipeater -> its isNew() = true calls, in order
  refused   \* history: digipeater -> its last isNew() = false call, if any

vars == <<ring, inbox, outQueue, sent, failures, clock, log, refused>>

Nothing == {}

-----------------------------------------------------------------------------

Init ==
  /\ ring     = [d \in Digis |-> [buf |-> [k \in Slot |-> Blank], head |-> 0]]
  /\ inbox    = [d \in Digis |-> Nothing]
  /\ outQueue = [d \in Digis |-> <<>>]
  /\ sent     = 0
  /\ failures = 0
  /\ clock    = 0
  /\ log      = [d \in Digis |-> <<>>]
  /\ refused  = [d \in Digis |-> Nothing]

(* A frame on the air: every digipeater in range has it unread or lost it. *)
OnAir(from, frame) ==
  \E hearing \in SUBSET Hears[from] :
    inbox' = [d \in Digis |-> IF d \in hearing THEN {frame} ELSE inbox[d]]

(* Mutant: the packet is recorded, the head does not move. *)
RememberInPlace(d, p) ==
  /\ ring' = [ring EXCEPT ![d].buf = Recorded(@, ring[d].head, Hash[p], clock + 1)]
  /\ UNCHANGED refused

(* isNew() of digipeater d for a packet: answers, and records if new. *)
Remember(d, p) ==
  /\ ring' = [ring EXCEPT ![d] =
                [buf |-> Recorded(@.buf, @.head, Hash[p], clock),
                 head |-> NextSlot(@.head)]]
  /\ UNCHANGED refused

(* A tracker sends a packet, or sends it again. *)
SendPacket(p) ==
  /\ Sender[p] \notin Digis
  /\ sent < MaxSends
  /\ sent' = sent + 1
  /\ \E path \in FirstPaths[p] :
       OnAir(Sender[p], [pkt |-> p, path |-> path, first |-> path, trips |-> 0])
  /\ UNCHANGED <<ring, outQueue, failures, clock, log, refused>>

(* A digipeater sends a beacon of its own: sendBeacon() registers the      *)
(* payload in digiDedup before keying it.                                  *)
SendOwnBeacon(p) ==
  LET d == Sender[p]
  IN  /\ d \in Digis
      /\ sent < MaxSends
      /\ sent' = sent + 1
      /\ IF Holds(ring[d].buf, Hash[p], clock)
           THEN /\ refused' = [refused EXCEPT ![d] =
                     {[hash |-> Hash[p], at |-> clock, after |-> Len(log[d])]}]
                /\ UNCHANGED <<ring, log>>
           ELSE /\ Remember(d, p)
                /\ log' = [log EXCEPT ![d] =
                     Append(@, [pkt |-> p, at |-> clock, relayed |-> FALSE])]
      /\ \E path \in FirstPaths[p] :
           OnAir(d, [pkt |-> p, path |-> path, first |-> path, trips |-> 0])
      /\ UNCHANGED <<outQueue, failures, clock>>

(* The early returns of processLoRaPacket() before the duplicate filter. *)
Eligible(d, p) ==
  /\ Mode[d] # "off"
  /\ p \notin NoGate
  /\ Sender[p] # d
  /\ Addressee[p] # d
  /\ Tactical[d] = "" \/ Addressee[p] # Tactical[d]

(* processLoRaPacket() on a frame it returns early from. *)
Ignore(d) ==
  \E frame \in inbox[d] :
    /\ ~Eligible(d, frame.pkt)
    /\ inbox' = [inbox EXCEPT ![d] = Nothing]
    /\ UNCHANGED <<ring, outQueue, sent, failures, clock, log, refused>>

(* ... on a duplicate. *)
DropDuplicate(d) ==
  \E frame \in inbox[d] :
    /\ Eligible(d, frame.pkt)
    /\ Holds(ring[d].buf, Hash[frame.pkt], clock)
    /\ refused' = [refused EXCEPT ![d] =
         {[hash |-> Hash[frame.pkt], at |-> clock, after |-> Len(log[d])]}]
    /\ inbox' = [inbox EXCEPT ![d] = Nothing]
    /\ UNCHANGED <<ring, outQueue, sent, failures, clock, log>>

(* ... on a new packet: it is remembered whether or not a relay follows. *)
Process(d) ==
  \E frame \in inbox[d], lowMemory \in BOOLEAN :
    LET path == IF lowMemory THEN StampOutOfMemory(frame.path, d, Mode[d])
                             ELSE Stamp(frame.path, d, Mode[d])
        full == Len(outQueue[d]) >= MaxOutQueue
    IN  /\ Eligible(d, frame.pkt)
        /\ ~Holds(ring[d].buf, Hash[frame.pkt], clock)
        /\ lowMemory => failures < MaxFailures
        /\ failures' = IF lowMemory THEN failures + 1 ELSE failures
        /\ Remember(d, frame.pkt)
        /\ log' = [log EXCEPT ![d] =
             Append(@, [pkt |-> frame.pkt, at |-> clock,
                        relayed |-> path # NoPath])]
        /\ outQueue' = IF path = NoPath THEN outQueue
             ELSE [outQueue EXCEPT ![d] =
                     Append(IF full THEN Tail(@) ELSE @,
                            [frame EXCEPT !.path = path, !.trips = @ + 1])]
        /\ inbox' = [inbox EXCEPT ![d] = Nothing]
        /\ UNCHANGED <<sent, clock>>

(* processOutputPacketBuffer() keys the oldest waiting frame. *)
KeyNext(d) ==
  /\ outQueue[d] # <<>>
  /\ OnAir(d, Head(outQueue[d]))
  /\ outQueue' = [outQueue EXCEPT ![d] = Tail(@)]
  /\ UNCHANGED <<ring, sent, failures, clock, log, refused>>

Advance ==
  /\ clock < MaxClock
  /\ clock' = clock + 1
  /\ UNCHANGED <<ring, inbox, outQueue, sent, failures, log, refused>>

Next ==
  \/ \E p \in Packets : SendPacket(p)
  \/ \E p \in Packets : SendOwnBeacon(p)
  \/ \E d \in Digis : Ignore(d)
  \/ \E d \in Digis : DropDuplicate(d)
  \/ \E d \in Digis : Process(d)
  \/ \E d \in Digis : KeyNext(d)
  \/ Advance

Spec == Init /\ [][Next]_vars

-----------------------------------------------------------------------------

Hops  == [name : Aliases \cup Digis, used : BOOLEAN]
Frame == [pkt : Packets, path : Seq(Hops), first : Seq(Hops), trips : Nat]

LogEntry == [pkt : Packets, at : Nat, relayed : BOOLEAN]

TypeOK ==
  /\ ring \in [Digis -> [buf : [Slot -> Entry], head : Slot]]
  /\ inbox \in [Digis -> SUBSET Frame]
  /\ \A d \in Digis : Cardinality(inbox[d]) <= 1
  /\ outQueue \in [Digis -> Seq(Frame)]
  /\ \A d \in Digis : Len(outQueue[d]) <= MaxOutQueue
  /\ sent \in 0..MaxSends /\ failures \in 0..MaxFailures /\ clock \in 0..MaxClock
  /\ log \in [Digis -> Seq(LogEntry)]
  /\ refused \in [Digis -> SUBSET [hash : Word, at : Nat, after : Nat]]

InFlight ==
  (UNION {inbox[d] : d \in Digis}) \cup (UNION {ToSet(outQueue[d]) : d \in Digis})

(* What a frame has spent of the hops that its sender asked for.           *)
Spent(frame) == Budget(frame.first) - Budget(frame.path)

(* However a packet has travelled, its path records a relay for every hop  *)
(* it has spent, and it has made no more relays than that, but for one per *)
(* allocation that failed: no digipeater and no mode gives a packet more   *)
(* hops than its sender did (buildPacket(), digi_utils.cpp:36-75).         *)
HopBudgetKept ==
  \A frame \in InFlight :
    /\ Relays(frame.path, Digis) = Spent(frame)
    /\ frame.trips \in Spent(frame) .. Spent(frame) + failures

(* No relay leaves the path as it was: each spends a hop ("Don't transmit  *)
(* with the alias unstamped", digi_utils.cpp:47).  The code does not keep  *)
(* this: digi_unstamped.cfg shows it.                                      *)
NoUnstampedRelay ==
  \A frame \in InFlight : frame.trips = Spent(frame)

Relayed(d, p) == {i \in 1..Len(log[d]) : log[d][i].pkt = p /\ log[d][i].relayed}

(* A digipeater stands in the path of a packet as often as it has relayed  *)
(* it at most, never if it sent the packet or is the addressee, and it     *)
(* relayed it twice only with the TTL or Slots other packets in between:   *)
(* a packet does not loop (digi_utils.cpp:97-135, dedup_utils.h:22-31).    *)
NoLoop ==
  \A frame \in InFlight, d \in Digis :
    LET p     == frame.pkt
        times == Relays(frame.path, {d})
    IN  /\ times <= Cardinality(Relayed(d, p))
        /\ d \in {Sender[p], Addressee[p]} => times = 0
        /\ \A i, j \in Relayed(d, p) :
             i < j => \/ log[d][j].at - log[d][i].at >= TTL
                      \/ j - i > Slots

(* The filter of each digipeater, fed by what it hears and by its own      *)
(* beacons, is an instance of PacketDedup: what is proved there holds for  *)
(* every digipeater of the network (station_utils.cpp:286-290).            *)
Dedup(d) == INSTANCE PacketDedup WITH
  buf        <- ring[d].buf,
  head       <- ring[d].head,
  accepted   <- [i \in 1..Len(log[d]) |->
                   [hash |-> Hash[log[d][i].pkt], at |-> log[d][i].at]],
  suppressed <- refused[d]

EachDigiDeduplicates ==
  /\ \A d \in Digis : Dedup(d)!Init
  /\ [][\A d \in Digis : [Dedup(d)!Next]_(Dedup(d)!vars)]_vars
=============================================================================
