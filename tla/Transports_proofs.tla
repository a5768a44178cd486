-------------------------- MODULE Transports_proofs --------------------------
(***************************************************************************)
(* For any phones, PINs and knowledge of them: the link of the BLE service *)
(* is open only to a phone whose user knows the PIN in force, whatever is  *)
(* edited, however often and wherever the boot is cut short, and whatever  *)
(* a failed wipe leaves in flash.  And for any packets and any bytes: the  *)
(* frames of a host come out whole, once and in order, cut into whatever   *)
(* pieces, and the socket is in step again after whatever else it was      *)
(* sent, by the third frame.                                               *)
(***************************************************************************)
EXTENDS Transports, WellFoundedInduction, TLAPS

NoPolicy == {"none", "open"}

(* What the Bluetooth variables may hold. *)
LinkTypes ==
  /\ config \in Pins \cup {"open", "bad"} /\ policy \in Pins \cup {"open"}
  /\ stored \in Pins \cup NoPolicy
  /\ bonds \subseteq Phones \X Pins
  /\ active \in Phones \cup {NoPhone}
  /\ bluetoothConnected \in BOOLEAN

(* A bond in flash was made with the PIN of the policy recorded in flash,  *)
(* by a phone that knows it; between the wipe and the record there is      *)
(* none.                                                                   *)
BondsFitRecord ==
  /\ \A phone \in Phones, pin \in Pins :
       <<phone, pin>> \in bonds => pin = stored /\ pin \in Knows[phone]
  /\ stage = "wiped" => bonds = {}

(* A phone is let in only when the record is that of this boot's policy.   *)
UpWithRecord ==
  /\ IsBLE /\ stage = "up" => stored = policy
  /\ active # NoPhone => IsBLE /\ stage = "up"
  /\ bluetoothConnected => active # NoPhone

IInv == LinkTypes /\ BondsFitRecord /\ UpWithRecord /\ OnlyPairedPhones

-----------------------------------------------------------------------------

ble == <<kind, config, stored, bonds, stage, policy, active, bluetoothConnected>>

(* The firmware starts with the stored bonds, nobody connected and the     *)
(* link as configured.                                                     *)
LEMMA InitIInv == Init => IInv
BY TransportsAssumption DEF Init, IInv, LinkTypes, BondsFitRecord, UpWithRecord, NoPolicy,
   OnlyPairedPhones

(* What the host writes, what is parsed and what is keyed does not touch   *)
(* the pairing, and neither does a timer that finds nothing to end.        *)
LEMMA Untouched == IInv /\ UNCHANGED ble => IInv'
BY DEF ble, IInv, LinkTypes, BondsFitRecord, UpWithRecord, OnlyPairedPhones, IsBLE, PinRequired

(* Frames and timers leave the pairing alone. *)
LEMMA TrafficUntouched ==
  ASSUME \/ BeginPacket \/ \E form \in DOMAIN OddFrame : BeginOdd(form)
         \/ \E n \in DOMAIN rest : WriteStream(n) \/ WriteBLE(n)
         \/ Break \/ StartSending \/ Key \/ DoneSending \/ PairingTimeout
  PROVE  UNCHANGED ble
BY DEF ble, BeginPacket, BeginOdd, WriteStream, WriteBLE, Break, StartSending, Key, DoneSending,
   PairingTimeout, flash, link

(* A link that ends leaves the flash as it is.                             *)
LEMMA ClosedKeeps ==
  ASSUME IInv, active' = NoPhone, bluetoothConnected' = FALSE,
         UNCHANGED <<kind, config, stored, bonds, stage, policy>>
  PROVE  IInv'
BY TransportsAssumption DEF IInv, LinkTypes, BondsFitRecord, UpWithRecord, OnlyPairedPhones, IsBLE

(* enforceBondPolicy(), first half. *)
LEMMA LoadPolicyKeeps == IInv /\ LoadPolicy => IInv'
<1> SUFFICES ASSUME IInv, LoadPolicy PROVE IInv'
  OBVIOUS
<1>1. /\ active = NoPhone /\ ~bluetoothConnected /\ stage = "boot"
      /\ UNCHANGED <<kind, config, stored, active, bluetoothConnected>>
  BY DEF LoadPolicy, IInv, UpWithRecord, flash, link
<1>2. CASE config = "bad" /\ stage' = "off" /\ UNCHANGED <<policy, bonds>>
  BY <1>1, <1>2 DEF IInv, LinkTypes, BondsFitRecord, UpWithRecord, OnlyPairedPhones
<1>3. CASE config # "bad" /\ policy' = config /\ stored = config /\ stage' = "up" /\ UNCHANGED bonds
  BY <1>1, <1>3 DEF IInv, LinkTypes, BondsFitRecord, UpWithRecord, OnlyPairedPhones
<1>4. CASE config # "bad" /\ policy' = config /\ stored # config /\ stage' = "wiped" /\ bonds' = {}
  BY <1>1, <1>4 DEF IInv, LinkTypes, BondsFitRecord, UpWithRecord, OnlyPairedPhones
<1>5. CASE /\ config # "bad" /\ policy' = config /\ stored # config /\ stage' = "off"
           /\ bonds' \in SUBSET bonds
  BY <1>1, <1>5 DEF IInv, LinkTypes, BondsFitRecord, UpWithRecord, OnlyPairedPhones
<1>6. QED
  BY <1>2, <1>3, <1>4, <1>5 DEF LoadPolicy

(* Second half: whatever is recorded, the bonds of before are gone. *)
LEMMA RecordPolicyKeeps == IInv /\ RecordPolicy => IInv'
<1> SUFFICES ASSUME IInv, RecordPolicy PROVE IInv'
  OBVIOUS
<1>1. /\ active = NoPhone /\ ~bluetoothConnected /\ bonds = {}
      /\ UNCHANGED <<kind, config, bonds, policy, active, bluetoothConnected>>
  BY DEF RecordPolicy, IInv, UpWithRecord, BondsFitRecord, flash, link
<1>2. CASE stored' = policy /\ stage' = "up"
  BY <1>1, <1>2 DEF IInv, LinkTypes, BondsFitRecord, UpWithRecord, OnlyPairedPhones, NoPolicy
<1>3. CASE stored' \in {stored, "none"} /\ stage' \in {"wiped", "off"}
  BY <1>1, <1>3 DEF IInv, LinkTypes, BondsFitRecord, UpWithRecord, OnlyPairedPhones, NoPolicy
<1>4. QED
  BY <1>2, <1>3 DEF RecordPolicy

(* A reboot at any moment keeps what is in flash and closes the link. *)
LEMMA RebootKeeps == IInv /\ Reboot => IInv'
<1> SUFFICES ASSUME IInv, Reboot PROVE IInv'
  OBVIOUS
<1>1. /\ config' \in Pins \cup {"open", "bad"} /\ policy' = "open" /\ stage' = "boot"
      /\ active' = NoPhone /\ bluetoothConnected' = FALSE
      /\ UNCHANGED <<kind, stored, bonds>>
  BY DEF Reboot, Closed
<1>2. QED
  BY <1>1 DEF IInv, LinkTypes, BondsFitRecord, UpWithRecord, OnlyPairedPhones, PinRequired

(* A phone connects (onConnect()). *)
LEMMA ConnectKeeps ==
  ASSUME IInv, NEW phone \in Phones, Connect(phone)
  PROVE  IInv'
<1>1. /\ IsBLE /\ stage = "up" /\ active' = phone
      /\ bluetoothConnected' = ~PinRequired
      /\ UNCHANGED <<kind, config, stored, bonds, stage, policy>>
  BY DEF Connect, Accepted, flash
<1>2. phone # NoPhone
  BY TransportsAssumption
<1>3. bluetoothConnected' \in BOOLEAN
  BY <1>1
<1>4. QED
  BY <1>1, <1>2, <1>3 DEF IInv, LinkTypes, BondsFitRecord, UpWithRecord, OnlyPairedPhones, IsBLE,
     PinRequired

(* The PIN that was shown, or the bond, is that of the policy in force.    *)
LEMMA AuthenticateKeeps == IInv /\ Authenticate => IInv'
<1> SUFFICES ASSUME IInv, Authenticate PROVE IInv'
  OBVIOUS
<1>1. /\ active \in Phones /\ stage = "up" /\ IsBLE /\ stored = policy /\ policy \in Pins
      /\ bluetoothConnected'
      /\ UNCHANGED <<kind, config, stored, stage, policy, active>>
  BY DEF Authenticate, IInv, LinkTypes, UpWithRecord, PinRequired
<1>2. policy \in Knows[active]
  BY <1>1 DEF Authenticate, Secured, IInv, BondsFitRecord
<1>3. bonds' = bonds \/ bonds' = bonds \cup {<<active, policy>>}
  BY DEF Authenticate, Secured
<1>4. bonds' \subseteq Phones \X Pins
  BY <1>1, <1>3 DEF IInv, LinkTypes
<1>5. BondsFitRecord'
  BY <1>1, <1>2, <1>3 DEF IInv, BondsFitRecord
<1>6. QED
  BY <1>1, <1>2, <1>4, <1>5 DEF IInv, LinkTypes, UpWithRecord, OnlyPairedPhones, IsBLE, Authenticate

(* No step breaks the inductive invariant. *)
LEMMA NextIInv == IInv /\ [Next]_vars => IInv'
<1> SUFFICES ASSUME IInv, [Next]_vars PROVE IInv'
  OBVIOUS
<1>1. CASE Disconnect
  BY <1>1, ClosedKeeps DEF Disconnect, Closed, flash
<1>2. CASE TimeoutDisconnects
  <2>1. UNCHANGED <<kind, config, stored, bonds, stage, policy>>
    BY <1>2 DEF TimeoutDisconnects, flash
  <2>2. CASE Closed
    BY <2>1, <2>2, ClosedKeeps DEF Closed
  <2>3. CASE UNCHANGED <<active, bluetoothConnected>>
    BY <2>1, <2>3, Untouched DEF ble
  <2>4. QED
    BY <1>2, <2>2, <2>3 DEF TimeoutDisconnects
<1>3. CASE UNCHANGED vars
  BY <1>3, Untouched DEF vars, ble, flash, link
<1>4. QED
  BY <1>1, <1>2, <1>3, TrafficUntouched, Untouched, LoadPolicyKeeps, RecordPolicyKeeps, RebootKeeps,
     ConnectKeeps, AuthenticateKeeps DEF Next

-----------------------------------------------------------------------------

(* Every set of natural numbers that is not empty has a least one. *)
LEMMA LeastOf ==
  ASSUME NEW S \in SUBSET Nat, S # {}
  PROVE  \E m \in S : \A k \in S : m <= k
<1> DEFINE R == OpToRel(<, Nat)
<1>1. \A y, x \in Nat : y < x => <<y, x>> \in R
  BY DEF OpToRel
<1>2. IsWellFoundedOn(R, Nat)
  BY NatLessThanWellFounded
<1> HIDE DEF R
<1>3. PICK m \in S : \A k \in S : <<k, m>> \notin R
  BY <1>2, WFMin
<1>4. \A k \in S : m <= k
  <2> TAKE k \in S
  <2>1. k \in Nat /\ m \in Nat /\ ~(k < m)
    BY <1>1, <1>3
  <2>2. QED
    BY <2>1
<1>5. QED
  BY <1>4

(* Induction up to N, for the numbers of a set. *)
LEMMA UpTo ==
  ASSUME NEW N \in Nat, NEW Good,
         0 \in Good, \A n \in 1..N : n - 1 \in Good => n \in Good
  PROVE  N \in Good
<1> DEFINE Bad == {n \in 0..N : n \notin Good}
<1>1. SUFFICES ASSUME Bad # {} PROVE FALSE
  OBVIOUS
<1>2. PICK m \in Bad : \A k \in Bad : m <= k
  <2>1. Bad \in SUBSET Nat
    OBVIOUS
  <2> HIDE DEF Bad
  <2>2. QED
    BY <1>1, <2>1, LeastOf
<1>3. m \in 1..N
  BY <1>2
<1>4. m - 1 \in Good
  BY <1>2, <1>3
<1>5. QED
  BY <1>2, <1>3, <1>4

(* A table of what the first steps make of a beginning.                    *)
Table(u, S, base, step, N) ==
  /\ u \in [0..N -> S]
  /\ u[0] = base
  /\ \A n \in 1..N : u[n] = step[<<n, u[n - 1]>>]

(* There is one for every number of steps ...                              *)
LEMMA TableExists ==
  ASSUME NEW S, NEW base \in S, NEW N \in Nat, NEW step \in [(1..N) \X S -> S]
  PROVE  \E u : Table(u, S, base, step, N)
<1> DEFINE Good == {n \in 0..N : \E u : Table(u, S, base, step, n)}
<1>1. 0 \in Good
  <2>1. Table([k \in 0..0 |-> base], S, base, step, 0)
    BY DEF Table
  <2>2. QED
    BY <2>1
<1>2. ASSUME NEW n \in 1..N, n - 1 \in Good PROVE n \in Good
  <2>1. PICK u : Table(u, S, base, step, n - 1)
    BY <1>2
  <2>2. u[n - 1] \in S /\ <<n, u[n - 1]>> \in (1..N) \X S
    BY <2>1 DEF Table
  <2> DEFINE v == [k \in 0..n |-> IF k = n THEN step[<<n, u[n - 1]>>] ELSE u[k]]
  <2>3. \A k \in 0..(n - 1) : v[k] = u[k] /\ u[k] \in S
    BY <2>1 DEF Table
  <2>4. v[n] = step[<<n, u[n - 1]>>] /\ v[n] \in S
    BY <2>2
  <2>5. v \in [0..n -> S]
    <3>1. ASSUME NEW k \in 0..n PROVE v[k] \in S
      <4>1. k = n \/ k \in 0..(n - 1)
        OBVIOUS
      <4> HIDE DEF v
      <4>2. QED
        BY <2>3, <2>4, <4>1
    <3>2. v = [k \in 0..n |-> v[k]]
      OBVIOUS
    <3> HIDE DEF v
    <3>3. QED
      BY <3>1, <3>2
  <2> HIDE DEF v
  <2>6. v[0] = base
    BY <2>1, <2>3 DEF Table
  <2>7. ASSUME NEW k \in 1..n PROVE v[k] = step[<<k, v[k - 1]>>]
    <3>1. k - 1 \in 0..(n - 1)
      OBVIOUS
    <3>2. CASE k = n
      BY <2>3, <2>4, <3>1, <3>2
    <3>3. CASE k # n
      <4>1. k \in 1..(n - 1) /\ k \in 0..(n - 1)
        BY <3>3
      <4>2. u[k] = step[<<k, u[k - 1]>>]
        BY <2>1, <4>1 DEF Table
      <4>3. QED
        BY <2>3, <3>1, <4>1, <4>2
    <3>4. QED
      BY <3>2, <3>3
  <2>8. Table(v, S, base, step, n)
    BY <2>5, <2>6, <2>7 DEF Table
  <2>9. QED
    BY <2>8
<1> HIDE DEF Good
<1>3. N \in Good
  BY <1>1, <1>2, UpTo
<1>4. QED
  BY <1>3 DEF Good

(* ... and it is the only one, as far as the steps agree.                  *)
LEMMA TablesAgree ==
  ASSUME NEW M \in Nat, NEW N \in Nat, M <= N, NEW S, NEW base,
         NEW p, NEW q, NEW u, NEW v, Table(u, S, base, p, M), Table(v, S, base, q, N),
         \A n \in 1..M : \A s \in S : p[<<n, s>>] = q[<<n, s>>]
  PROVE  u[M] = v[M]
<1> DEFINE Good == {n \in 0..M : u[n] = v[n]}
<1>1. 0 \in Good
  BY DEF Table
<1>2. ASSUME NEW n \in 1..M, n - 1 \in Good PROVE n \in Good
  <2>1. u[n - 1] \in S /\ u[n - 1] = v[n - 1] /\ n \in 1..N
    BY <1>2 DEF Table
  <2>2. u[n] = p[<<n, u[n - 1]>>] /\ v[n] = q[<<n, v[n - 1]>>]
    BY <2>1 DEF Table
  <2>3. QED
    BY <2>1, <2>2
<1> HIDE DEF Good
<1>3. M \in Good
  BY <1>1, <1>2, UpTo
<1>4. QED
  BY <1>3 DEF Good
(* A recursive function whose steps keep to S is such a table.             *)
LEMMA RecursionIsTable ==
  ASSUME NEW S, NEW base \in S, NEW N \in Nat, NEW step \in [(1..N) \X S -> S],
         NEW v, v = [n \in 0..N |-> v[n]], v[0] = base,
         \A n \in 1..N : v[n - 1] \in S => v[n] = step[<<n, v[n - 1]>>]
  PROVE  Table(v, S, base, step, N)
<1>1. ASSUME NEW m \in 0..N PROVE v[m] \in S
  <2> DEFINE Up == {n \in 0..m : v[n] \in S}
  <2>1. 0 \in Up
    OBVIOUS
  <2>2. ASSUME NEW n \in 1..m, n - 1 \in Up PROVE n \in Up
    <3>1. v[n - 1] \in S /\ n \in 1..N
      BY <2>2
    <3>2. v[n] = step[<<n, v[n - 1]>>] /\ <<n, v[n - 1]>> \in (1..N) \X S
      BY <3>1
    <3>3. QED
      BY <3>2
  <2> HIDE DEF Up
  <2>3. m \in Up
    BY <2>1, <2>2, UpTo
  <2>4. QED
    BY <2>3 DEF Up
<1>2. v \in [0..N -> S]
  BY <1>1
<1>3. \A n \in 1..N : v[n] = step[<<n, v[n - 1]>>]
  <2> TAKE n \in 1..N
  <2>1. n - 1 \in 0..N
    OBVIOUS
  <2>2. QED
    BY <1>1, <2>1
<1>4. QED
  BY <1>2, <1>3 DEF Table

(* What a host writes: bytes. *)
Stream == Seq(Bytes)

(* The links on which bytes are parsed one at a time. *)
Links == {"socket", "serial"}

(* The socket is one of them. *)
LEMMA SocketIsLink == "socket" \in Links
BY DEF Links

(* Escaped as a table: one more byte, and how it grows. *)
EscapeStep(p) == [x \in (1..Len(p)) \X Stream |-> x[2] \o Escape(p[x[1]])]

EscapeGrows(u, p) ==
  u = [n \in 0..Len(p) |-> IF n = 0 THEN <<>> ELSE u[n - 1] \o Escape(p[n])]

(* An escaped byte is one byte or two. *)
LEMMA EscapeBytes ==
  ASSUME NEW b \in Bytes
  PROVE  Escape(b) \in Stream
BY KissFramingAssumption DEF Escape, Stream

(* A step of the table of Escaped is Escape. *)
LEMMA EscapeStepIs ==
  ASSUME NEW p \in Stream, NEW n \in 1..Len(p), NEW s \in Stream
  PROVE  EscapeStep(p)[<<n, s>>] = s \o Escape(p[n])
BY DEF EscapeStep

(* Escaped is the last entry of its table. *)
LEMMA EscapedTable ==
  ASSUME NEW p \in Stream
  PROVE  \E u : Table(u, Stream, <<>>, EscapeStep(p), Len(p)) /\ Escaped(p) = u[Len(p)]
<1> DEFINE N == Len(p)
           step == EscapeStep(p)
           upTo == CHOOSE u : EscapeGrows(u, p)
<1>1. N \in Nat /\ <<>> \in Stream /\ step \in [(1..N) \X Stream -> Stream]
  <2>1. \A x \in (1..N) \X Stream : x[2] \o Escape(p[x[1]]) \in Stream
    BY EscapeBytes DEF Stream
  <2>2. QED
    BY <2>1 DEF EscapeStep, Stream
<1>2. \A n \in 1..N, s \in Stream : step[<<n, s>>] = s \o Escape(p[n])
  BY EscapeStepIs
<1> HIDE DEF step
<1>3. EscapeGrows(upTo, p)
  <2>1. PICK u : Table(u, Stream, <<>>, step, N)
    BY <1>1, TableExists
  <2>2. \A n \in 1..N : u[n] = u[n - 1] \o Escape(p[n])
    <3> TAKE n \in 1..N
    <3>1. n - 1 \in 0..N /\ u[n - 1] \in Stream
      BY <1>1, <2>1 DEF Table
    <3>2. QED
      BY <1>2, <2>1, <3>1 DEF Table
  <2>3. u = [n \in 0..N |-> u[n]] /\ u[0] = <<>>
    BY <2>1 DEF Table
  <2>4. EscapeGrows(u, p)
    BY <2>2, <2>3 DEF EscapeGrows
  <2>5. QED
    BY <2>4
<1>4. Escaped(p) = upTo[N]
  BY Zenon DEF Escaped, EscapeGrows
<1> HIDE DEF upTo
<1>5. /\ upTo = [n \in 0..N |-> upTo[n]]
      /\ upTo[0] = <<>>
      /\ \A n \in 1..N : upTo[n] = upTo[n - 1] \o Escape(p[n])
  <2>1. upTo = [n \in 0..N |-> IF n = 0 THEN <<>> ELSE upTo[n - 1] \o Escape(p[n])]
    BY <1>3 DEF EscapeGrows
  <2>2. upTo = [n \in 0..N |-> upTo[n]]
    BY <2>1
  <2>3. upTo[0] = <<>>
    BY <1>1, <2>1
  <2>4. ASSUME NEW n \in 1..N PROVE upTo[n] = upTo[n - 1] \o Escape(p[n])
    <3>1. n \in 0..N /\ n # 0
      BY <1>1
    <3>2. upTo[n] = IF n = 0 THEN <<>> ELSE upTo[n - 1] \o Escape(p[n])
      BY <2>1, <3>1, Zenon
    <3>3. QED
      BY <3>1, <3>2
  <2>5. QED
    BY <2>2, <2>3, <2>4
<1>6. Table(upTo, Stream, <<>>, step, N)
  BY <1>1, <1>2, <1>5, RecursionIsTable
<1>7. QED
  BY <1>4, <1>6 DEF step

(* What is escaped already stays as it is when a byte is added.            *)
LEMMA EscapedAppend ==
  ASSUME NEW p \in Stream, NEW b \in Bytes
  PROVE  /\ Escaped(p) \in Stream /\ Escaped(<<>>) = <<>>
         /\ Escaped(Append(p, b)) = Escaped(p) \o Escape(b)
<1> DEFINE q == Append(p, b)
           n == Len(p)
<1>1. q \in Stream /\ Len(q) = n + 1 /\ n \in Nat /\ q[n + 1] = b /\ \A i \in 1..n : q[i] = p[i]
  BY DEF Stream
<1>2. PICK u : Table(u, Stream, <<>>, EscapeStep(p), n) /\ Escaped(p) = u[n]
  BY EscapedTable
<1> HIDE DEF q
<1>3. PICK v : Table(v, Stream, <<>>, EscapeStep(q), n + 1) /\ Escaped(q) = v[n + 1]
  BY <1>1, EscapedTable
<1>4. \A i \in 1..n : \A s \in Stream : EscapeStep(p)[<<i, s>>] = EscapeStep(q)[<<i, s>>]
  BY <1>1 DEF EscapeStep
<1>5. u[n] = v[n]
  BY <1>1, <1>2, <1>3, <1>4, TablesAgree
<1>6. v[n + 1] = EscapeStep(q)[<<n + 1, v[n]>>] /\ v[n] \in Stream
  <2>1. n + 1 \in 1..(n + 1) /\ n \in 0..(n + 1) /\ (n + 1) - 1 = n
    BY <1>1
  <2>2. QED
    BY <1>3, <2>1 DEF Table
<1>7. EscapeStep(q)[<<n + 1, v[n]>>] = v[n] \o Escape(b)
  <2>1. n + 1 \in 1..Len(q)
    BY <1>1
  <2> HIDE DEF n
  <2>2. EscapeStep(q)[<<n + 1, v[n]>>] = v[n] \o Escape(q[n + 1])
    BY <1>1, <1>6, <2>1, EscapeStepIs
  <2>3. QED
    BY <1>1, <2>2
<1>8. Escaped(<<>>) = <<>>
  <2>1. <<>> \in Stream /\ Len(<<>>) = 0
    BY DEF Stream
  <2>2. QED
    BY <2>1, EscapedTable DEF Table
<1>9. QED
  BY <1>2, <1>3, <1>5, <1>6, <1>7, <1>8 DEF q

(* Unescaped as a table: what has been read and whether an escape is open. *)
UnStates == [out : Stream, escaped : BOOLEAN]
Unread   == [out |-> <<>>, escaped |-> FALSE]

UnescapeStep(b) == [x \in (1..Len(b)) \X UnStates |-> Unescape(x[2], b[x[1]])]

UnescapeGrows(u, b) ==
  u = [n \in 0..Len(b) |-> IF n = 0 THEN Unread ELSE Unescape(u[n - 1], b[n])]

(* An unescaped byte is one, or none yet. *)
LEMMA UnescapeBytes ==
  ASSUME NEW st \in UnStates, NEW b \in Bytes
  PROVE  Unescape(st, b) \in UnStates
<1>1. st = [out |-> st.out, escaped |-> st.escaped] /\ st.out \in Stream /\ st.escaped \in BOOLEAN
  BY DEF UnStates
<1>2. Append(st.out, b) \in Stream /\ Append(st.out, "FEND") \in Stream
      /\ Append(st.out, "FESC") \in Stream
  BY <1>1, KissFramingAssumption DEF Stream
<1>3. CASE st.escaped
  <2>1. CASE b = "TFEND"
    BY <1>2, <1>3, <2>1 DEF Unescape, UnStates
  <2>2. CASE b = "TFESC"
    BY <1>2, <1>3, <2>2 DEF Unescape, UnStates
  <2>3. CASE b # "TFEND" /\ b # "TFESC"
    BY <1>1, <1>3, <2>3 DEF Unescape, UnStates
  <2>4. QED
    BY <2>1, <2>2, <2>3
<1>4. CASE ~st.escaped
  BY <1>1, <1>2, <1>4 DEF Unescape, UnStates
<1>5. QED
  BY <1>1, <1>3, <1>4

(* A step of the table of Unescaped is Unescape. *)
LEMMA UnescapeSteps ==
  ASSUME NEW b \in Stream
  PROVE  /\ Len(b) \in Nat /\ Unread \in UnStates
         /\ UnescapeStep(b) \in [(1..Len(b)) \X UnStates -> UnStates]
         /\ \A n \in 1..Len(b), s \in UnStates : UnescapeStep(b)[<<n, s>>] = Unescape(s, b[n])
<1>1. Len(b) \in Nat /\ \A n \in 1..Len(b) : b[n] \in Bytes
  BY DEF Stream
<1>2. Unread \in UnStates
  BY DEF Unread, UnStates, Stream
<1>3. \A x \in (1..Len(b)) \X UnStates : Unescape(x[2], b[x[1]]) \in UnStates
  BY <1>1, UnescapeBytes
<1>4. UnescapeStep(b) \in [(1..Len(b)) \X UnStates -> UnStates]
  BY <1>3 DEF UnescapeStep
<1>5. \A n \in 1..Len(b), s \in UnStates : UnescapeStep(b)[<<n, s>>] = Unescape(s, b[n])
  BY DEF UnescapeStep
<1>6. QED
  BY <1>1, <1>2, <1>4, <1>5

(* What Unescaped computes, byte by byte. *)
LEMMA UnescapedTable ==
  ASSUME NEW b \in Stream
  PROVE  \E u : Table(u, UnStates, Unread, UnescapeStep(b), Len(b)) /\ Unescaped(b) = u[Len(b)]
<1> DEFINE step == UnescapeStep(b)
           upTo == CHOOSE u : UnescapeGrows(u, b)
<1>1. Len(b) \in Nat /\ Unread \in UnStates /\ step \in [(1..Len(b)) \X UnStates -> UnStates]
  BY UnescapeSteps
<1>2. \A n \in 1..Len(b), s \in UnStates : step[<<n, s>>] = Unescape(s, b[n])
  BY UnescapeSteps
<1> HIDE DEF step
<1>3. UnescapeGrows(upTo, b)
  <2>1. PICK u : Table(u, UnStates, Unread, step, Len(b))
    BY <1>1, TableExists
  <2>2. ASSUME NEW n \in 1..Len(b) PROVE u[n] = Unescape(u[n - 1], b[n])
    <3>1. n - 1 \in 0..Len(b) /\ u[n - 1] \in UnStates
      BY <1>1, <2>1 DEF Table
    <3>2. QED
      BY <1>2, <2>1, <3>1 DEF Table
  <2>3. u = [n \in 0..Len(b) |-> u[n]] /\ u[0] = Unread
    BY <2>1 DEF Table
  <2>4. ASSUME NEW n \in 0..Len(b) PROVE u[n] = IF n = 0 THEN Unread ELSE Unescape(u[n - 1], b[n])
    <3>1. CASE n = 0
      BY <2>3, <3>1
    <3>2. CASE n # 0
      <4>1. n \in 1..Len(b)
        BY <1>1, <3>2
      <4>2. QED
        BY <2>2, <3>2, <4>1
    <3>3. QED
      BY <3>1, <3>2
  <2>5. UnescapeGrows(u, b)
    BY <2>3, <2>4, Zenon DEF UnescapeGrows
  <2>6. QED
    BY <2>5
<1>4. Unescaped(b) = upTo[Len(b)]
  BY Zenon DEF Unescaped, UnescapeGrows, Unread
<1> HIDE DEF upTo
<1>5. upTo = [n \in 0..Len(b) |-> IF n = 0 THEN Unread ELSE Unescape(upTo[n - 1], b[n])]
  BY <1>3 DEF UnescapeGrows
<1>6. upTo = [n \in 0..Len(b) |-> upTo[n]]
  BY <1>5
<1>7. upTo[0] = Unread
  BY <1>1, <1>5
<1>8. ASSUME NEW n \in 1..Len(b) PROVE upTo[n] = Unescape(upTo[n - 1], b[n])
  <2>1. n \in 0..Len(b) /\ n # 0
    BY <1>1
  <2>2. upTo[n] = IF n = 0 THEN Unread ELSE Unescape(upTo[n - 1], b[n])
    BY <1>5, <2>1, Zenon
  <2>3. QED
    BY <2>1, <2>2
<1>9. Table(upTo, UnStates, Unread, step, Len(b))
  BY <1>1, <1>2, <1>6, <1>7, <1>8, RecursionIsTable
<1>10. QED
  BY <1>4, <1>9 DEF step

(* One byte more is one step more. *)
LEMMA UnescapedAppend ==
  ASSUME NEW b \in Stream, NEW c \in Bytes
  PROVE  /\ Unescaped(b) \in UnStates /\ Unescaped(<<>>) = Unread
         /\ Unescaped(Append(b, c)) = Unescape(Unescaped(b), c)
<1> DEFINE q == Append(b, c)
           n == Len(b)
<1>1. q \in Stream /\ Len(q) = n + 1 /\ n \in Nat /\ q[n + 1] = c /\ \A i \in 1..n : q[i] = b[i]
  BY DEF Stream
<1>2. PICK u : Table(u, UnStates, Unread, UnescapeStep(b), n) /\ Unescaped(b) = u[n]
  BY UnescapedTable
<1> HIDE DEF q
<1>3. PICK v : Table(v, UnStates, Unread, UnescapeStep(q), n + 1) /\ Unescaped(q) = v[n + 1]
  BY <1>1, UnescapedTable
<1>4. ASSUME NEW i \in 1..n, NEW s \in UnStates
      PROVE  UnescapeStep(b)[<<i, s>>] = UnescapeStep(q)[<<i, s>>]
  <2>1. i \in 1..Len(q) /\ q[i] = b[i]
    BY <1>1
  <2>2. UnescapeStep(q)[<<i, s>>] = Unescape(s, q[i])
    BY <1>1, <2>1, UnescapeSteps
  <2>3. QED
    BY <2>1, <2>2, UnescapeSteps
<1>5. u[n] = v[n]
  <2>1. \A i \in 1..n : \A s \in UnStates : UnescapeStep(b)[<<i, s>>] = UnescapeStep(q)[<<i, s>>]
    BY <1>4
  <2>2. n \in Nat /\ n + 1 \in Nat /\ n <= n + 1
    BY <1>1
  <2>3. Table(u, UnStates, Unread, UnescapeStep(b), n)
        /\ Table(v, UnStates, Unread, UnescapeStep(q), n + 1)
    BY <1>2, <1>3
  <2> HIDE DEF n
  <2>4. QED
    BY <2>1, <2>2, <2>3, TablesAgree
<1>6. v[n + 1] = UnescapeStep(q)[<<n + 1, v[n]>>] /\ v[n] \in UnStates
  <2>1. n + 1 \in 1..(n + 1) /\ n \in 0..(n + 1) /\ (n + 1) - 1 = n
    BY <1>1
  <2>2. QED
    BY <1>3, <2>1 DEF Table
<1>7. UnescapeStep(q)[<<n + 1, v[n]>>] = Unescape(v[n], c)
  <2>1. n + 1 \in 1..Len(q)
    BY <1>1
  <2> HIDE DEF n
  <2>2. UnescapeStep(q)[<<n + 1, v[n]>>] = Unescape(v[n], q[n + 1])
    BY <1>1, <1>6, <2>1, UnescapeSteps
  <2>3. QED
    BY <1>1, <2>2
<1>8. Unescaped(<<>>) = Unread
  <2>1. <<>> \in Stream /\ Len(<<>>) = 0
    BY DEF Stream
  <2>2. QED
    BY <2>1, UnescapedTable DEF Table
<1>9. QED
  BY <1>2, <1>3, <1>5, <1>6, <1>7, <1>8 DEF q

(* The beginnings of a sequence, one longer than the other. *)
LEMMA OneMore ==
  ASSUME NEW S, NEW s \in Seq(S), NEW n \in 1..Len(s)
  PROVE  /\ SubSeq(s, 1, n) = Append(SubSeq(s, 1, n - 1), s[n])
         /\ SubSeq(s, 1, n - 1) \in Seq(S) /\ SubSeq(s, 1, n) \in Seq(S) /\ s[n] \in S
<1>1. /\ Len(s) \in Nat /\ n \in Nat /\ n - 1 \in Nat /\ s[n] \in S
      /\ SubSeq(s, 1, n) \in Seq(S) /\ Len(SubSeq(s, 1, n)) = n
      /\ SubSeq(s, 1, n - 1) \in Seq(S) /\ Len(SubSeq(s, 1, n - 1)) = n - 1
  OBVIOUS
<1>2. /\ \A i \in 1..n : SubSeq(s, 1, n)[i] = s[i]
      /\ \A i \in 1..(n - 1) : SubSeq(s, 1, n - 1)[i] = s[i]
  OBVIOUS
<1>3. QED
  BY <1>1, <1>2

(* A sequence is all of itself, and nothing comes before it. *)
LEMMA Whole ==
  ASSUME NEW S, NEW s \in Seq(S)
  PROVE  Len(s) \in Nat /\ SubSeq(s, 1, Len(s)) = s /\ SubSeq(s, 1, 0) = <<>>
OBVIOUS

(* decapsulateKISS() takes back what encapsulateKISS() did to a byte. *)
LEMMA EscapeUndone ==
  ASSUME NEW e \in Stream, NEW o \in Stream, NEW b \in Bytes,
         Unescaped(e) = [out |-> o, escaped |-> FALSE]
  PROVE  Unescaped(e \o Escape(b)) = [out |-> Append(o, b), escaped |-> FALSE]
<1>1. "FESC" \in Bytes /\ "TFEND" \in Bytes /\ "TFESC" \in Bytes /\ "FEND" \in Bytes
  BY KissFramingAssumption
<1>2. ASSUME NEW c \in Bytes, NEW d \in Bytes, c = "FESC"
      PROVE  Unescaped(e \o <<c, d>>) = Unescape([out |-> o, escaped |-> TRUE], d)
  <2>1. e \o <<c, d>> = Append(Append(e, c), d) /\ Append(e, c) \in Stream
    BY DEF Stream
  <2>2. Unescaped(Append(e, c)) = Unescape([out |-> o, escaped |-> FALSE], c)
    BY UnescapedAppend
  <2>3. Unescape([out |-> o, escaped |-> FALSE], c) = [out |-> o, escaped |-> TRUE]
    BY <1>2 DEF Unescape
  <2>4. QED
    BY <2>1, <2>2, <2>3, UnescapedAppend
<1>3. CASE b = "FEND"
  <2>1. Escape(b) = <<"FESC", "TFEND">>
    BY <1>3 DEF Escape
  <2>2. Unescape([out |-> o, escaped |-> TRUE], "TFEND") = [out |-> Append(o, "FEND"), escaped |-> FALSE]
    BY DEF Unescape
  <2>3. QED
    BY <1>1, <1>2, <1>3, <2>1, <2>2
<1>4. CASE b = "FESC"
  <2>1. Escape(b) = <<"FESC", "TFESC">>
    BY <1>4 DEF Escape
  <2>2. Unescape([out |-> o, escaped |-> TRUE], "TFESC") = [out |-> Append(o, "FESC"), escaped |-> FALSE]
    BY DEF Unescape
  <2>3. QED
    BY <1>1, <1>2, <1>4, <2>1, <2>2
<1>5. CASE b # "FEND" /\ b # "FESC"
  <2>1. Escape(b) = <<b>> /\ e \o <<b>> = Append(e, b)
    BY <1>5 DEF Escape, Stream
  <2>2. Unescaped(Append(e, b)) = Unescape([out |-> o, escaped |-> FALSE], b)
    BY UnescapedAppend
  <2>3. Unescape([out |-> o, escaped |-> FALSE], b) = [out |-> Append(o, b), escaped |-> FALSE]
    BY <1>5 DEF Unescape
  <2>4. QED
    BY <2>1, <2>2, <2>3
<1>6. QED
  BY <1>3, <1>4, <1>5

NoFend(s) == \A i \in 1..Len(s) : s[i] # "FEND"

(* What stands for a byte has no FEND. *)
LEMMA EscapeFendless ==
  ASSUME NEW b \in Bytes
  PROVE  Escape(b) \in Stream /\ Len(Escape(b)) >= 1 /\ NoFend(Escape(b))
<1>1. CASE b = "FEND"
  <2>1. Escape(b) = <<"FESC", "TFEND">>
    BY <1>1 DEF Escape
  <2>2. Len(<<"FESC", "TFEND">>) = 2 /\ NoFend(<<"FESC", "TFEND">>)
    BY DEF NoFend
  <2>3. QED
    BY <2>1, <2>2, EscapeBytes
<1>2. CASE b = "FESC"
  <2>1. Escape(b) = <<"FESC", "TFESC">>
    BY <1>2 DEF Escape
  <2>2. Len(<<"FESC", "TFESC">>) = 2 /\ NoFend(<<"FESC", "TFESC">>)
    BY DEF NoFend
  <2>3. QED
    BY <2>1, <2>2, EscapeBytes
<1>3. CASE b # "FEND" /\ b # "FESC"
  <2>1. Escape(b) = <<b>>
    BY <1>3 DEF Escape
  <2>2. QED
    BY <1>3, <2>1, EscapeBytes DEF NoFend
<1>4. QED
  BY <1>1, <1>2, <1>3

(* The escaped bytes e of n bytes or more stand for o. *)
StandsFor(e, o, n) ==
  /\ Len(e) >= n /\ NoFend(e)
  /\ Unescaped(e) = [out |-> o, escaped |-> FALSE]

(* ... and to a packet, byte by byte; no FEND is left in what it made.     *)
LEMMA RoundTrip ==
  ASSUME NEW p \in Stream
  PROVE  /\ Escaped(p) \in Stream /\ Len(Escaped(p)) >= Len(p) /\ NoFend(Escaped(p))
         /\ Unescaped(Escaped(p)) = [out |-> p, escaped |-> FALSE]
<1> DEFINE begin(n) == SubSeq(p, 1, n)
           Good == {n \in 0..Len(p) : StandsFor(Escaped(begin(n)), begin(n), n)}
<1>1. Len(p) \in Nat /\ begin(Len(p)) = p /\ begin(0) = <<>> /\ <<>> \in Stream
  BY Whole DEF Stream
<1>2. 0 \in Good
  <2>1. Escaped(<<>>) = <<>> /\ Unescaped(<<>>) = Unread
    BY <1>1, EscapedAppend, UnescapedAppend, KissFramingAssumption
  <2>2. StandsFor(<<>>, <<>>, 0)
    BY <2>1 DEF Unread, NoFend, StandsFor
  <2>3. 0 \in 0..Len(p)
    BY <1>1
  <2>4. QED
    BY <1>1, <2>1, <2>2, <2>3
<1>3. ASSUME NEW n \in 1..Len(p), n - 1 \in Good PROVE n \in Good
  <2>1. begin(n) = Append(begin(n - 1), p[n]) /\ begin(n - 1) \in Stream /\ p[n] \in Bytes
    BY OneMore DEF Stream
  <2> DEFINE e == Escaped(begin(n - 1))
             x == Escape(p[n])
  <2>2. e \in Stream /\ Escaped(begin(n)) = e \o x
    BY <2>1, EscapedAppend
  <2>3. Len(e) >= n - 1 /\ NoFend(e) /\ Unescaped(e) = [out |-> begin(n - 1), escaped |-> FALSE]
    BY <1>3 DEF StandsFor
  <2>4. Unescaped(e \o x) = [out |-> begin(n), escaped |-> FALSE]
    BY <2>1, <2>2, <2>3, EscapeUndone
  <2>5. x \in Stream /\ Len(x) >= 1 /\ NoFend(x)
    BY <2>1, EscapeFendless
  <2> HIDE DEF e, x
  <2>6. Len(e \o x) >= n /\ NoFend(e \o x)
    BY <2>2, <2>3, <2>5 DEF Stream, NoFend
  <2>7. StandsFor(e \o x, begin(n), n)
    BY <2>4, <2>6 DEF StandsFor
  <2>8. n \in 0..Len(p) /\ StandsFor(Escaped(begin(n)), begin(n), n)
    <3>1. n \in 0..Len(p)
      BY <1>1
    <3> HIDE DEF begin
    <3>2. QED
      BY <2>2, <2>7, <3>1
  <2> HIDE DEF begin
  <2>9. QED
    BY <2>8
<1> HIDE DEF Good
<1>4. Len(p) \in Good
  BY <1>1, <1>2, <1>3, UpTo
<1>5. Escaped(p) \in Stream
  BY EscapedAppend, KissFramingAssumption
<1>6. QED
  BY <1>1, <1>4, <1>5 DEF Good, StandsFor

(* A frame: FENDs at its ends and nowhere else. *)
IsFrame(f) ==
  /\ f \in Stream /\ Len(f) >= 4
  /\ f[1] = "FEND" /\ f[Len(f)] = "FEND"
  /\ \A i \in 2..(Len(f) - 1) : f[i] # "FEND"

(* That of a packet, from which the packet is read again. *)
LEMMA FrameShape ==
  ASSUME NEW p \in Stream, p # <<>>
  PROVE  LET f == Encapsulate(p, "Data")
         IN  IsFrame(f) /\ IsData(f) /\ Decapsulate(f) = p
<1> DEFINE e == Escaped(p)
           f == Encapsulate(p, "Data")
           m == Len(e)
<1>1. /\ e \in Stream /\ Len(e) >= Len(p) /\ NoFend(e)
      /\ Unescaped(e) = [out |-> p, escaped |-> FALSE]
  BY RoundTrip
<1>2. Len(p) \in Nat /\ Len(p) >= 1
  BY DEF Stream
<1>3. "FEND" \in Bytes /\ "Data" \in Bytes
  BY KissFramingAssumption
<1>4. f = <<"FEND", "Data">> \o e \o <<"FEND">>
  BY DEF Encapsulate
<1> HIDE DEF e, f
<1>5. /\ f \in Stream /\ m \in Nat /\ Len(f) = m + 3
      /\ f[1] = "FEND" /\ f[2] = "Data" /\ f[m + 3] = "FEND"
      /\ \A i \in 1..m : f[i + 2] = e[i]
  BY <1>1, <1>3, <1>4 DEF Stream
<1>6. \A i \in 2..(m + 2) : f[i] # "FEND"
  <2> TAKE i \in 2..(m + 2)
  <2>1. CASE i = 2
    BY <1>5, <2>1
  <2>2. CASE i # 2
    <3>1. i - 2 \in 1..m /\ f[(i - 2) + 2] = e[i - 2] /\ (i - 2) + 2 = i
      BY <1>5, <2>2
    <3>2. QED
      BY <1>1, <3>1 DEF NoFend
  <2>3. QED
    BY <2>1, <2>2
<1>7. SubSeq(f, 3, m + 2) = e
  BY <1>1, <1>5 DEF Stream
<1>8. Decapsulate(f) = p
  <2>1. Len(f) - 1 = m + 2
    BY <1>5
  <2>2. Decapsulate(f) = Unescaped(e).out
    BY <1>7, <2>1 DEF Decapsulate
  <2>3. QED
    BY <1>1, <2>2
<1>9. IsFrame(f) /\ IsData(f)
  BY <1>1, <1>2, <1>5, <1>6 DEF IsFrame, IsData
<1>10. QED
  BY <1>8, <1>9 DEF f

(* Parse as a table: the bytes held and the packets handed over. *)
ParseStates    == [buf : Stream, out : Seq(Stream)]
Unparsed(buf0) == [buf |-> buf0, out |-> <<>>]

ParseStep(l, b) == [x \in (1..Len(b)) \X ParseStates |-> ParseByte(l, x[2], b[x[1]])]

ParseGrows(u, l, buf0, b) ==
  u = [n \in 0..Len(b) |-> IF n = 0 THEN Unparsed(buf0) ELSE ParseByte(l, u[n - 1], b[n])]

(* What is read from a frame are bytes. *)
LEMMA DecapsulateBytes ==
  ASSUME NEW f \in Stream
  PROVE  Decapsulate(f) \in Stream
<1> DEFINE e == SubSeq(f, 3, Len(f) - 1)
<1>1. e \in Stream
  BY DEF Stream
<1> HIDE DEF e
<1>2. Unescaped(e) \in UnStates
  BY <1>1, UnescapedAppend, KissFramingAssumption
<1>3. QED
  BY <1>2 DEF Decapsulate, UnStates, e

(* The bytes a parser holds after one more, and what it hands over.        *)
Grown(b, c)   == IF b = <<>> /\ c # "FEND" THEN <<>> ELSE Append(b, c)
Ends(l, b, c) == c = "FEND" /\ Len(Grown(b, c)) > LongerThan(l)

(* A parser that held bytes holds bytes. *)
LEMMA GrownBytes ==
  ASSUME NEW b \in Stream, NEW c \in Bytes
  PROVE  Grown(b, c) \in Stream
BY DEF Grown, Stream

(* One byte, in those terms (handleInputChar()). *)
LEMMA ParseByteIs ==
  ASSUME NEW l, NEW st, NEW c
  PROVE  ParseByte(l, st, c) =
           [buf |-> IF Ends(l, st.buf, c) \/ Len(Grown(st.buf, c)) > KissBufSize THEN <<>> ELSE Grown(st.buf, c),
            out |-> IF /\ Ends(l, st.buf, c) /\ IsData(Grown(st.buf, c))
                       /\ Decapsulate(Grown(st.buf, c)) \notin Refused(l)
                    THEN Append(st.out, Decapsulate(Grown(st.buf, c))) ELSE st.out]
BY Zenon DEF ParseByte, Grown, Ends

(* It leaves bytes and whole packets of bytes. *)
LEMMA ParseByteKeeps ==
  ASSUME NEW l \in Links, NEW st \in ParseStates, NEW c \in Bytes
  PROVE  ParseByte(l, st, c) \in ParseStates
<1> DEFINE g == Grown(st.buf, c)
           r == ParseByte(l, st, c)
<1>1. g \in Stream /\ Decapsulate(g) \in Stream /\ <<>> \in Stream /\ st.out \in Seq(Stream)
  BY GrownBytes, DecapsulateBytes DEF ParseStates, Stream
<1>2. r = [buf |-> r.buf, out |-> r.out]
  BY ParseByteIs
<1>3. r.buf \in {<<>>, g} /\ r.out \in {st.out, Append(st.out, Decapsulate(g))}
  BY ParseByteIs
<1> HIDE DEF g, r
<1>4. r.buf \in Stream /\ r.out \in Seq(Stream)
  BY <1>1, <1>3
<1>5. r \in ParseStates
  BY <1>2, <1>4 DEF ParseStates
<1>6. QED
  BY <1>5 DEF r

(* A parser that has read nothing holds bytes and handed over nothing. *)
LEMMA UnparsedState ==
  ASSUME NEW buf0 \in Stream
  PROVE  Unparsed(buf0) \in ParseStates
BY DEF Unparsed, ParseStates

(* A step of the table of Parse is ParseByte. *)
LEMMA ParseSteps ==
  ASSUME NEW l \in Links, NEW b \in Stream
  PROVE  /\ Len(b) \in Nat
         /\ ParseStep(l, b) \in [(1..Len(b)) \X ParseStates -> ParseStates]
         /\ \A n \in 1..Len(b), s \in ParseStates : ParseStep(l, b)[<<n, s>>] = ParseByte(l, s, b[n])
<1>1. Len(b) \in Nat /\ \A n \in 1..Len(b) : b[n] \in Bytes
  BY DEF Stream
<1>3. \A x \in (1..Len(b)) \X ParseStates : ParseByte(l, x[2], b[x[1]]) \in ParseStates
  BY <1>1, ParseByteKeeps
<1>4. ParseStep(l, b) \in [(1..Len(b)) \X ParseStates -> ParseStates]
  BY <1>3 DEF ParseStep
<1>5. \A n \in 1..Len(b), s \in ParseStates : ParseStep(l, b)[<<n, s>>] = ParseByte(l, s, b[n])
  BY DEF ParseStep
<1>6. QED
  BY <1>1, <1>4, <1>5

(* What Parse computes, byte by byte. *)
LEMMA ParseTable ==
  ASSUME NEW l \in Links, NEW buf0 \in Stream, NEW b \in Stream
  PROVE  \E u : Table(u, ParseStates, Unparsed(buf0), ParseStep(l, b), Len(b))
         /\ Parse(l, buf0, b) = u[Len(b)]
<1> DEFINE step == ParseStep(l, b)
           upTo == CHOOSE u : ParseGrows(u, l, buf0, b)
<1>1. Len(b) \in Nat /\ Unparsed(buf0) \in ParseStates
      /\ step \in [(1..Len(b)) \X ParseStates -> ParseStates]
  BY ParseSteps, UnparsedState
<1>2. \A n \in 1..Len(b), s \in ParseStates : step[<<n, s>>] = ParseByte(l, s, b[n])
  BY ParseSteps
<1> HIDE DEF step
<1>3. ParseGrows(upTo, l, buf0, b)
  <2>1. PICK u : Table(u, ParseStates, Unparsed(buf0), step, Len(b))
    BY <1>1, TableExists
  <2>2. ASSUME NEW n \in 1..Len(b) PROVE u[n] = ParseByte(l, u[n - 1], b[n])
    <3>1. n - 1 \in 0..Len(b) /\ u[n - 1] \in ParseStates
      BY <1>1, <2>1 DEF Table
    <3>2. QED
      BY <1>2, <2>1, <3>1 DEF Table
  <2>3. u = [n \in 0..Len(b) |-> u[n]] /\ u[0] = Unparsed(buf0)
    BY <2>1 DEF Table
  <2>4. ASSUME NEW n \in 0..Len(b) PROVE u[n] = IF n = 0 THEN Unparsed(buf0)
               ELSE ParseByte(l, u[n - 1], b[n])
    <3>1. CASE n = 0
      BY <2>3, <3>1
    <3>2. CASE n # 0
      <4>1. n \in 1..Len(b)
        BY <1>1, <3>2
      <4>2. QED
        BY <2>2, <3>2, <4>1
    <3>3. QED
      BY <3>1, <3>2
  <2>5. ParseGrows(u, l, buf0, b)
    BY <2>3, <2>4, Zenon DEF ParseGrows
  <2>6. QED
    BY <2>5
<1>4. Parse(l, buf0, b) = upTo[Len(b)]
  BY Zenon DEF Parse, ParseGrows, Unparsed
<1> HIDE DEF upTo
<1>5. upTo = [n \in 0..Len(b) |-> IF n = 0 THEN Unparsed(buf0) ELSE ParseByte(l, upTo[n - 1], b[n])]
  BY <1>3 DEF ParseGrows
<1>6. upTo = [n \in 0..Len(b) |-> upTo[n]]
  BY <1>5
<1>7. upTo[0] = Unparsed(buf0)
  BY <1>1, <1>5
<1>8. ASSUME NEW n \in 1..Len(b) PROVE upTo[n] = ParseByte(l, upTo[n - 1], b[n])
  <2>1. n \in 0..Len(b) /\ n # 0
    BY <1>1
  <2>2. upTo[n] = IF n = 0 THEN Unparsed(buf0) ELSE ParseByte(l, upTo[n - 1], b[n])
    BY <1>5, <2>1, Zenon
  <2>3. QED
    BY <2>1, <2>2
<1>9. Table(upTo, ParseStates, Unparsed(buf0), step, Len(b))
  BY <1>1, <1>2, <1>6, <1>7, <1>8, RecursionIsTable
<1>10. QED
  BY <1>4, <1>9 DEF step
(* One byte more is one step more. *)
LEMMA ParseAppend ==
  ASSUME NEW l \in Links, NEW buf0 \in Stream, NEW b \in Stream, NEW c \in Bytes
  PROVE  /\ Parse(l, buf0, b) \in ParseStates /\ Parse(l, buf0, <<>>) = Unparsed(buf0)
         /\ Parse(l, buf0, Append(b, c)) = ParseByte(l, Parse(l, buf0, b), c)
<1> DEFINE q == Append(b, c)
           n == Len(b)
<1>1. q \in Stream /\ Len(q) = n + 1 /\ n \in Nat /\ q[n + 1] = c /\ \A i \in 1..n : q[i] = b[i]
  BY DEF Stream
<1>2. PICK u : Table(u, ParseStates, Unparsed(buf0), ParseStep(l, b), n) /\ Parse(l, buf0, b) = u[n]
  BY ParseTable
<1> HIDE DEF q
<1>3. PICK v : Table(v, ParseStates, Unparsed(buf0), ParseStep(l, q), n + 1)
               /\ Parse(l, buf0, q) = v[n + 1]
  <2>1. PICK v : Table(v, ParseStates, Unparsed(buf0), ParseStep(l, q), Len(q))
                 /\ Parse(l, buf0, q) = v[Len(q)]
    BY <1>1, ParseTable
  <2>2. QED
    BY <1>1, <2>1
<1>4. ASSUME NEW i \in 1..n, NEW s \in ParseStates
      PROVE  ParseStep(l, b)[<<i, s>>] = ParseStep(l, q)[<<i, s>>]
  <2>1. i \in 1..Len(q) /\ q[i] = b[i]
    BY <1>1
  <2>2. ParseStep(l, q)[<<i, s>>] = ParseByte(l, s, q[i])
    BY <1>1, <2>1, ParseSteps
  <2>3. ParseStep(l, b)[<<i, s>>] = ParseByte(l, s, b[i])
    BY ParseSteps
  <2>4. QED
    BY <2>1, <2>2, <2>3
<1>5. u[n] = v[n]
  <2> DEFINE base == Unparsed(buf0)
             p1 == ParseStep(l, b)
             p2 == ParseStep(l, q)
  <2>1. \A i \in 1..n : \A s \in ParseStates : p1[<<i, s>>] = p2[<<i, s>>]
    BY <1>4
  <2>2. n \in Nat /\ n + 1 \in Nat /\ n <= n + 1
    BY <1>1
  <2>3. Table(u, ParseStates, base, p1, n) /\ Table(v, ParseStates, base, p2, n + 1)
    BY <1>2, <1>3
  <2> HIDE DEF n, base, p1, p2
  <2>4. QED
    BY <2>1, <2>2, <2>3, TablesAgree
<1>6. v[n + 1] = ParseStep(l, q)[<<n + 1, v[n]>>] /\ v[n] \in ParseStates
  <2>1. n + 1 \in 1..(n + 1) /\ n \in 0..(n + 1) /\ (n + 1) - 1 = n
    BY <1>1
  <2>2. QED
    BY <1>3, <2>1 DEF Table
<1>7. ParseStep(l, q)[<<n + 1, v[n]>>] = ParseByte(l, v[n], c)
  <2>1. n + 1 \in 1..Len(q)
    BY <1>1
  <2> HIDE DEF n
  <2>2. ParseStep(l, q)[<<n + 1, v[n]>>] = ParseByte(l, v[n], q[n + 1])
    BY <1>1, <1>6, <2>1, ParseSteps
  <2>3. QED
    BY <1>1, <2>2
<1>8. Parse(l, buf0, <<>>) = Unparsed(buf0)
  <2>1. <<>> \in Stream /\ Len(<<>>) = 0
    BY DEF Stream
  <2>2. PICK u0 : Table(u0, ParseStates, Unparsed(buf0), ParseStep(l, <<>>), 0)
                  /\ Parse(l, buf0, <<>>) = u0[0]
    BY <2>1, ParseTable
  <2>3. QED
    BY <2>2 DEF Table
<1>9. QED
  BY <1>2, <1>3, <1>5, <1>6, <1>7, <1>8 DEF q

After(s, n) == SubSeq(s, n + 1, Len(s))

(* What is left of a sequence, one element later. *)
LEMMA OneLess ==
  ASSUME NEW S, NEW s \in Seq(S), NEW n \in 0..(Len(s) - 1)
  PROVE  /\ After(s, n) \in Seq(S) /\ After(s, n) # <<>> /\ Len(After(s, n)) = Len(s) - n
         /\ After(s, n)[1] = s[n + 1] /\ After(After(s, n), 1) = After(s, n + 1)
<1>1. /\ Len(s) \in Nat /\ n \in Nat /\ n + 1 <= Len(s)
      /\ After(s, n) \in Seq(S) /\ Len(After(s, n)) = Len(s) - n
      /\ \A i \in 1..(Len(s) - n) : After(s, n)[i] = s[n + i]
  BY DEF After
<1>2. /\ After(s, n + 1) \in Seq(S) /\ Len(After(s, n + 1)) = Len(s) - n - 1
      /\ \A i \in 1..(Len(s) - n - 1) : After(s, n + 1)[i] = s[n + 1 + i]
  BY DEF After
<1> DEFINE t == After(s, n)
<1>3. /\ t \in Seq(S) /\ Len(t) = Len(s) - n /\ Len(t) \in Nat /\ Len(t) >= 1
      /\ \A i \in 1..Len(t) : t[i] = s[n + i]
  BY <1>1
<1> HIDE DEF t
<1>4. /\ After(t, 1) \in Seq(S) /\ Len(After(t, 1)) = Len(t) - 1
      /\ \A i \in 1..(Len(t) - 1) : After(t, 1)[i] = t[i + 1]
  BY <1>3 DEF After
<1>5. After(t, 1) = After(s, n + 1)
  <2>1. Len(After(t, 1)) = Len(After(s, n + 1))
    BY <1>1, <1>2, <1>3, <1>4
  <2>2. \A i \in 1..Len(After(t, 1)) : After(t, 1)[i] = After(s, n + 1)[i]
    <3> TAKE i \in 1..Len(After(t, 1))
    <3>1. i \in 1..(Len(t) - 1) /\ i + 1 \in 1..Len(t) /\ i \in 1..(Len(s) - n - 1)
      BY <1>1, <1>3, <1>4
    <3>2. After(t, 1)[i] = s[n + (i + 1)] /\ After(s, n + 1)[i] = s[n + 1 + i]
      BY <1>2, <1>3, <1>4, <3>1
    <3>3. n + (i + 1) = n + 1 + i
      BY <1>1, <3>1
    <3>4. QED
      BY <3>2, <3>3
  <2>3. QED
    BY <1>2, <1>4, <2>1, <2>2
<1>6. t # <<>> /\ t[1] = s[n + 1]
  BY <1>1, <1>3
<1>7. QED
  BY <1>1, <1>5, <1>6 DEF t

(* All is left of what nothing was written of, and nothing when all was. *)
LEMMA AllAndNone ==
  ASSUME NEW S, NEW s \in Seq(S)
  PROVE  After(s, 0) = s /\ After(s, Len(s)) = <<>>
         /\ \A n \in 0..Len(s) : After(s, n) = <<>> => n = Len(s)
<1>1. After(s, 0) = s /\ After(s, Len(s)) = <<>>
  BY DEF After
<1>2. ASSUME NEW n \in 0..Len(s), n # Len(s) PROVE After(s, n) # <<>>
  <2>1. n \in 0..(Len(s) - 1)
    BY <1>2
  <2>2. QED
    BY <2>1, OneLess
<1>3. QED
  BY <1>1, <1>2

(* A parser in step with a frame takes its next byte. *)
Fits(f) == IsFrame(f) /\ Len(f) <= KissBufSize

(* What was handed over when that was the last one. *)
Handed(l, f, o) ==
  IF IsData(f) /\ Decapsulate(f) \notin Refused(l) THEN Append(o, Decapsulate(f)) ELSE o

(* In step with a frame, a parser holds what was written of it, and hands  *)
(* over the packet at the last FEND.                                       *)
LEMMA ByteInStep ==
  ASSUME NEW l \in Links, NEW f, Fits(f), NEW w \in 0..(Len(f) - 1), NEW o \in Seq(Stream)
  PROVE  LET r == ParseByte(l, [buf |-> SubSeq(f, 1, w), out |-> o], f[w + 1])
         IN  IF w + 1 < Len(f) THEN r.buf = SubSeq(f, 1, w + 1) /\ r.out = o
             ELSE r.buf = <<>> /\ r.out = Handed(l, f, o)
<1> DEFINE st == [buf |-> SubSeq(f, 1, w), out |-> o]
           c  == f[w + 1]
           b  == SubSeq(f, 1, w)
           g  == Grown(b, c)
           r  == ParseByte(l, st, c)
<1>1. /\ f \in Stream /\ Len(f) >= 4 /\ Len(f) \in Nat /\ w \in Nat /\ w + 1 <= Len(f)
      /\ f[1] = "FEND" /\ f[Len(f)] = "FEND" /\ Len(f) <= KissBufSize
      /\ \A i \in 2..(Len(f) - 1) : f[i] # "FEND"
  BY DEF Fits, IsFrame, Stream
<1>2. SubSeq(f, 1, w + 1) = Append(SubSeq(f, 1, w), f[w + 1]) /\ SubSeq(f, 1, w) \in Stream
      /\ Len(SubSeq(f, 1, w)) = w /\ Len(SubSeq(f, 1, w + 1)) = w + 1
  <2>1. w + 1 \in 1..Len(f) /\ (w + 1) - 1 = w
    BY <1>1
  <2>2. QED
    BY <1>1, <2>1, OneMore DEF Stream
<1>3. g = SubSeq(f, 1, w + 1)
  <2>1. CASE w = 0
    BY <1>1, <1>2, <2>1 DEF Grown
  <2>2. CASE w # 0
    <3>1. SubSeq(f, 1, w) # <<>>
      BY <1>1, <1>2, <2>2
    <3>2. QED
      BY <1>2, <3>1 DEF Grown
  <2>3. QED
    BY <2>1, <2>2
<1>4. Len(g) = w + 1
  BY <1>2, <1>3
<1>5. Ends(l, b, c) <=> w + 1 = Len(f)
  <2>1. Ends(l, b, c) <=> c = "FEND" /\ Len(g) > LongerThan(l)
    BY DEF Ends
  <2>2. c = f[w + 1] /\ (LongerThan(l) = 1 \/ LongerThan(l) = 3)
    BY DEF LongerThan
  <2> HIDE DEF st, b, c, g
  <2>3. CASE w = 0
    BY <1>1, <1>4, <2>1, <2>2, <2>3
  <2>4. CASE w # 0 /\ w + 1 < Len(f)
    <3>1. w + 1 \in 2..(Len(f) - 1)
      BY <1>1, <2>4
    <3>2. QED
      BY <1>1, <2>1, <2>2, <2>4, <3>1
  <2>5. CASE w + 1 = Len(f)
    BY <1>1, <1>4, <2>1, <2>2, <2>5
  <2>6. QED
    BY <1>1, <2>3, <2>4, <2>5
<1>6. /\ r.buf = IF Ends(l, b, c) \/ Len(g) > KissBufSize THEN <<>> ELSE g
      /\ r.out = IF Ends(l, b, c) /\ IsData(g) /\ Decapsulate(g) \notin Refused(l)
                THEN Append(st.out, Decapsulate(g)) ELSE st.out
  <2>1. st.buf = b
    OBVIOUS
  <2> HIDE DEF st, c, b
  <2>2. QED
    BY <2>1, ParseByteIs
<1>7. st.out = o
  OBVIOUS
<1> HIDE DEF st, b, c, g, r
<1>8. CASE w + 1 < Len(f)
  <2>1. ~Ends(l, b, c) /\ ~(Len(g) > KissBufSize)
    BY <1>1, <1>4, <1>5, <1>8, KissFramingAssumption
  <2>2. r.buf = SubSeq(f, 1, w + 1) /\ r.out = o
    BY <1>3, <1>6, <1>7, <2>1
  <2>3. QED
    BY <1>8, <2>2 DEF r, st, c
<1>9. CASE w + 1 = Len(f)
  <2>1. g = f
    BY <1>1, <1>3, <1>9, Whole DEF Stream
  <2>2. r.buf = <<>> /\ r.out = Handed(l, f, o)
    BY <1>5, <1>6, <1>7, <1>9, <2>1 DEF Handed
  <2>3. QED
    BY <1>1, <1>9, <2>2 DEF r, st, c
<1>10. QED
  BY <1>1, <1>8, <1>9

(* One element more at the end. *)
LEMMA AppendIs ==
  ASSUME NEW S, NEW s \in Seq(S), NEW c \in S
  PROVE  /\ Append(s, c) \in Seq(S) /\ Len(Append(s, c)) = Len(s) + 1 /\ Len(s) \in Nat
         /\ Append(s, c)[Len(s) + 1] = c /\ Append(s, c) # <<>>
         /\ \A i \in 1..Len(s) : Append(s, c)[i] = s[i] /\ s[i] \in S
OBVIOUS

(* One sequence after another. *)
LEMMA CatIs ==
  ASSUME NEW S, NEW s \in Seq(S), NEW t \in Seq(S)
  PROVE  /\ s \o t \in Seq(S) /\ Len(s \o t) = Len(s) + Len(t) /\ Len(s) \in Nat /\ Len(t) \in Nat
         /\ \A i \in 1..Len(s) : (s \o t)[i] = s[i]
         /\ \A i \in 1..Len(t) : (s \o t)[Len(s) + i] = t[i]
OBVIOUS

(* Sequences are the same when their elements are. *)
LEMMA SameSeq ==
  ASSUME NEW S, NEW s \in Seq(S), NEW t \in Seq(S), Len(s) = Len(t),
         \A i \in 1..Len(s) : s[i] = t[i]
  PROVE  s = t
OBVIOUS

(* Appending to the end of a concatenation. *)
LEMMA CatAppend ==
  ASSUME NEW S, NEW t \in Seq(S), NEW s \in Seq(S), NEW c \in S
  PROVE  t \o Append(s, c) = Append(t \o s, c)
<1> DEFINE a == Append(s, c)
           l == t \o a
           b == t \o s
           r == Append(b, c)
<1>1. /\ a \in Seq(S) /\ Len(a) = Len(s) + 1 /\ Len(s) \in Nat /\ a[Len(s) + 1] = c
      /\ \A i \in 1..Len(s) : a[i] = s[i]
  BY AppendIs
<1>2. /\ b \in Seq(S) /\ Len(b) = Len(t) + Len(s) /\ Len(t) \in Nat
      /\ \A i \in 1..Len(t) : b[i] = t[i]
      /\ \A i \in 1..Len(s) : b[Len(t) + i] = s[i]
  BY CatIs
<1>9. a \in Seq(S) /\ b \in Seq(S)
  BY <1>1, <1>2
<1> HIDE DEF a, b
<1>3. /\ l \in Seq(S) /\ Len(l) = Len(t) + Len(a)
      /\ \A i \in 1..Len(t) : l[i] = t[i]
      /\ \A i \in 1..Len(a) : l[Len(t) + i] = a[i]
  BY <1>9, CatIs
<1>4. /\ r \in Seq(S) /\ Len(r) = Len(b) + 1 /\ r[Len(b) + 1] = c
      /\ \A i \in 1..Len(b) : r[i] = b[i]
  BY <1>9, AppendIs
<1> HIDE DEF l, r
<1>5. ASSUME NEW i \in 1..Len(l) PROVE l[i] = r[i]
  <2>1. CASE i \in 1..Len(t)
    <3>1. i \in 1..Len(b)
      BY <1>1, <1>2, <2>1
    <3>2. QED
      BY <1>2, <1>3, <1>4, <2>1, <3>1
  <2>2. CASE i = Len(t) + Len(s) + 1
    <3>1. Len(s) + 1 \in 1..Len(a)
      BY <1>1
    <3>2. l[Len(t) + (Len(s) + 1)] = c
      BY <1>1, <1>3, <3>1
    <3>3. QED
      BY <1>1, <1>2, <1>4, <2>2, <3>2
  <2>3. CASE i > Len(t) /\ i # Len(t) + Len(s) + 1
    <3>1. PICK j \in 1..Len(s) : i = Len(t) + j
      <4>1. i - Len(t) \in 1..Len(s) /\ i = Len(t) + (i - Len(t))
        BY <1>1, <1>2, <1>3, <2>3
      <4>2. QED
        BY <4>1
    <3>2. j \in 1..Len(a) /\ i \in 1..Len(b)
      BY <1>1, <1>2, <3>1
    <3>3. QED
      BY <1>1, <1>2, <1>3, <1>4, <3>1, <3>2
  <2>4. QED
    BY <1>1, <1>2, <1>3, <2>1, <2>2, <2>3
<1>6. Len(l) = Len(r)
  BY <1>1, <1>2, <1>3, <1>4
<1>7. l = r
  BY <1>3, <1>4, <1>5, <1>6, SameSeq
<1>8. QED
  BY <1>7 DEF l, r, a, b

(* One element. *)
LEMMA OneElement ==
  ASSUME NEW S, NEW a \in S
  PROVE  <<a>> \in Seq(S) /\ Len(<<a>>) = 1 /\ <<a>>[1] = a /\ Append(<<>>, a) = <<a>>
OBVIOUS

(* What a parser holds after a byte. *)
LEMMA BufIs ==
  ASSUME NEW l, NEW b, NEW o, NEW c
  PROVE  ParseByte(l, [buf |-> b, out |-> o], c).buf =
           IF Ends(l, b, c) \/ Len(Grown(b, c)) > KissBufSize THEN <<>> ELSE Grown(b, c)
<1> DEFINE st == [buf |-> b, out |-> o]
<1>1. st.buf = b
  OBVIOUS
<1> HIDE DEF st
<1>2. ParseByte(l, st, c).buf =
           IF Ends(l, b, c) \/ Len(Grown(b, c)) > KissBufSize THEN <<>> ELSE Grown(b, c)
  BY <1>1, ParseByteIs
<1>3. QED
  BY <1>2 DEF st

(* The parser of the socket, a byte ahead of a frame: it drops the frame,  *)
(* and is in step after it.                                                *)
Ahead(f, w) == <<"FEND">> \o SubSeq(f, 1, w)

(* One byte of the frame. *)
LEMMA ByteAhead ==
  ASSUME NEW f, Fits(f), NEW w \in 0..(Len(f) - 1), NEW o
  PROVE  ParseByte("socket", [buf |-> Ahead(f, w), out |-> o], f[w + 1]).buf =
           IF w + 1 < Len(f) THEN Ahead(f, w + 1) ELSE <<>>
<1> DEFINE b == Ahead(f, w)
           c == f[w + 1]
           g == Grown(b, c)
<1>1. /\ f \in Stream /\ Len(f) >= 4 /\ Len(f) \in Nat /\ w \in Nat /\ w + 1 <= Len(f)
      /\ f[1] = "FEND" /\ f[Len(f)] = "FEND" /\ Len(f) <= KissBufSize
      /\ \A i \in 2..(Len(f) - 1) : f[i] # "FEND"
  BY DEF Fits, IsFrame, Stream
<1>2. SubSeq(f, 1, w + 1) = Append(SubSeq(f, 1, w), c) /\ SubSeq(f, 1, w) \in Stream
      /\ Len(SubSeq(f, 1, w)) = w /\ c \in Bytes
  <2>1. w + 1 \in 1..Len(f) /\ (w + 1) - 1 = w
    BY <1>1
  <2>2. QED
    BY <1>1, <2>1, OneMore DEF Stream
<1>3. "FEND" \in Bytes
  BY KissFramingAssumption
<1> HIDE DEF c
<1>4. /\ b # <<>> /\ Ahead(f, w + 1) = Append(b, c) /\ Len(Append(b, c)) = w + 2
  <2> DEFINE s == SubSeq(f, 1, w)
  <2>1. s \in Stream /\ Len(s) = w /\ Ahead(f, w + 1) = <<"FEND">> \o Append(s, c)
        /\ b = <<"FEND">> \o s
    BY <1>2 DEF Ahead
  <2>2. <<"FEND">> \in Stream /\ Len(<<"FEND">>) = 1
    BY <1>3, OneElement DEF Stream
  <2> DEFINE h == <<"FEND">>
  <2> HIDE DEF s, b, h
  <2>3. h \in Stream /\ Len(h) = 1 /\ b = h \o s /\ Ahead(f, w + 1) = h \o Append(s, c)
    BY <2>1, <2>2 DEF h
  <2>4. b \in Stream /\ Len(b) = w + 1
    BY <1>1, <2>1, <2>3, CatIs DEF Stream
  <2>5. Ahead(f, w + 1) = Append(b, c)
    BY <1>2, <2>1, <2>3, CatAppend DEF Stream
  <2>6. Len(Append(b, c)) = w + 2
    BY <1>1, <1>2, <2>4, AppendIs DEF Stream
  <2>7. b # <<>>
    BY <1>1, <2>4
  <2>8. QED
    BY <2>5, <2>6, <2>7
<1> HIDE DEF b
<1>5. g = Ahead(f, w + 1) /\ Len(g) = w + 2
  BY <1>4 DEF Grown
<1> HIDE DEF g
<1>6. Ends("socket", b, c) <=> w + 1 = Len(f)
  <2>1. Ends("socket", b, c) <=> c = "FEND" /\ w + 2 > 3
    BY <1>5 DEF Ends, LongerThan, g
  <2>2. CASE w = 0
    BY <1>1, <2>1, <2>2
  <2>3. CASE w # 0 /\ w + 1 < Len(f)
    <3>1. w + 1 \in 2..(Len(f) - 1)
      BY <1>1, <2>3
    <3>2. QED
      BY <1>1, <2>1, <2>3, <3>1 DEF c
  <2>4. CASE w + 1 = Len(f)
    BY <1>1, <2>1, <2>4 DEF c
  <2>5. QED
    BY <1>1, <2>2, <2>3, <2>4
<1>7. ParseByte("socket", [buf |-> b, out |-> o], c).buf =
        IF Ends("socket", b, c) \/ Len(g) > KissBufSize THEN <<>> ELSE g
  BY BufIs DEF g
<1>8. CASE w + 1 < Len(f)
  <2>1. ~Ends("socket", b, c) /\ ~(Len(g) > KissBufSize)
    BY <1>1, <1>5, <1>6, <1>8, KissFramingAssumption
  <2>2. QED
    BY <1>5, <1>7, <1>8, <2>1 DEF b, c
<1>9. CASE w + 1 = Len(f)
  BY <1>1, <1>6, <1>7, <1>9 DEF b, c
<1>10. QED
  BY <1>1, <1>8, <1>9

(* It has an empty frame before it, or has taken the first FEND for the    *)
(* end of that frame: it waits for a FEND and takes the last for the first.*)
EmptyFrame    == <<"FEND", "Data", "FEND">>
Behind(w)     == IF w = 0 THEN EmptyFrame ELSE <<>>

(* One byte of the frame. *)
LEMMA ByteBehind ==
  ASSUME NEW f, Fits(f), NEW w \in 0..(Len(f) - 1), NEW o
  PROVE  ParseByte("socket", [buf |-> Behind(w), out |-> o], f[w + 1]).buf =
           IF w + 1 < Len(f) THEN <<>> ELSE <<"FEND">>
<1> DEFINE c == f[w + 1]
<1>1. /\ f \in Stream /\ Len(f) >= 4 /\ Len(f) \in Nat /\ w \in Nat /\ w + 1 <= Len(f)
      /\ f[1] = "FEND" /\ f[Len(f)] = "FEND" /\ Len(f) <= KissBufSize
      /\ \A i \in 2..(Len(f) - 1) : f[i] # "FEND"
  BY DEF Fits, IsFrame, Stream
<1>2. CASE w = 0
  <2>1. c = "FEND" /\ Behind(w) = EmptyFrame
    BY <1>1, <1>2 DEF Behind
  <2>2. Ends("socket", EmptyFrame, "FEND")
    <3>1. EmptyFrame \in Stream /\ Len(EmptyFrame) = 3 /\ "FEND" \in Bytes /\ EmptyFrame # <<>>
      BY KissFramingAssumption DEF EmptyFrame, Stream
    <3>2. Len(Append(EmptyFrame, "FEND")) = 4
      <4> DEFINE e == EmptyFrame
      <4>1. e \in Seq(Bytes) /\ Len(e) = 3 /\ "FEND" \in Bytes
        BY <3>1 DEF Stream
      <4> HIDE DEF e
      <4>2. Len(Append(e, "FEND")) = Len(e) + 1
        BY <4>1, AppendIs
      <4>3. QED
        BY <4>1, <4>2 DEF e
    <3>3. Grown(EmptyFrame, "FEND") = Append(EmptyFrame, "FEND")
      BY <3>1 DEF Grown
    <3>4. QED
      BY <3>2, <3>3 DEF Ends, LongerThan
  <2> HIDE DEF c
  <2>3. ParseByte("socket", [buf |-> EmptyFrame, out |-> o], "FEND").buf = <<>>
    BY <2>2, BufIs
  <2>4. QED
    BY <1>1, <1>2, <2>1, <2>3 DEF c
<1>3. CASE w # 0 /\ w + 1 < Len(f)
  <2>1. w + 1 \in 2..(Len(f) - 1)
    BY <1>1, <1>3
  <2>2. c # "FEND" /\ Behind(w) = <<>>
    BY <1>1, <1>3, <2>1 DEF Behind
  <2> HIDE DEF c
  <2>3. Grown(<<>>, c) = <<>>
    BY <2>2 DEF Grown
  <2>4. ParseByte("socket", [buf |-> <<>>, out |-> o], c).buf = <<>>
    BY <2>3, BufIs
  <2>5. QED
    BY <1>3, <2>2, <2>4 DEF c
<1>4. CASE w # 0 /\ w + 1 = Len(f)
  <2>1. c = "FEND" /\ Behind(w) = <<>>
    BY <1>1, <1>4 DEF Behind
  <2> HIDE DEF c
  <2>2. Grown(<<>>, "FEND") = <<"FEND">>
    BY DEF Grown
  <2>3. Len(<<"FEND">>) = 1
    OBVIOUS
  <2>6. KissBufSize \in Nat /\ KissBufSize >= 4
    BY <1>1, KissFramingAssumption
  <2>7. ~Ends("socket", <<>>, "FEND") /\ ~(Len(Grown(<<>>, "FEND")) > KissBufSize)
    <3>1. Len(Grown(<<>>, "FEND")) = 1
      BY <2>2, <2>3
    <3>2. Ends("socket", <<>>, "FEND") => Len(Grown(<<>>, "FEND")) > 3
      BY Zenon DEF Ends, LongerThan
    <3>3. \A n, m \in Nat : n = 1 /\ m >= 4 => ~(n > 3) /\ ~(n > m)
      OBVIOUS
    <3>4. Len(Grown(<<>>, "FEND")) \in Nat
      BY <3>1
    <3> DEFINE n == Len(Grown(<<>>, "FEND"))
    <3> HIDE DEF n
    <3>5. n = 1 /\ n \in Nat
      BY <3>1, <3>4 DEF n
    <3>6. ~(n > 3) /\ ~(n > KissBufSize)
      BY <2>6, <3>3, <3>5
    <3>7. QED
      BY <3>2, <3>6 DEF n
  <2>4. ParseByte("socket", [buf |-> <<>>, out |-> o], "FEND").buf = <<"FEND">>
    BY <2>2, <2>7, BufIs
  <2>5. QED
    BY <1>1, <1>4, <2>1, <2>4 DEF c
<1>5. QED
  BY <1>1, <1>2, <1>3, <1>4

(* Anything else a host may write between FENDs, a single FEND included.   *)
OddShape(f) ==
  /\ f \in Stream /\ Len(f) \in Nat \ {0, 2}
  /\ f[1] = "FEND" /\ f[Len(f)] = "FEND"
  /\ \A i \in 2..(Len(f) - 1) : f[i] # "FEND"
  /\ Len(f) = 3 => f[2] = "Data"

(* What an odd frame can leave in the parser. *)
Leftovers == {<<>>, <<"FEND">>, EmptyFrame}

(* One byte of an odd frame: the parser holds what came of it, or has      *)
(* dropped it.                                                             *)
LEMMA ByteOdd ==
  ASSUME NEW f, OddShape(f), NEW w \in 0..(Len(f) - 1), NEW o, NEW b \in {SubSeq(f, 1, w), <<>>}
  PROVE  LET r == ParseByte("socket", [buf |-> b, out |-> o], f[w + 1])
         IN  IF w + 1 < Len(f) THEN r.buf \in {SubSeq(f, 1, w + 1), <<>>}
             ELSE r.buf \in Leftovers
<1> DEFINE c == f[w + 1]
           r == ParseByte("socket", [buf |-> b, out |-> o], c)
           g == Grown(b, c)
<1>1. /\ f \in Stream /\ Len(f) \in Nat /\ Len(f) # 0 /\ Len(f) # 2 /\ w \in Nat /\ w + 1 <= Len(f)
      /\ f[1] = "FEND" /\ f[Len(f)] = "FEND"
      /\ \A i \in 2..(Len(f) - 1) : f[i] # "FEND"
  BY DEF OddShape
<1>2. SubSeq(f, 1, w + 1) = Append(SubSeq(f, 1, w), c) /\ SubSeq(f, 1, w) \in Stream
      /\ Len(SubSeq(f, 1, w)) = w /\ c \in Bytes /\ Len(SubSeq(f, 1, w + 1)) = w + 1
  <2>1. w + 1 \in 1..Len(f) /\ (w + 1) - 1 = w
    BY <1>1
  <2>2. QED
    BY <1>1, <2>1, OneMore DEF Stream
<1>3. r.buf = IF Ends("socket", b, c) \/ Len(g) > KissBufSize THEN <<>> ELSE g
  BY BufIs
<1> HIDE DEF c, r, g
<1>4. r.buf = <<>> \/ (r.buf = g /\ ~Ends("socket", b, c))
  BY <1>3
<1>5. CASE b = SubSeq(f, 1, w)
  <2>1. g = SubSeq(f, 1, w + 1)
    <3>1. CASE w = 0
      BY <1>1, <1>2, <1>5, <3>1 DEF Grown, g, c
    <3>2. CASE w # 0
      <4>1. SubSeq(f, 1, w) # <<>>
        BY <1>2, <3>2
      <4>2. QED
        BY <1>2, <1>5, <4>1 DEF Grown, g
    <3>3. QED
      BY <3>1, <3>2
  <2>2. CASE w + 1 < Len(f)
    BY <1>4, <2>1, <2>2 DEF r, c
  <2>3. CASE w + 1 = Len(f)
    <3>1. c = "FEND"
      BY <1>1, <2>3 DEF c
    <3>2. Len(f) > 3 => Ends("socket", b, c)
      BY <1>2, <2>1, <2>3, <3>1 DEF Ends, LongerThan, g
    <3>3. g = f
      BY <1>1, <2>1, <2>3, Whole DEF Stream
    <3>4. CASE Len(f) > 3
      BY <1>4, <2>3, <3>2, <3>4 DEF Leftovers, r, c
    <3>5. CASE Len(f) = 3
      <4>1. f = EmptyFrame
        BY <1>1, <3>5 DEF OddShape, EmptyFrame, Stream
      <4>2. QED
        BY <1>4, <2>3, <3>3, <4>1 DEF Leftovers, r, c
    <3>6. CASE Len(f) = 1
      <4>1. f = <<"FEND">>
        BY <1>1, <3>6 DEF Stream
      <4>2. QED
        BY <1>4, <2>3, <3>3, <4>1 DEF Leftovers, r, c
    <3>7. Len(f) > 3 \/ Len(f) = 3 \/ Len(f) = 1
      <4>1. \A n \in Nat : n # 0 /\ n # 2 => n > 3 \/ n = 3 \/ n = 1
        OBVIOUS
      <4>2. Len(f) \in Nat /\ Len(f) # 0 /\ Len(f) # 2
        BY <1>1
      <4>3. QED
        BY <4>1, <4>2
    <3>8. QED
      BY <3>4, <3>5, <3>6, <3>7
  <2>4. QED
    BY <1>1, <2>2, <2>3
<1>6. CASE b = <<>>
  <2>1. g = IF c = "FEND" THEN <<"FEND">> ELSE <<>>
    BY <1>6 DEF Grown, g
  <2>2. CASE w + 1 = Len(f)
    BY <1>4, <2>1, <2>2 DEF Leftovers, r, c
  <2>3. CASE w + 1 < Len(f) /\ w = 0
    <3>1. b = SubSeq(f, 1, w)
      BY <1>1, <1>6, <2>3
    <3>2. QED
      BY <1>5, <3>1
  <2>4. CASE w + 1 < Len(f) /\ w # 0
    <3>1. w + 1 \in 2..(Len(f) - 1)
      BY <1>1, <2>4
    <3>2. g = <<>>
      BY <1>1, <2>1, <3>1 DEF c
    <3>3. QED
      BY <1>4, <2>4, <3>2 DEF r, c
  <2>5. QED
    BY <1>1, <2>2, <2>3, <2>4
<1>7. QED
  BY <1>5, <1>6

(* What holds of the bytes to come and the state of a parser before a      *)
(* write, and is kept by every byte, holds after the write.                *)
LEMMA ParseInduct ==
  ASSUME NEW l \in Links, NEW buf0 \in Stream, NEW r0 \in Stream, NEW n \in 1..Len(r0),
         NEW Good, <<r0, Unparsed(buf0)>> \in Good,
         \A r \in Stream, st \in ParseStates :
           <<r, st>> \in Good /\ r # <<>> => <<After(r, 1), ParseByte(l, st, r[1])>> \in Good
  PROVE  <<After(r0, n), Parse(l, buf0, SubSeq(r0, 1, n))>> \in Good
<1> DEFINE st(m) == Parse(l, buf0, SubSeq(r0, 1, m))
           Up == {m \in 0..n : <<After(r0, m), st(m)>> \in Good}
<1>1. Len(r0) \in Nat /\ n \in Nat /\ After(r0, 0) = r0 /\ SubSeq(r0, 1, 0) = <<>>
      /\ <<>> \in Stream
  BY Whole, AllAndNone DEF Stream
<1>2. 0 \in Up
  <2>1. "FEND" \in Bytes
    BY KissFramingAssumption
  <2>2. st(0) = Unparsed(buf0)
    BY <1>1, <2>1, ParseAppend
  <2>3. 0 \in 0..n
    BY <1>1
  <2> HIDE DEF st
  <2>4. QED
    BY <1>1, <2>2, <2>3
<1>3. ASSUME NEW m \in 1..n, m - 1 \in Up PROVE m \in Up
  <2> DEFINE b == SubSeq(r0, 1, m - 1)
             c == r0[m]
  <2>1. m \in 1..Len(r0) /\ m - 1 \in 0..(Len(r0) - 1) /\ (m - 1) + 1 = m /\ m \in 0..n
    BY <1>1
  <2>2. SubSeq(r0, 1, m) = Append(b, c) /\ b \in Stream /\ c \in Bytes
    BY <2>1, OneMore DEF Stream
  <2>3. /\ After(r0, m - 1) \in Stream /\ After(r0, m - 1) # <<>>
        /\ After(r0, m - 1)[1] = c /\ After(After(r0, m - 1), 1) = After(r0, m)
    BY <2>1, OneLess DEF Stream
  <2>4. st(m - 1) \in ParseStates /\ st(m) = ParseByte(l, st(m - 1), c)
    <3>1. st(m - 1) = Parse(l, buf0, b) /\ st(m) = Parse(l, buf0, Append(b, c))
      BY <2>2
    <3>2. b \in Stream /\ c \in Bytes
      BY <2>2
    <3> HIDE DEF b, c
    <3>3. Parse(l, buf0, b) \in ParseStates
          /\ Parse(l, buf0, Append(b, c)) = ParseByte(l, Parse(l, buf0, b), c)
      BY <3>2, ParseAppend
    <3> HIDE DEF st
    <3>4. QED
      BY <3>1, <3>3
  <2>5. <<After(r0, m - 1), st(m - 1)>> \in Good
    BY <1>3
  <2> HIDE DEF st, b, c
  <2>6. <<After(r0, m), st(m)>> \in Good
    BY <2>3, <2>4, <2>5
  <2>7. QED
    BY <2>1, <2>6
<1> HIDE DEF Up
<1>4. n \in Up
  BY <1>1, <1>2, <1>3, UpTo
<1>5. QED
  BY <1>4 DEF Up

-----------------------------------------------------------------------------

Frame(n)   == Encapsulate(Payloads[n], "Data")
Packets(n) == SubSeq(Payloads, 1, n)

(* The frame of a packet of the host. *)
LEMMA FrameOf ==
  ASSUME NEW n \in 1..Len(Payloads)
  PROVE  /\ Fits(Frame(n)) /\ IsData(Frame(n)) /\ Decapsulate(Frame(n)) = Payloads[n]
         /\ Frame(n) \in Stream /\ Len(Frame(n)) \in Nat /\ Len(Frame(n)) >= 4
         /\ Payloads[n] \in Stream /\ Payloads[n] # <<>>
<1>1. Payloads[n] \in Stream /\ Payloads[n] # <<>> /\ Len(Frame(n)) <= KissBufSize
  BY TransportsAssumption DEF Stream, Frame
<1>2. IsFrame(Frame(n)) /\ IsData(Frame(n)) /\ Decapsulate(Frame(n)) = Payloads[n]
  BY <1>1, FrameShape DEF Frame
<1>3. QED
  BY <1>1, <1>2 DEF Fits, IsFrame, Stream

(* The first n packets, one by one. *)
LEMMA PacketsAre ==
  ASSUME NEW n \in 0..Len(Payloads)
  PROVE  /\ Packets(n) \in Seq(Stream) /\ Len(Packets(n)) = n
         /\ \A i \in 1..n : Packets(n)[i] = Payloads[i]
         /\ n > 0 => Packets(n) = Append(Packets(n - 1), Payloads[n])
<1>1. Payloads \in Seq(Stream) /\ Len(Payloads) \in Nat
  BY TransportsAssumption DEF Stream
<1>2. Packets(n) \in Seq(Stream) /\ Len(Packets(n)) = n
      /\ \A i \in 1..n : Packets(n)[i] = Payloads[i]
  BY <1>1 DEF Packets
<1>3. ASSUME n > 0 PROVE Packets(n) = Append(Packets(n - 1), Payloads[n])
  <2>1. n \in 1..Len(Payloads)
    BY <1>1, <1>3
  <2>2. QED
    BY <1>1, <2>1, OneMore DEF Packets
<1>4. QED
  BY <1>2, <1>3

(* The packet of the host that p is. *)
Nth(p) == CHOOSE i \in 1..Len(Payloads) : Payloads[i] = p

(* Payloads differ, so each has one place. *)
LEMMA NthIs ==
  ASSUME NEW j \in 1..Len(Payloads)
  PROVE  Nth(Payloads[j]) = j
<1>1. \A i \in 1..Len(Payloads) : Payloads[i] = Payloads[j] => i = j
  BY TransportsAssumption
<1>2. QED
  BY <1>1 DEF Nth

(* The packets K are some of the first n, in order. *)
InOrder(K, n) ==
  /\ K \in Seq(Stream)
  /\ \A i \in 1..Len(K) : \E j \in 1..n : K[i] = Payloads[j]
  /\ \A i, j \in 1..Len(K) : i < j => Nth(K[i]) < Nth(K[j])

(* What is in order among the first m packets is in order among more. *)
LEMMA OrderMore ==
  ASSUME NEW K, NEW m \in Nat, NEW n \in Nat, m <= n, InOrder(K, m)
  PROVE  InOrder(K, n)
BY DEF InOrder

(* The next packet may follow any of those before it. *)
LEMMA OrderAppend ==
  ASSUME NEW K, NEW n \in 1..Len(Payloads), InOrder(K, n - 1)
  PROVE  InOrder(Append(K, Payloads[n]), n)
<1> DEFINE A == Append(K, Payloads[n])
           m == Len(K)
<1>1. /\ K \in Seq(Stream) /\ \A i \in 1..m : \E j \in 1..(n - 1) : K[i] = Payloads[j]
      /\ \A i, j \in 1..m : i < j => Nth(K[i]) < Nth(K[j])
  BY DEF InOrder
<1>2. Payloads[n] \in Stream /\ n \in Nat /\ Len(Payloads) \in Nat /\ n <= Len(Payloads)
  BY FrameOf, TransportsAssumption
<1>3. /\ A \in Seq(Stream) /\ Len(A) = m + 1 /\ m \in Nat /\ A[m + 1] = Payloads[n]
      /\ \A i \in 1..m : A[i] = K[i]
  BY <1>1, <1>2, AppendIs
<1> HIDE DEF A, m
<1>4. ASSUME NEW i \in 1..m PROVE Nth(K[i]) < n
  <2>1. PICK j \in 1..(n - 1) : K[i] = Payloads[j]
    BY <1>1
  <2>2. j \in 1..Len(Payloads) /\ j < n
    BY <1>2
  <2>3. QED
    BY <2>1, <2>2, NthIs
<1>5. ASSUME NEW i \in 1..Len(A) PROVE \E j \in 1..n : A[i] = Payloads[j]
  <2>1. CASE i = m + 1
    BY <1>2, <1>3, <2>1
  <2>2. CASE i # m + 1
    <3>1. i \in 1..m
      BY <1>3, <2>2
    <3>2. PICK j \in 1..(n - 1) : K[i] = Payloads[j]
      BY <1>1, <3>1
    <3>3. j \in 1..n
      BY <1>2
    <3>4. QED
      BY <1>3, <3>1, <3>2, <3>3
  <2>3. QED
    BY <2>1, <2>2
<1>6. ASSUME NEW i \in 1..Len(A), NEW j \in 1..Len(A), i < j PROVE Nth(A[i]) < Nth(A[j])
  <2>1. i \in 1..m
    BY <1>3, <1>6
  <2>2. CASE j = m + 1
    BY <1>3, <1>4, <2>1, <2>2, NthIs
  <2>3. CASE j # m + 1
    <3>1. j \in 1..m
      BY <1>3, <2>3
    <3>2. QED
      BY <1>1, <1>3, <1>6, <2>1, <3>1
  <2>4. QED
    BY <2>2, <2>3
<1>7. InOrder(A, n)
  BY <1>3, <1>5, <1>6 DEF InOrder
<1>8. QED
  BY <1>7 DEF A

(* The packets K are those of the first n that are not refused, in order.  *)
AllSent(l, n, K) ==
  /\ InOrder(K, n)
  /\ \A i \in 1..Len(K) : K[i] \notin Refused(l)
  /\ \A j \in 1..n : Payloads[j] \notin Refused(l) => \E i \in 1..Len(K) : K[i] = Payloads[j]

(* What is sent after the n-th packet, when K was sent before it. *)
Taken(l, n, K) == IF Payloads[n] \in Refused(l) THEN K ELSE Append(K, Payloads[n])

(* At first none is. *)
LEMMA NoneSent ==
  ASSUME NEW l \in Links
  PROVE  AllSent(l, 0, <<>>) /\ InOrder(<<>>, 0)
<1>1. <<>> \in Seq(Stream) /\ Len(<<>>) = 0
  OBVIOUS
<1>2. InOrder(<<>>, 0)
  BY <1>1 DEF InOrder
<1>3. QED
  BY <1>1, <1>2 DEF AllSent

(* Then the next is, or is refused. *)
LEMMA SentMore ==
  ASSUME NEW l \in Links, NEW n \in 1..Len(Payloads), NEW K, AllSent(l, n - 1, K)
  PROVE  AllSent(l, n, Taken(l, n, K))
<1>1. /\ InOrder(K, n - 1) /\ K \in Seq(Stream) /\ \A i \in 1..Len(K) : K[i] \notin Refused(l)
      /\ \A j \in 1..(n - 1) : Payloads[j] \notin Refused(l) => \E i \in 1..Len(K) : K[i] = Payloads[j]
  BY DEF AllSent, InOrder
<1>2. n \in Nat /\ n - 1 \in Nat /\ n - 1 <= n /\ Payloads[n] \in Stream
  BY FrameOf, TransportsAssumption
<1>3. CASE Payloads[n] \in Refused(l)
  <2>1. InOrder(K, n)
    BY <1>1, <1>2, OrderMore
  <2>2. \A j \in 1..n : j # n => j \in 1..(n - 1)
    BY <1>2
  <2>3. AllSent(l, n, K)
    BY <1>1, <1>3, <2>1, <2>2 DEF AllSent
  <2>4. QED
    BY <1>3, <2>3 DEF Taken
<1>4. CASE Payloads[n] \notin Refused(l)
  <2> DEFINE A == Append(K, Payloads[n])
             m == Len(K)
  <2>1. /\ A \in Seq(Stream) /\ Len(A) = m + 1 /\ m \in Nat /\ A[m + 1] = Payloads[n]
        /\ \A i \in 1..m : A[i] = K[i]
    BY <1>1, <1>2, AppendIs
  <2>2. InOrder(A, n)
    BY <1>1, OrderAppend
  <2> HIDE DEF A, m
  <2>3. \A i \in 1..Len(A) : A[i] \notin Refused(l)
    <3> TAKE i \in 1..Len(A)
    <3>1. i = m + 1 \/ i \in 1..m
      BY <2>1
    <3>2. QED
      BY <1>1, <1>4, <2>1, <3>1 DEF m
  <2>4. ASSUME NEW j \in 1..n, Payloads[j] \notin Refused(l)
        PROVE  \E i \in 1..Len(A) : A[i] = Payloads[j]
    <3>1. CASE j = n
      <4>1. m + 1 \in 1..Len(A)
        BY <2>1
      <4>2. QED
        BY <2>1, <3>1, <4>1
    <3>2. CASE j # n
      <4>1. PICK i \in 1..m : K[i] = Payloads[j]
        <5>1. j \in 1..(n - 1)
          BY <1>2, <3>2
        <5>2. QED
          BY <1>1, <2>4, <5>1 DEF m
      <4>2. i \in 1..Len(A)
        BY <2>1
      <4>3. QED
        BY <2>1, <4>1, <4>2
    <3>3. QED
      BY <3>1, <3>2
  <2>5. AllSent(l, n, A)
    BY <2>2, <2>3, <2>4 DEF AllSent
  <2>6. QED
    BY <1>4, <2>5 DEF Taken, A
<1>5. QED
  BY <1>3, <1>4

(* The stream of a socket or a port on which nothing but packets was       *)
(* written, when n have been begun, r is to come, b in the buffer and K    *)
(* keyed: the parser is in step, and all packets before are keyed but      *)
(* those that the link refuses.                                            *)
InStep(n, r, b) ==
  \E w \in 0..(Len(Frame(n)) - 1) : r = After(Frame(n), w) /\ b = SubSeq(Frame(n), 1, w)

StreamOK(l, n, r, b, K) ==
  \/ r = <<>> /\ b = <<>> /\ AllSent(l, n, K)
  \/ n > 0 /\ AllSent(l, n - 1, K) /\ InStep(n, r, b)

(* A byte of a packet, taken in step. *)
LEMMA InStepByte ==
  ASSUME NEW l \in Links, NEW n \in 1..Len(Payloads), NEW r, NEW st \in ParseStates,
         InStep(n, r, st.buf)
  PROVE  /\ r # <<>>
         /\ LET q == ParseByte(l, st, r[1])
            IN  \/ InStep(n, After(r, 1), q.buf) /\ q.out = st.out
                \/ After(r, 1) = <<>> /\ q.buf = <<>> /\ q.out = Taken(l, n, st.out)
<1> DEFINE f == Frame(n)
           q == ParseByte(l, st, r[1])
<1>1. PICK w \in 0..(Len(f) - 1) : r = After(f, w) /\ st.buf = SubSeq(f, 1, w)
  BY DEF InStep
<1>2. Fits(f) /\ f \in Stream /\ IsData(f) /\ Decapsulate(f) = Payloads[n] /\ Len(f) \in Nat
      /\ Len(f) >= 4
  BY FrameOf
<1>3. st = [buf |-> SubSeq(f, 1, w), out |-> st.out] /\ st.out \in Seq(Stream)
  BY <1>1 DEF ParseStates
<1> DEFINE o == st.out
           x == [buf |-> SubSeq(f, 1, w), out |-> o]
           p == ParseByte(l, x, f[w + 1])
<1> HIDE DEF f, o
<1>4. IF w + 1 < Len(f) THEN p.buf = SubSeq(f, 1, w + 1) /\ p.out = o
      ELSE p.buf = <<>> /\ p.out = Handed(l, f, o)
  <2>1. o \in Seq(Stream)
    BY <1>3 DEF o
  <2>2. QED
    BY <1>2, <2>1, ByteInStep
<1>5. r # <<>> /\ r[1] = f[w + 1] /\ After(r, 1) = After(f, w + 1)
  BY <1>1, <1>2, OneLess DEF Stream
<1>6. q = p
  BY <1>3, <1>5 DEF o
<1> HIDE DEF q, p
<1>7. CASE w + 1 < Len(f)
  <2>1. w + 1 \in 0..(Len(f) - 1)
    BY <1>2, <1>7
  <2>2. q.buf = SubSeq(f, 1, w + 1) /\ q.out = o
    BY <1>4, <1>6, <1>7
  <2>3. InStep(n, After(r, 1), q.buf)
    BY <1>5, <2>1, <2>2 DEF InStep, f
  <2>4. QED
    BY <1>5, <2>2, <2>3 DEF q, o
<1>8. CASE w + 1 = Len(f)
  <2>1. q.buf = <<>> /\ q.out = Taken(l, n, o)
    BY <1>2, <1>4, <1>6, <1>8 DEF Taken, Handed
  <2>2. After(r, 1) = <<>>
    BY <1>2, <1>5, <1>8, AllAndNone DEF Stream
  <2>3. QED
    BY <1>5, <2>1, <2>2 DEF q, o
<1>9. QED
  BY <1>2, <1>7, <1>8

(* ... and of the whole stream. *)
LEMMA StreamByte ==
  ASSUME NEW l \in Links, NEW n \in 0..Len(Payloads), NEW r, NEW st \in ParseStates,
         NEW K \in Seq(Stream),
         r # <<>>, StreamOK(l, n, r, st.buf, K \o st.out)
  PROVE  LET q == ParseByte(l, st, r[1])
         IN  StreamOK(l, n, After(r, 1), q.buf, K \o q.out)
<1> DEFINE q == ParseByte(l, st, r[1])
           o == st.out
<1>1. n > 0 /\ AllSent(l, n - 1, K \o o) /\ InStep(n, r, st.buf)
  BY DEF StreamOK
<1>2. n \in 1..Len(Payloads) /\ o \in Seq(Stream)
  BY <1>1 DEF ParseStates
<1>3. \/ InStep(n, After(r, 1), q.buf) /\ q.out = o
      \/ After(r, 1) = <<>> /\ q.buf = <<>> /\ q.out = Taken(l, n, o)
  BY <1>1, <1>2, InStepByte
<1> HIDE DEF q, o
<1>4. CASE InStep(n, After(r, 1), q.buf) /\ q.out = o
  BY <1>1, <1>4 DEF StreamOK, q
<1>5. CASE After(r, 1) = <<>> /\ q.buf = <<>> /\ q.out = Taken(l, n, o)
  <2>1. Payloads[n] \in Stream
    BY <1>2, FrameOf
  <2>2. K \o q.out = Taken(l, n, K \o o)
    <3>1. CASE Payloads[n] \in Refused(l)
      BY <1>5, <3>1 DEF Taken
    <3>2. CASE Payloads[n] \notin Refused(l)
      <4>1. K \o Append(o, Payloads[n]) = Append(K \o o, Payloads[n])
        BY <1>2, <2>1, CatAppend
      <4>2. QED
        BY <1>5, <3>2, <4>1 DEF Taken
    <3>3. QED
      BY <3>1, <3>2
  <2>3. AllSent(l, n, K \o q.out)
    BY <1>1, <1>2, <2>2, SentMore
  <2>4. QED
    BY <1>5, <2>3 DEF StreamOK, q
<1>6. QED
  BY <1>3, <1>4, <1>5

(* A write of a piece of any length. *)
LEMMA StreamWrite ==
  ASSUME NEW l \in Links, NEW k \in 0..Len(Payloads), NEW r \in Stream, NEW b \in Stream,
         NEW K \in Seq(Stream), StreamOK(l, k, r, b, K), NEW n \in 1..Len(r)
  PROVE  LET q == Parse(l, b, SubSeq(r, 1, n))
         IN  StreamOK(l, k, After(r, n), q.buf, K \o q.out)
<1> DEFINE Good == {x \in Stream \X ParseStates : StreamOK(l, k, x[1], x[2].buf, K \o x[2].out)}
           q == Parse(l, b, SubSeq(r, 1, n))
<1>1. <<r, Unparsed(b)>> \in Good
  <2>1. Unparsed(b) \in ParseStates /\ Unparsed(b).buf = b /\ Unparsed(b).out = <<>>
    BY UnparsedState DEF Unparsed
  <2>2. K \o <<>> = K
    OBVIOUS
  <2>3. QED
    BY <2>1, <2>2
<1>2. ASSUME NEW s \in Stream, NEW st \in ParseStates, <<s, st>> \in Good, s # <<>>
      PROVE  <<After(s, 1), ParseByte(l, st, s[1])>> \in Good
  <2> DEFINE p == ParseByte(l, st, s[1])
  <2>1. StreamOK(l, k, s, st.buf, K \o st.out)
    BY <1>2
  <2>2. StreamOK(l, k, After(s, 1), p.buf, K \o p.out)
    BY <1>2, <2>1, StreamByte
  <2>3. s[1] \in Bytes /\ After(s, 1) \in Stream
    BY <1>2 DEF Stream, After
  <2>4. p \in ParseStates
    BY <2>3, ParseByteKeeps
  <2> HIDE DEF p
  <2>5. <<After(s, 1), p>> \in Good
    BY <2>2, <2>3, <2>4
  <2>6. QED
    BY <2>5 DEF p
<1>3. l \in Links
  OBVIOUS
<1> HIDE DEF Good
<1>4. <<After(r, n), q>> \in Good
  BY <1>1, <1>2, <1>3, ParseInduct
<1> HIDE DEF q
<1>5. StreamOK(l, k, After(r, n), q.buf, K \o q.out)
  BY <1>4 DEF Good
<1>6. QED
  BY <1>5 DEF q

(* The socket after something else, when n packets have been begun, s of   *)
(* them since: between two frames, ...                                     *)
BetweenFrames(n, s, b, K) ==
  /\ s = 0 => b \in Leftovers
  /\ s = 1 => b \in {<<>>, <<"FEND">>}
  /\ s >= 2 => b = <<>>
  /\ s >= 3 /\ Payloads[n] \notin Own => K # <<>> /\ Last(K) = Payloads[n]

(* ... in the other thing, ...                                             *)
WithinOdd(r, b) ==
  \E f \in Stream, w \in Nat :
    /\ OddShape(f) /\ w < Len(f)
    /\ r = After(f, w) /\ b \in {SubSeq(f, 1, w), <<>>}

(* ... and in a packet: in step, a byte ahead, or a frame behind.          *)
OutOfStep(n, s, r, b) ==
  \E w \in 0..(Len(Frame(n)) - 1) :
    /\ r = After(Frame(n), w)
    /\ \/ s <= 2 /\ b = Ahead(Frame(n), w)
       \/ s = 1 /\ b = Behind(w)

SocketOK(n, s, r, b, K) ==
  \/ r = <<>> /\ BetweenFrames(n, s, b, K)
  \/ s = 0 /\ WithinOdd(r, b)
  \/ s > 0 /\ (InStep(n, r, b) \/ OutOfStep(n, s, r, b))

(* A byte of the other thing. *)
LEMMA WithinOddByte ==
  ASSUME NEW r, NEW st \in ParseStates, WithinOdd(r, st.buf)
  PROVE  /\ r # <<>>
         /\ LET q == ParseByte("socket", st, r[1])
            IN  WithinOdd(After(r, 1), q.buf) \/ (After(r, 1) = <<>> /\ q.buf \in Leftovers)
<1> DEFINE q == ParseByte("socket", st, r[1])
           o == st.out
<1>1. PICK f \in Stream, w \in Nat :
        /\ OddShape(f) /\ w < Len(f)
        /\ r = After(f, w) /\ st.buf \in {SubSeq(f, 1, w), <<>>}
  BY DEF WithinOdd
<1>2. w \in 0..(Len(f) - 1) /\ Len(f) \in Nat
  BY <1>1 DEF Stream
<1>3. r # <<>> /\ r[1] = f[w + 1] /\ After(r, 1) = After(f, w + 1)
  BY <1>1, <1>2, OneLess DEF Stream
<1> DEFINE b == st.buf
           p == ParseByte("socket", [buf |-> b, out |-> o], f[w + 1])
<1>4. st = [buf |-> b, out |-> o]
  BY DEF ParseStates
<1>5. b \in {SubSeq(f, 1, w), <<>>}
  BY <1>1
<1>6. q = p
  BY <1>3, <1>4
<1> HIDE DEF q, b, o
<1>7. IF w + 1 < Len(f) THEN p.buf \in {SubSeq(f, 1, w + 1), <<>>} ELSE p.buf \in Leftovers
  BY <1>1, <1>2, <1>5, ByteOdd
<1> HIDE DEF p
<1>8. CASE w + 1 < Len(f)
  <2>1. p.buf \in {SubSeq(f, 1, w + 1), <<>>} /\ w + 1 \in Nat
    BY <1>7, <1>8
  <2>2. WithinOdd(After(f, w + 1), p.buf)
    BY <1>1, <1>8, <2>1 DEF WithinOdd
  <2>3. QED
    BY <1>3, <1>6, <2>2 DEF q
<1>9. CASE w + 1 = Len(f)
  <2>1. p.buf \in Leftovers
    BY <1>2, <1>7, <1>9
  <2>2. After(f, w + 1) = <<>>
    BY <1>9, AllAndNone DEF Stream
  <2>3. QED
    BY <1>3, <1>6, <2>1, <2>2 DEF q
<1>10. QED
  BY <1>1, <1>2, <1>8, <1>9

(* A byte of a packet that is not taken in step. *)
LEMMA OutOfStepByte ==
  ASSUME NEW n \in 1..Len(Payloads), NEW s \in Nat, NEW r, NEW st \in ParseStates,
         OutOfStep(n, s, r, st.buf)
  PROVE  /\ r # <<>>
         /\ LET q == ParseByte("socket", st, r[1])
            IN  \/ OutOfStep(n, s, After(r, 1), q.buf)
                \/ /\ After(r, 1) = <<>> /\ s <= 2
                   /\ s = 1 => q.buf \in {<<>>, <<"FEND">>}
                   /\ s # 1 => q.buf = <<>>
<1> DEFINE q == ParseByte("socket", st, r[1])
           o == st.out
           b == st.buf
           f == Frame(n)
<1>1. PICK w \in 0..(Len(f) - 1) :
        /\ r = After(f, w)
        /\ \/ s <= 2 /\ b = Ahead(f, w)
           \/ s = 1 /\ b = Behind(w)
  BY DEF OutOfStep
<1>2. Fits(f) /\ f \in Stream /\ Len(f) \in Nat /\ Len(f) >= 4
  BY FrameOf
<1>3. r # <<>> /\ r[1] = f[w + 1] /\ After(r, 1) = After(f, w + 1)
  BY <1>1, <1>2, OneLess DEF Stream
<1> DEFINE p == ParseByte("socket", [buf |-> b, out |-> o], f[w + 1])
<1>4. st = [buf |-> b, out |-> o]
  BY DEF ParseStates
<1>5. q = p
  BY <1>3, <1>4
<1> HIDE DEF q, b, o, f
<1>6. CASE s <= 2 /\ b = Ahead(f, w)
  <2>1. ParseByte("socket", [buf |-> Ahead(f, w), out |-> o], f[w + 1]).buf =
          IF w + 1 < Len(f) THEN Ahead(f, w + 1) ELSE <<>>
    BY <1>2, ByteAhead
  <2>2. p.buf = IF w + 1 < Len(f) THEN Ahead(f, w + 1) ELSE <<>>
    BY <1>6, <2>1
  <2> HIDE DEF p
  <2>3. CASE w + 1 < Len(f)
    <3>1. w + 1 \in 0..(Len(f) - 1) /\ p.buf = Ahead(f, w + 1)
      BY <1>2, <2>2, <2>3
    <3>2. OutOfStep(n, s, After(f, w + 1), p.buf)
      BY <1>6, <3>1 DEF OutOfStep, f
    <3>3. QED
      BY <1>3, <1>5, <3>2 DEF q
  <2>4. CASE w + 1 = Len(f)
    <3>1. p.buf = <<>>
      BY <1>2, <2>2, <2>4
    <3>2. After(f, w + 1) = <<>>
      BY <1>2, <2>4, AllAndNone DEF Stream
    <3>3. QED
      BY <1>3, <1>5, <1>6, <3>1, <3>2 DEF q
  <2>5. QED
    BY <1>2, <2>3, <2>4
<1>7. CASE s = 1 /\ b = Behind(w)
  <2>1. ParseByte("socket", [buf |-> Behind(w), out |-> o], f[w + 1]).buf =
          IF w + 1 < Len(f) THEN <<>> ELSE <<"FEND">>
    BY <1>2, ByteBehind
  <2>2. p.buf = IF w + 1 < Len(f) THEN <<>> ELSE <<"FEND">>
    BY <1>7, <2>1
  <2> HIDE DEF p
  <2>3. CASE w + 1 < Len(f)
    <3>1. w + 1 \in 0..(Len(f) - 1) /\ p.buf = Behind(w + 1)
      BY <1>2, <2>2, <2>3 DEF Behind
    <3>2. OutOfStep(n, s, After(f, w + 1), p.buf)
      BY <1>7, <3>1 DEF OutOfStep, f
    <3>3. QED
      BY <1>3, <1>5, <3>2 DEF q
  <2>4. CASE w + 1 = Len(f)
    <3>1. p.buf = <<"FEND">>
      BY <1>2, <2>2, <2>4
    <3>2. After(f, w + 1) = <<>>
      BY <1>2, <2>4, AllAndNone DEF Stream
    <3>3. s \in Nat /\ s = 1 /\ s <= 2 /\ q.buf \in {<<>>, <<"FEND">>}
      BY <1>5, <1>7, <3>1
    <3>4. QED
      BY <1>3, <3>2, <3>3 DEF q
  <2>5. QED
    BY <1>2, <2>3, <2>4
<1>8. QED
  BY <1>1, <1>3, <1>6, <1>7 DEF f, b, q

(* Any byte. *)
LEMMA SocketByte ==
  ASSUME NEW n \in 0..Len(Payloads), NEW s \in 0..n, NEW r, NEW st \in ParseStates,
         NEW K \in Seq(Stream),
         r # <<>>, SocketOK(n, s, r, st.buf, K \o st.out)
  PROVE  LET q == ParseByte("socket", st, r[1])
         IN  SocketOK(n, s, After(r, 1), q.buf, K \o q.out)
<1> DEFINE q == ParseByte("socket", st, r[1])
           o == st.out
<1>1. s \in Nat /\ n \in Nat /\ Len(Payloads) \in Nat /\ (s > 0 => n \in 1..Len(Payloads))
      /\ o \in Seq(Stream)
  BY TransportsAssumption DEF ParseStates
<1>2. CASE s = 0 /\ WithinOdd(r, st.buf)
  <2>1. WithinOdd(After(r, 1), q.buf) \/ (After(r, 1) = <<>> /\ q.buf \in Leftovers)
    BY <1>2, WithinOddByte
  <2> HIDE DEF q, o
  <2>2. QED
    BY <1>1, <1>2, <2>1 DEF SocketOK, BetweenFrames, q
<1>3. CASE s > 0 /\ InStep(n, r, st.buf)
  <2>1. \/ InStep(n, After(r, 1), q.buf) /\ q.out = o
        \/ After(r, 1) = <<>> /\ q.buf = <<>> /\ q.out = Taken("socket", n, o)
    BY <1>1, <1>3, InStepByte, SocketIsLink
  <2> HIDE DEF q, o
  <2>2. CASE InStep(n, After(r, 1), q.buf)
    BY <1>3, <2>2 DEF SocketOK, q
  <2>3. CASE After(r, 1) = <<>> /\ q.buf = <<>> /\ q.out = Taken("socket", n, o)
    <3>1. Payloads[n] \in Stream
      BY <1>1, <1>3, FrameOf
    <3>2. Payloads[n] \notin Own => K \o q.out = Append(K \o o, Payloads[n])
      BY <1>1, <2>3, <3>1, CatAppend DEF Taken, Refused
    <3> DEFINE C == K \o o
    <3>3. C \in Seq(Stream)
      BY <1>1
    <3> HIDE DEF C
    <3>4. Append(C, Payloads[n]) # <<>> /\ Last(Append(C, Payloads[n])) = Payloads[n]
      BY <3>1, <3>3, AppendIs DEF Last
    <3>5. BetweenFrames(n, s, q.buf, K \o q.out)
      BY <1>1, <1>3, <2>3, <3>2, <3>4 DEF BetweenFrames, Leftovers, C
    <3>6. QED
      BY <2>3, <3>5 DEF SocketOK, q
  <2>4. QED
    BY <2>1, <2>2, <2>3
<1>4. CASE s > 0 /\ OutOfStep(n, s, r, st.buf)
  <2>1. \/ OutOfStep(n, s, After(r, 1), q.buf)
        \/ /\ After(r, 1) = <<>> /\ s <= 2
           /\ s = 1 => q.buf \in {<<>>, <<"FEND">>}
           /\ s # 1 => q.buf = <<>>
    BY <1>1, <1>4, OutOfStepByte
  <2> HIDE DEF q, o
  <2>2. QED
    BY <1>1, <1>4, <2>1 DEF SocketOK, BetweenFrames, q
<1>5. QED
  BY <1>2, <1>3, <1>4 DEF SocketOK

(* A write of a piece of any length. *)
LEMMA SocketWrite ==
  ASSUME NEW k \in 0..Len(Payloads), NEW s \in 0..k, NEW r \in Stream, NEW b \in Stream,
         NEW K \in Seq(Stream), SocketOK(k, s, r, b, K), NEW n \in 1..Len(r)
  PROVE  LET q == Parse("socket", b, SubSeq(r, 1, n))
         IN  SocketOK(k, s, After(r, n), q.buf, K \o q.out)
<1> DEFINE Good == {x \in Stream \X ParseStates : SocketOK(k, s, x[1], x[2].buf, K \o x[2].out)}
           q == Parse("socket", b, SubSeq(r, 1, n))
<1>1. <<r, Unparsed(b)>> \in Good
  <2>1. Unparsed(b) \in ParseStates /\ Unparsed(b).buf = b /\ Unparsed(b).out = <<>>
    BY UnparsedState DEF Unparsed
  <2>2. K \o <<>> = K
    OBVIOUS
  <2>3. QED
    BY <2>1, <2>2
<1>2. ASSUME NEW t \in Stream, NEW st \in ParseStates, <<t, st>> \in Good, t # <<>>
      PROVE  <<After(t, 1), ParseByte("socket", st, t[1])>> \in Good
  <2> DEFINE p == ParseByte("socket", st, t[1])
  <2>1. SocketOK(k, s, t, st.buf, K \o st.out)
    BY <1>2
  <2>2. SocketOK(k, s, After(t, 1), p.buf, K \o p.out)
    BY <1>2, <2>1, SocketByte
  <2>3. t[1] \in Bytes /\ After(t, 1) \in Stream
    BY <1>2 DEF Stream, After
  <2>4. p \in ParseStates
    BY <2>3, ParseByteKeeps, SocketIsLink
  <2> HIDE DEF p
  <2>5. <<After(t, 1), p>> \in Good
    BY <2>2, <2>3, <2>4
  <2>6. QED
    BY <2>5 DEF p
<1> HIDE DEF Good
<1>4. <<After(r, n), q>> \in Good
  BY <1>1, <1>2, ParseInduct, SocketIsLink
<1> HIDE DEF q
<1>5. SocketOK(k, s, After(r, n), q.buf, K \o q.out)
  BY <1>4 DEF Good
<1>6. QED
  BY <1>5 DEF q

FirstFend(b) == SelectInSeq(b, LAMBDA c : c = "FEND")
NextFend(b)  == SelectInSubSeq(b, 2, Len(b), LAMBDA c : c = "FEND")

(* The least of a set of numbers is one of them. *)
LEMMA MinIsLeast ==
  ASSUME NEW I \in SUBSET Nat, I # {}
  PROVE  Min(I) \in I /\ \A k \in I : Min(I) <= k
BY LeastOf DEF Min

(* The first FEND of the bytes from m on. *)
IsFirst(k, m, b) ==
  IF k = 0 THEN \A i \in m..Len(b) : b[i] # "FEND"
  ELSE k \in m..Len(b) /\ b[k] = "FEND" /\ \A i \in m..(k - 1) : b[i] # "FEND"

(* takeKissFrame() looks for the first FEND from the start... *)
LEMMA FirstFendIs ==
  ASSUME NEW b \in Stream
  PROVE  FirstFend(b) \in Nat /\ IsFirst(FirstFend(b), 1, b)
<1> DEFINE I == {i \in 1..Len(b) : b[i] = "FEND"}
<1>1. FirstFend(b) = IF I # {} THEN Min(I) ELSE 0
  BY DEF FirstFend, SelectInSeq
<1>2. CASE I = {}
  BY <1>1, <1>2 DEF IsFirst
<1>3. CASE I # {}
  <2>1. Min(I) \in I /\ \A k \in I : Min(I) <= k
    <3>1. I \in SUBSET Nat
      OBVIOUS
    <3> HIDE DEF I
    <3>2. QED
      BY <1>3, <3>1, MinIsLeast
  <2> DEFINE k == Min(I)
  <2>2. k \in 1..Len(b) /\ b[k] = "FEND" /\ Len(b) \in Nat
    BY <2>1 DEF Stream
  <2>3. ASSUME NEW i \in 1..(k - 1) PROVE b[i] # "FEND"
    <3>1. i \in 1..Len(b) /\ ~(k <= i)
      BY <2>2
    <3>2. i \notin I
      BY <2>1, <3>1
    <3>3. QED
      BY <3>1, <3>2
  <2> HIDE DEF k
  <2>4. FirstFend(b) = k
    BY <1>1, <1>3 DEF k
  <2>5. QED
    BY <2>2, <2>3, <2>4 DEF IsFirst
<1>4. QED
  BY <1>2, <1>3

(* ... and for the next one behind it. *)
LEMMA NextFendIs ==
  ASSUME NEW b \in Stream
  PROVE  NextFend(b) \in Nat /\ IsFirst(NextFend(b), 2, b)
<1> DEFINE I == {i \in 2..Len(b) : b[i] = "FEND"}
<1>1. NextFend(b) = IF I # {} THEN Min(I) ELSE 0
  BY DEF NextFend, SelectInSubSeq
<1>2. CASE I = {}
  BY <1>1, <1>2 DEF IsFirst
<1>3. CASE I # {}
  <2>1. Min(I) \in I /\ \A k \in I : Min(I) <= k
    <3>1. I \in SUBSET Nat
      OBVIOUS
    <3> HIDE DEF I
    <3>2. QED
      BY <1>3, <3>1, MinIsLeast
  <2> DEFINE k == Min(I)
  <2>2. k \in 2..Len(b) /\ b[k] = "FEND" /\ Len(b) \in Nat
    BY <2>1 DEF Stream
  <2>3. ASSUME NEW i \in 2..(k - 1) PROVE b[i] # "FEND"
    <3>1. i \in 2..Len(b) /\ ~(k <= i)
      BY <2>2
    <3>2. i \notin I
      BY <2>1, <3>1
    <3>3. QED
      BY <3>1, <3>2
  <2> HIDE DEF k
  <2>4. NextFend(b) = k
    BY <1>1, <1>3 DEF k
  <2>5. QED
    BY <2>2, <2>3, <2>4 DEF IsFirst
<1>4. QED
  BY <1>2, <1>3

(* There is one first FEND. *)
LEMMA FirstIsOne ==
  ASSUME NEW b \in Stream, NEW m \in {1, 2}, NEW j \in Nat, NEW k \in Nat, IsFirst(j, m, b),
         IsFirst(k, m, b)
  PROVE  j = k
<1>1. Len(b) \in Nat
  BY DEF Stream
<1>2. CASE j = 0
  BY <1>1, <1>2 DEF IsFirst
<1>3. CASE k = 0
  BY <1>1, <1>3 DEF IsFirst
<1>4. CASE j # 0 /\ k # 0
  <2>1. /\ j \in m..Len(b) /\ b[j] = "FEND" /\ \A i \in m..(j - 1) : b[i] # "FEND"
        /\ k \in m..Len(b) /\ b[k] = "FEND" /\ \A i \in m..(k - 1) : b[i] # "FEND"
    BY <1>4 DEF IsFirst
  <2>2. ~(j < k) /\ ~(k < j)
    BY <1>1, <2>1
  <2>3. QED
    BY <2>2
<1>5. QED
  BY <1>2, <1>3, <1>4

-----------------------------------------------------------------------------

Held(b, o) == [buf |-> b, out |-> o]

(* A round of the callback, by what the buffer holds. *)
LEMMA TakeFrameIs ==
  ASSUME NEW b, NEW o
  PROVE  TakeFrame(Held(b, o)) =
           IF b = <<>> THEN Held(b, o)
           ELSE IF Head(b) # "FEND"
           THEN Held(IF FirstFend(b) = 0 THEN <<>> ELSE SubSeq(b, FirstFend(b), Len(b)), o)
           ELSE IF NextFend(b) = 0 THEN Held(b, o)
           ELSE Held(SubSeq(b, NextFend(b) + 1, Len(b)),
                     IF NextFend(b) >= 4 THEN Append(o, SubSeq(b, 1, NextFend(b))) ELSE o)
<1> DEFINE st == Held(b, o)
<1>1. st.buf = b /\ st.out = o
  BY DEF Held
<1>2. \A c : [st EXCEPT !.buf = c] = Held(c, o)
  BY DEF Held
<1> HIDE DEF st
<1>3. TakeFrame(st) =
        IF st.buf = <<>> THEN st
        ELSE IF Head(st.buf) # "FEND"
        THEN [st EXCEPT !.buf = IF FirstFend(st.buf) = 0 THEN <<>> ELSE SubSeq(st.buf, FirstFend(st.buf), Len(st.buf))]
        ELSE IF NextFend(st.buf) = 0 THEN st
        ELSE Held(SubSeq(st.buf, NextFend(st.buf) + 1, Len(st.buf)),
                  IF NextFend(st.buf) >= 4 THEN Append(st.out, SubSeq(st.buf, 1, NextFend(st.buf)))
                  ELSE st.out)
  BY Zenon DEF TakeFrame, FirstFend, NextFend, Held
<1>4. [st EXCEPT !.buf = IF FirstFend(b) = 0 THEN <<>> ELSE SubSeq(b, FirstFend(b), Len(b))] =
        Held(IF FirstFend(b) = 0 THEN <<>> ELSE SubSeq(b, FirstFend(b), Len(b)), o)
  BY <1>2
<1>5. QED
  BY <1>1, <1>3, <1>4, Zenon DEF st

(* What it has to look through is a parse state. *)
LEMMA HeldState ==
  ASSUME NEW b \in Stream, NEW o \in Seq(Stream)
  PROVE  Held(b, o) \in ParseStates
BY DEF Held, ParseStates

(* A round leaves bytes and frames of bytes. *)
LEMMA TakeFrameKeeps ==
  ASSUME NEW st \in ParseStates
  PROVE  TakeFrame(st) \in ParseStates
<1> DEFINE b == st.buf
           o == st.out
           i == FirstFend(b)
           j == NextFend(b)
<1>1. st = Held(b, o) /\ b \in Stream /\ o \in Seq(Stream)
  BY DEF ParseStates, Held
<1> HIDE DEF b, o
<1>2. Len(b) \in Nat /\ <<>> \in Stream
  BY <1>1 DEF Stream
<1>3. i \in 0..Len(b) /\ j \in 0..Len(b)
  BY <1>1, <1>2, FirstFendIs, NextFendIs DEF IsFirst
<1>4. i # 0 => SubSeq(b, i, Len(b)) \in Stream
  BY <1>1, <1>2, <1>3 DEF Stream
<1>5. SubSeq(b, j + 1, Len(b)) \in Stream /\ SubSeq(b, 1, j) \in Stream
  BY <1>1, <1>2, <1>3 DEF Stream
<1>6. Append(o, SubSeq(b, 1, j)) \in Seq(Stream)
  BY <1>1, <1>5
<1>7. TakeFrame(Held(b, o)) =
           IF b = <<>> THEN Held(b, o)
           ELSE IF Head(b) # "FEND"
           THEN Held(IF i = 0 THEN <<>> ELSE SubSeq(b, i, Len(b)), o)
           ELSE IF j = 0 THEN Held(b, o)
           ELSE Held(SubSeq(b, j + 1, Len(b)),
                     IF j >= 4 THEN Append(o, SubSeq(b, 1, j)) ELSE o)
  BY TakeFrameIs
<1> HIDE DEF i, j
<1> DEFINE x == IF i = 0 THEN <<>> ELSE SubSeq(b, i, Len(b))
           y == IF j >= 4 THEN Append(o, SubSeq(b, 1, j)) ELSE o
           z == SubSeq(b, j + 1, Len(b))
<1>8. x \in Stream /\ y \in Seq(Stream) /\ z \in Stream
  BY <1>1, <1>2, <1>4, <1>5, <1>6
<1> HIDE DEF x, y, z
<1>9. Held(b, o) \in ParseStates /\ Held(x, o) \in ParseStates /\ Held(z, y) \in ParseStates
  BY <1>1, <1>8, HeldState
<1>10. TakeFrame(Held(b, o)) \in {Held(b, o), Held(x, o), Held(z, y)}
  BY <1>7, Zenon DEF x, y, z
<1>11. QED
  BY <1>1, <1>9, <1>10

(* TakeFrames as a table: a round at a time, MaxIterations of them. *)
TakeStep == [x \in (1..MaxIterations) \X ParseStates |-> TakeFrame(x[2])]

TakeGrows(u, st) ==
  u = [n \in 0..MaxIterations |-> IF n = 0 THEN st ELSE TakeFrame(u[n - 1])]

(* A step of the table of TakeFrames is TakeFrame. *)
LEMMA TakeSteps ==
  /\ MaxIterations \in Nat /\ MaxIterations >= 2
  /\ TakeStep \in [(1..MaxIterations) \X ParseStates -> ParseStates]
  /\ \A n \in 1..MaxIterations, s \in ParseStates : TakeStep[<<n, s>>] = TakeFrame(s)
<1>1. MaxIterations \in Nat /\ MaxIterations >= 2
  BY KissFramingAssumption
<1>2. \A x \in (1..MaxIterations) \X ParseStates : TakeFrame(x[2]) \in ParseStates
  BY TakeFrameKeeps
<1>3. TakeStep \in [(1..MaxIterations) \X ParseStates -> ParseStates]
  BY <1>2 DEF TakeStep
<1>4. \A n \in 1..MaxIterations, s \in ParseStates : TakeStep[<<n, s>>] = TakeFrame(s)
  BY DEF TakeStep
<1>5. QED
  BY <1>1, <1>3, <1>4

(* What TakeFrames computes, round by round. *)
LEMMA TakeFramesTable ==
  ASSUME NEW st \in ParseStates
  PROVE  \E u : Table(u, ParseStates, st, TakeStep, MaxIterations)
         /\ TakeFrames(st) = u[MaxIterations]
<1> DEFINE step == TakeStep
           upTo == CHOOSE u : TakeGrows(u, st)
<1>1. MaxIterations \in Nat /\ st \in ParseStates
      /\ step \in [(1..MaxIterations) \X ParseStates -> ParseStates]
  BY TakeSteps
<1>2. \A n \in 1..MaxIterations, s \in ParseStates : step[<<n, s>>] = TakeFrame(s)
  BY TakeSteps
<1> HIDE DEF step
<1>3. TakeGrows(upTo, st)
  <2>1. PICK u : Table(u, ParseStates, st, step, MaxIterations)
    BY <1>1, TableExists
  <2>2. ASSUME NEW n \in 1..MaxIterations PROVE u[n] = TakeFrame(u[n - 1])
    <3>1. n - 1 \in 0..MaxIterations /\ u[n - 1] \in ParseStates
      BY <1>1, <2>1 DEF Table
    <3>2. QED
      BY <1>2, <2>1, <3>1 DEF Table
  <2>3. u = [n \in 0..MaxIterations |-> u[n]] /\ u[0] = st
    BY <2>1 DEF Table
  <2>4. ASSUME NEW n \in 0..MaxIterations PROVE u[n] = IF n = 0 THEN st ELSE TakeFrame(u[n - 1])
    <3>1. CASE n = 0
      BY <2>3, <3>1
    <3>2. CASE n # 0
      <4>1. n \in 1..MaxIterations
        BY <1>1, <3>2
      <4>2. QED
        BY <2>2, <3>2, <4>1
    <3>3. QED
      BY <3>1, <3>2
  <2>5. TakeGrows(u, st)
    BY <2>3, <2>4, Zenon DEF TakeGrows
  <2>6. QED
    BY <2>5
<1>4. TakeFrames(st) = upTo[MaxIterations]
  BY Zenon DEF TakeFrames, TakeGrows
<1> HIDE DEF upTo
<1>5. upTo = [n \in 0..MaxIterations |-> IF n = 0 THEN st ELSE TakeFrame(upTo[n - 1])]
  BY <1>3 DEF TakeGrows
<1>6. upTo = [n \in 0..MaxIterations |-> upTo[n]]
  BY <1>5
<1>7. upTo[0] = st
  BY <1>1, <1>5
<1>8. ASSUME NEW n \in 1..MaxIterations PROVE upTo[n] = TakeFrame(upTo[n - 1])
  <2>1. n \in 0..MaxIterations /\ n # 0
    BY <1>1
  <2>2. upTo[n] = IF n = 0 THEN st ELSE TakeFrame(upTo[n - 1])
    BY <1>5, <2>1, Zenon
  <2>3. QED
    BY <2>1, <2>2
<1>9. Table(upTo, ParseStates, st, step, MaxIterations)
  BY <1>1, <1>2, <1>6, <1>7, <1>8, RecursionIsTable
<1>10. QED
  BY <1>4, <1>9 DEF step

(* Two rounds are enough when the second leaves nothing to do. *)
LEMMA TwoRounds ==
  ASSUME NEW st \in ParseStates, NEW x, x = TakeFrame(TakeFrame(st)), TakeFrame(x) = x
  PROVE  TakeFrames(st) = x
<1>1. PICK u : Table(u, ParseStates, st, TakeStep, MaxIterations)
               /\ TakeFrames(st) = u[MaxIterations]
  BY TakeFramesTable
<1>2. MaxIterations \in Nat /\ MaxIterations >= 2
  BY TakeSteps
<1>3. u[0] = st
  BY <1>1 DEF Table
<1>4. ASSUME NEW n \in 1..MaxIterations PROVE u[n] = TakeFrame(u[n - 1])
  <2>1. u[n - 1] \in ParseStates
    BY <1>1, <1>2 DEF Table
  <2>2. u[n] = TakeStep[<<n, u[n - 1]>>]
    BY <1>1 DEF Table
  <2>3. QED
    BY <2>1, <2>2, TakeSteps
<1>5. u[1] = TakeFrame(st) /\ u[2] = x
  <2>1. 1 \in 1..MaxIterations /\ 2 \in 1..MaxIterations
    BY <1>2
  <2>2. u[1] = TakeFrame(u[1 - 1]) /\ u[2] = TakeFrame(u[2 - 1])
    BY <1>4, <2>1
  <2>3. QED
    BY <1>3, <2>2
<1> DEFINE Up == {m \in 0..(MaxIterations - 2) : u[m + 2] = x}
<1>6. 0 \in Up
  BY <1>2, <1>5
<1>7. ASSUME NEW m \in 1..(MaxIterations - 2), m - 1 \in Up PROVE m \in Up
  <2>1. m + 2 \in 1..MaxIterations /\ (m + 2) - 1 = (m - 1) + 2
    BY <1>2
  <2>2. u[m + 2] = TakeFrame(u[(m + 2) - 1])
    BY <1>4, <2>1
  <2>3. u[(m - 1) + 2] = x
    BY <1>7
  <2>4. QED
    BY <2>1, <2>2, <2>3
<1> HIDE DEF Up
<1>8. MaxIterations - 2 \in Up
  <2>1. MaxIterations - 2 \in Nat
    BY <1>2
  <2> DEFINE M == MaxIterations - 2
  <2> HIDE DEF M
  <2>2. M \in Nat /\ \A m \in 1..M : m - 1 \in Up => m \in Up
    BY <1>7, <2>1 DEF M
  <2>3. M \in Up
    BY <1>6, <2>2, UpTo
  <2>4. QED
    BY <2>3 DEF M
<1>9. u[(MaxIterations - 2) + 2] = x
  BY <1>8 DEF Up
<1>10. QED
  BY <1>1, <1>2, <1>9

(* The rounds, by the first FEND. *)
LEMMA RoundOff ==
  ASSUME NEW b \in Stream, NEW o, b # <<>>, b[1] = "FEND", NEW k \in Nat, IsFirst(k, 2, b)
  PROVE  TakeFrame(Held(b, o)) =
           IF k = 0 THEN Held(b, o)
           ELSE Held(SubSeq(b, k + 1, Len(b)), IF k >= 4 THEN Append(o, SubSeq(b, 1, k)) ELSE o)
<1>1. NextFend(b) = k
  BY NextFendIs, FirstIsOne
<1>2. Head(b) = "FEND"
  BY DEF Stream
<1>3. QED
  BY <1>1, <1>2, TakeFrameIs

(* A round drops what comes before the first FEND. *)
LEMMA RoundTo ==
  ASSUME NEW b \in Stream, NEW o, b # <<>>, b[1] # "FEND", NEW k \in Nat, IsFirst(k, 1, b)
  PROVE  TakeFrame(Held(b, o)) = Held(IF k = 0 THEN <<>> ELSE SubSeq(b, k, Len(b)), o)
<1>1. FirstFend(b) = k
  BY FirstFendIs, FirstIsOne
<1>2. Head(b) # "FEND"
  BY DEF Stream
<1>3. QED
  BY <1>1, <1>2, TakeFrameIs

(* Nothing to look through: nothing happens. *)
LEMMA RoundEmpty ==
  ASSUME NEW o
  PROVE  TakeFrame(Held(<<>>, o)) = Held(<<>>, o)
BY TakeFrameIs

(* A single FEND stays where it is. *)
LEMMA OneFend ==
  ASSUME NEW o
  PROVE  <<"FEND">> \in Stream /\ TakeFrame(Held(<<"FEND">>, o)) = Held(<<"FEND">>, o)
<1> DEFINE b == <<"FEND">>
<1>1. b \in Stream /\ Len(b) = 1 /\ b[1] = "FEND"
  BY KissFramingAssumption, OneElement DEF Stream
<1> HIDE DEF b
<1>2. b # <<>> /\ IsFirst(0, 2, b)
  BY <1>1 DEF IsFirst, Stream
<1>3. TakeFrame(Held(b, o)) = Held(b, o)
  BY <1>1, <1>2, RoundOff
<1>4. QED
  BY <1>1, <1>3 DEF b

(* A sequence of one is made of its element. *)
LEMMA OneOnly ==
  ASSUME NEW S, NEW t \in Seq(S), Len(t) = 1
  PROVE  t = <<t[1]>>
OBVIOUS

(* A piece of a sequence. *)
LEMMA PieceIs ==
  ASSUME NEW S, NEW s \in Seq(S), NEW a \in 1..Len(s), NEW m \in a..Len(s)
  PROVE  /\ SubSeq(s, a, m) \in Seq(S) /\ Len(SubSeq(s, a, m)) = m - a + 1
         /\ SubSeq(s, a, m) # <<>> /\ SubSeq(s, a, m)[1] = s[a]
         /\ \A i \in 1..(m - a + 1) : SubSeq(s, a, m)[i] = s[a + i - 1]
<1>1. a \in Nat /\ m \in Nat /\ Len(s) \in Nat /\ 1 <= a /\ a <= m /\ m <= Len(s)
  OBVIOUS
<1>2. SubSeq(s, a, m) \in Seq(S) /\ Len(SubSeq(s, a, m)) = m - a + 1
  BY <1>1
<1>3. \A i \in 1..(m - a + 1) : SubSeq(s, a, m)[i] = s[a + i - 1]
  BY <1>1
<1> DEFINE t == SubSeq(s, a, m)
<1> HIDE DEF t
<1>4. t \in Seq(S) /\ Len(t) = m - a + 1 /\ \A i \in 1..(m - a + 1) : t[i] = s[a + i - 1]
  BY <1>2, <1>3 DEF t
<1>5. 1 \in 1..(m - a + 1) /\ a + 1 - 1 = a
  BY <1>1
<1>6. t[1] = s[a]
  BY <1>4, <1>5
<1>7. t # <<>>
  BY <1>1, <1>4
<1>8. QED
  BY <1>4, <1>6, <1>7 DEF t

(* A piece of a frame without its first FEND goes, up to its last one.     *)
Rest(f, m) == IF m < Len(f) THEN <<>> ELSE <<"FEND">>

(* One round over such a piece. *)
LEMMA RoundRest ==
  ASSUME NEW f, IsFrame(f), NEW a \in 2..Len(f), NEW m \in a..Len(f), NEW o
  PROVE  TakeFrame(Held(SubSeq(f, a, m), o)) = Held(Rest(f, m), o)
<1> DEFINE L == Len(f)
           b == SubSeq(f, a, m)
<1>1. /\ f \in Stream /\ L \in Nat /\ L >= 4 /\ f[1] = "FEND" /\ f[L] = "FEND"
      /\ \A i \in 2..(L - 1) : f[i] # "FEND"
      /\ a \in Nat /\ m \in Nat /\ 2 <= a /\ a <= m /\ m <= L
  BY DEF IsFrame, Stream
<1>2. /\ b \in Stream /\ Len(b) = m - a + 1 /\ b # <<>> /\ b[1] = f[a]
      /\ \A i \in 1..(m - a + 1) : b[i] = f[a + i - 1]
  <2>1. f \in Seq(Bytes) /\ a \in 1..Len(f) /\ m \in a..Len(f)
    BY <1>1 DEF Stream
  <2>2. /\ SubSeq(f, a, m) \in Seq(Bytes) /\ Len(SubSeq(f, a, m)) = m - a + 1
        /\ SubSeq(f, a, m) # <<>> /\ SubSeq(f, a, m)[1] = f[a]
        /\ \A i \in 1..(m - a + 1) : SubSeq(f, a, m)[i] = f[a + i - 1]
    BY <2>1, PieceIs
  <2>3. QED
    BY <2>2 DEF Stream
<1> HIDE DEF b, L
<1>3. CASE a = L
  <2>1. m = L /\ Len(b) = 1 /\ b[1] = "FEND"
    BY <1>1, <1>2, <1>3
  <2>2. b = <<"FEND">>
    BY <1>2, <2>1 DEF Stream
  <2>3. Rest(f, m) = <<"FEND">>
    BY <1>1, <2>1 DEF Rest, L
  <2>4. QED
    BY <2>2, <2>3, OneFend DEF b
<1>4. CASE a < L
  <2>1. b[1] # "FEND"
    <3>1. a \in 2..(L - 1)
      BY <1>1, <1>4
    <3>2. QED
      BY <1>1, <1>2, <3>1
  <2>2. CASE m < L
    <3>1. ASSUME NEW i \in 1..Len(b) PROVE b[i] # "FEND"
      <4>1. a + i - 1 \in 2..(L - 1) /\ i \in 1..(m - a + 1)
        BY <1>1, <1>2, <2>2
      <4>2. b[i] = f[a + i - 1]
        BY <1>2, <4>1
      <4>3. QED
        BY <1>1, <4>1, <4>2
    <3>2. IsFirst(0, 1, b)
      BY <3>1 DEF IsFirst
    <3>3. TakeFrame(Held(b, o)) = Held(<<>>, o)
      BY <1>2, <2>1, <3>2, RoundTo
    <3>4. Rest(f, m) = <<>>
      BY <2>2 DEF Rest, L
    <3>5. QED
      BY <3>3, <3>4 DEF b
  <2>3. CASE m = L
    <3> DEFINE k == m - a + 1
    <3>1. k \in 1..Len(b) /\ k # 0 /\ k \in Nat /\ k = Len(b) /\ a + k - 1 = L
      BY <1>1, <1>2, <2>3
    <3>2. b[k] = "FEND"
      <4>1. b[k] = f[a + k - 1]
        BY <1>2, <3>1
      <4>2. QED
        BY <1>1, <3>1, <4>1
    <3>3. ASSUME NEW i \in 1..(k - 1) PROVE b[i] # "FEND"
      <4>1. a + i - 1 \in 2..(L - 1) /\ i \in 1..(m - a + 1)
        BY <1>1, <1>2, <2>3
      <4>2. b[i] = f[a + i - 1]
        BY <1>2, <4>1
      <4>3. QED
        BY <1>1, <4>1, <4>2
    <3> HIDE DEF k
    <3>4. IsFirst(k, 1, b)
      BY <3>1, <3>2, <3>3 DEF IsFirst
    <3>5. TakeFrame(Held(b, o)) = Held(SubSeq(b, k, k), o)
      BY <1>2, <2>1, <3>1, <3>4, RoundTo
    <3>6. SubSeq(b, k, k) = <<"FEND">>
      <4> DEFINE t == SubSeq(b, k, k)
      <4>1. k \in k..Len(b)
        BY <3>1
      <4>2. t \in Stream /\ Len(t) = k - k + 1 /\ t[1] = b[k]
        BY <1>2, <3>1, <4>1, PieceIs DEF Stream
      <4> HIDE DEF t
      <4>3. Len(t) = 1
        BY <3>1, <4>2
      <4>4. t = <<"FEND">>
        BY <3>2, <4>2, <4>3, OneOnly DEF Stream
      <4>5. QED
        BY <4>4 DEF t
    <3>7. Rest(f, m) = <<"FEND">>
      BY <1>1, <2>3 DEF Rest, L
    <3>8. QED
      BY <3>5, <3>6, <3>7 DEF b
  <2>4. QED
    BY <1>1, <2>2, <2>3
<1>5. QED
  BY <1>1, <1>3, <1>4 DEF L

(* What Rest leaves is left alone. *)
LEMMA RestRests ==
  ASSUME NEW f, NEW m, NEW o
  PROVE  Rest(f, m) \in Stream /\ TakeFrame(Held(Rest(f, m), o)) = Held(Rest(f, m), o)
<1>1. Rest(f, m) \in {<<>>, <<"FEND">>} /\ <<>> \in Stream
  BY DEF Rest, Stream
<1>2. QED
  BY <1>1, OneFend, RoundEmpty

(* A buffer before its first round. *)
LEMMA NothingTaken ==
  ASSUME NEW b \in Stream
  PROVE  Held(b, <<>>) \in ParseStates
<1>1. <<>> \in Seq(Stream)
  OBVIOUS
<1>2. QED
  BY <1>1, HeldState

(* What a write leaves: the beginning of a frame stays, ...                *)
LEMMA TakeBegun ==
  ASSUME NEW f, IsFrame(f), NEW m \in 1..(Len(f) - 1)
  PROVE  TakeFrames(Held(SubSeq(f, 1, m), <<>>)) = Held(SubSeq(f, 1, m), <<>>)
<1> DEFINE b == SubSeq(f, 1, m)
<1>1. f \in Seq(Bytes) /\ f[1] = "FEND" /\ Len(f) \in Nat
      /\ \A i \in 2..(Len(f) - 1) : f[i] # "FEND"
  BY DEF IsFrame, Stream
<1>2. 1 \in 1..Len(f) /\ m \in 1..Len(f) /\ m - 1 + 1 = m
  BY <1>1
<1>3. b \in Seq(Bytes) /\ Len(b) = m - 1 + 1 /\ b # <<>> /\ b[1] = f[1]
      /\ \A i \in 1..(m - 1 + 1) : b[i] = f[1 + i - 1]
  BY <1>1, <1>2, PieceIs
<1> HIDE DEF b
<1>4. ASSUME NEW i \in 2..Len(b) PROVE b[i] # "FEND"
  <2>1. i \in 1..(m - 1 + 1) /\ 1 + i - 1 = i /\ i \in 2..(Len(f) - 1)
    BY <1>1, <1>2, <1>3
  <2>2. b[i] = f[1 + i - 1]
    BY <1>3, <2>1
  <2>3. QED
    BY <1>1, <2>1, <2>2
<1>5. IsFirst(0, 2, b)
  BY <1>4 DEF IsFirst
<1>6. b \in Stream /\ b[1] = "FEND"
  BY <1>1, <1>3 DEF Stream
<1>7. TakeFrame(Held(b, <<>>)) = Held(b, <<>>)
  BY <1>3, <1>5, <1>6, RoundOff
<1>8. Held(b, <<>>) \in ParseStates
  BY <1>6, NothingTaken
<1>9. TakeFrames(Held(b, <<>>)) = Held(b, <<>>)
  BY <1>7, <1>8, TwoRounds
<1>10. QED
  BY <1>9 DEF b

(* ... a whole frame is taken off, ...                                     *)
LEMMA TakeWhole ==
  ASSUME NEW f, IsFrame(f)
  PROVE  TakeFrames(Held(f, <<>>)) = Held(<<>>, <<f>>)
<1> DEFINE L == Len(f)
<1>1. /\ f \in Stream /\ f \in Seq(Bytes) /\ L \in Nat /\ L >= 4 /\ f # <<>> /\ f[1] = "FEND"
      /\ f[L] = "FEND"
      /\ \A i \in 2..(L - 1) : f[i] # "FEND"
  BY DEF IsFrame, Stream
<1>2. IsFirst(L, 2, f)
  <2>1. L \in 2..L /\ L # 0
    BY <1>1
  <2>2. QED
    BY <1>1, <2>1 DEF IsFirst
<1>3. SubSeq(f, 1, L) = f /\ SubSeq(f, L + 1, L) = <<>>
  <2>1. SubSeq(f, 1, Len(f)) = f
    BY <1>1, Whole
  <2>2. After(f, Len(f)) = <<>>
    BY <1>1, AllAndNone
  <2>3. QED
    BY <2>1, <2>2 DEF After
<1>4. Append(<<>>, f) = <<f>>
  OBVIOUS
<1> HIDE DEF L
<1>5. TakeFrame(Held(f, <<>>)) =
        IF L = 0 THEN Held(f, <<>>)
        ELSE Held(SubSeq(f, L + 1, L), IF L >= 4 THEN Append(<<>>, SubSeq(f, 1, L)) ELSE <<>>)
  <2>1. TakeFrame(Held(f, <<>>)) =
        IF L = 0 THEN Held(f, <<>>)
        ELSE Held(SubSeq(f, L + 1, Len(f)), IF L >= 4 THEN Append(<<>>, SubSeq(f, 1, L)) ELSE <<>>)
    BY <1>1, <1>2, RoundOff
  <2>2. QED
    BY <2>1 DEF L
<1>6. TakeFrame(Held(f, <<>>)) = Held(<<>>, <<f>>)
  <2>1. L # 0 /\ L >= 4
    BY <1>1
  <2>2. QED
    BY <1>3, <1>4, <1>5, <2>1
<1>7. Held(f, <<>>) \in ParseStates
  BY <1>1, NothingTaken
<1>8. QED
  BY <1>6, <1>7, RoundEmpty, TwoRounds

(* ... one without its first FEND is lost, up to its last FEND, ...        *)
LEMMA TakeRest ==
  ASSUME NEW f, IsFrame(f), NEW a \in 2..Len(f), NEW m \in a..Len(f)
  PROVE  TakeFrames(Held(SubSeq(f, a, m), <<>>)) = Held(Rest(f, m), <<>>)
<1> DEFINE b == SubSeq(f, a, m)
<1>1. b \in Stream
  <2>1. f \in Seq(Bytes) /\ Len(f) \in Nat
    BY DEF IsFrame, Stream
  <2>2. a \in 1..Len(f)
    BY <2>1
  <2>3. QED
    BY <2>1, <2>2, PieceIs DEF Stream
<1>2. TakeFrame(Held(b, <<>>)) = Held(Rest(f, m), <<>>)
  BY RoundRest
<1> HIDE DEF b
<1>3. Held(b, <<>>) \in ParseStates
  BY <1>1, NothingTaken
<1>4. TakeFrames(Held(b, <<>>)) = Held(Rest(f, m), <<>>)
  BY <1>2, <1>3, RestRests, TwoRounds
<1>5. QED
  BY <1>4 DEF b

(* ... and so is one with a FEND too many before it.                       *)
LEMMA TakeAhead ==
  ASSUME NEW f, IsFrame(f), NEW m \in 1..Len(f)
  PROVE  TakeFrames(Held(<<"FEND">> \o SubSeq(f, 1, m), <<>>)) = Held(Rest(f, m), <<>>)
<1> DEFINE h == <<"FEND">>
           s == SubSeq(f, 1, m)
           b == h \o s
<1>1. f \in Seq(Bytes) /\ f[1] = "FEND" /\ Len(f) \in Nat /\ Len(f) >= 4 /\ m \in Nat /\ m >= 1
      /\ m <= Len(f)
  BY DEF IsFrame, Stream
<1>2. s \in Seq(Bytes) /\ Len(s) = m /\ s[1] = "FEND" /\ \A i \in 1..m : s[i] = f[i]
  <2>1. 1 \in 1..Len(f) /\ m \in 1..Len(f) /\ m - 1 + 1 = m /\ \A i \in 1..m : 1 + i - 1 = i
    BY <1>1
  <2>2. s \in Seq(Bytes) /\ Len(s) = m - 1 + 1 /\ s[1] = f[1]
        /\ \A i \in 1..(m - 1 + 1) : s[i] = f[1 + i - 1]
    BY <1>1, <2>1, PieceIs
  <2> HIDE DEF s
  <2>3. QED
    BY <1>1, <2>1, <2>2
<1>3. h \in Seq(Bytes) /\ Len(h) = 1 /\ h[1] = "FEND"
  BY KissFramingAssumption, OneElement
<1>12. h \in Seq(Bytes) /\ s \in Seq(Bytes)
  BY <1>2, <1>3
<1> HIDE DEF h, s
<1>4. /\ b \in Seq(Bytes) /\ Len(b) = Len(h) + Len(s)
      /\ \A i \in 1..Len(h) : b[i] = h[i]
      /\ \A i \in 1..Len(s) : b[Len(h) + i] = s[i]
  BY <1>12, CatIs
<1> HIDE DEF b
<1>5. /\ b \in Stream /\ Len(b) = m + 1 /\ b # <<>> /\ b[1] = "FEND" /\ b[2] = "FEND"
      /\ \A i \in 1..m : b[1 + i] = f[i]
  <2>1. Len(b) = m + 1 /\ 1 \in 1..Len(h) /\ 1 \in 1..Len(s)
    BY <1>1, <1>2, <1>3, <1>4
  <2>2. b[1] = "FEND" /\ b[1 + 1] = "FEND"
    BY <1>2, <1>3, <1>4, <2>1
  <2>3. \A i \in 1..m : b[1 + i] = f[i]
    BY <1>2, <1>3, <1>4
  <2>4. b # <<>>
    BY <1>1, <2>1
  <2>5. QED
    BY <1>4, <2>1, <2>2, <2>3, <2>4 DEF Stream
<1>6. IsFirst(2, 2, b)
  BY <1>1, <1>5 DEF IsFirst
<1>7. TakeFrame(Held(b, <<>>)) = Held(SubSeq(b, 3, m + 1), <<>>)
  <2>1. TakeFrame(Held(b, <<>>)) =
          IF 2 = 0 THEN Held(b, <<>>)
          ELSE Held(SubSeq(b, 2 + 1, Len(b)), IF 2 >= 4 THEN Append(<<>>, SubSeq(b, 1, 2)) ELSE <<>>)
    BY <1>5, <1>6, RoundOff
  <2>2. 2 # 0 /\ ~(2 >= 4) /\ 2 + 1 = 3
    OBVIOUS
  <2>3. QED
    BY <1>5, <2>1, <2>2
<1>8. Held(b, <<>>) \in ParseStates
  BY <1>5, NothingTaken
<1>9. CASE m = 1
  <2>1. SubSeq(b, 3, 2) = <<>> /\ Rest(f, m) = <<>>
    <3>1. After(b, Len(b)) = <<>>
      BY <1>5, AllAndNone DEF Stream
    <3>2. Len(b) = 2
      BY <1>5, <1>9
    <3>3. QED
      BY <1>1, <1>9, <3>1, <3>2 DEF After, Rest
  <2>2. TakeFrame(Held(b, <<>>)) = Held(<<>>, <<>>)
    <3>1. m + 1 = 2
      BY <1>9
    <3>2. QED
      BY <1>7, <2>1, <3>1
  <2>3. QED
    BY <1>8, <2>1, <2>2, RoundEmpty, TwoRounds DEF b, h, s
<1>10. CASE m > 1
  <2> DEFINE t == SubSeq(b, 3, m + 1)
             v == SubSeq(f, 2, m)
  <2>1. /\ 3 \in 1..Len(b) /\ m + 1 \in 3..Len(b) /\ 2 \in 1..Len(f) /\ 2 \in 2..Len(f)
        /\ m \in 2..Len(f)
        /\ m + 1 - 3 + 1 = m - 1 /\ m - 2 + 1 = m - 1
    BY <1>1, <1>5, <1>10
  <2>2. t \in Seq(Bytes) /\ Len(t) = m + 1 - 3 + 1
        /\ \A i \in 1..(m + 1 - 3 + 1) : t[i] = b[3 + i - 1]
    BY <1>5, <2>1, PieceIs DEF Stream
  <2>3. v \in Seq(Bytes) /\ Len(v) = m - 2 + 1 /\ \A i \in 1..(m - 2 + 1) : v[i] = f[2 + i - 1]
    BY <1>1, <2>1, PieceIs
  <2> HIDE DEF t, v
  <2>4. ASSUME NEW i \in 1..(m - 1) PROVE t[i] = v[i]
    <3>1. i \in 1..(m + 1 - 3 + 1) /\ i \in 1..(m - 2 + 1) /\ 3 + i - 1 = 1 + (i + 1)
          /\ 2 + i - 1 = i + 1 /\ i + 1 \in 1..m
      BY <1>1
    <3>2. t[i] = b[1 + (i + 1)] /\ v[i] = f[i + 1]
      BY <2>2, <2>3, <3>1
    <3>3. QED
      BY <1>5, <3>1, <3>2
  <2>5. t = v
    <3>1. Len(t) = m - 1 /\ Len(v) = m - 1
      BY <2>1, <2>2, <2>3
    <3>2. QED
      BY <2>2, <2>3, <2>4, <3>1, SameSeq
  <2>6. TakeFrame(Held(v, <<>>)) = Held(Rest(f, m), <<>>)
    BY <2>1, RoundRest DEF v
  <2>7. TakeFrame(Held(b, <<>>)) = Held(v, <<>>)
    BY <1>7, <2>5 DEF t
  <2>8. TakeFrames(Held(b, <<>>)) = Held(Rest(f, m), <<>>)
    BY <1>8, <2>6, <2>7, RestRests, TwoRounds
  <2>9. QED
    BY <2>8 DEF b, h, s
<1>11. QED
  BY <1>1, <1>9, <1>10

(* A piece of what is left of a sequence. *)
LEMMA PieceOfRest ==
  ASSUME NEW S, NEW s \in Seq(S), NEW w \in 0..Len(s), NEW n \in 1..(Len(s) - w)
  PROVE  /\ SubSeq(After(s, w), 1, n) = SubSeq(s, w + 1, w + n)
         /\ After(After(s, w), n) = After(s, w + n)
         /\ SubSeq(s, 1, w) \o SubSeq(s, w + 1, w + n) = SubSeq(s, 1, w + n)
<1> DEFINE r == After(s, w)
           d == Len(s) - w
<1>1. /\ Len(s) \in Nat /\ w \in Nat /\ n \in Nat /\ d \in Nat /\ w + d = Len(s) /\ n <= d /\ 1 <= n
      /\ w + 1 \in 1..Len(s) /\ Len(s) \in (w + 1)..Len(s) /\ w + n \in (w + 1)..Len(s)
      /\ 1 \in 1..Len(s) /\ w + n \in 1..Len(s)
  OBVIOUS
<1>2. r \in Seq(S) /\ Len(r) = d /\ \A i \in 1..d : r[i] = s[w + i]
  <2>1. r \in Seq(S) /\ Len(r) = Len(s) - (w + 1) + 1
        /\ \A i \in 1..(Len(s) - (w + 1) + 1) : r[i] = s[w + 1 + i - 1]
    BY <1>1, PieceIs DEF After
  <2> HIDE DEF r
  <2>2. \A i \in 1..d : i \in 1..(Len(s) - (w + 1) + 1) /\ w + 1 + i - 1 = w + i
    BY <1>1
  <2>3. Len(s) - (w + 1) + 1 = d
    BY <1>1
  <2>4. QED
    BY <2>1, <2>2, <2>3
<1> DEFINE p == SubSeq(r, 1, n)
           q == SubSeq(s, w + 1, w + n)
           u == SubSeq(s, 1, w)
           v == SubSeq(s, 1, w + n)
<1> HIDE DEF r
<1>3. q \in Seq(S) /\ Len(q) = n /\ \A i \in 1..n : q[i] = s[w + i]
  <2>1. q \in Seq(S) /\ Len(q) = w + n - (w + 1) + 1
        /\ \A i \in 1..(w + n - (w + 1) + 1) : q[i] = s[w + 1 + i - 1]
    BY <1>1, PieceIs
  <2> HIDE DEF q
  <2>2. w + n - (w + 1) + 1 = n /\ \A i \in 1..n : w + 1 + i - 1 = w + i
    BY <1>1
  <2>3. QED
    BY <2>1, <2>2
<1>4. p \in Seq(S) /\ Len(p) = n /\ \A i \in 1..n : p[i] = r[i]
  <2>1. 1 \in 1..Len(r) /\ n \in 1..Len(r) /\ n - 1 + 1 = n /\ \A i \in 1..n : 1 + i - 1 = i
    BY <1>1, <1>2
  <2>2. p \in Seq(S) /\ Len(p) = n - 1 + 1 /\ \A i \in 1..(n - 1 + 1) : p[i] = r[1 + i - 1]
    BY <1>2, <2>1, PieceIs
  <2> HIDE DEF p
  <2>3. QED
    BY <2>1, <2>2
<1>5. u \in Seq(S) /\ Len(u) = w /\ \A i \in 1..w : u[i] = s[i]
  BY <1>1
<1>6. v \in Seq(S) /\ Len(v) = w + n /\ \A i \in 1..(w + n) : v[i] = s[i]
  BY <1>1
<1>11. u \in Seq(S) /\ q \in Seq(S)
  BY <1>3, <1>5
<1> HIDE DEF p, q, u, v
<1>7. p = q
  <2>1. ASSUME NEW i \in 1..n PROVE p[i] = q[i]
    <3>1. i \in 1..d
      BY <1>1
    <3>2. QED
      BY <1>2, <1>3, <1>4, <3>1
  <2>2. QED
    BY <1>3, <1>4, <2>1, SameSeq
<1>8. u \o q = v
  <2> DEFINE c == u \o q
  <2>1. /\ c \in Seq(S) /\ Len(c) = Len(u) + Len(q)
        /\ \A i \in 1..Len(u) : c[i] = u[i]
        /\ \A i \in 1..Len(q) : c[Len(u) + i] = q[i]
    BY <1>11, CatIs
  <2> HIDE DEF c
  <2>2. Len(c) = Len(v) /\ Len(c) = w + n
    BY <1>3, <1>5, <1>6, <2>1
  <2>3. ASSUME NEW i \in 1..Len(c) PROVE c[i] = v[i]
    <3>1. CASE i <= w
      <4>1. i \in 1..w /\ i \in 1..(w + n)
        BY <1>1, <2>2, <3>1
      <4>2. QED
        BY <1>5, <1>6, <2>1, <4>1
    <3>2. CASE i > w
      <4>1. PICK j \in 1..n : i = w + j
        <5>1. i - w \in 1..n /\ i = w + (i - w)
          BY <1>1, <2>2, <3>2
        <5>2. QED
          BY <5>1
      <4>2. c[w + j] = q[j] /\ q[j] = s[w + j]
        BY <1>3, <1>5, <2>1
      <4>3. w + j \in 1..(w + n)
        BY <1>1
      <4>4. QED
        BY <1>6, <4>1, <4>2, <4>3
    <3>3. QED
      BY <1>1, <2>2, <3>1, <3>2
  <2>4. c = v
    BY <1>6, <2>1, <2>2, <2>3, SameSeq
  <2>5. QED
    BY <2>4 DEF c
<1>9. After(r, n) = After(s, w + n)
  <2> DEFINE x == After(r, n)
             y == After(s, w + n)
  <2>1. CASE n = d
    <3>1. x = <<>>
      BY <1>2, <2>1, AllAndNone
    <3>2. y = <<>>
      BY <1>1, <2>1, AllAndNone
    <3>3. QED
      BY <3>1, <3>2
  <2>2. CASE n # d
    <3>1. /\ n + 1 \in 1..Len(r) /\ Len(r) \in (n + 1)..Len(r)
          /\ w + n + 1 \in 1..Len(s) /\ Len(s) \in (w + n + 1)..Len(s)
      <4>1. d \in Nat /\ n \in Nat /\ w \in Nat /\ 1 <= n /\ n <= d /\ n # d /\ Len(s) = w + d
            /\ Len(r) = d
        BY <1>1, <1>2, <2>2
      <4> DEFINE L == Len(s)
                 R == Len(r)
      <4> HIDE DEF L, R, d
      <4>2. /\ n + 1 \in 1..R /\ R \in (n + 1)..R
            /\ w + n + 1 \in 1..L /\ L \in (w + n + 1)..L
        BY <4>1 DEF L, R
      <4>3. QED
        BY <4>2 DEF L, R
    <3>2. x \in Seq(S) /\ Len(x) = Len(r) - (n + 1) + 1
          /\ \A i \in 1..(Len(r) - (n + 1) + 1) : x[i] = r[n + 1 + i - 1]
      BY <1>2, <3>1, PieceIs DEF After
    <3>3. y \in Seq(S) /\ Len(y) = Len(s) - (w + n + 1) + 1
          /\ \A i \in 1..(Len(s) - (w + n + 1) + 1) : y[i] = s[w + n + 1 + i - 1]
      BY <3>1, PieceIs DEF After
    <3> HIDE DEF x, y
    <3>4. Len(x) = d - n /\ Len(y) = d - n
      BY <1>1, <1>2, <3>2, <3>3
    <3>5. ASSUME NEW i \in 1..(d - n) PROVE x[i] = y[i]
      <4>1. /\ i \in 1..(Len(r) - (n + 1) + 1) /\ i \in 1..(Len(s) - (w + n + 1) + 1)
            /\ n + 1 + i - 1 = n + i /\ w + n + 1 + i - 1 = w + (n + i) /\ n + i \in 1..d
        BY <1>1, <1>2
      <4>2. x[i] = r[n + i] /\ y[i] = s[w + (n + i)]
        BY <3>2, <3>3, <4>1
      <4>3. QED
        BY <1>2, <4>1, <4>2
    <3>6. x = y
      BY <3>2, <3>3, <3>4, <3>5, SameSeq
    <3>7. QED
      BY <3>6 DEF x, y
  <2>3. QED
    BY <2>1, <2>2
<1>10. QED
  BY <1>7, <1>8, <1>9 DEF p, q, r, u, v

(* The BLE service when nothing but packets was written, n have been begun,*)
(* r is to come and b in the buffer: in step, waiting for a FEND, or with  *)
(* the FEND at the end of a frame whose beginning it did not take.         *)
WriteOK(n, r, b) ==
  \/ r = <<>> /\ b \in {<<>>, <<"FEND">>}
  \/ /\ n > 0
     /\ \E w \in 0..(Len(Frame(n)) - 1) :
          /\ r = After(Frame(n), w)
          /\ b \in {<<>>, SubSeq(Frame(n), 1, w)} \/ (w = 0 /\ b = <<"FEND">>)

(* What the buffer may hold after m bytes of a frame, and what was taken.  *)
LeftBy(f, m) ==
  IF m < Len(f) THEN {Held(<<>>, <<>>), Held(SubSeq(f, 1, m), <<>>)}
  ELSE {Held(<<>>, <<>>), Held(<<"FEND">>, <<>>), Held(<<>>, <<f>>)}

(* A write with a piece of a frame, onto what the buffer may hold of it,   *)
(* leaves one of these.                                                    *)
LEMMA TakenIs ==
  ASSUME NEW f, IsFrame(f), NEW w \in 0..(Len(f) - 1), NEW m \in (w + 1)..Len(f), NEW b,
         b \in {<<>>, SubSeq(f, 1, w)} \/ (w = 0 /\ b = <<"FEND">>)
  PROVE  TakeFrames(Held(b \o SubSeq(f, w + 1, m), <<>>)) \in LeftBy(f, m)
<1> DEFINE L == Len(f)
           p == SubSeq(f, w + 1, m)
           c == b \o p
<1>1. f \in Seq(Bytes) /\ L \in Nat /\ w \in Nat /\ m \in Nat /\ w < m /\ m <= L /\ L >= 4
  BY DEF IsFrame, Stream
<1>2. p \in Seq(Bytes)
  <2>1. w + 1 \in 1..Len(f) /\ m \in (w + 1)..Len(f)
    BY <1>1
  <2>2. QED
    BY <1>1, <2>1, PieceIs
<1>3. SubSeq(f, 1, 0) = <<>> /\ <<>> \o p = p
  <2>1. SubSeq(f, 1, 0) = <<>>
    BY <1>1, Whole
  <2> HIDE DEF p
  <2>2. <<>> \o p = p
    BY <1>2
  <2>3. QED
    BY <2>1, <2>2
<1>4. CASE b = SubSeq(f, 1, w)
  <2>1. c = SubSeq(f, 1, m)
    <3>1. w \in 0..Len(f) /\ m - w \in 1..(Len(f) - w) /\ w + (m - w) = m
      BY <1>1
    <3>2. SubSeq(f, 1, w) \o SubSeq(f, w + 1, w + (m - w)) = SubSeq(f, 1, w + (m - w))
      BY <1>1, <3>1, PieceOfRest
    <3>3. QED
      BY <1>4, <3>1, <3>2
  <2>2. CASE m < L
    <3>1. m \in 1..(Len(f) - 1)
      BY <1>1, <2>2
    <3>2. TakeFrames(Held(c, <<>>)) = Held(SubSeq(f, 1, m), <<>>)
      BY <2>1, <3>1, TakeBegun
    <3> HIDE DEF c, p
    <3>3. TakeFrames(Held(c, <<>>)) \in LeftBy(f, m)
      BY <2>2, <3>2 DEF LeftBy
    <3>4. QED
      BY <3>3 DEF c, p
  <2>3. CASE m = L
    <3>1. SubSeq(f, 1, m) = f
      BY <1>1, <2>3, Whole
    <3>2. TakeFrames(Held(c, <<>>)) = Held(<<>>, <<f>>)
      BY <2>1, <3>1, TakeWhole
    <3> HIDE DEF c, p
    <3>3. TakeFrames(Held(c, <<>>)) \in LeftBy(f, m)
      BY <1>1, <2>3, <3>2 DEF LeftBy
    <3>4. QED
      BY <3>3 DEF c, p
  <2>4. QED
    BY <1>1, <2>2, <2>3
<1>5. CASE b = <<>> /\ w > 0
  <2>1. c = p
    BY <1>3, <1>5
  <2>2. w + 1 \in 2..Len(f) /\ m \in (w + 1)..Len(f)
    BY <1>1, <1>5
  <2>3. TakeFrames(Held(p, <<>>)) = Held(Rest(f, m), <<>>)
    BY <2>2, TakeRest
  <2> HIDE DEF c, p
  <2>4. TakeFrames(Held(c, <<>>)) \in LeftBy(f, m)
    BY <2>1, <2>3 DEF LeftBy, Rest
  <2>5. QED
    BY <2>4 DEF c, p
<1>6. CASE w = 0 /\ b = <<"FEND">>
  <2>1. m \in 1..Len(f) /\ w + 1 = 1
    BY <1>1, <1>6
  <2>2. c = <<"FEND">> \o SubSeq(f, 1, m)
    BY <1>6, <2>1
  <2>3. TakeFrames(Held(<<"FEND">> \o SubSeq(f, 1, m), <<>>)) = Held(Rest(f, m), <<>>)
    BY <2>1, TakeAhead
  <2>4. TakeFrames(Held(c, <<>>)) = Held(Rest(f, m), <<>>)
    BY <2>2, <2>3
  <2> HIDE DEF c, p
  <2>5. TakeFrames(Held(c, <<>>)) \in LeftBy(f, m)
    BY <2>4 DEF LeftBy, Rest
  <2>6. QED
    BY <2>5 DEF c, p
<1>7. b = SubSeq(f, 1, w) \/ (b = <<>> /\ w > 0) \/ (w = 0 /\ b = <<"FEND">>)
  <2>1. CASE w = 0
    BY <1>3, <2>1
  <2>2. CASE w # 0
    BY <1>1, <2>2
  <2>3. QED
    BY <2>1, <2>2
<1>8. QED
  BY <1>4, <1>5, <1>6, <1>7

(* A write of a piece of any length. *)
LEMMA BleWrite ==
  ASSUME NEW k \in 0..Len(Payloads), NEW r \in Stream, NEW b, WriteOK(k, r, b), NEW n \in 1..Len(r)
  PROVE  LET q == ParseWrite(b, SubSeq(r, 1, n))
         IN  /\ k > 0 /\ WriteOK(k, After(r, n), q.buf)
             /\ q.out = <<>> \/ (q.out = <<Frame(k)>> /\ After(r, n) = <<>>)
<1> DEFINE f == Frame(k)
           q == ParseWrite(b, SubSeq(r, 1, n))
<1>1. r # <<>> /\ Len(r) \in Nat
  <2>1. Len(r) \in Nat
    BY DEF Stream
  <2>2. Len(r) # 0
    BY <2>1
  <2>3. QED
    BY <2>1, <2>2
<1>2. PICK w \in 0..(Len(f) - 1) :
        /\ r = After(f, w)
        /\ b \in {<<>>, SubSeq(f, 1, w)} \/ (w = 0 /\ b = <<"FEND">>)
  BY <1>1 DEF WriteOK
<1>3. k > 0 /\ k \in 1..Len(Payloads)
  <2>1. k > 0 /\ Len(Payloads) \in Nat
    BY <1>1, TransportsAssumption DEF WriteOK
  <2>2. QED
    BY <2>1
<1>4. IsFrame(f) /\ f \in Stream /\ Len(f) \in Nat
  BY <1>3, FrameOf DEF Fits
<1> DEFINE m == w + n
<1> HIDE DEF f
<1>5. Len(r) = Len(f) - w
  BY <1>2, <1>4, OneLess DEF Stream
<1>6. w \in 0..Len(f) /\ n \in 1..(Len(f) - w) /\ m \in (w + 1)..Len(f) /\ m \in Nat /\ n \in Nat
  BY <1>1, <1>4, <1>5
<1>7. SubSeq(r, 1, n) = SubSeq(f, w + 1, m) /\ After(r, n) = After(f, m)
  BY <1>2, <1>4, <1>6, PieceOfRest DEF Stream
<1>8. q \in LeftBy(f, m)
  <2> DEFINE c == b \o SubSeq(r, 1, n)
  <2>1. q = IF Len(c) > MaxKissBuffer THEN Held(<<>>, <<>>) ELSE TakeFrames(Held(c, <<>>))
    BY DEF ParseWrite, Held
  <2>2. TakeFrames(Held(b \o SubSeq(f, w + 1, m), <<>>)) \in LeftBy(f, m)
    BY <1>2, <1>4, <1>6, TakenIs
  <2>3. TakeFrames(Held(c, <<>>)) \in LeftBy(f, m)
    BY <1>7, <2>2
  <2>4. Held(<<>>, <<>>) \in LeftBy(f, m)
    BY DEF LeftBy
  <2> HIDE DEF q, c
  <2>5. QED
    BY <2>1, <2>3, <2>4
<1> HIDE DEF q, m
<1>9. CASE m < Len(f)
  <2>1. q \in {Held(<<>>, <<>>), Held(SubSeq(f, 1, m), <<>>)} /\ m \in 0..(Len(f) - 1)
    BY <1>4, <1>6, <1>8, <1>9 DEF LeftBy
  <2>2. q.buf \in {<<>>, SubSeq(f, 1, m)} /\ q.out = <<>>
    BY <2>1 DEF Held
  <2>3. WriteOK(k, After(r, n), q.buf)
    BY <1>3, <1>7, <2>1, <2>2 DEF WriteOK, f
  <2>4. QED
    BY <1>3, <2>2, <2>3 DEF q
<1>10. CASE m = Len(f)
  <2>1. q \in {Held(<<>>, <<>>), Held(<<"FEND">>, <<>>), Held(<<>>, <<f>>)}
    BY <1>4, <1>8, <1>10 DEF LeftBy
  <2>2. q.buf \in {<<>>, <<"FEND">>} /\ q.out \in {<<>>, <<f>>}
    BY <2>1 DEF Held
  <2>3. After(r, n) = <<>>
    BY <1>4, <1>7, <1>10, AllAndNone DEF Stream
  <2>4. WriteOK(k, After(r, n), q.buf)
    BY <2>2, <2>3 DEF WriteOK
  <2>5. QED
    BY <1>3, <2>2, <2>3, <2>4 DEF q, f
<1>11. QED
  BY <1>4, <1>6, <1>9, <1>10

-----------------------------------------------------------------------------

(* The packets that can have gone out: the last one only when it has been  *)
(* written.                                                                *)
Complete == IF rest = <<>> THEN Len(begun) ELSE Len(begun) - 1

(* sendToLoRa() will read the slot. *)
Pending == sending = "waiting" \/ (shouldSend /\ sending # "keyed")

(* The packets the host has begun are the first ones, in order. *)
Begun ==
  /\ Len(begun) \in 0..Len(Payloads) /\ begun = Packets(Len(begun))
  /\ streak \in 0..Len(begun)

(* What is to be written, held and keyed are bytes. *)
Bytewise == rest \in Stream /\ buf \in Stream /\ keyed \in Seq(Stream)

(* Over a stream that carried nothing else, the parser is in step... *)
StreamInv == Bytewise /\ StreamOK(kind, Len(begun), rest, buf, keyed)
(* ... over a socket that did, it is at most out of step by what SocketOK  *)
(* says...                                                                 *)
SocketInv == Bytewise /\ SocketOK(Len(begun), streak, rest, buf, keyed)

(* ... and over BLE what is keyed is in order, with the slot when it will  *)
(* be read.                                                                *)
BleInv ==
  /\ rest \in Stream /\ WriteOK(Len(begun), rest, buf)
  /\ rest # <<>> => Len(begun) > 0
  /\ InOrder(keyed, Complete)
  /\ Pending => InOrder(Append(keyed, slot), Complete)

(* The inductive invariant of the framing. *)
FramingInv ==
  /\ Begun
  /\ ~IsBLE => kind \in Links /\ sending = "no" /\ ~shouldSend
  /\ ~IsBLE /\ odd = {} => StreamInv
  /\ kind = "socket" /\ odd # {} => SocketInv
  /\ IsBLE /\ odd = {} => BleInv
  /\ IsBLE /\ ~bluetoothConnected => buf = <<>>

(* What the framing invariant speaks of. *)
traffic == <<kind, rest, buf, slot, shouldSend, sending, begun, odd, streak, keyed, bluetoothConnected>>

(* Steps that touch none of that keep the invariant. *)
LEMMA TrafficUnchanged ==
  ASSUME FramingInv, UNCHANGED traffic
  PROVE  FramingInv'
<1>1. UNCHANGED <<Begun, StreamInv, SocketInv, BleInv, IsBLE>>
  BY DEF traffic, Begun, StreamInv, SocketInv, BleInv, IsBLE, Bytewise, Complete, Pending
<1>2. QED
  BY <1>1 DEF FramingInv, traffic

(* At the start nothing is begun, held or keyed. *)
LEMMA InitFraming == Init => FramingInv
<1> SUFFICES ASSUME Init PROVE FramingInv
  OBVIOUS
<1>1. /\ rest = <<>> /\ begun = <<>> /\ odd = {} /\ streak = 0 /\ buf = <<>> /\ shouldSend = FALSE
      /\ sending = "no" /\ keyed = <<>>
  BY DEF Init
<1>2. Len(Payloads) \in Nat /\ Len(begun) = 0 /\ 0 \in 0..Len(Payloads) /\ <<>> \in Stream
      /\ <<>> \in Seq(Stream)
  BY <1>1, TransportsAssumption DEF Stream
<1>3. Packets(0) = <<>>
  BY <1>2, PacketsAre
<1>4. Begun
  BY <1>1, <1>2, <1>3 DEF Begun
<1>5. kind \in Links => StreamInv
  BY <1>1, <1>2, NoneSent DEF StreamInv, Bytewise, StreamOK
<1>6. BleInv
  <2>1. Complete = 0 /\ InOrder(keyed, 0)
    BY <1>1, <1>2, NoneSent, SocketIsLink DEF Complete
  <2>2. ~Pending
    BY <1>1 DEF Pending
  <2>3. WriteOK(Len(begun), rest, buf)
    BY <1>1 DEF WriteOK
  <2>4. QED
    BY <1>1, <1>2, <2>1, <2>2, <2>3 DEF BleInv
<1>7. ~IsBLE => kind \in Links
  BY TransportsAssumption DEF Init, IsBLE, Links
<1>8. QED
  BY <1>1, <1>4, <1>5, <1>6, <1>7 DEF FramingInv

(* A packet from its first byte. *)
LEMMA FreshPacket ==
  ASSUME NEW n \in 1..Len(Payloads)
  PROVE  /\ Frame(n) \in Stream /\ Frame(n) # <<>> /\ 0 \in 0..(Len(Frame(n)) - 1)
         /\ After(Frame(n), 0) = Frame(n) /\ SubSeq(Frame(n), 1, 0) = <<>>
         /\ InStep(n, Frame(n), <<>>)
<1> DEFINE f == Frame(n)
<1>1. f \in Stream /\ f \in Seq(Bytes) /\ Len(f) \in Nat /\ Len(f) >= 4
  BY FrameOf DEF Stream
<1> HIDE DEF f
<1>2. f # <<>> /\ 0 \in 0..(Len(f) - 1)
  BY <1>1
<1>3. After(f, 0) = f /\ SubSeq(f, 1, 0) = <<>>
  BY <1>1, AllAndNone, Whole
<1>4. InStep(n, f, <<>>)
  BY <1>2, <1>3 DEF InStep, f
<1>5. QED
  BY <1>1, <1>2, <1>3, <1>4 DEF f

(* Between two things the parser of a stream that is in step is empty; one *)
(* that may be out of step is as BetweenFrames says.                       *)
LEMMA SocketBetween ==
  ASSUME NEW n \in 0..Len(Payloads), NEW s \in 0..n, NEW b, NEW K, SocketOK(n, s, <<>>, b, K)
  PROVE  BetweenFrames(n, s, b, K)
<1>1. ~WithinOdd(<<>>, b)
  <2>1. SUFFICES ASSUME WithinOdd(<<>>, b) PROVE FALSE
    OBVIOUS
  <2>2. PICK f \in Stream, w \in Nat : OddShape(f) /\ w < Len(f) /\ <<>> = After(f, w)
    BY <2>1 DEF WithinOdd
  <2>3. w \in 0..(Len(f) - 1)
    BY <2>2 DEF Stream
  <2>4. QED
    BY <2>2, <2>3, OneLess DEF Stream
<1>2. ASSUME s > 0 PROVE \A w \in 0..(Len(Frame(n)) - 1) : After(Frame(n), w) # <<>>
  <2>1. n \in 1..Len(Payloads)
    BY <1>2, TransportsAssumption
  <2>2. QED
    BY <2>1, FrameOf, OneLess DEF Stream
<1>3. QED
  BY <1>1, <1>2 DEF SocketOK, InStep, OutOfStep

(* A stream in step, with nothing left to write: nothing held, all sent.   *)
LEMMA StreamBetween ==
  ASSUME NEW l \in Links, NEW n \in 0..Len(Payloads), NEW b, NEW K, StreamOK(l, n, <<>>, b, K)
  PROVE  b = <<>> /\ AllSent(l, n, K)
<1>1. ASSUME n > 0 PROVE \A w \in 0..(Len(Frame(n)) - 1) : After(Frame(n), w) # <<>>
  <2>1. n \in 1..Len(Payloads)
    BY <1>1, TransportsAssumption
  <2>2. QED
    BY <2>1, FrameOf, OneLess DEF Stream
<1>2. QED
  BY <1>1 DEF StreamOK, InStep

(* Over BLE a single FEND may be left between two frames. *)
LEMMA WriteBetween ==
  ASSUME NEW n \in 0..Len(Payloads), NEW b, WriteOK(n, <<>>, b)
  PROVE  b \in {<<>>, <<"FEND">>}
<1>1. ASSUME n > 0 PROVE \A w \in 0..(Len(Frame(n)) - 1) : After(Frame(n), w) # <<>>
  <2>1. n \in 1..Len(Payloads)
    BY <1>1, TransportsAssumption
  <2>2. QED
    BY <2>1, FrameOf, OneLess DEF Stream
<1>2. QED
  BY <1>1 DEF WriteOK

(* A host begins a packet. *)
LEMMA BeginSocket ==
  ASSUME NEW n \in 0..(Len(Payloads) - 1), NEW s \in 0..n, NEW b, NEW K, BetweenFrames(n, s, b, K)
  PROVE  SocketOK(n + 1, s + 1, Frame(n + 1), b, K)
<1> DEFINE f == Frame(n + 1)
<1>1. n + 1 \in 1..Len(Payloads) /\ s + 1 > 0 /\ s \in Nat
  BY TransportsAssumption
<1>2. /\ 0 \in 0..(Len(f) - 1) /\ After(f, 0) = f /\ SubSeq(f, 1, 0) = <<>>
      /\ InStep(n + 1, f, <<>>)
  BY <1>1, FreshPacket
<1> HIDE DEF f
<1>3. CASE b = <<>>
  BY <1>1, <1>2, <1>3 DEF SocketOK, f
<1>4. CASE b = <<"FEND">> /\ s + 1 <= 2
  <2>1. Ahead(f, 0) = <<"FEND">>
    <3>1. <<"FEND">> \in Stream
      BY OneFend
    <3> DEFINE h == <<"FEND">>
    <3> HIDE DEF h
    <3>2. h \o <<>> = h
      BY <3>1 DEF Stream, h
    <3>3. QED
      BY <1>2, <3>2 DEF Ahead, h
  <2>2. OutOfStep(n + 1, s + 1, f, b)
    BY <1>2, <1>4, <2>1 DEF OutOfStep, f
  <2>3. QED
    BY <1>1, <2>2 DEF SocketOK, f
<1>5. CASE b = EmptyFrame /\ s + 1 = 1
  <2>1. OutOfStep(n + 1, s + 1, f, b)
    BY <1>2, <1>5 DEF OutOfStep, Behind, f
  <2>2. QED
    BY <1>1, <2>1 DEF SocketOK, f
<1>6. b = <<>> \/ (b = <<"FEND">> /\ s + 1 <= 2) \/ (b = EmptyFrame /\ s + 1 = 1)
  BY <1>1 DEF BetweenFrames, Leftovers
<1>7. QED
  BY <1>3, <1>4, <1>5, <1>6

(* The host begins a packet (encapsulateKISS()). *)
LEMMA BeginPacketKeeps ==
  ASSUME FramingInv, BeginPacket
  PROVE  FramingInv'
<1> DEFINE n == Len(begun)
           f == Frame(n + 1)
<1>1. /\ rest = <<>> /\ n < Len(Payloads) /\ rest' = f /\ begun' = Append(begun, Payloads[n + 1])
      /\ streak' = streak + 1
      /\ UNCHANGED <<kind, odd, buf, slot, shouldSend, sending, keyed, bluetoothConnected>>
  BY DEF BeginPacket, Frame, parser, air, link
<1>2. Begun /\ Len(Payloads) \in Nat
  BY TransportsAssumption DEF FramingInv
<1>3. n \in 0..(Len(Payloads) - 1) /\ n \in 0..Len(Payloads) /\ n + 1 \in 1..Len(Payloads)
      /\ n + 1 \in 0..Len(Payloads)
      /\ begun = Packets(n) /\ streak \in 0..n /\ n \in Nat /\ n + 1 > 0 /\ (n + 1) - 1 = n
  BY <1>1, <1>2 DEF Begun
<1> HIDE DEF n
<1>4. begun' = Packets(n + 1) /\ Len(begun') = n + 1 /\ Len(begun) = n
  <2>1. Packets(n + 1) = Append(Packets(n), Payloads[n + 1]) /\ Len(Packets(n + 1)) = n + 1
    BY <1>3, PacketsAre
  <2>2. QED
    BY <1>1, <1>3, <2>1 DEF n
<1>5. f \in Stream /\ f # <<>> /\ InStep(n + 1, f, <<>>) /\ 0 \in 0..(Len(f) - 1) /\ After(f, 0) = f
  BY <1>3, FreshPacket
<1> HIDE DEF f
<1>6. Begun'
  <2>1. streak + 1 \in 0..(n + 1)
    BY <1>3
  <2>2. QED
    BY <1>1, <1>3, <1>4, <2>1 DEF Begun
<1>7. ASSUME StreamInv, kind \in Links PROVE StreamInv'
  <2>1. buf = <<>> /\ AllSent(kind, n, keyed)
    BY <1>1, <1>3, <1>4, <1>7, StreamBetween DEF StreamInv
  <2>2. StreamOK(kind, n + 1, f, <<>>, keyed)
    BY <1>1, <1>3, <1>5, <2>1 DEF StreamOK
  <2>3. Bytewise'
    BY <1>1, <1>5, <1>7 DEF StreamInv, Bytewise
  <2>4. QED
    BY <1>1, <1>4, <2>1, <2>2, <2>3 DEF StreamInv
<1>8. ASSUME SocketInv PROVE SocketInv'
  <2>1. BetweenFrames(n, streak, buf, keyed)
    BY <1>1, <1>3, <1>4, <1>8, SocketBetween DEF SocketInv
  <2>2. SocketOK(n + 1, streak + 1, f, buf, keyed)
    BY <1>3, <2>1, BeginSocket DEF f
  <2>3. Bytewise'
    BY <1>1, <1>5, <1>8 DEF SocketInv, Bytewise
  <2>4. QED
    BY <1>1, <1>4, <2>2, <2>3 DEF SocketInv
<1>9. ASSUME BleInv PROVE BleInv'
  <2>1. buf \in {<<>>, <<"FEND">>}
    BY <1>1, <1>3, <1>4, <1>9, WriteBetween DEF BleInv
  <2>2. WriteOK(n + 1, f, buf)
    BY <1>3, <1>5, <2>1 DEF WriteOK, f
  <2>3. Complete = n /\ Complete' = n /\ (Pending' <=> Pending)
    BY <1>1, <1>3, <1>4, <1>5 DEF Complete, Pending
  <2>4. InOrder(keyed, n) /\ (Pending => InOrder(Append(keyed, slot), n))
    BY <1>9, <2>3 DEF BleInv
  <2>5. QED
    BY <1>1, <1>3, <1>4, <1>5, <2>2, <2>3, <2>4 DEF BleInv
<1>10. IsBLE' = IsBLE
  BY <1>1 DEF IsBLE
<1>11. QED
  BY <1>1, <1>6, <1>7, <1>8, <1>9, <1>10 DEF FramingInv

-----------------------------------------------------------------------------

(* What else KISS allows. *)
LEMMA FormShape ==
  ASSUME NEW form \in DOMAIN OddFrame
  PROVE  OddShape(OddFrame[form])
<1>1. {"FEND", "Data", "Cmd", "x"} \subseteq Bytes
  BY KissFramingAssumption
<1>2. form \in {"command", "empty", "long", "fend"}
  BY DEF OddFrame
<1>3. CASE form = "command"
  <2> DEFINE f == <<"FEND", "Cmd", "x", "FEND">>
  <2>1. f \in Stream /\ Len(f) = 4 /\ f[1] = "FEND" /\ f[2] = "Cmd" /\ f[3] = "x" /\ f[4] = "FEND"
    BY <1>1 DEF Stream
  <2> HIDE DEF f
  <2>2. \A i \in 2..(4 - 1) : i = 2 \/ i = 3
    OBVIOUS
  <2>3. OddShape(f)
    BY <2>1, <2>2 DEF OddShape
  <2>4. QED
    BY <1>3, <2>3 DEF OddFrame, f
<1>4. CASE form = "empty"
  <2> DEFINE f == <<"FEND", "Data", "FEND">>
  <2>1. f \in Stream /\ Len(f) = 3 /\ f[1] = "FEND" /\ f[2] = "Data" /\ f[3] = "FEND"
    BY <1>1 DEF Stream
  <2> HIDE DEF f
  <2>2. \A i \in 2..(3 - 1) : i = 2
    OBVIOUS
  <2>3. OddShape(f)
    BY <2>1, <2>2 DEF OddShape
  <2>4. QED
    BY <1>4, <2>3 DEF OddFrame, f
<1>5. CASE form = "fend"
  <2> DEFINE f == <<"FEND">>
  <2>1. f \in Stream /\ Len(f) = 1 /\ f[1] = "FEND"
    BY <1>1 DEF Stream
  <2> HIDE DEF f
  <2>2. OddShape(f)
    BY <2>1 DEF OddShape
  <2>3. QED
    BY <1>5, <2>2 DEF OddFrame, f
<1>6. CASE form = "long"
  <2> DEFINE f == Encapsulate(LongPayload, "Data")
             e == Escaped(LongPayload)
  <2>1. LongPayload \in Stream
    BY TransportsAssumption DEF Stream
  <2>2. CASE LongPayload # <<>>
    <3>1. IsFrame(f)
      BY <2>1, <2>2, FrameShape
    <3> HIDE DEF f
    <3>2. OddShape(f)
      BY <3>1 DEF IsFrame, OddShape, Stream
    <3>3. QED
      BY <1>6, <3>2 DEF OddFrame, f
  <2>3. CASE LongPayload = <<>>
    <3>1. e = <<>>
      BY <1>1, <2>1, <2>3, EscapedAppend
    <3>2. f = <<"FEND", "Data">> \o e \o <<"FEND">>
      BY DEF Encapsulate
    <3> HIDE DEF f, e
    <3>3. f \in Stream /\ Len(f) = 3 /\ f[1] = "FEND" /\ f[2] = "Data" /\ f[3] = "FEND"
      BY <1>1, <3>1, <3>2 DEF Stream
    <3>4. \A i \in 2..(3 - 1) : i = 2
      OBVIOUS
    <3>5. OddShape(f)
      BY <3>3, <3>4 DEF OddShape
    <3>6. QED
      BY <1>6, <3>5 DEF OddFrame, f
  <2>4. QED
    BY <2>2, <2>3
<1>7. QED
  BY <1>2, <1>3, <1>4, <1>5, <1>6

(* The host begins something that is not a packet. *)
LEMMA BeginOddKeeps ==
  ASSUME FramingInv, NEW form \in DOMAIN OddFrame, BeginOdd(form)
  PROVE  FramingInv'
<1> DEFINE n == Len(begun)
           f == OddFrame[form]
<1>1. /\ rest = <<>> /\ odd = {} /\ rest' = f /\ odd' = {form} /\ streak' = 0
      /\ UNCHANGED <<kind, begun, buf, slot, shouldSend, sending, keyed, bluetoothConnected>>
  BY DEF BeginOdd, parser, air, link
<1>2. Begun /\ n \in 0..Len(Payloads) /\ begun = Packets(n)
  BY DEF FramingInv, Begun
<1>3. OddShape(f) /\ f \in Stream /\ Len(f) \in Nat /\ 0 < Len(f) /\ After(f, 0) = f
  <2>1. OddShape(f)
    BY FormShape
  <2> HIDE DEF f
  <2>2. f \in Stream /\ Len(f) \in Nat /\ Len(f) # 0
    BY <2>1 DEF OddShape
  <2>3. After(f, 0) = f
    BY <2>2, AllAndNone DEF Stream
  <2>4. QED
    BY <2>1, <2>2, <2>3
<1> HIDE DEF f, n
<1>4. Begun'
  <2>1. Len(begun) \in Nat
    BY <1>2, TransportsAssumption DEF n
  <2>2. QED
    BY <1>1, <1>2, <2>1 DEF Begun
<1>5. ASSUME kind = "socket" PROVE SocketInv'
  <2>1. StreamInv
    BY <1>1, <1>5 DEF FramingInv, IsBLE
  <2>2. buf = <<>>
    BY <1>1, <1>2, <1>5, <2>1, StreamBetween, SocketIsLink DEF StreamInv, n
  <2>3. WithinOdd(f, <<>>)
    BY <1>3 DEF WithinOdd
  <2>4. SocketOK(n, 0, f, <<>>, keyed)
    BY <2>3 DEF SocketOK
  <2>5. Bytewise'
    BY <1>1, <1>3, <2>1 DEF StreamInv, Bytewise
  <2>6. QED
    BY <1>1, <2>2, <2>4, <2>5 DEF SocketInv, n
<1>6. IsBLE' = IsBLE /\ odd' # {}
  BY <1>1 DEF IsBLE
<1>7. QED
  BY <1>1, <1>4, <1>5, <1>6 DEF FramingInv

(* A piece of it arrives over a stream (handleInputChar()). *)
LEMMA WriteStreamKeeps ==
  ASSUME FramingInv, NEW n, WriteStream(n)
  PROVE  FramingInv'
<1> DEFINE l == kind
           q == Parse(l, buf, SubSeq(rest, 1, n))
           k == Len(begun)
<1>1. /\ ~IsBLE /\ n \in DOMAIN rest /\ rest' = After(rest, n) /\ buf' = q.buf
      /\ keyed' = keyed \o q.out
      /\ UNCHANGED <<kind, begun, odd, streak, slot, shouldSend, sending, bluetoothConnected>>
  BY DEF WriteStream, Reach, After, link
<1>2. Begun /\ k \in 0..Len(Payloads) /\ streak \in 0..k /\ l \in Links
  BY <1>1 DEF FramingInv, Begun
<1>3. ASSUME Bytewise PROVE Bytewise' /\ n \in 1..Len(rest)
  <2>1. rest \in Stream /\ buf \in Stream /\ keyed \in Seq(Stream) /\ n \in 1..Len(rest)
        /\ Len(rest) \in Nat
    BY <1>1, <1>3 DEF Bytewise, Stream
  <2>2. SubSeq(rest, 1, n) \in Stream
    BY <2>1 DEF Stream
  <2>3. q \in ParseStates
    <3> DEFINE b == SubSeq(rest, 1, n)
    <3>1. b \in Stream /\ l \in Links /\ "FEND" \in Bytes
      BY <1>2, <2>2, KissFramingAssumption
    <3> HIDE DEF b, l
    <3>2. Parse(l, buf, b) \in ParseStates
      BY <2>1, <3>1, ParseAppend
    <3>3. QED
      BY <3>2 DEF b
  <2> HIDE DEF q
  <2>4. q.buf \in Stream /\ q.out \in Seq(Stream)
    BY <2>3 DEF ParseStates
  <2>5. After(rest, n) \in Stream
    BY <2>1 DEF After, Stream
  <2>6. keyed \o q.out \in Seq(Stream)
    BY <2>1, <2>4
  <2>7. QED
    BY <1>1, <2>1, <2>4, <2>5, <2>6 DEF Bytewise
<1> HIDE DEF k, l, q
<1>4. ASSUME StreamInv PROVE StreamInv'
  <2>1. Bytewise /\ StreamOK(l, k, rest, buf, keyed)
    BY <1>4 DEF StreamInv, k, l
  <2>2. Bytewise' /\ n \in 1..Len(rest)
    BY <1>3, <2>1
  <2>3. StreamOK(l, k, After(rest, n), q.buf, keyed \o q.out)
    <3>1. rest \in Stream /\ buf \in Stream /\ keyed \in Seq(Stream)
      BY <2>1 DEF Bytewise
    <3>2. QED
      BY <1>2, <2>1, <2>2, <3>1, StreamWrite DEF q
  <2>4. QED
    BY <1>1, <2>2, <2>3 DEF StreamInv, k, l
<1>5. ASSUME kind = "socket", SocketInv PROVE SocketInv'
  <2>1. Bytewise /\ SocketOK(k, streak, rest, buf, keyed)
    BY <1>5 DEF SocketInv, k
  <2>2. Bytewise' /\ n \in 1..Len(rest)
    BY <1>3, <2>1
  <2>3. SocketOK(k, streak, After(rest, n), q.buf, keyed \o q.out)
    <3>1. rest \in Stream /\ buf \in Stream /\ keyed \in Seq(Stream) /\ l = "socket"
      BY <1>5, <2>1 DEF Bytewise, l
    <3>2. SocketOK(k, streak, After(rest, n), Parse("socket", buf, SubSeq(rest, 1, n)).buf, keyed \o Parse("socket", buf, SubSeq(rest, 1, n)).out)
      BY <1>2, <2>1, <2>2, <3>1, SocketWrite
    <3>3. QED
      BY <3>1, <3>2 DEF q
  <2>4. QED
    BY <1>1, <2>2, <2>3 DEF SocketInv, k
<1>6. Begun' /\ IsBLE' = IsBLE
  BY <1>1, <1>2 DEF Begun, IsBLE
<1>7. QED
  BY <1>1, <1>4, <1>5, <1>6 DEF FramingInv

(* The host of a stream breaks off. *)
LEMMA BreakKeeps ==
  ASSUME FramingInv, Break
  PROVE  FramingInv'
<1> DEFINE n == Len(begun)
<1>1. /\ ~IsBLE /\ odd = {} /\ rest' = <<>> /\ odd' = {"break"} /\ streak' = 0
      /\ buf' = IF kind = "socket" THEN <<>> ELSE buf
      /\ UNCHANGED <<kind, begun, slot, shouldSend, sending, keyed, bluetoothConnected>>
  BY DEF Break, air, link
<1>2. Begun /\ n \in 0..Len(Payloads)
  BY DEF FramingInv, Begun
<1>3. Begun'
  <2>1. Len(begun) \in Nat
    BY <1>2, TransportsAssumption
  <2>2. QED
    BY <1>1, <1>2, <2>1 DEF Begun
<1>4. ASSUME kind = "socket" PROVE SocketInv'
  <2>1. StreamInv
    BY <1>1 DEF FramingInv
  <2>2. SocketOK(n, 0, <<>>, <<>>, keyed)
    <3>1. BetweenFrames(n, 0, <<>>, keyed)
      BY DEF BetweenFrames, Leftovers
    <3>2. QED
      BY <3>1 DEF SocketOK
  <2>3. Bytewise'
    BY <1>1, <1>4, <2>1 DEF StreamInv, Bytewise, Stream
  <2>4. QED
    BY <1>1, <1>4, <2>2, <2>3 DEF SocketInv
<1>5. IsBLE' = IsBLE /\ odd' # {}
  BY <1>1 DEF IsBLE
<1>6. QED
  BY <1>1, <1>3, <1>4, <1>5 DEF FramingInv

-----------------------------------------------------------------------------

(* A write to a link that is not open yet is lost. *)
LEMMA IgnoredWrite ==
  ASSUME NEW k \in 0..Len(Payloads), NEW r \in Stream, NEW b, WriteOK(k, r, b), NEW n \in 1..Len(r)
  PROVE  WriteOK(k, After(r, n), <<>>)
<1> DEFINE f == Frame(k)
<1>1. r # <<>> /\ Len(r) \in Nat
  <2>1. Len(r) \in Nat /\ Len(r) # 0
    BY DEF Stream
  <2>2. QED
    BY <2>1
<1>2. k > 0 /\ k \in 1..Len(Payloads)
  <2>1. k > 0 /\ Len(Payloads) \in Nat
    BY <1>1, TransportsAssumption DEF WriteOK
  <2>2. QED
    BY <2>1
<1>3. PICK w \in 0..(Len(f) - 1) : r = After(f, w)
  BY <1>1 DEF WriteOK
<1>4. f \in Seq(Bytes) /\ Len(f) \in Nat
  BY <1>2, FrameOf DEF Stream
<1> HIDE DEF f
<1>5. Len(r) = Len(f) - w
  BY <1>3, <1>4, OneLess
<1>6. w \in 0..Len(f) /\ n \in 1..(Len(f) - w) /\ w + n \in 0..Len(f)
  BY <1>4, <1>5
<1>7. After(r, n) = After(f, w + n)
  BY <1>3, <1>4, <1>6, PieceOfRest
<1>8. CASE w + n = Len(f)
  BY <1>4, <1>7, <1>8, AllAndNone DEF WriteOK
<1>9. CASE w + n # Len(f)
  <2>1. w + n \in 0..(Len(f) - 1)
    BY <1>4, <1>6, <1>9
  <2>2. QED
    BY <1>2, <1>7, <2>1 DEF WriteOK, f
<1>10. QED
  BY <1>8, <1>9

(* The buffer may be emptied at any time. *)
LEMMA EmptiedOK ==
  ASSUME NEW k, NEW r, NEW b, WriteOK(k, r, b)
  PROVE  WriteOK(k, r, <<>>)
BY DEF WriteOK

(* Complete counts the packets written whole. *)
LEMMA CompleteIs ==
  ASSUME Begun, rest # <<>> => Len(begun) > 0
  PROVE  /\ Complete \in Nat /\ Complete <= Len(begun) /\ Len(begun) \in Nat
         /\ rest # <<>> => Complete = Len(begun) - 1
         /\ rest = <<>> => Complete = Len(begun)
<1>1. Len(begun) \in Nat
  BY TransportsAssumption DEF Begun
<1>2. QED
  BY <1>1 DEF Complete

(* A piece of it arrives as a write of its own (onWrite()). *)
LEMMA WriteBLEKeeps ==
  ASSUME FramingInv, NEW n, WriteBLE(n)
  PROVE  FramingInv'
<1> DEFINE q == ParseWrite(buf, SubSeq(rest, 1, n))
           k == Len(begun)
           F == Frame(k)
<1>1. /\ IsBLE /\ n \in DOMAIN rest /\ rest' = After(rest, n)
      /\ IF bluetoothConnected
         THEN /\ buf' = q.buf
              /\ slot' = IF q.out = <<>> THEN slot ELSE Decode(Last(q.out))
              /\ shouldSend' = (shouldSend \/ Flagged(q.out))
         ELSE UNCHANGED <<buf, slot, shouldSend>>
      /\ UNCHANGED <<kind, begun, odd, streak, sending, keyed, bluetoothConnected>>
  BY DEF WriteBLE, Reach, After, parser, air, link
<1>2. Begun /\ k \in 0..Len(Payloads)
  BY DEF FramingInv, Begun
<1> HIDE DEF q
<1>3. Begun' /\ IsBLE' = IsBLE
  BY <1>1, <1>2 DEF Begun, IsBLE
<1>4. IsBLE' /\ ~bluetoothConnected' => buf' = <<>>
  BY <1>1, <1>3 DEF FramingInv
<1>5. ASSUME BleInv, odd = {} PROVE BleInv'
  <2>1. rest \in Stream /\ WriteOK(k, rest, buf) /\ (rest # <<>> => k > 0)
    BY <1>5 DEF BleInv
  <2>2. n \in 1..Len(rest) /\ Len(rest) \in Nat /\ After(rest, n) \in Stream
    BY <1>1, <2>1 DEF Stream, After
  <2>3. rest # <<>>
    BY <2>2
  <2>4. /\ Complete \in Nat /\ k \in Nat /\ Complete = k - 1 /\ k > 0
    BY <1>2, <2>1, <2>3, CompleteIs
  <2>5. Complete' \in Nat /\ Complete <= Complete' /\ (rest' = <<>> => Complete' = k)
    BY <1>1, <2>4 DEF Complete
  <2>6. InOrder(keyed, Complete')
    BY <1>5, <2>4, <2>5, OrderMore DEF BleInv
  <2>7. ASSUME UNCHANGED slot, Pending' => Pending, WriteOK(k, rest', buf') PROVE BleInv'
    <3>1. Pending' => InOrder(Append(keyed, slot), Complete')
      BY <1>5, <2>4, <2>5, <2>7, OrderMore DEF BleInv
    <3>2. QED
      BY <1>1, <2>2, <2>4, <2>6, <2>7, <3>1 DEF BleInv
  <2>8. CASE ~bluetoothConnected
    <3>1. buf = <<>>
      BY <1>1, <2>8 DEF FramingInv
    <3>2. WriteOK(k, After(rest, n), <<>>)
      BY <1>2, <2>1, <2>2, IgnoredWrite
    <3>3. QED
      BY <1>1, <2>7, <2>8, <3>1, <3>2 DEF Pending
  <2>9. CASE bluetoothConnected
    <3>1. /\ WriteOK(k, After(rest, n), q.buf)
          /\ q.out = <<>> \/ (q.out = <<F>> /\ After(rest, n) = <<>>)
      BY <1>2, <2>1, <2>2, BleWrite DEF q
    <3>2. CASE q.out = <<>>
      <4>1. ~Flagged(q.out)
        BY <3>2 DEF Flagged
      <4>2. slot' = slot /\ (shouldSend' => shouldSend)
        BY <1>1, <2>9, <3>2, <4>1
      <4>3. QED
        BY <1>1, <2>7, <2>9, <3>1, <4>2 DEF Pending
    <3>3. CASE q.out = <<F>> /\ After(rest, n) = <<>>
      <4>1. k \in 1..Len(Payloads)
        BY <1>2, <2>4
      <4>2. IsData(F) /\ Decapsulate(F) = Payloads[k] /\ F \in Stream
        BY <4>1, FrameOf
      <4> HIDE DEF F
      <4>3. Last(<<F>>) = F
        BY <4>2 DEF Last
      <4>4. slot' = Payloads[k]
        BY <1>1, <2>9, <3>3, <4>2, <4>3 DEF Decode
      <4>5. Complete' = k
        BY <1>1, <2>5, <3>3
      <4>6. InOrder(Append(keyed, Payloads[k]), k)
        BY <1>5, <2>4, <4>1, OrderAppend DEF BleInv
      <4>7. QED
        BY <1>1, <2>2, <2>4, <2>6, <2>9, <3>1, <4>4, <4>5, <4>6 DEF BleInv
    <3>4. QED
      BY <3>1, <3>2, <3>3
  <2>10. QED
    BY <2>8, <2>9
<1>6. kind' # "socket"
  BY <1>1 DEF IsBLE
<1>7. IsBLE /\ odd = {} => BleInv
  BY DEF FramingInv
<1>8. QED
  BY <1>1, <1>3, <1>4, <1>5, <1>6, <1>7 DEF FramingInv

(* A link that ends or begins empties the buffer. *)
LEMMA EmptiedKeeps ==
  ASSUME FramingInv, IsBLE, buf' = <<>>, rest' \in {rest, <<>>},
         Pending' => Pending /\ slot' = slot, UNCHANGED <<kind, begun, odd, streak, keyed>>
  PROVE  FramingInv'
<1>1. Begun' /\ IsBLE' /\ kind' # "socket" /\ odd' = odd
  BY DEF FramingInv, Begun, IsBLE
<1>2. ASSUME odd = {} PROVE BleInv'
  <2>1. BleInv /\ Begun
    BY <1>2 DEF FramingInv
  <2>2. WriteOK(Len(begun), rest', <<>>)
    BY <2>1, EmptiedOK DEF BleInv, WriteOK
  <2>3. Complete \in Nat /\ Len(begun) \in Nat /\ Complete <= Len(begun)
        /\ (rest = <<>> => Complete = Len(begun))
    BY <2>1, CompleteIs DEF BleInv
  <2>4. Complete' \in Nat /\ Complete <= Complete'
    <3>1. CASE rest' = rest
      BY <2>3, <3>1 DEF Complete
    <3>2. CASE rest' = <<>>
      BY <2>3, <3>2 DEF Complete
    <3>3. QED
      BY <3>1, <3>2
  <2>5. InOrder(keyed, Complete') /\ (Pending => InOrder(Append(keyed, slot), Complete'))
    BY <2>1, <2>3, <2>4, OrderMore DEF BleInv
  <2>6. rest' \in Stream
    <3>1. rest \in Stream /\ <<>> \in Stream
      BY <2>1 DEF BleInv, Stream
    <3>2. QED
      BY <3>1
  <2>7. QED
    BY <2>1, <2>2, <2>5, <2>6 DEF BleInv
<1>3. QED
  BY <1>1, <1>2 DEF FramingInv

(* sendToLoRa(). *)
LEMMA SendingKeeps ==
  ASSUME FramingInv, StartSending \/ Key \/ DoneSending
  PROVE  FramingInv'
<1>1. /\ UNCHANGED <<kind, rest, begun, odd, streak, buf, bluetoothConnected>>
      /\ IsBLE /\ IsBLE' /\ kind' # "socket"
  <2>1. UNCHANGED <<kind, rest, begun, odd, streak, buf, bluetoothConnected>>
    BY DEF StartSending, Key, DoneSending, host, parser, link
  <2>2. IsBLE
    BY DEF FramingInv, StartSending, Key, DoneSending
  <2>3. QED
    BY <2>1, <2>2 DEF IsBLE
<1>2. Begun' /\ (Complete' = Complete)
  BY <1>1 DEF FramingInv, Begun, Complete
<1>3. ASSUME odd = {} PROVE BleInv'
  <2>1. BleInv
    BY <1>1, <1>3 DEF FramingInv
  <2>2. CASE StartSending
    <3>1. Pending /\ UNCHANGED <<slot, keyed>>
      BY <2>2 DEF StartSending, Pending, parser
    <3>2. QED
      BY <1>1, <1>2, <2>1, <3>1 DEF BleInv
  <2>3. CASE Key
    <3>1. Pending /\ ~Pending' /\ keyed' = Append(keyed, slot)
      BY <2>3 DEF Key, Pending
    <3>2. QED
      BY <1>1, <1>2, <2>1, <3>1 DEF BleInv
  <2>4. CASE DoneSending
    <3>1. ~Pending' /\ keyed' = keyed
      BY <2>4 DEF DoneSending, Emptied, Pending
    <3>2. QED
      BY <1>1, <1>2, <2>1, <3>1 DEF BleInv
  <2>5. QED
    BY <2>2, <2>3, <2>4
<1>4. QED
  BY <1>1, <1>2, <1>3 DEF FramingInv

(* The link. *)
LEMMA LinkKeeps ==
  ASSUME FramingInv, active # NoPhone => IsBLE,
         \/ Reboot \/ Disconnect \/ TimeoutDisconnects
         \/ \E phone \in Phones : Connect(phone)
  PROVE  FramingInv'
<1>1. CASE Reboot
  <2>1. /\ IsBLE /\ buf' = <<>> /\ rest' = <<>> /\ ~Pending'
        /\ UNCHANGED <<kind, begun, odd, streak, keyed>>
    BY <1>1 DEF Reboot, Closed, Pending
  <2>2. QED
    BY <2>1, EmptiedKeeps
<1>2. CASE Disconnect
  <2>1. /\ IsBLE /\ buf' = <<>> /\ rest' = <<>> /\ (Pending' => Pending /\ slot' = slot)
        /\ UNCHANGED <<kind, begun, odd, streak, keyed>>
    BY <1>2 DEF Disconnect, Closed, Pending, air
  <2>2. QED
    BY <2>1, EmptiedKeeps
<1>3. CASE TimeoutDisconnects /\ active # NoPhone /\ Closed
  <2>1. /\ IsBLE /\ buf' = <<>> /\ rest' = <<>> /\ (Pending' => Pending /\ slot' = slot)
        /\ UNCHANGED <<kind, begun, odd, streak, keyed>>
    BY <1>3 DEF TimeoutDisconnects, Closed, Pending, air
  <2>2. QED
    BY <2>1, EmptiedKeeps
<1>4. CASE TimeoutDisconnects /\ UNCHANGED <<active, bluetoothConnected, shouldSend, buf, rest>>
  <2>1. UNCHANGED traffic
    BY <1>4 DEF TimeoutDisconnects, traffic, air
  <2>2. QED
    BY <2>1, TrafficUnchanged
<1>5. ASSUME NEW phone \in Phones, Connect(phone) PROVE FramingInv'
  <2>1. /\ IsBLE /\ buf' = <<>> /\ rest' = rest /\ (Pending' => Pending /\ slot' = slot)
        /\ UNCHANGED <<kind, begun, odd, streak, keyed>>
    BY <1>5 DEF Connect, Accepted, Pending, host, air
  <2>2. QED
    BY <2>1, EmptiedKeeps
<1>6. QED
  BY <1>1, <1>2, <1>3, <1>4, <1>5 DEF TimeoutDisconnects

(* A pairing opens the link. *)
LEMMA PairingKeeps ==
  ASSUME FramingInv, Authenticate
  PROVE  FramingInv'
<1>1. bluetoothConnected' = TRUE
      /\ UNCHANGED <<kind, rest, begun, odd, streak, buf, slot, shouldSend, sending, keyed>>
  BY DEF Authenticate, host, parser, air
<1>2. UNCHANGED <<Begun, StreamInv, SocketInv, BleInv, IsBLE>>
  BY <1>1 DEF Begun, StreamInv, SocketInv, BleInv, IsBLE, Bytewise, Complete, Pending
<1>3. QED
  BY <1>1, <1>2 DEF FramingInv

(* Every step keeps the framing invariant; only while a phone is active is *)
(* it used that the link is BLE.                                           *)
LEMMA FramingKept ==
  ASSUME FramingInv, active # NoPhone => IsBLE, [Next]_vars
  PROVE  FramingInv'
<1>1. CASE UNCHANGED vars
  <2>1. UNCHANGED traffic
    BY <1>1 DEF vars, traffic, host, parser, air, link
  <2>2. QED
    BY <2>1, TrafficUnchanged
<1>2. CASE LoadPolicy \/ RecordPolicy \/ PairingTimeout
  <2>1. UNCHANGED traffic
    BY <1>2 DEF LoadPolicy, RecordPolicy, PairingTimeout, traffic, host, parser, air, link
  <2>2. QED
    BY <2>1, TrafficUnchanged
<1>3. ASSUME NEW n \in DOMAIN rest, WriteStream(n) \/ WriteBLE(n) PROVE FramingInv'
  BY <1>3, WriteStreamKeeps, WriteBLEKeeps
<1>4. ASSUME NEW form \in DOMAIN OddFrame, BeginOdd(form) PROVE FramingInv'
  BY <1>4, BeginOddKeeps
<1>5. CASE BeginPacket
  BY <1>5, BeginPacketKeeps
<1>6. CASE Break
  BY <1>6, BreakKeeps
<1>7. CASE StartSending \/ Key \/ DoneSending
  BY <1>7, SendingKeeps
<1>8. CASE Reboot \/ Disconnect \/ TimeoutDisconnects \/ \E phone \in Phones : Connect(phone)
  BY <1>8, LinkKeeps
<1>9. CASE Authenticate
  BY <1>9, PairingKeeps
<1>10. QED
  BY <1>1, <1>2, <1>3, <1>4, <1>5, <1>6, <1>7, <1>8, <1>9 DEF Next

-----------------------------------------------------------------------------

(* A packet's place among those begun. *)
LEMMA PlaceIs ==
  ASSUME Begun, NEW j \in 1..Len(begun)
  PROVE  Place(Payloads[j]) = j
<1> DEFINE I == {i \in 1..Len(begun) : begun[i] = Payloads[j]}
<1>1. Len(begun) \in 0..Len(Payloads) /\ begun = Packets(Len(begun)) /\ Len(Payloads) \in Nat
      /\ Len(begun) \in Nat
  BY TransportsAssumption DEF Begun
<1>2. \A i \in 1..Len(begun) : begun[i] = Payloads[i] /\ i \in 1..Len(Payloads)
  BY <1>1, PacketsAre
<1>3. I = {j}
  <2>1. \A i \in 1..Len(begun) : Payloads[i] = Payloads[j] => i = j
    BY <1>1, TransportsAssumption
  <2>2. QED
    BY <1>2, <2>1
<1>4. Place(Payloads[j]) = IF I # {} THEN Min(I) ELSE 0
  BY DEF Place, SelectInSeq
<1>5. Min({j}) = j
  BY DEF Min
<1>6. QED
  BY <1>3, <1>4, <1>5

(* In order among the packets begun is in order among their places. *)
LEMMA OrderPlaces ==
  ASSUME Begun, NEW K, InOrder(K, Len(begun))
  PROVE  /\ \A i, j \in DOMAIN K : i < j => Place(K[i]) < Place(K[j])
         /\ \A i \in DOMAIN K : Place(K[i]) > 0
<1>1. Len(begun) \in Nat /\ Len(Payloads) \in Nat /\ Len(begun) <= Len(Payloads)
  BY TransportsAssumption DEF Begun
<1>2. ASSUME NEW i \in 1..Len(K) PROVE Place(K[i]) = Nth(K[i]) /\ Place(K[i]) \in Nat
             /\ Place(K[i]) > 0
  <2>1. PICK j \in 1..Len(begun) : K[i] = Payloads[j]
    BY <1>2 DEF InOrder
  <2>2. j \in 1..Len(Payloads)
    BY <1>1
  <2>3. Place(K[i]) = j /\ Nth(K[i]) = j
    BY <2>1, <2>2, NthIs, PlaceIs
  <2>4. QED
    BY <1>1, <2>3
<1>3. DOMAIN K = 1..Len(K)
  BY DEF InOrder
<1>4. \A i, j \in 1..Len(K) : i < j => Nth(K[i]) < Nth(K[j])
  BY DEF InOrder
<1>5. QED
  BY <1>2, <1>3, <1>4

(* All that are not refused, as a set. *)
LEMMA SentAre ==
  ASSUME NEW l \in Links, NEW n \in 0..Len(Payloads), NEW K, AllSent(l, n, K)
  PROVE  ToSet(K) = ToSet(Packets(n)) \ Refused(l)
<1>1. K \in Seq(Stream) /\ DOMAIN K = 1..Len(K)
  BY DEF AllSent, InOrder
<1>2. /\ \A i \in 1..Len(K) : K[i] \notin Refused(l) /\ \E j \in 1..n : K[i] = Payloads[j]
      /\ \A j \in 1..n : Payloads[j] \notin Refused(l) => \E i \in 1..Len(K) : K[i] = Payloads[j]
  BY DEF AllSent, InOrder
<1> DEFINE P == Packets(n)
<1>3. P \in Seq(Stream) /\ Len(P) = n /\ \A i \in 1..n : P[i] = Payloads[i]
  BY PacketsAre
<1> HIDE DEF P
<1>4. DOMAIN P = 1..n
  BY <1>3
<1>5. ToSet(P) = {Payloads[j] : j \in 1..n} /\ ToSet(K) = {K[i] : i \in 1..Len(K)}
  BY <1>1, <1>3, <1>4 DEF ToSet
<1>6. QED
  BY <1>2, <1>5 DEF P

(* The last packet, when it is sent, is the last that is.                  *)
LEMMA LastSent ==
  ASSUME NEW l \in Links, NEW n \in 1..Len(Payloads), NEW K, AllSent(l, n, K), Payloads[n] \notin Refused(l)
  PROVE  K # <<>> /\ Last(K) = Payloads[n]
<1>1. /\ K \in Seq(Stream) /\ Len(K) \in Nat
      /\ \A i \in 1..Len(K) : \E j \in 1..n : K[i] = Payloads[j]
      /\ \A i, j \in 1..Len(K) : i < j => Nth(K[i]) < Nth(K[j])
  BY DEF AllSent, InOrder
<1>2. n \in Nat /\ n \in 1..n /\ Len(Payloads) \in Nat
  BY TransportsAssumption
<1>3. PICK i \in 1..Len(K) : K[i] = Payloads[n]
  BY <1>2 DEF AllSent
<1>4. i = Len(K)
  <2>1. SUFFICES ASSUME i < Len(K) PROVE FALSE
    BY <1>1
  <2>2. Len(K) \in 1..Len(K)
    BY <1>1, <2>1
  <2>3. PICK j \in 1..n : K[Len(K)] = Payloads[j]
    BY <1>1, <2>2
  <2>4. Nth(K[i]) = n /\ Nth(K[Len(K)]) = j /\ j <= n
    <3>1. j \in 1..Len(Payloads)
      BY <1>2
    <3>2. QED
      BY <1>2, <1>3, <2>3, <3>1, NthIs
  <2>5. QED
    BY <1>1, <1>2, <2>1, <2>2, <2>4
<1>5. QED
  BY <1>1, <1>3, <1>4 DEF Last

(* What the framing invariant says of the two properties. *)
LEMMA FramingMeans ==
  ASSUME FramingInv
  PROVE  FramesArrive /\ SocketRecovers
<1> DEFINE n == Len(begun)
<1>1. /\ Begun /\ n \in 0..Len(Payloads) /\ begun = Packets(n) /\ Len(Payloads) \in Nat
      /\ n \in Nat /\ streak \in 0..n /\ n <= Len(Payloads)
  BY TransportsAssumption DEF FramingInv, Begun
<1> HIDE DEF n
<1>2. FramesArrive
  <2>1. SUFFICES ASSUME odd = {}
                 PROVE  /\ ~IsBLE /\ rest = <<>> => ToSet(keyed) = ToSet(begun) \ Refused(kind)
                        /\ InOrder(keyed, n)
    <3>1. ToSet(begun) \ Refused(kind)
            = IF kind = "socket" THEN ToSet(begun) \ Own ELSE ToSet(begun)
      BY DEF Refused
    <3>2. QED
      BY <1>1, <3>1, OrderPlaces DEF FramesArrive, n
  <2>2. CASE IsBLE
    <3>1. BleInv
      BY <2>1, <2>2 DEF FramingInv
    <3>2. Complete \in Nat /\ Complete <= n
      BY <1>1, <3>1, CompleteIs DEF BleInv, n
    <3>3. QED
      BY <1>1, <2>2, <3>1, <3>2, OrderMore DEF BleInv
  <2>3. CASE ~IsBLE
    <3>1. StreamOK(kind, n, rest, buf, keyed)
      BY <2>1, <2>3 DEF FramingInv, StreamInv, n
    <3>2. rest = <<>> => ToSet(keyed) = ToSet(begun) \ Refused(kind)
      <4>1. kind \in Links
        BY <2>3 DEF FramingInv
      <4>2. rest = <<>> => AllSent(kind, n, keyed)
        BY <1>1, <3>1, <4>1, StreamBetween
      <4>3. QED
        BY <1>1, <4>1, <4>2, SentAre
    <3>3. InOrder(keyed, n) \/ (n > 0 /\ InOrder(keyed, n - 1))
      BY <3>1 DEF StreamOK, AllSent
    <3>4. n > 0 => n - 1 \in Nat /\ n - 1 <= n
      BY <1>1
    <3>5. InOrder(keyed, n)
      BY <1>1, <3>3, <3>4, OrderMore
    <3>6. QED
      BY <3>2, <3>5
  <2>4. QED
    BY <2>2, <2>3
<1>3. SocketRecovers
  <2>1. SUFFICES ASSUME kind = "socket", rest = <<>>, streak >= 3,
                        Last(begun) \notin Own
                 PROVE  keyed # <<>> /\ Last(keyed) = Last(begun)
    BY DEF SocketRecovers
  <2>2. n >= 3 /\ n \in 1..n /\ n \in 1..Len(Payloads) /\ ~IsBLE
    BY <1>1, <2>1 DEF IsBLE
  <2>3. Last(begun) = Payloads[n] /\ begun # <<>>
    <3>1. Len(begun) = n /\ Packets(n)[n] = Payloads[n]
      BY <1>1, <2>2, PacketsAre DEF n
    <3>2. begun[Len(begun)] = Payloads[n]
      BY <1>1, <3>1
    <3>3. begun # <<>>
      BY <2>2, <3>1
    <3>4. QED
      BY <3>2, <3>3 DEF Last
  <2>4. CASE odd = {}
    <3>1. StreamOK("socket", n, <<>>, buf, keyed)
      BY <2>1, <2>2, <2>4 DEF FramingInv, StreamInv, n
    <3>2. AllSent("socket", n, keyed)
      BY <1>1, <3>1, StreamBetween, SocketIsLink
    <3>3. Payloads[n] \notin Refused("socket")
      BY <2>1, <2>3 DEF Refused
    <3>4. QED
      BY <2>2, <2>3, <3>2, <3>3, LastSent, SocketIsLink
  <2>5. CASE odd # {}
    <3>1. SocketOK(n, streak, <<>>, buf, keyed)
      BY <2>1, <2>5 DEF FramingInv, SocketInv, n
    <3>2. BetweenFrames(n, streak, buf, keyed)
      BY <1>1, <3>1, SocketBetween
    <3>3. QED
      BY <2>1, <2>3, <3>2 DEF BetweenFrames
  <2>6. QED
    BY <2>4, <2>5
<1>4. QED
  BY <1>2, <1>3

-----------------------------------------------------------------------------

(* Bonds fit the record, and the service is up with the record of its own  *)
(* policy, in every reachable state.                                       *)
THEOREM InductiveInvariant == Spec => []IInv
BY InitIInv, NextIInv, PTL DEF Spec

(* While a PIN is required the link is open only to a phone whose user     *)
(* knows the PIN in force: a bond of an earlier PIN never opens it, through *)
(* every edit, crash and failed write of the boot (enforceBondPolicy(),    *)
(* onAuthenticationComplete(), securedCallback()).                         *)
THEOREM LinkIsPaired == Spec => []OnlyPairedPhones
<1>1. IInv => OnlyPairedPhones
  BY DEF IInv
<1>2. QED
  BY InductiveInvariant, <1>1, PTL

(* What the host has still to write and what the parsers hold fit together *)
(* in every reachable state.                                               *)
THEOREM FramingInvariant == Spec => []FramingInv
<1>1. IInv /\ FramingInv /\ [Next]_vars => FramingInv'
  BY FramingKept DEF IInv, UpWithRecord
<1>2. QED
  BY InitFraming, InductiveInvariant, <1>1, PTL DEF Spec

(* A host that writes nothing but packets between FENDs of their own has   *)
(* them keyed whole, in order and no more than once, wherever its writes   *)
(* are cut: over the port all of them, over the socket all but those of    *)
(* the tracker's own callsign (encapsulateKISS(), decapsulateKISS(),       *)
(* handleInputChar(), onWrite(), sendToLoRa()).                            *)
THEOREM SpecFramesArrive == Spec => []FramesArrive
<1>1. FramingInv => FramesArrive
  BY FramingMeans
<1>2. QED
  BY FramingInvariant, <1>1, PTL

(* Whatever the socket was sent before, the third packet since, and each   *)
(* one after it, is keyed unless its sender is the tracker itself          *)
(* (handleInputChar()).                                                    *)
THEOREM SpecSocketRecovers == Spec => []SocketRecovers
<1>1. FramingInv => SocketRecovers
  BY FramingMeans
<1>2. QED
  BY FramingInvariant, <1>1, PTL
=============================================================================
