------------------------- MODULE DigiNetwork_proofs -------------------------
(***************************************************************************)
(* For any digipeaters, packets, ranges, modes and queue length, any ring  *)
(* size, TTL and clock width: a packet has the hops its sender asked for   *)
(* and no more, it does not loop, and the filter of every digipeater is a  *)
(* PacketDedup, which lets a pair pass twice within the TTL by eviction    *)
(* only and suppresses none without a cause.                               *)
(*                                                                         *)
(* Three layers: what Replace does to the counts of hops in a path, by     *)
(* induction over the path; one ring, over rigid parameters, so that the   *)
(* same lemmas serve every digipeater and a PacketDedup by itself; and     *)
(* the network, whose invariant is that every frame in flight is lawful    *)
(* and every filter in step with its log.                                  *)
(***************************************************************************)
EXTENDS DigiNetwork, FiniteSetTheorems, TLAPS

(* A remainder is unique. *)
LEMMA RemainderUnique ==
  ASSUME NEW W \in Nat \ {0}, NEW k \in Int, NEW r \in 0..(W - 1)
  PROVE  (W * k + r) % W = r
<1> DEFINE y == W * k + r
           q == y \div W
           s == y % W
           m == k - q
<1>1. y \in Int /\ q \in Int /\ m \in Int /\ s \in 0..(W - 1)
  BY SMT
<1>2. y = W * q + s
  BY SMT
<1>3. W * m = s - r
  BY <1>1, <1>2, SMT
<1>4. ~(m >= 1)
  <2>1. m >= 1 => W * m >= W
    BY <1>1, SMT
  <2>2. QED
    BY <2>1, <1>1, <1>3
<1>5. ~(m <= -1)
  <2>1. m <= -1 => W * m <= -W
    BY <1>1, SMT
  <2>2. QED
    BY <2>1, <1>1, <1>3
<1>6. m = 0
  BY <1>1, <1>4, <1>5
<1>7. QED
  BY <1>1, <1>3, <1>6

(* A small number is its own remainder. *)
LEMMA SmallRemainder ==
  ASSUME NEW W \in Nat \ {0}, NEW r \in 0..(W - 1)
  PROVE  r % W = r
BY SMT

(* Unsigned subtraction of two stamps of the wrapped clock is the true     *)
(* difference modulo Wrap (the reason the code may compare ages at all).   *)
LEMMA WrappedAge ==
  ASSUME NEW W \in Nat \ {0}, NEW a \in Nat, NEW b \in Nat, a <= b
  PROVE  ((b % W) - (a % W)) % W = (b - a) % W
<1> DEFINE qa == a \div W
           qb == b \div W
           d  == b - a
           qd == d \div W
           x  == (b % W) - (a % W)
<1>1. /\ qa \in Int /\ qb \in Int /\ qd \in Int /\ x \in Int
      /\ a % W \in 0..(W - 1) /\ b % W \in 0..(W - 1) /\ d % W \in 0..(W - 1)
  BY SMT
<1>2. /\ a = W * qa + (a % W)
      /\ b = W * qb + (b % W)
      /\ d = W * qd + (d % W)
  BY SMT
<1>3. x = W * (qd - qb + qa) + (d % W)
  BY <1>1, <1>2, SMT
<1> HIDE DEF qa, qb, d, qd, x
<1>4. qd - qb + qa \in Int
  BY <1>1
<1>5. (W * (qd - qb + qa) + (d % W)) % W = d % W
  BY <1>1, <1>4, RemainderUnique
<1>6. QED
  BY <1>3, <1>5 DEF x, d

(* Every set of natural numbers that is not empty has a least one. *)
LEMMA LeastOf ==
  ASSUME NEW S \in SUBSET Nat, S # {}
  PROVE  \E m \in S : \A k \in S : m <= k
<1> DEFINE R == OpToRel(<, Nat)
<1>1. \A y, x \in Nat : y < x => <<y, x>> \in R
  BY DEF OpToRel
<1>2. IsWellFoundedOn(R, Nat)
  BY NatLessThanWellFounded
<1> HIDE DEF R
<1>3. PICK m \in S : \A k \in S : <<k, m>> \notin R
  BY <1>2, WFMin
<1>4. \A k \in S : m <= k
  <2> TAKE k \in S
  <2>1. k \in Nat /\ m \in Nat /\ ~(k < m)
    BY <1>1, <1>3
  <2>2. QED
    BY <2>1
<1>5. QED
  BY <1>4

(* Induction up to N, for the numbers of a set.                            *)
LEMMA UpTo ==
  ASSUME NEW N \in Nat, NEW Good,
         0 \in Good, \A n \in 1..N : n - 1 \in Good => n \in Good
  PROVE  N \in Good
<1> DEFINE Bad == {n \in 0..N : n \notin Good}
<1>1. SUFFICES ASSUME Bad # {} PROVE FALSE
  OBVIOUS
<1>2. PICK m \in Bad : \A k \in Bad : m <= k
  <2>1. Bad \in SUBSET Nat
    OBVIOUS
  <2> HIDE DEF Bad
  <2>2. QED
    BY <1>1, <2>1, LeastOf
<1>3. m \in 1..N
  BY <1>2
<1>4. m - 1 \in Good
  BY <1>2, <1>3
<1>5. QED
  BY <1>2, <1>3, <1>4

-----------------------------------------------------------------------------

(* No hop of an empty path is counted.                                     *)
LEMMA CountEmpty == ASSUME NEW K PROVE Count(<<>>, K) = 0
<1>1. {i \in DOMAIN <<>> : <<>>[i] \in K} = {}
  OBVIOUS
<1>2. QED
  BY <1>1, FS_EmptySet DEF Count

(* The counted positions are finitely many.                                *)
LEMMA CountType ==
  ASSUME NEW H, NEW path \in Seq(H), NEW K
  PROVE  /\ IsFiniteSet({i \in DOMAIN path : path[i] \in K})
         /\ Count(path, K) \in Nat
<1>1. IsFiniteSet(1..Len(path))
  BY FS_Interval
<1>2. {i \in DOMAIN path : path[i] \in K} \subseteq 1..Len(path)
  OBVIOUS
<1>3. QED
  BY <1>1, <1>2, FS_Subset, FS_CardinalityType DEF Count

(* A hop more counts once, if it is one of those counted.                  *)
LEMMA CountAppend ==
  ASSUME NEW H, NEW path \in Seq(H), NEW hop \in H, NEW K
  PROVE  Count(Append(path, hop), K) = Count(path, K) + (IF hop \in K THEN 1 ELSE 0)
<1> DEFINE s == Append(path, hop)
           I == {i \in DOMAIN path : path[i] \in K}
           J == {i \in DOMAIN s : s[i] \in K}
           n == Len(path)
<1>1. /\ n \in Nat /\ DOMAIN path = 1..n /\ DOMAIN s = 1..(n + 1)
      /\ \A i \in 1..n : s[i] = path[i]
      /\ s[n + 1] = hop
  OBVIOUS
<1>2. IsFiniteSet(I) /\ Cardinality(I) \in Nat /\ Count(path, K) = Cardinality(I)
  BY CountType DEF Count
<1>3. Count(s, K) = Cardinality(J)
  BY DEF Count
<1> HIDE DEF s
<1>4. CASE hop \in K
  <2>1. J = I \cup {n + 1} /\ n + 1 \notin I
    BY <1>1, <1>4
  <2>2. Cardinality(J) = Cardinality(I) + 1
    BY <1>2, <2>1, FS_AddElement
  <2>3. QED
    BY <1>2, <1>3, <1>4, <2>2 DEF s
<1>5. CASE hop \notin K
  <2>1. J = I
    BY <1>1, <1>5
  <2>2. Count(s, K) = Count(path, K) /\ Count(path, K) \in Nat
    BY <1>2, <1>3, <2>1
  <2>3. QED
    BY <1>5, <2>2 DEF s
<1>6. QED
  BY <1>4, <1>5

(* What Replace computes, hop by hop.                                      *)
Piece(hop, alias, with) == IF hop.name = alias THEN with ELSE <<hop>>

Grows(u, n, path, alias, with) ==
  u = [k \in 0..n |-> IF k = 0 THEN <<>> ELSE u[k - 1] \o Piece(path[k], alias, with)]

(* For every length there is a table of what has become of the first hops, *)
(* by induction over the length.                                           *)
LEMMA GrowsExists ==
  ASSUME NEW path, NEW alias, NEW with, NEW N \in Nat
  PROVE  \E u : Grows(u, N, path, alias, with)
<1> DEFINE Good == {n \in 0..N : \E u : Grows(u, n, path, alias, with)}
<1>1. 0 \in Good
  <2>1. Grows([k \in 0..0 |-> <<>>], 0, path, alias, with)
    BY DEF Grows
  <2>2. QED
    BY <2>1
<1>2. ASSUME NEW n \in 1..N, n - 1 \in Good PROVE n \in Good
  <2>1. PICK u : Grows(u, n - 1, path, alias, with)
    BY <1>2
  <2> DEFINE v == [k \in 0..n |-> IF k = n THEN u[n - 1] \o Piece(path[n], alias, with)
                                  ELSE u[k]]
  <2>2. \A k \in 0..(n - 1) : v[k] = u[k]
    OBVIOUS
  <2>3. \A k \in 0..(n - 1) : u[k] = IF k = 0 THEN <<>>
                                     ELSE u[k - 1] \o Piece(path[k], alias, with)
    BY <2>1 DEF Grows
  <2>4. \A k \in 0..n : v[k] = IF k = 0 THEN <<>>
                               ELSE v[k - 1] \o Piece(path[k], alias, with)
    <3> TAKE k \in 0..n
    <3>1. n # 0 /\ n - 1 \in 0..(n - 1) /\ (k # 0 => k - 1 \in 0..(n - 1))
      OBVIOUS
    <3>2. v[n] = u[n - 1] \o Piece(path[n], alias, with)
      OBVIOUS
    <3> HIDE DEF v
    <3>3. CASE k = n
      <4>1. v[n - 1] = u[n - 1]
        BY <2>2, <3>1
      <4>2. QED
        BY <3>1, <3>2, <3>3, <4>1
    <3>4. CASE k # n
      <4>1. k \in 0..(n - 1) /\ v[k] = u[k]
        BY <2>2, <3>4
      <4>2. k # 0 => v[k - 1] = u[k - 1]
        BY <2>2, <3>1
      <4>3. u[k] = IF k = 0 THEN <<>> ELSE u[k - 1] \o Piece(path[k], alias, with)
        BY <2>3, <4>1
      <4>4. QED
        BY <4>1, <4>2, <4>3
    <3>5. QED
      BY <3>3, <3>4
  <2>5. v = [k \in 0..n |-> v[k]]
    OBVIOUS
  <2> HIDE DEF v
  <2>6. Grows(v, n, path, alias, with)
    BY <2>4, <2>5 DEF Grows
  <2>7. QED
    BY <2>6
<1> HIDE DEF Good
<1>3. N \in Good
  BY <1>1, <1>2, UpTo
<1>4. QED
  BY <1>3 DEF Good

Unfolds(u, path, alias, with) ==
  /\ u[0] = <<>>
  /\ \A n \in 1..Len(path) : u[n] = u[n - 1] \o Piece(path[n], alias, with)
  /\ Replace(path, alias, with) = u[Len(path)]

(* Replace reads its result off such a table.                              *)
LEMMA ReplaceGrows ==
  ASSUME NEW path, NEW alias, NEW with, Len(path) \in Nat
  PROVE  \E u : Unfolds(u, path, alias, with)
<1> DEFINE upTo == CHOOSE u : Grows(u, Len(path), path, alias, with)
<1>1. Grows(upTo, Len(path), path, alias, with)
  BY GrowsExists
<1>2. Replace(path, alias, with) = upTo[Len(path)]
  BY Zenon DEF Replace, Grows, Piece
<1> HIDE DEF upTo
<1>3. upTo[0] = <<>>
  BY <1>1 DEF Grows
<1>4. \A n \in 1..Len(path) : upTo[n] = upTo[n - 1] \o Piece(path[n], alias, with)
  BY <1>1 DEF Grows
<1>5. QED
  BY <1>2, <1>3, <1>4 DEF Unfolds

(* Sequences extended by one element and by two.                           *)
LEMMA OneMore ==
  ASSUME NEW H, NEW s \in Seq(H), NEW x \in H
  PROVE  s \o <<x>> = Append(s, x)
OBVIOUS

(* The same for two.                                                       *)
LEMMA TwoMore ==
  ASSUME NEW H, NEW s \in Seq(H), NEW x \in H, NEW y \in H
  PROVE  s \o <<x, y>> = Append(Append(s, x), y)
OBVIOUS

(* What one hop more, and two hops more, add to a count.                   *)
LEMMA CountOne ==
  ASSUME NEW H, NEW x \in H, NEW K
  PROVE  \A s \in Seq(H) : Count(s \o <<x>>, K) = Count(s, K) + (IF x \in K THEN 1 ELSE 0)
<1> TAKE s \in Seq(H)
<1>1. s \o <<x>> = Append(s, x)
  BY OneMore
<1>2. QED
  BY <1>1, CountAppend

(* The same for two.                                                       *)
LEMMA CountTwo ==
  ASSUME NEW H, NEW x \in H, NEW y \in H, NEW K
  PROVE  \A s \in Seq(H) :
           Count(s \o <<x, y>>, K)
             = Count(s, K) + ((IF x \in K THEN 1 ELSE 0) + (IF y \in K THEN 1 ELSE 0))
<1> TAKE s \in Seq(H)
<1>1. s \o <<x, y>> = Append(Append(s, x), y) /\ Append(s, x) \in Seq(H)
  BY TwoMore
<1>2. Count(Append(s, x), K) = Count(s, K) + (IF x \in K THEN 1 ELSE 0)
  BY CountAppend
<1>3. Count(Append(Append(s, x), y), K) = Count(Append(s, x), K) + (IF y \in K THEN 1 ELSE 0)
  BY <1>1, CountAppend
<1>4. Count(s, K) \in Nat
  BY CountType
<1> DEFINE a == IF x \in K THEN 1 ELSE 0
           b == IF y \in K THEN 1 ELSE 0
<1>5. a \in Nat /\ b \in Nat
  OBVIOUS
<1>6. Count(s \o <<x, y>>, K) = (Count(s, K) + a) + b
  BY <1>1, <1>2, <1>3
<1> HIDE DEF a, b
<1>7. (Count(s, K) + a) + b = Count(s, K) + (a + b)
  BY <1>4, <1>5
<1>8. QED
  BY <1>6, <1>7 DEF a, b

(* The first n hops, one by one.                                           *)
LEMMA CountFront ==
  ASSUME NEW H, NEW path \in Seq(H), NEW K, NEW n \in 1..Len(path)
  PROVE  /\ SubSeq(path, 1, n) \in Seq(H) /\ SubSeq(path, 1, n - 1) \in Seq(H)
         /\ Count(SubSeq(path, 1, n), K)
              = Count(SubSeq(path, 1, n - 1), K) + (IF path[n] \in K THEN 1 ELSE 0)
<1> DEFINE a == SubSeq(path, 1, n - 1)
           b == SubSeq(path, 1, n)
<1>1. a \in Seq(H) /\ b \in Seq(H) /\ path[n] \in H
  OBVIOUS
<1>2. b = Append(a, path[n])
  OBVIOUS
<1> HIDE DEF a, b
<1>3. Count(b, K) = Count(a, K) + (IF path[n] \in K THEN 1 ELSE 0)
  BY <1>1, <1>2, CountAppend
<1>4. QED
  BY <1>1, <1>3 DEF a, b

(* The hops of a name, the hops of other names, and how many hops of K a   *)
(* replacement adds to a path.                                             *)
Named(alias)     == {h \in Hops : h.name = alias}
Others(K, alias) == {h \in K : h.name # alias}

Adds(with, K, w) ==
  w \in Nat /\ \A s \in Seq(Hops) : Count(s \o with, K) = Count(s, K) + w

(* Replace, counted: the hops of the alias are gone, the others are all    *)
(* there, and each replaced hop has brought what `with` brings.            *)
LEMMA ReplaceCount ==
  ASSUME NEW path \in Seq(Hops), NEW with \in Seq(Hops), NEW alias
  PROVE  /\ Replace(path, alias, with) \in Seq(Hops)
         /\ \A K, w : Adds(with, K, w) =>
              Count(Replace(path, alias, with), K)
                = Count(path, Others(K, alias)) + w * Count(path, Named(alias))
<1> DEFINE A == Named(alias)
           N == Len(path)
           front(n) == SubSeq(path, 1, n)
<1>1. N \in Nat
  OBVIOUS
<1>2. PICK u : /\ u[0] = <<>>
               /\ \A n \in 1..N : u[n] = u[n - 1] \o Piece(path[n], alias, with)
               /\ Replace(path, alias, with) = u[N]
  <2>1. PICK u : Unfolds(u, path, alias, with)
    BY <1>1, ReplaceGrows
  <2>2. QED
    BY <2>1 DEF Unfolds
<1>3. \A n \in 1..N : path[n] \in Hops /\ Piece(path[n], alias, with) \in Seq(Hops)
  BY DEF Piece
<1>4. \A n \in 0..N : u[n] \in Seq(Hops)
  <2> SUFFICES ASSUME NEW m \in 0..N PROVE u[m] \in Seq(Hops)
    OBVIOUS
  <2> DEFINE Good == {n \in 0..N : u[n] \in Seq(Hops)}
  <2>1. 0 \in Good
    <3>1. <<>> \in Seq(Hops)
      OBVIOUS
    <3>2. u[0] \in Seq(Hops)
      BY <1>2, <3>1
    <3>3. 0 \in 0..N
      BY <1>1
    <3>4. QED
      BY <3>2, <3>3
  <2>2. ASSUME NEW n \in 1..m, n - 1 \in Good PROVE n \in Good
    <3>1. n \in 1..N /\ u[n - 1] \in Seq(Hops)
      BY <1>1, <2>2
    <3>2. u[n] = u[n - 1] \o Piece(path[n], alias, with) /\ Piece(path[n], alias, with) \in Seq(Hops)
      BY <1>2, <1>3, <3>1
    <3> HIDE DEF N
    <3>3. u[n] \in Seq(Hops)
      BY <3>1, <3>2
    <3>4. QED
      BY <1>1, <3>1, <3>3
  <2> HIDE DEF Good
  <2>3. m \in Good
    BY <2>1, <2>2, UpTo
  <2>4. QED
    BY <2>3 DEF Good
<1>5. front(N) = path /\ front(0) = <<>>
  OBVIOUS
<1>6. ASSUME NEW K, NEW w, Adds(with, K, w)
      PROVE  Count(u[N], K) = Count(path, Others(K, alias)) + w * Count(path, A)
  <2> w \in Nat
    BY <1>6 DEF Adds
  <2> DEFINE L == Others(K, alias)
             Good == {n \in 0..N : Count(u[n], K) = Count(front(n), L) + w * Count(front(n), A)}
  <2>1. 0 \in Good
    <3>1. Count(u[0], K) = 0 /\ Count(front(0), L) = 0 /\ Count(front(0), A) = 0
      BY <1>2, <1>5, CountEmpty
    <3> HIDE DEF front, L, A
    <3>2. 0 = 0 + w * 0
      BY <1>6 DEF Adds
    <3>3. QED
      BY <1>1, <3>1, <3>2
  <2>2. ASSUME NEW n \in 1..N, n - 1 \in Good PROVE n \in Good
    <3> DEFINE c == Count(front(n - 1), A)
               l == Count(front(n - 1), L)
    <3>1. /\ c \in Nat /\ l \in Nat /\ Count(u[n - 1], K) = l + w * c
          /\ u[n - 1] \in Seq(Hops)
      BY <1>4, <2>2, CountFront, CountType
    <3>2. Count(front(n), A) = c + (IF path[n] \in A THEN 1 ELSE 0)
      BY CountFront
    <3>3. Count(front(n), L) = l + (IF path[n] \in L THEN 1 ELSE 0)
      BY CountFront
    <3>4. w * (c + 1) = w * c + w /\ w * c \in Nat
      BY <3>1
    <3> HIDE DEF c, l, front
    <3>5. CASE path[n].name = alias
      <4>1. path[n] \in A /\ path[n] \notin L
        BY <1>3, <3>5 DEF Named, Others
      <4>2. u[n] = u[n - 1] \o with
        BY <1>2, <3>5 DEF Piece
      <4>3. Count(u[n], K) = Count(u[n - 1], K) + w
        BY <1>6, <3>1, <4>2 DEF Adds
      <4>4. Count(front(n), A) = c + 1 /\ Count(front(n), L) = l
        BY <3>1, <3>2, <3>3, <4>1
      <4> HIDE DEF A, L
      <4>5. QED
        BY <3>1, <3>4, <4>3, <4>4
    <3>6. CASE path[n].name # alias
      <4>1. path[n] \notin A /\ (path[n] \in L <=> path[n] \in K)
        BY <1>3, <3>6 DEF Named, Others
      <4>2. u[n] = u[n - 1] \o <<path[n]>>
        BY <1>2, <3>6 DEF Piece
      <4>3. Count(u[n], K) = Count(u[n - 1], K) + (IF path[n] \in K THEN 1 ELSE 0)
        BY <1>3, <3>1, <4>2, CountOne
      <4>4. Count(front(n), A) = c
        BY <3>1, <3>2, <4>1
      <4>5. Count(front(n), L) = l + (IF path[n] \in K THEN 1 ELSE 0)
        BY <3>3, <4>1
      <4> HIDE DEF A, L
      <4>6. QED
        BY <3>1, <3>4, <4>3, <4>4, <4>5
    <3>7. QED
      BY <3>5, <3>6
  <2> HIDE DEF Good
  <2>3. N \in Good
    BY <1>1, <2>1, <2>2, UpTo
  <2>4. QED
    BY <1>5, <2>3 DEF Good
<1>7. QED
  BY <1>1, <1>2, <1>4, <1>6

Unspent(path, alias) == \A i \in DOMAIN path : path[i].name = alias => ~path[i].used

(* A stamp replaces the c hops of one alias by as many relays of d, and    *)
(* for WIDE2-2 by as many WIDE2-1 too; no other count changes.             *)
Stamps(path, after, d, alias) ==
  /\ after \in Seq(Hops)
  /\ alias \in {WIDE1_1, WIDE2_1, WIDE2_2} /\ Mentions(path, {alias})
  /\ alias = WIDE2_2 => Count(path, Named(WIDE2_1)) = 0
  /\ \A K : LET c == Count(path, Named(alias))
            IN  Count(after, K) + (IF Hop(alias) \in K THEN c ELSE 0)
                  = Count(path, K) + (IF Used(d) \in K THEN c ELSE 0)
                      + (IF alias = WIDE2_2 /\ Hop(WIDE2_1) \in K THEN c ELSE 0)

(* Two sets that agree on the hops of a path count alike.                  *)
LEMMA CountSame ==
  ASSUME NEW path, NEW K, NEW L, \A i \in DOMAIN path : path[i] \in K <=> path[i] \in L
  PROVE  Count(path, K) = Count(path, L)
<1>1. {i \in DOMAIN path : path[i] \in K} = {i \in DOMAIN path : path[i] \in L}
  OBVIOUS
<1>2. QED
  BY <1>1 DEF Count

(* A set that has no hop of the path counts none.                          *)
LEMMA CountNone ==
  ASSUME NEW path, NEW K, \A i \in DOMAIN path : path[i] \notin K
  PROVE  Count(path, K) = 0
<1>1. {i \in DOMAIN path : path[i] \in K} = {}
  OBVIOUS
<1>2. QED
  BY <1>1, FS_EmptySet DEF Count

(* A count is the sum of two parts.                                        *)
LEMMA CountSplit ==
  ASSUME NEW H, NEW path \in Seq(H), NEW K, NEW L
  PROVE  Count(path, K \ L) + Count(path, K \cap L) = Count(path, K)
<1> DEFINE I(M) == {i \in DOMAIN path : path[i] \in M}
<1>1. /\ IsFiniteSet(I(K)) /\ IsFiniteSet(I(L))
      /\ Cardinality(I(K)) \in Nat /\ Cardinality(I(K \cap L)) \in Nat
  BY CountType DEF Count
<1>2. I(K \ L) = I(K) \ I(L) /\ I(K \cap L) = I(K) \cap I(L)
  OBVIOUS
<1>3. Cardinality(I(K) \ I(L)) = Cardinality(I(K)) - Cardinality(I(K) \cap I(L))
  BY <1>1, FS_Difference
<1>4. Cardinality(I(K \ L)) + Cardinality(I(K \cap L)) = Cardinality(I(K))
  <2>1. \A a, b \in Nat : (a - b) + b = a
    OBVIOUS
  <2>2. I(K) \cap I(L) = I(K \cap L)
    BY <1>2
  <2>3. Cardinality(I(K \ L)) = Cardinality(I(K)) - Cardinality(I(K \cap L))
    BY <1>2, <1>3
  <2> HIDE DEF I
  <2>4. QED
    BY <1>1, <2>1, <2>3
<1>5. QED
  BY <1>4 DEF Count

(* What is left of a count when an alias that nobody has used goes.        *)
LEMMA CountOthers ==
  ASSUME NEW path \in Seq(Hops), NEW alias, NEW K,
         Unspent(path, alias)
  PROVE  Count(path, Others(K, alias))
           + (IF Hop(alias) \in K THEN Count(path, Named(alias)) ELSE 0) = Count(path, K)
<1>1. \A i \in DOMAIN path : path[i] \in Hops
  OBVIOUS
<1>2. \A i \in DOMAIN path : path[i].name = alias <=> path[i] = Hop(alias)
  BY <1>1 DEF Hops, Hop, Unspent
<1>3. Count(path, K \ Named(alias)) + Count(path, K \cap Named(alias)) = Count(path, K)
  BY CountSplit
<1>4. Count(path, K \ Named(alias)) = Count(path, Others(K, alias))
  <2>1. \A i \in DOMAIN path :
          path[i] \in K \ Named(alias) <=> path[i] \in Others(K, alias)
    BY <1>1 DEF Named, Others
  <2>2. QED
    BY <2>1, CountSame
<1>5. CASE Hop(alias) \in K
  <2>1. \A i \in DOMAIN path : path[i] \in K \cap Named(alias) <=> path[i] \in Named(alias)
    BY <1>1, <1>2, <1>5 DEF Named
  <2>2. Count(path, K \cap Named(alias)) = Count(path, Named(alias))
    BY <2>1, CountSame
  <2>3. QED
    BY <1>3, <1>4, <1>5, <2>2
<1>6. CASE Hop(alias) \notin K
  <2>1. \A i \in DOMAIN path : path[i] \notin K \cap Named(alias)
    BY <1>1, <1>2, <1>6 DEF Named
  <2>2. Count(path, K \cap Named(alias)) = 0
    BY <2>1, CountNone
  <2>3. Count(path, K \ Named(alias)) \in Nat
    BY CountType
  <2>4. QED
    BY <1>3, <1>4, <1>6, <2>2, <2>3
<1>7. QED
  BY <1>5, <1>6

(* One relay in place of the alias, as for WIDE1-1 and WIDE2-1.            *)
LEMMA ReplaceOne ==
  ASSUME NEW path \in Seq(Hops), NEW d \in Digis, NEW alias \in {WIDE1_1, WIDE2_1},
         Unspent(path, alias), Mentions(path, {alias})
  PROVE  Stamps(path, Replace(path, alias, <<Used(d)>>), d, alias)
<1> DEFINE after == Replace(path, alias, <<Used(d)>>)
           c == Count(path, Named(alias))
<1>1. Used(d) \in Hops /\ <<Used(d)>> \in Seq(Hops)
  BY DEF Used, Hops
<1>2. after \in Seq(Hops)
  BY <1>1, ReplaceCount
<1>3. ASSUME NEW K
      PROVE  Count(after, K) + (IF Hop(alias) \in K THEN c ELSE 0)
               = Count(path, K) + (IF Used(d) \in K THEN c ELSE 0)
  <2> DEFINE w == IF Used(d) \in K THEN 1 ELSE 0
             o == Count(path, Others(K, alias))
  <2>1. Adds(<<Used(d)>>, K, w)
    BY <1>1, CountOne DEF Adds
  <2>2. Count(after, K) = o + w * c
    <3> HIDE DEF w
    <3>1. \A L, v : Adds(<<Used(d)>>, L, v) =>
            Count(after, L) = Count(path, Others(L, alias)) + v * c
      BY <1>1, ReplaceCount
    <3>2. QED
      BY <2>1, <3>1
  <2>3. w * c = IF Used(d) \in K THEN c ELSE 0
    <3>1. c \in Nat
      BY CountType
    <3> HIDE DEF c
    <3>2. QED
      BY <3>1
  <2>4. o + (IF Hop(alias) \in K THEN c ELSE 0) = Count(path, K)
    BY CountOthers
  <2>5. o \in Nat /\ c \in Nat /\ Count(path, K) \in Nat
    BY CountType
  <2> HIDE DEF o, c, after, w
  <2>6. QED
    BY <2>2, <2>3, <2>4, <2>5
<1>4. alias # WIDE2_2
  BY DEF WIDE1_1, WIDE2_1, WIDE2_2
<1>5. \A K : Count(path, K) \in Nat /\ c \in Nat
  BY CountType
<1> HIDE DEF after
<1>6. QED
  BY <1>2, <1>3, <1>4, <1>5 DEF Stamps, after

(* WIDE2-2 becomes a relay and a WIDE2-1. *)
LEMMA ReplaceTwo ==
  ASSUME NEW path \in Seq(Hops), NEW d \in Digis,
         Unspent(path, WIDE2_2), Mentions(path, {WIDE2_2}),
         \A i \in DOMAIN path : path[i].name # WIDE2_1
  PROVE  Stamps(path, Replace(path, WIDE2_2, <<Used(d), Hop(WIDE2_1)>>), d, WIDE2_2)
<1> DEFINE with == <<Used(d), Hop(WIDE2_1)>>
           after == Replace(path, WIDE2_2, with)
           c == Count(path, Named(WIDE2_2))
<1>1. Used(d) \in Hops /\ Hop(WIDE2_1) \in Hops /\ with \in Seq(Hops)
  BY DEF Used, Hop, Hops, Aliases, WIDE2
<1>2. after \in Seq(Hops)
  <2> HIDE DEF with
  <2>1. QED
    BY <1>1, ReplaceCount
<1>3. ASSUME NEW K
      PROVE  Count(after, K) + (IF Hop(WIDE2_2) \in K THEN c ELSE 0)
               = Count(path, K) + (IF Used(d) \in K THEN c ELSE 0)
                   + (IF Hop(WIDE2_1) \in K THEN c ELSE 0)
  <2> DEFINE w == (IF Used(d) \in K THEN 1 ELSE 0) + (IF Hop(WIDE2_1) \in K THEN 1 ELSE 0)
             o == Count(path, Others(K, WIDE2_2))
  <2>1. Adds(with, K, w)
    <3>1. w \in Nat
      OBVIOUS
    <3>2. QED
      BY <1>1, <3>1, CountTwo DEF Adds
  <2>2. Count(after, K) = o + w * c
    <3> HIDE DEF w, with
    <3>1. \A L, v : Adds(with, L, v) =>
            Count(after, L) = Count(path, Others(L, WIDE2_2)) + v * c
      BY <1>1, ReplaceCount
    <3>2. QED
      BY <2>1, <3>1
  <2>3. w * c = (IF Used(d) \in K THEN c ELSE 0) + (IF Hop(WIDE2_1) \in K THEN c ELSE 0)
    <3>1. c \in Nat
      BY CountType
    <3> HIDE DEF c
    <3>2. QED
      BY <3>1
  <2>4. o + (IF Hop(WIDE2_2) \in K THEN c ELSE 0) = Count(path, K)
    BY CountOthers
  <2>5. o \in Nat /\ c \in Nat /\ Count(path, K) \in Nat
    BY CountType
  <2> DEFINE x == IF Hop(WIDE2_2) \in K THEN c ELSE 0
             y == IF Used(d) \in K THEN c ELSE 0
             z == IF Hop(WIDE2_1) \in K THEN c ELSE 0
             wc == w * c
             n == Count(path, K)
             m == Count(after, K)
  <2>6. x \in Nat /\ y \in Nat /\ z \in Nat
    BY <2>5
  <2>7. m = o + wc /\ wc = y + z /\ o + x = n /\ o \in Nat /\ n \in Nat
    BY <2>2, <2>3, <2>4, <2>5
  <2> HIDE DEF o, c, after, w, x, y, z, wc, n, m
  <2>8. m + x = n + y + z
    BY <2>6, <2>7
  <2>9. QED
    BY <2>8 DEF x, y, z, n, m
<1>4. Count(path, Named(WIDE2_1)) = 0
  <2>1. \A i \in DOMAIN path : path[i] \notin Named(WIDE2_1)
    BY DEF Named
  <2>2. QED
    BY <2>1, CountNone
<1> HIDE DEF after
<1>5. QED
  BY <1>2, <1>3, <1>4 DEF Stamps, after

(* Whatever Stamp changes of a path, it changes so. *)
LEMMA StampStamps ==
  ASSUME NEW path \in Seq(Hops), NEW d \in Digis, NEW mode, Stamp(path, d, mode) # NoPath
  PROVE  \E alias \in {WIDE1_1, WIDE2_1, WIDE2_2} : Stamps(path, Stamp(path, d, mode), d, alias)
<1> DEFINE after == Stamp(path, d, mode)
<1>1. CASE mode # "off" /\ Mentions(path, {WIDE1_1})
  <2>1. /\ ~HasUsed(path, {WIDE1_1}) /\ Mentions(path, {WIDE1_1})
        /\ after = Replace(path, WIDE1_1, <<Used(d)>>)
    BY <1>1 DEF Stamp
  <2>2. Unspent(path, WIDE1_1)
    BY <2>1 DEF Unspent, HasUsed
  <2>3. QED
    BY <2>1, <2>2, ReplaceOne
<1>2. CASE /\ mode = "wide1+wide2" /\ ~Mentions(path, {WIDE1_1})
           /\ Mentions(path, WIDE2) /\ Mentions(path, {WIDE2_1})
  <2>1. /\ ~HasUsed(path, {WIDE2_1, WIDE2_2}) /\ Mentions(path, {WIDE2_1})
        /\ after = Replace(path, WIDE2_1, <<Used(d)>>)
    BY <1>2 DEF Stamp
  <2>2. Unspent(path, WIDE2_1)
    BY <2>1 DEF Unspent, HasUsed
  <2>3. QED
    BY <2>1, <2>2, ReplaceOne
<1>3. CASE /\ mode = "wide1+wide2" /\ ~Mentions(path, {WIDE1_1})
           /\ Mentions(path, WIDE2) /\ ~Mentions(path, {WIDE2_1})
  <2>1. /\ ~HasUsed(path, {WIDE2_2}) /\ Mentions(path, {WIDE2_2})
        /\ after = Replace(path, WIDE2_2, <<Used(d), Hop(WIDE2_1)>>)
    BY <1>3 DEF Stamp
  <2>2. Unspent(path, WIDE2_2) /\ \A i \in DOMAIN path : path[i].name # WIDE2_1
    BY <1>3, <2>1 DEF Unspent, HasUsed, Mentions
  <2>3. QED
    BY <2>1, <2>2, ReplaceTwo
<1>4. QED
  BY <1>1, <1>2, <1>3 DEF Stamp

(* No alias stands on the path twice. *)
Single(path) == \A a \in Aliases : Count(path, Named(a)) <= 1

(* What a sequence is made of.                                             *)
LEMMA SeqParts ==
  ASSUME NEW H, NEW s \in Seq(H)
  PROVE  /\ Len(s) \in Nat /\ DOMAIN s = 1..Len(s)
         /\ s = [i \in 1..Len(s) |-> s[i]]
         /\ \A i \in 1..Len(s) : s[i] \in H
OBVIOUS

(* Callsigns, aliases, used and unused hops are told apart.                *)
LEMMA NamesDiffer ==
  /\ WIDE1_1 # WIDE2_1 /\ WIDE1_1 # WIDE2_2 /\ WIDE2_1 # WIDE2_2
  /\ \A a, b : Hop(a) = Hop(b) <=> a = b
  /\ \A a, b : Used(a) = Used(b) <=> a = b
  /\ \A a, b : Hop(a) # Used(b)
  /\ \A d \in Digis : d \notin Aliases
  /\ {WIDE1_1, WIDE2_1, WIDE2_2} \subseteq Aliases
<1>1. WIDE1_1 # WIDE2_1 /\ WIDE1_1 # WIDE2_2 /\ WIDE2_1 # WIDE2_2
  BY DEF WIDE1_1, WIDE2_1, WIDE2_2
<1>2. \A a : Hop(a).name = a /\ Used(a).name = a /\ ~Hop(a).used /\ Used(a).used
  BY DEF Hop, Used
<1>3. {WIDE1_1, WIDE2_1, WIDE2_2} \subseteq Aliases
  BY DEF Aliases, WIDE2
<1>4. QED
  BY <1>1, <1>2, <1>3, NetworkAssumption

(* What a stamp spends of the budget it records as relays.                 *)
LEMMA StampBudget ==
  ASSUME NEW path \in Seq(Hops), NEW after, NEW d \in Digis, NEW alias,
         Stamps(path, after, d, alias)
  PROVE  Budget(after) + Relays(after, Digis) = Budget(path) + Relays(path, Digis)
<1> DEFINE B == {Hop(WIDE1_1), Hop(WIDE2_1), Hop(WIDE2_2)}
           T == {Hop(WIDE2_2)}
           R == {Used(e) : e \in Digis}
           c == Count(path, Named(alias))
<1>1. /\ Hop(alias) \in B /\ Used(d) \notin B /\ Hop(WIDE2_1) \in B
      /\ Hop(alias) \in T <=> alias = WIDE2_2
      /\ Used(d) \notin T /\ Hop(WIDE2_1) \notin T
      /\ Hop(alias) \notin R /\ Used(d) \in R /\ Hop(WIDE2_1) \notin R
  BY NamesDiffer DEF Stamps
<1>2. /\ after \in Seq(Hops)
      /\ \A K : Count(after, K) + (IF Hop(alias) \in K THEN c ELSE 0)
                  = Count(path, K) + (IF Used(d) \in K THEN c ELSE 0)
                      + (IF alias = WIDE2_2 /\ Hop(WIDE2_1) \in K THEN c ELSE 0)
  BY DEF Stamps
<1>3. c \in Nat /\ \A K : Count(path, K) \in Nat /\ Count(after, K) \in Nat
  BY <1>2, CountType
<1> HIDE DEF B, T, R, c
<1>4. Count(after, B) + c = Count(path, B) + (IF alias = WIDE2_2 THEN c ELSE 0)
  BY <1>1, <1>2, <1>3
<1>5. Count(after, T) + (IF alias = WIDE2_2 THEN c ELSE 0) = Count(path, T)
  BY <1>1, <1>2, <1>3
<1>6. Count(after, R) = Count(path, R) + c
  BY <1>1, <1>2, <1>3
<1>7. (Count(after, B) + Count(after, T)) + Count(after, R)
        = (Count(path, B) + Count(path, T)) + Count(path, R)
  <2> DEFINE x == IF alias = WIDE2_2 THEN c ELSE 0
  <2>1. x \in Nat
    BY <1>3
  <2> DEFINE b == Count(path, B)
             t == Count(path, T)
             r == Count(path, R)
             b2 == Count(after, B)
             t2 == Count(after, T)
             r2 == Count(after, R)
  <2>2. b2 + c = b + x /\ t2 + x = t /\ r2 = r + c
    BY <1>4, <1>5, <1>6
  <2>3. /\ b \in Nat /\ t \in Nat /\ r \in Nat /\ c \in Nat
        /\ b2 \in Nat /\ t2 \in Nat /\ r2 \in Nat
    BY <1>3
  <2> HIDE DEF x, b, t, r, b2, t2, r2
  <2>4. (b2 + t2) + r2 = (b + t) + r
    BY <2>1, <2>2, <2>3
  <2>5. QED
    BY <2>4 DEF b, t, r, b2, t2, r2
<1>8. QED
  BY <1>7 DEF Budget, Relays, B, T, R

(* It spends exactly one when no alias stands on the path twice.           *)
LEMMA StampSpendsOne ==
  ASSUME NEW path \in Seq(Hops), NEW after, NEW d \in Digis, NEW alias,
         Stamps(path, after, d, alias), Single(path)
  PROVE  Relays(after, Digis) = Relays(path, Digis) + 1
<1> DEFINE R == {Used(e) : e \in Digis}
           I == {i \in DOMAIN path : path[i] \in Named(alias)}
           c == Count(path, Named(alias))
<1>1. Hop(alias) \notin R /\ Used(d) \in R /\ Hop(WIDE2_1) \notin R
  BY NamesDiffer DEF Stamps
<1>2. /\ after \in Seq(Hops)
      /\ Count(after, R) + (IF Hop(alias) \in R THEN c ELSE 0)
           = Count(path, R) + (IF Used(d) \in R THEN c ELSE 0)
               + (IF alias = WIDE2_2 /\ Hop(WIDE2_1) \in R THEN c ELSE 0)
  BY DEF Stamps
<1>3. c \in Nat /\ c <= 1 /\ Count(path, R) \in Nat /\ Count(after, R) \in Nat
  BY <1>2, CountType, NamesDiffer DEF Single, Stamps
<1>4. c # 0
  <2>1. I # {}
    BY DEF Stamps, Mentions, Named
  <2>2. IsFiniteSet(I) /\ c = Cardinality(I)
    BY CountType DEF Count
  <2> HIDE DEF I
  <2>3. QED
    BY <2>1, <2>2, FS_EmptySet
<1>5. Relays(after, Digis) = Count(after, R) /\ Relays(path, Digis) = Count(path, R)
  BY DEF Relays
<1> HIDE DEF R, c
<1>6. QED
  BY <1>1, <1>2, <1>3, <1>4, <1>5

(* A stamp adds at most one relay, of the digipeater that puts it.         *)
LEMMA StampRelays ==
  ASSUME NEW path \in Seq(Hops), NEW after, NEW d \in Digis, NEW alias,
         Stamps(path, after, d, alias), Single(path), NEW e \in Digis
  PROVE  Relays(after, {e}) <= Relays(path, {e}) + (IF e = d THEN 1 ELSE 0)
<1> DEFINE K == {Used(e)}
           c == Count(path, Named(alias))
<1>1. Hop(alias) \notin K /\ Hop(WIDE2_1) \notin K /\ (Used(d) \in K <=> e = d)
  BY NamesDiffer
<1>2. /\ after \in Seq(Hops)
      /\ Count(after, K) + (IF Hop(alias) \in K THEN c ELSE 0)
           = Count(path, K) + (IF Used(d) \in K THEN c ELSE 0)
               + (IF alias = WIDE2_2 /\ Hop(WIDE2_1) \in K THEN c ELSE 0)
  BY DEF Stamps
<1>3. c \in Nat /\ c <= 1 /\ Count(path, K) \in Nat /\ Count(after, K) \in Nat
  BY <1>2, CountType, NamesDiffer DEF Single, Stamps
<1>4. Relays(after, {e}) = Count(after, K) /\ Relays(path, {e}) = Count(path, K)
  BY DEF Relays
<1> HIDE DEF K, c
<1>5. QED
  BY <1>1, <1>2, <1>3, <1>4

(* And leaves no alias on the path twice. *)
LEMMA StampSingle ==
  ASSUME NEW path \in Seq(Hops), NEW after, NEW d \in Digis, NEW alias,
         Stamps(path, after, d, alias), Single(path)
  PROVE  Single(after)
<1> SUFFICES ASSUME NEW a \in Aliases PROVE Count(after, Named(a)) <= 1
  BY DEF Single
<1> DEFINE K == Named(a)
           c == Count(path, Named(alias))
<1>1. /\ Hop(alias) \in K <=> a = alias
      /\ Hop(WIDE2_1) \in K <=> a = WIDE2_1
      /\ Used(d) \notin K
  <2>1. alias \in Aliases /\ WIDE2_1 \in Aliases /\ d # a
    BY NamesDiffer DEF Stamps
  <2>2. \A b : Hop(b).name = b /\ Used(b).name = b
    BY DEF Hop, Used
  <2>3. \A b \in Aliases : Hop(b) \in Hops
    BY DEF Hop, Hops
  <2>4. QED
    BY <2>1, <2>2, <2>3 DEF Named
<1>2. /\ after \in Seq(Hops)
      /\ alias = WIDE2_2 => Count(path, Named(WIDE2_1)) = 0
      /\ Count(after, K) + (IF Hop(alias) \in K THEN c ELSE 0)
           = Count(path, K) + (IF Used(d) \in K THEN c ELSE 0)
               + (IF alias = WIDE2_2 /\ Hop(WIDE2_1) \in K THEN c ELSE 0)
  BY DEF Stamps
<1>3. /\ c \in Nat /\ c <= 1 /\ Count(path, K) \in Nat /\ Count(after, K) \in Nat
      /\ Count(path, K) <= 1
  BY <1>2, CountType, NamesDiffer DEF Single, Stamps
<1>4. a = WIDE2_1 /\ alias = WIDE2_2 => Count(path, K) = 0
  BY <1>2
<1> HIDE DEF K, c
<1>5. Count(after, K) <= 1
  BY <1>1, <1>2, <1>3, <1>4, NamesDiffer
<1>6. QED
  BY <1>5 DEF K

(* The path a sender gives a packet. *)
LEMMA FirstPath ==
  ASSUME NEW p \in Packets, NEW path \in FirstPaths[p]
  PROVE  /\ path \in Seq(Hops) /\ Single(path)
         /\ \A S \in SUBSET Digis : Relays(path, S) = 0
<1>1. /\ path \in Seq([name : Aliases, used : BOOLEAN])
      /\ \A i, j \in DOMAIN path : path[i].name = path[j].name => i = j
  BY NetworkAssumption
<1>0. /\ Len(path) \in Nat /\ DOMAIN path = 1..Len(path)
      /\ path = [i \in 1..Len(path) |-> path[i]]
      /\ \A i \in 1..Len(path) : path[i] \in [name : Aliases, used : BOOLEAN]
  <2> DEFINE H == [name : Aliases, used : BOOLEAN]
  <2>1. path \in Seq(H)
    BY <1>1
  <2> HIDE DEF H
  <2>2. /\ Len(path) \in Nat /\ DOMAIN path = 1..Len(path)
        /\ path = [i \in 1..Len(path) |-> path[i]]
        /\ \A i \in 1..Len(path) : path[i] \in H
    BY <2>1, SeqParts
  <2>3. QED
    BY <2>2 DEF H
<1>2. path \in Seq(Hops)
  <2>1. [name : Aliases, used : BOOLEAN] \subseteq Hops
    BY DEF Hops
  <2> HIDE DEF Hops
  <2>2. Len(path) \in Nat /\ path = [i \in 1..Len(path) |-> path[i]]
        /\ \A i \in 1..Len(path) : path[i] \in Hops
    BY <1>0, <2>1
  <2>3. QED
    BY <2>2
<1>3. ASSUME NEW a \in Aliases PROVE Count(path, Named(a)) <= 1
  <2> DEFINE I == {i \in DOMAIN path : path[i] \in Named(a)}
  <2>1. CASE I = {}
    BY <2>1, FS_EmptySet DEF Count
  <2>2. CASE I # {}
    <3>1. PICK i \in DOMAIN path : path[i].name = a
      BY <2>2 DEF Named
    <3>2. I = {i}
      BY <1>1, <2>2, <3>1 DEF Named
    <3>3. QED
      BY <3>2, FS_Singleton DEF Count
  <2>3. QED
    BY <2>1, <2>2
<1>4. ASSUME NEW S \in SUBSET Digis PROVE Relays(path, S) = 0
  <2>1. \A i \in DOMAIN path : path[i].name \in Aliases
    BY <1>0
  <2>2. \A i \in DOMAIN path : path[i] \notin {Used(s) : s \in S}
    <3>1. \A s : Used(s).name = s
      BY DEF Used
    <3>2. QED
      BY <2>1, <3>1, NamesDiffer
  <2>3. QED
    BY <2>2, CountNone DEF Relays
<1>5. QED
  BY <1>2, <1>3, <1>4 DEF Single

-----------------------------------------------------------------------------

(* What the filter of one digipeater has answered. *)
Answer  == [hash : Word, at : Nat]
Refusal == [hash : Word, at : Nat, after : Nat]

(* With hd the next victim and n packets accepted: how far slot k is from  *)
(* hd (hd itself is at 0, the slot written last at Slots - 1), and the     *)
(* number of the accepted packet that slot k holds, below 1 if none.       *)
Distance(hd, k)   == IF k >= hd THEN k - hd ELSE k - hd + Slots
Written(n, hd, k) == n - Slots + 1 + Distance(hd, k)

Stored(call) == [hash |-> call.hash, seenAt |-> Millis(call.at)]

(* The ring is the window of the last Slots accepted packets. *)
Window(b, hd, acc) ==
  \A k \in Slot :
    LET w == Written(Len(acc), hd, k)
    IN  b[k] = IF w >= 1 THEN Stored(acc[w]) ELSE Blank

(* Packets are recorded in the order of time, refusals count the packets   *)
(* accepted before them.                                                   *)
InOrder(acc, t)  == \A i \in 1..Len(acc) : acc[i].at <= t
InPast(acc, sup) == \A s \in sup : s.after <= Len(acc)

(* RepeatNeedsEviction and SuppressionHasCause of PacketDedup, for a list  *)
(* of accepted packets and a set of refusals.                              *)
Spaced(acc) ==
  \A i, j \in 1..Len(acc) :
    /\ i < j
    /\ acc[i].hash = acc[j].hash
    /\ acc[j].at - acc[i].at < TTL
    => j - i > Slots

Caused(acc, sup) ==
  \A s \in sup :
    \/ \E i \in 1..s.after :
         /\ i > s.after - Slots
         /\ acc[i].hash = s.hash
         /\ (s.at - acc[i].at) % Wrap < TTL
    \/ s.hash = 0 /\ Millis(s.at) < TTL /\ s.after < Slots

RingTypes(b, hd, t, acc, sup) ==
  /\ b \in [Slot -> Entry] /\ hd \in Slot /\ t \in Nat
  /\ acc \in Seq(Answer) /\ sup \in SUBSET Refusal

(* The inductive invariant of one filter. *)
Ring(b, hd, t, acc, sup) ==
  /\ RingTypes(b, hd, t, acc, sup)
  /\ Window(b, hd, acc)
  /\ InOrder(acc, t)
  /\ InPast(acc, sup)
  /\ Spaced(acc)
  /\ Caused(acc, sup)

(* The slot after k, without the remainder. *)
LEMMA NextSlotCases ==
  ASSUME NEW k \in Slot
  PROVE  NextSlot(k) = IF k = Slots - 1 THEN 0 ELSE k + 1
BY SlotsAssumption DEF Slot, NextSlot

(* The wrapped age of a stored packet is its true age modulo Wrap. *)
LEMMA AgeOfStored ==
  ASSUME NEW t \in Nat, NEW call \in Answer, call.at <= t
  PROVE  Age(t, Stored(call)) = (t - call.at) % Wrap
<1>1. call.at \in Nat
  BY DEF Answer
<1>2. QED
  BY <1>1, WrappedAge, WrapAssumption DEF Age, Stored, Millis

(* A distance is a number of writes below the ring size, and every such    *)
(* number is the distance of a slot.                                       *)
LEMMA DistanceRange ==
  ASSUME NEW hd \in Slot, NEW k \in Slot
  PROVE  Distance(hd, k) \in 0..(Slots - 1)
BY SlotsAssumption DEF Slot, Distance

(* Every number of writes below the ring size is the distance of a slot.   *)
LEMMA DistanceOnto ==
  ASSUME NEW hd \in Slot, NEW d \in 0..(Slots - 1)
  PROVE  \E k \in Slot : Distance(hd, k) = d
<1> DEFINE k == IF hd + d < Slots THEN hd + d ELSE hd + d - Slots
<1>1. k \in Slot /\ Distance(hd, k) = d
  BY SlotsAssumption DEF Slot, Distance
<1>2. QED
  BY <1>1

(* What an accepted packet is made of. *)
LEMMA AnswerFields ==
  ASSUME NEW acc \in Seq(Answer), NEW i \in 1..Len(acc)
  PROVE  acc[i] \in Answer /\ acc[i].hash \in Word /\ acc[i].at \in Nat
<1>1. acc[i] \in Answer
  OBVIOUS
<1>2. QED
  BY <1>1 DEF Answer

(* One more accepted packet. *)
LEMMA OneAnswer ==
  ASSUME NEW acc \in Seq(Answer), NEW h \in Word, NEW t \in Nat
  PROVE  /\ [hash |-> h, at |-> t] \in Answer
         /\ Append(acc, [hash |-> h, at |-> t]) \in Seq(Answer)
         /\ Len(acc) \in Nat
         /\ Len(Append(acc, [hash |-> h, at |-> t])) = Len(acc) + 1
         /\ \A i \in 1..Len(acc) : Append(acc, [hash |-> h, at |-> t])[i] = acc[i]
         /\ Append(acc, [hash |-> h, at |-> t])[Len(acc) + 1] = [hash |-> h, at |-> t]
<1>1. [hash |-> h, at |-> t] \in Answer
  BY DEF Answer
<1>2. QED
  BY <1>1

(* Initially all slots are blank and nothing is accepted. *)
LEMMA RingInit == Ring([k \in Slot |-> Blank], 0, 0, <<>>, {})
<1>1. 0 \in Slot /\ 0 \in Word
  BY SlotsAssumption, WrapAssumption DEF Slot, Word
<1>2. RingTypes([k \in Slot |-> Blank], 0, 0, <<>>, {})
  BY <1>1 DEF RingTypes, Entry, Blank
<1>3. Len(<<>>) = 0
  OBVIOUS
<1>4. ASSUME NEW k \in Slot PROVE ~(Written(Len(<<>>), 0, k) >= 1)
  BY <1>1, <1>3, DistanceRange, SlotsAssumption DEF Written
<1>5. Window([k \in Slot |-> Blank], 0, <<>>)
  BY <1>4 DEF Window
<1>6. QED
  BY <1>2, <1>3, <1>5 DEF Ring, InOrder, InPast, Spaced, Caused

(* Recording a packet shifts the window by one. *)
LEMMA AcceptWindow ==
  ASSUME NEW b, NEW hd, NEW t, NEW acc, NEW sup, RingTypes(b, hd, t, acc, sup),
         Window(b, hd, acc), NEW h \in Word
  PROVE  Window(Recorded(b, hd, h, t), NextSlot(hd), Append(acc, [hash |-> h, at |-> t]))
<1> DEFINE n == Len(acc)
           call == [hash |-> h, at |-> t]
           more == Append(acc, call)
           b2 == Recorded(b, hd, h, t)
           hd2 == NextSlot(hd)
<1>1. /\ hd \in Slot /\ n \in Nat
      /\ b2 = [b EXCEPT ![hd] = Stored(call)]
      /\ b \in [Slot -> Entry] /\ acc \in Seq(Answer) /\ t \in Nat
  BY DEF RingTypes, Stored, Recorded
<1>2. /\ Len(more) = n + 1
      /\ \A i \in 1..n : more[i] = acc[i]
      /\ more[n + 1] = call
  BY <1>1, OneAnswer
<1>3. hd2 = IF hd = Slots - 1 THEN 0 ELSE hd + 1
  BY <1>1, NextSlotCases
<1> HIDE DEF n, call, more, b2, hd2
<1>4. ASSUME NEW k \in Slot
      PROVE  b2[k] = IF Written(n + 1, hd2, k) >= 1 THEN Stored(more[Written(n + 1, hd2, k)])
                     ELSE Blank
  <2>1. CASE k # hd
    <3>1. Written(n + 1, hd2, k) = Written(n, hd, k)
      BY <1>1, <1>3, <2>1, SlotsAssumption DEF Written, Distance, Slot
    <3>2. Written(n, hd, k) \in Int /\ Written(n, hd, k) <= n
      BY <1>1, DistanceRange, SlotsAssumption DEF Written
    <3>3. b2[k] = b[k]
      BY <1>1, <2>1
    <3>4. Written(n, hd, k) >= 1 => more[Written(n, hd, k)] = acc[Written(n, hd, k)]
      BY <1>2, <3>2
    <3>5. QED
      BY <3>1, <3>3, <3>4 DEF Window, n
  <2>2. CASE k = hd
    <3>1. Written(n + 1, hd2, k) = n + 1
      BY <1>1, <1>3, <2>2, SlotsAssumption DEF Written, Distance, Slot
    <3>2. b2[k] = Stored(call)
      BY <1>1, <2>2
    <3>3. QED
      BY <1>1, <1>2, <3>1, <3>2
  <2>3. QED
    BY <2>1, <2>2
<1>5. Window(b2, hd2, more)
  BY <1>2, <1>4 DEF Window
<1>6. QED
  BY <1>5 DEF b2, hd2, more, call

(* A packet still in the window within the TTL is a duplicate. *)
LEMMA WindowSuppresses ==
  ASSUME NEW b, NEW hd, NEW t, NEW acc, NEW sup, RingTypes(b, hd, t, acc, sup),
         Window(b, hd, acc), InOrder(acc, t), NEW i \in 1..Len(acc),
         i > Len(acc) - Slots, t - acc[i].at < TTL
  PROVE  Holds(b, acc[i].hash, t)
<1>1. /\ acc[i] \in Answer /\ acc[i].at \in Nat
      /\ acc[i].at <= t /\ t \in Nat /\ hd \in Slot /\ Len(acc) \in Nat
  BY AnswerFields DEF RingTypes, InOrder
<1>2. PICK k \in Slot : Distance(hd, k) = i - (Len(acc) - Slots + 1)
  BY <1>1, DistanceOnto, SlotsAssumption
<1>3. Written(Len(acc), hd, k) = i
  BY <1>1, <1>2, SlotsAssumption DEF Written
<1>4. b[k] = Stored(acc[i])
  BY <1>3 DEF Window
<1>5. Age(t, b[k]) = (t - acc[i].at) % Wrap
  BY <1>1, <1>4, AgeOfStored
<1>6. t - acc[i].at \in 0..(Wrap - 1)
  BY <1>1, WrapAssumption
<1>7. Age(t, b[k]) < TTL
  BY <1>5, <1>6, SmallRemainder, WrapAssumption
<1>8. b[k].hash = acc[i].hash
  BY <1>4 DEF Stored
<1>9. QED
  BY <1>7, <1>8 DEF Holds

(* A packet recorded now is no duplicate, so its earlier copy within the   *)
(* TTL is out of the window.                                               *)
LEMMA RingAccept ==
  ASSUME NEW b, NEW hd, NEW t, NEW acc, NEW sup, Ring(b, hd, t, acc, sup),
         NEW h \in Word, ~Holds(b, h, t)
  PROVE  Ring(Recorded(b, hd, h, t), NextSlot(hd), t, Append(acc, [hash |-> h, at |-> t]), sup)
<1> DEFINE n == Len(acc)
           call == [hash |-> h, at |-> t]
           more == Append(acc, call)
<1>1. /\ b \in [Slot -> Entry] /\ hd \in Slot /\ t \in Nat
      /\ acc \in Seq(Answer) /\ sup \in SUBSET Refusal
      /\ RingTypes(b, hd, t, acc, sup) /\ Window(b, hd, acc) /\ InOrder(acc, t)
      /\ InPast(acc, sup) /\ Spaced(acc) /\ Caused(acc, sup)
  BY DEF Ring, RingTypes
<1>2. /\ more \in Seq(Answer) /\ n \in Nat /\ Len(more) = n + 1
      /\ \A i \in 1..n : more[i] = acc[i]
      /\ more[n + 1].hash = h /\ more[n + 1].at = t
  BY <1>1, OneAnswer
<1>3. RingTypes(Recorded(b, hd, h, t), NextSlot(hd), t, more, sup)
  <2>1. [hash |-> h, seenAt |-> Millis(t)] \in Entry
    BY <1>1, WrapAssumption DEF Entry, Word, Millis
  <2>2. NextSlot(hd) \in Slot
    BY <1>1, NextSlotCases, SlotsAssumption DEF Slot
  <2>3. QED
    BY <1>1, <1>2, <2>1, <2>2 DEF RingTypes, Recorded
<1>4. Window(Recorded(b, hd, h, t), NextSlot(hd), more)
  BY <1>1, AcceptWindow
<1> HIDE DEF more, n
<1>5. InOrder(more, t)
  <2> SUFFICES ASSUME NEW i \in 1..(n + 1) PROVE more[i].at <= t
    BY <1>2 DEF InOrder
  <2>1. CASE i = n + 1
    BY <1>1, <1>2, <2>1
  <2>2. CASE i # n + 1
    <3>1. i \in 1..n /\ more[i] = acc[i]
      BY <1>2, <2>2
    <3>2. QED
      BY <1>1, <3>1 DEF InOrder, n
  <2>3. QED
    BY <2>1, <2>2
<1>6. InPast(more, sup)
  <2>1. \A s \in sup : s.after \in Nat
    BY <1>1 DEF Refusal
  <2>2. QED
    BY <1>1, <1>2, <2>1 DEF InPast, n
<1>7. Spaced(more)
  <2> SUFFICES ASSUME NEW i \in 1..(n + 1), NEW j \in 1..(n + 1), i < j,
                      more[i].hash = more[j].hash,
                      more[j].at - more[i].at < TTL
               PROVE  j - i > Slots
    BY <1>2 DEF Spaced
  <2>1. i \in 1..n /\ more[i] = acc[i]
    BY <1>2
  <2>2. CASE j = n + 1
    <3>1. acc[i].hash = h /\ t - acc[i].at < TTL
      BY <1>2, <2>1, <2>2
    <3>2. ~(i > n - Slots)
      BY <1>1, <2>1, <3>1, WindowSuppresses DEF n
    <3>3. QED
      BY <1>2, <2>1, <2>2, <3>2, SlotsAssumption
  <2>3. CASE j # n + 1
    <3>1. j \in 1..n /\ more[j] = acc[j]
      BY <1>2, <2>3
    <3>2. QED
      BY <1>1, <2>1, <3>1 DEF Spaced, n
  <2>4. QED
    BY <2>2, <2>3
<1>8. Caused(more, sup)
  <2>1. \A s \in sup : s.after \in Nat /\ s.after <= n
    BY <1>1 DEF InPast, Refusal, n
  <2>2. \A s \in sup : \A i \in 1..s.after : more[i] = acc[i]
    BY <1>2, <2>1
  <2>3. QED
    BY <1>1, <2>2 DEF Caused
<1>9. QED
  BY <1>3, <1>4, <1>5, <1>6, <1>7, <1>8 DEF Ring, more

(* The slot that makes a packet a duplicate holds one of the last Slots    *)
(* accepted packets or is still blank.                                     *)
LEMMA RingRefuse ==
  ASSUME NEW b, NEW hd, NEW t, NEW acc, NEW sup, Ring(b, hd, t, acc, sup),
         NEW h \in Word, Holds(b, h, t)
  PROVE  Ring(b, hd, t, acc, {[hash |-> h, at |-> t, after |-> Len(acc)]})
<1> DEFINE n == Len(acc)
           s == [hash |-> h, at |-> t, after |-> n]
<1>1. /\ b \in [Slot -> Entry] /\ hd \in Slot /\ t \in Nat /\ n \in Nat
      /\ acc \in Seq(Answer) /\ Window(b, hd, acc) /\ InOrder(acc, t) /\ Spaced(acc)
  BY DEF Ring, RingTypes
<1>2. RingTypes(b, hd, t, acc, {s}) /\ InPast(acc, {s})
  BY <1>1 DEF RingTypes, Refusal, InPast
<1>3. Caused(acc, {s})
  <2>1. PICK k \in Slot : b[k].hash = h /\ Age(t, b[k]) < TTL
    BY DEF Holds
  <2> DEFINE w == Written(n, hd, k)
  <2>2. w \in Int /\ w <= n /\ w > n - Slots
    BY <1>1, DistanceRange, SlotsAssumption DEF Written
  <2>3. b[k] = IF w >= 1 THEN Stored(acc[w]) ELSE Blank
    BY <1>1 DEF Window
  <2> HIDE DEF w
  <2>4. CASE w >= 1
    <3>1. w \in 1..n /\ acc[w].at <= t /\ acc[w] \in Answer
      BY <1>1, <2>2, <2>4, AnswerFields DEF InOrder
    <3>2. acc[w].hash = h
      BY <2>1, <2>3, <2>4 DEF Stored
    <3>3. (t - acc[w].at) % Wrap < TTL
      BY <1>1, <2>1, <2>3, <2>4, <3>1, AgeOfStored
    <3>4. QED
      BY <2>2, <3>1, <3>2, <3>3 DEF Caused
  <2>5. CASE ~(w >= 1)
    <3>1. h = 0 /\ n < Slots
      BY <1>1, <2>1, <2>2, <2>3, <2>5, SlotsAssumption DEF Blank
    <3>2. Millis(t) < TTL
      <4>1. Age(t, b[k]) = (Millis(t) - 0) % Wrap
        BY <2>3, <2>5 DEF Age, Blank
      <4>2. Millis(t) \in 0..(Wrap - 1) /\ Millis(t) - 0 = Millis(t)
        BY <1>1, WrapAssumption DEF Millis
      <4>3. Age(t, b[k]) = Millis(t)
        BY <4>1, <4>2, SmallRemainder, WrapAssumption
      <4>4. QED
        BY <2>1, <4>3
    <3>3. QED
      BY <3>1, <3>2 DEF Caused
  <2>6. QED
    BY <2>4, <2>5
<1>4. QED
  BY <1>1, <1>2, <1>3 DEF Ring

(* Time passes. *)
LEMMA RingTime ==
  ASSUME NEW b, NEW hd, NEW t, NEW acc, NEW sup, Ring(b, hd, t, acc, sup)
  PROVE  Ring(b, hd, t + 1, acc, sup)
<1>1. t \in Nat /\ acc \in Seq(Answer) /\ InOrder(acc, t)
  BY DEF Ring, RingTypes
<1>2. \A i \in 1..Len(acc) : acc[i].at \in Nat
  BY <1>1, AnswerFields
<1>3. InOrder(acc, t + 1)
  BY <1>1, <1>2 DEF InOrder
<1>4. QED
  BY <1>3 DEF Ring, RingTypes

-----------------------------------------------------------------------------

(* What the filter of a digipeater with this log has accepted. *)
AnswersOf(entries) ==
  [i \in 1..Len(entries) |-> [hash |-> Hash[entries[i].pkt], at |-> entries[i].at]]

RelayedIn(entries, p) == {i \in 1..Len(entries) : entries[i].pkt = p /\ entries[i].relayed}

(* The logs after an entry more of digipeater d. *)
Logged(lg, d, e) == [lg EXCEPT ![d] = Append(@, e)]

(* The frames that may be in flight when the digipeaters have these logs   *)
(* and as many allocations have failed.                                    *)
Lawful(lg, f) ==
  {frame \in Frame :
    /\ Single(frame.path)
    /\ Budget(frame.path) + Relays(frame.path, Digis) = Budget(frame.first)
    /\ frame.trips \in Relays(frame.path, Digis) .. Relays(frame.path, Digis) + f
    /\ \A d \in Digis :
         /\ Relays(frame.path, {d}) <= Cardinality(RelayedIn(lg[d], frame.pkt))
         /\ d \in {Sender[frame.pkt], Addressee[frame.pkt]} => Relays(frame.path, {d}) = 0}

FramesLawful ==
  /\ inbox \in [Digis -> SUBSET Lawful(log, failures)]
  /\ outQueue \in [Digis -> Seq(Lawful(log, failures))]

FiltersInStep ==
  \A d \in Digis :
    Ring(ring[d].buf, ring[d].head, clock, AnswersOf(log[d]), refused[d])

IInv == TypeOK /\ FramesLawful /\ FiltersInStep

(* What an extended sequence is made of.                                   *)
LEMMA AppendParts ==
  ASSUME NEW H, NEW s \in Seq(H), NEW x \in H
  PROVE  /\ Len(Append(s, x)) = Len(s) + 1
         /\ \A i \in 1..Len(s) : Append(s, x)[i] = s[i]
         /\ Append(s, x)[Len(s) + 1] = x
         /\ Append(s, x) = [i \in 1..(Len(s) + 1) |-> Append(s, x)[i]]
<1>1. /\ Append(s, x) \in Seq(H) /\ Len(Append(s, x)) = Len(s) + 1
      /\ \A i \in 1..Len(s) : Append(s, x)[i] = s[i]
      /\ Append(s, x)[Len(s) + 1] = x
  OBVIOUS
<1>2. Append(s, x) = [i \in 1..Len(Append(s, x)) |-> Append(s, x)[i]]
  BY <1>1, SeqParts
<1>3. QED
  BY <1>1, <1>2

(* A log entry more is an accepted packet more.                            *)
LEMMA AnswersAppend ==
  ASSUME NEW entries \in Seq(LogEntry), NEW e \in LogEntry
  PROVE  /\ AnswersOf(entries) \in Seq(Answer)
         /\ Len(AnswersOf(entries)) = Len(entries)
         /\ AnswersOf(Append(entries, e))
              = Append(AnswersOf(entries), [hash |-> Hash[e.pkt], at |-> e.at])
<1> DEFINE n == Len(entries)
           more == Append(entries, e)
           a == [hash |-> Hash[e.pkt], at |-> e.at]
<1>1. /\ n \in Nat /\ Len(more) = n + 1 /\ more[n + 1] = e
      /\ \A i \in 1..n : more[i] = entries[i] /\ entries[i] \in LogEntry
  OBVIOUS
<1>2. \A l \in LogEntry : [hash |-> Hash[l.pkt], at |-> l.at] \in Answer
  BY NetworkAssumption DEF LogEntry, Answer
<1>3. AnswersOf(entries) \in Seq(Answer) /\ Len(AnswersOf(entries)) = n
  BY <1>1, <1>2 DEF AnswersOf
<1>4. AnswersOf(entries) = [i \in 1..n |-> [hash |-> Hash[entries[i].pkt], at |-> entries[i].at]]
  BY DEF AnswersOf
<1>5. a \in Answer
  BY <1>2
<1>6. AnswersOf(more) = [i \in 1..(n + 1) |-> [hash |-> Hash[more[i].pkt], at |-> more[i].at]]
  BY <1>1 DEF AnswersOf
<1> HIDE DEF n, more, a
<1>7. /\ Len(Append(AnswersOf(entries), a)) = n + 1
      /\ \A i \in 1..n : Append(AnswersOf(entries), a)[i] = AnswersOf(entries)[i]
      /\ Append(AnswersOf(entries), a)[n + 1] = a
      /\ Append(AnswersOf(entries), a)
           = [i \in 1..(n + 1) |-> Append(AnswersOf(entries), a)[i]]
  BY <1>3, <1>5, AppendParts
<1>8. \A i \in 1..(n + 1) :
        Append(AnswersOf(entries), a)[i] = [hash |-> Hash[more[i].pkt], at |-> more[i].at]
  <2> TAKE i \in 1..(n + 1)
  <2>1. CASE i = n + 1
    BY <1>1, <1>7, <2>1 DEF a
  <2>2. CASE i # n + 1
    <3>1. i \in 1..n
      BY <1>1, <2>2
    <3>2. QED
      BY <1>1, <1>4, <1>7, <3>1
  <2>3. QED
    BY <2>1, <2>2
<1>9. AnswersOf(more) = Append(AnswersOf(entries), a)
  BY <1>6, <1>7, <1>8
<1>10. QED
  BY <1>3, <1>9 DEF n, more, a

(* A log records finitely many relays of a packet.                         *)
LEMMA RelayedFinite ==
  ASSUME NEW entries \in Seq(LogEntry), NEW p
  PROVE  /\ IsFiniteSet(RelayedIn(entries, p))
         /\ Cardinality(RelayedIn(entries, p)) \in Nat
<1>1. Len(entries) \in Nat
  OBVIOUS
<1>2. IsFiniteSet(1..Len(entries))
  BY <1>1, FS_Interval
<1>3. RelayedIn(entries, p) \subseteq 1..Len(entries)
  BY DEF RelayedIn
<1>4. QED
  BY <1>2, <1>3, FS_Subset, FS_CardinalityType

(* A log that grows by an entry records a relay more of its packet at most. *)
LEMMA RelayedAppend ==
  ASSUME NEW entries \in Seq(LogEntry), NEW e \in LogEntry, NEW p
  PROVE  /\ IsFiniteSet(RelayedIn(entries, p))
         /\ Cardinality(RelayedIn(entries, p)) \in Nat
         /\ Cardinality(RelayedIn(Append(entries, e), p))
              = Cardinality(RelayedIn(entries, p))
                  + (IF e.pkt = p /\ e.relayed THEN 1 ELSE 0)
<1> DEFINE n == Len(entries)
           more == Append(entries, e)
           I == RelayedIn(entries, p)
           J == RelayedIn(more, p)
<1>1. /\ n \in Nat /\ Len(more) = n + 1 /\ more[n + 1] = e
      /\ \A i \in 1..n : more[i] = entries[i]
  OBVIOUS
<1>2. IsFiniteSet(I) /\ Cardinality(I) \in Nat
  BY RelayedFinite
<1> HIDE DEF more
<1>3. CASE e.pkt = p /\ e.relayed
  <2>1. J = I \cup {n + 1} /\ n + 1 \notin I
    BY <1>1, <1>3 DEF RelayedIn
  <2>2. Cardinality(J) = Cardinality(I) + 1
    BY <1>2, <2>1, FS_AddElement
  <2>3. QED
    BY <1>2, <1>3, <2>2 DEF more
<1>4. CASE ~(e.pkt = p /\ e.relayed)
  <2>1. J = I
    BY <1>1, <1>4 DEF RelayedIn
  <2>2. Cardinality(J) = Cardinality(I) + 0
    BY <1>2, <2>1
  <2>3. QED
    BY <1>2, <1>4, <2>2 DEF more
<1>5. QED
  BY <1>3, <1>4

(* What is lawful stays so when a log grows and another allocation fails. *)
LEMMA LawfulGrows ==
  ASSUME NEW lg \in [Digis -> Seq(LogEntry)], NEW d \in Digis, NEW e \in LogEntry,
         NEW f \in Nat, NEW f2 \in Nat, f <= f2
  PROVE  Lawful(lg, f) \subseteq Lawful(Logged(lg, d, e), f2)
<1> DEFINE lg2 == Logged(lg, d, e)
<1> SUFFICES ASSUME NEW frame \in Lawful(lg, f) PROVE frame \in Lawful(lg2, f2)
  OBVIOUS
<1>0. frame.trips \in Relays(frame.path, Digis) .. Relays(frame.path, Digis) + f2
  <2>1. /\ Relays(frame.path, Digis) \in Nat
        /\ frame.trips \in Relays(frame.path, Digis) .. Relays(frame.path, Digis) + f
    BY CountType DEF Lawful, Frame, Relays
  <2>2. QED
    BY <2>1
<1>1. \A x \in Digis : Relays(frame.path, {x}) \in Nat
  BY CountType DEF Lawful, Frame, Relays
<1>2. ASSUME NEW x \in Digis
      PROVE  Relays(frame.path, {x}) <= Cardinality(RelayedIn(lg2[x], frame.pkt))
  <2> DEFINE c == Cardinality(RelayedIn(lg[x], frame.pkt))
  <2>1. Relays(frame.path, {x}) <= c
    BY DEF Lawful
  <2>2. lg[x] \in Seq(LogEntry)
    OBVIOUS
  <2>3. c \in Nat
    BY <2>2, RelayedAppend
  <2>4. CASE x = d
    <3>1. lg2[x] = Append(lg[x], e)
      BY <2>4 DEF Logged
    <3>2. Cardinality(RelayedIn(lg2[x], frame.pkt))
            = c + (IF e.pkt = frame.pkt /\ e.relayed THEN 1 ELSE 0)
      BY <2>2, <3>1, RelayedAppend
    <3> HIDE DEF c
    <3>3. QED
      BY <1>1, <2>1, <2>3, <3>2
  <2>5. CASE x # d
    <3>1. lg2[x] = lg[x]
      BY <2>5 DEF Logged
    <3>2. QED
      BY <2>1, <3>1
  <2>6. QED
    BY <2>4, <2>5
<1>3. QED
  BY <1>0, <1>2 DEF Lawful

(* A packet as its sender keys it. *)
LEMMA FirstLawful ==
  ASSUME NEW lg \in [Digis -> Seq(LogEntry)], NEW f \in Nat,
         NEW p \in Packets, NEW path \in FirstPaths[p]
  PROVE  [pkt |-> p, path |-> path, first |-> path, trips |-> 0] \in Lawful(lg, f)
<1> DEFINE frame == [pkt |-> p, path |-> path, first |-> path, trips |-> 0]
<1>1. path \in Seq(Hops) /\ Single(path) /\ \A S \in SUBSET Digis : Relays(path, S) = 0
  BY FirstPath
<1>2. frame \in Frame
  BY <1>1 DEF Frame
<1>3. /\ Budget(path) + Relays(path, Digis) = Budget(path)
      /\ 0 \in Relays(path, Digis) .. Relays(path, Digis) + f
  <2>1. Relays(path, Digis) = 0
    BY <1>1
  <2>2. Budget(path) \in Nat
    <3>1. \A K : Count(path, K) \in Nat
      BY <1>1, CountType
    <3>2. QED
      BY <3>1 DEF Budget
  <2>3. QED
    BY <2>1, <2>2
<1>4. ASSUME NEW d \in Digis
      PROVE  /\ Relays(path, {d}) = 0
             /\ Relays(path, {d}) <= Cardinality(RelayedIn(lg[d], p))
  <2>1. Relays(path, {d}) = 0
    BY <1>1
  <2>2. lg[d] \in Seq(LogEntry)
    OBVIOUS
  <2>3. Cardinality(RelayedIn(lg[d], p)) \in Nat
    BY <2>2, RelayedFinite
  <2>4. QED
    BY <2>1, <2>3
<1>5. QED
  BY <1>1, <1>2, <1>3, <1>4 DEF Lawful

(* The copy that a digipeater relays. *)
LEMMA CopyOf ==
  ASSUME NEW frame \in Frame, NEW path \in Seq(Hops)
  PROVE  LET copy == [frame EXCEPT !.path = path, !.trips = @ + 1]
         IN  /\ copy \in Frame /\ copy.path = path /\ copy.pkt = frame.pkt
             /\ copy.first = frame.first /\ copy.trips = frame.trips + 1
<1> DEFINE copy == [frame EXCEPT !.path = path, !.trips = @ + 1]
           moved == [frame EXCEPT !.path = path]
<1>1. moved \in Frame /\ copy = [moved EXCEPT !.trips = @ + 1]
  BY DEF Frame
<1>2. /\ moved.path = path /\ moved.pkt = frame.pkt /\ moved.first = frame.first
      /\ moved.trips = frame.trips
  BY DEF Frame
<1> HIDE DEF moved, copy
<1>3. /\ copy \in Frame /\ copy.path = moved.path /\ copy.pkt = moved.pkt
      /\ copy.first = moved.first /\ copy.trips = moved.trips + 1
  BY <1>1 DEF Frame
<1>4. QED
  BY <1>2, <1>3 DEF copy

(* It is lawful once the log has the relay. *)
LEMMA RelayLawful ==
  ASSUME NEW lg \in [Digis -> Seq(LogEntry)], NEW d \in Digis, NEW e \in LogEntry,
         NEW f \in Nat, NEW frame \in Lawful(lg, f), NEW path, path # NoPath,
         NEW lowMemory \in BOOLEAN,
         path = IF lowMemory THEN StampOutOfMemory(frame.path, d, Mode[d])
                             ELSE Stamp(frame.path, d, Mode[d]),
         e.pkt = frame.pkt, e.relayed,
         d \notin {Sender[frame.pkt], Addressee[frame.pkt]}
  PROVE  [frame EXCEPT !.path = path, !.trips = @ + 1]
           \in Lawful(Logged(lg, d, e), IF lowMemory THEN f + 1 ELSE f)
<1> DEFINE lg2 == Logged(lg, d, e)
           f2 == IF lowMemory THEN f + 1 ELSE f
           copy == [frame EXCEPT !.path = path, !.trips = @ + 1]
<1>0. f2 \in Nat /\ f <= f2
  OBVIOUS
<1>1. /\ frame \in Frame /\ frame.path \in Seq(Hops) /\ frame \in Lawful(lg2, f2)
      /\ frame.trips \in Nat
  <2>1. frame \in Frame
    BY DEF Lawful
  <2>2. Lawful(lg, f) \subseteq Lawful(lg2, f2)
    BY <1>0, LawfulGrows
  <2>3. QED
    BY <2>1, <2>2 DEF Frame
<1>9. /\ frame.trips \in Relays(frame.path, Digis) .. Relays(frame.path, Digis) + f
      /\ Relays(frame.path, Digis) \in Nat
  BY <1>1, CountType DEF Lawful, Relays
<1>2. CASE lowMemory
  <2>1. path = frame.path
    BY <1>2 DEF StampOutOfMemory
  <2>2. /\ copy \in Frame /\ copy.path = frame.path /\ copy.pkt = frame.pkt
        /\ copy.first = frame.first /\ copy.trips = frame.trips + 1
    <3>1. path \in Seq(Hops)
      BY <1>1, <2>1
    <3>2. QED
      BY <1>1, <2>1, <3>1, CopyOf
  <2>3. copy.trips \in Relays(frame.path, Digis) .. Relays(frame.path, Digis) + f2
    BY <1>2, <1>9, <2>2
  <2> HIDE DEF copy, f2, lg2
  <2>4. copy \in Lawful(lg2, f2)
    BY <1>1, <2>2, <2>3 DEF Lawful
  <2>5. QED
    BY <2>4 DEF copy, f2, lg2
<1>3. CASE ~lowMemory
  <2>1. path = Stamp(frame.path, d, Mode[d])
    BY <1>3
  <2>0. Stamp(frame.path, d, Mode[d]) # NoPath
    BY <2>1
  <2>2. PICK alias \in {WIDE1_1, WIDE2_1, WIDE2_2} : Stamps(frame.path, path, d, alias)
    <3>1. \E alias \in {WIDE1_1, WIDE2_1, WIDE2_2} :
            Stamps(frame.path, Stamp(frame.path, d, Mode[d]), d, alias)
      BY <1>1, <2>0, StampStamps
    <3>2. QED
      BY <2>1, <3>1
  <2>3. path \in Seq(Hops)
    BY <2>2 DEF Stamps
  <2>4. /\ copy \in Frame /\ copy.path = path /\ copy.pkt = frame.pkt
        /\ copy.first = frame.first /\ copy.trips = frame.trips + 1
    BY <1>1, <2>3, CopyOf
  <2>5. Single(frame.path)
    BY DEF Lawful
  <2>6. Single(path)
    BY <1>1, <2>2, <2>5, StampSingle
  <2>7. Budget(path) + Relays(path, Digis) = Budget(frame.first)
    <3>1. Budget(path) + Relays(path, Digis) = Budget(frame.path) + Relays(frame.path, Digis)
      BY <1>1, <2>2, StampBudget
    <3>2. QED
      BY <3>1 DEF Lawful
  <2>8. ASSUME NEW x \in Digis
        PROVE  /\ Relays(path, {x}) <= Cardinality(RelayedIn(lg2[x], frame.pkt))
               /\ x \in {Sender[frame.pkt], Addressee[frame.pkt]} => Relays(path, {x}) = 0
    <3> DEFINE old == Relays(frame.path, {x})
               new == Relays(path, {x})
               c == Cardinality(RelayedIn(lg[x], frame.pkt))
               c2 == Cardinality(RelayedIn(lg2[x], frame.pkt))
    <3>1. old \in Nat /\ new \in Nat
      BY <1>1, <2>3, CountType DEF Relays
    <3>2. new <= old + (IF x = d THEN 1 ELSE 0)
      BY <1>1, <2>2, <2>5, StampRelays
    <3>3. old <= c /\ (x \in {Sender[frame.pkt], Addressee[frame.pkt]} => old = 0)
      BY DEF Lawful
    <3>4. lg[x] \in Seq(LogEntry) /\ lg2[x] = IF x = d THEN Append(lg[x], e) ELSE lg[x]
      BY DEF Logged
    <3>5. c \in Nat /\ c2 = c + (IF x = d THEN 1 ELSE 0)
      <4>1. c \in Nat
        BY <3>4, RelayedAppend
      <4>2. CASE x = d
        <5>1. c2 = c + (IF e.pkt = frame.pkt /\ e.relayed THEN 1 ELSE 0)
          BY <3>4, <4>2, RelayedAppend
        <5>2. QED
          BY <4>1, <4>2, <5>1
      <4>3. CASE x # d
        <5>1. c2 = c
          BY <3>4, <4>3
        <5> HIDE DEF c, c2
        <5>2. QED
          BY <4>1, <4>3, <5>1
      <4>4. QED
        BY <4>2, <4>3
    <3> HIDE DEF old, new, c, c2
    <3>6. new <= c2 /\ (x \in {Sender[frame.pkt], Addressee[frame.pkt]} => new = 0)
      BY <3>1, <3>2, <3>3, <3>5
    <3>7. QED
      BY <3>6 DEF new, c2
  <2>9. copy.trips \in Relays(path, Digis) .. Relays(path, Digis) + f2
    <3>1. Relays(path, Digis) = Relays(frame.path, Digis) + 1
      BY <1>1, <2>2, <2>5, StampSpendsOne
    <3>2. QED
      BY <1>3, <1>9, <2>4, <3>1
  <2> HIDE DEF copy, f2, lg2
  <2>10. copy \in Lawful(lg2, f2)
    BY <2>4, <2>6, <2>7, <2>8, <2>9 DEF Lawful
  <2>11. QED
    BY <2>10 DEF copy, f2, lg2
<1>4. QED
  BY <1>2, <1>3

-----------------------------------------------------------------------------

(* Nothing is in flight, and every filter is empty.                        *)
LEMMA InitIInv == Init => IInv
<1> SUFFICES ASSUME Init PROVE IInv
  OBVIOUS
<1>1. 0 \in Slot /\ 0 \in Word /\ Blank \in Entry
  BY SlotsAssumption, WrapAssumption DEF Slot, Word, Entry, Blank
<1>2. TypeOK
  <2>1. Cardinality({}) = 0 /\ MaxOutQueue \in Nat /\ Len(<<>>) = 0
    BY FS_EmptySet, NetworkAssumption
  <2>2. 0 \in 0..MaxSends /\ 0 \in 0..MaxFailures /\ 0 \in 0..MaxClock
    BY NetworkAssumption
  <2>3. \A H : <<>> \in Seq(H)
    OBVIOUS
  <2>4. ring \in [Digis -> [buf : [Slot -> Entry], head : Slot]]
    BY <1>1 DEF Init
  <2>5. /\ inbox \in [Digis -> SUBSET Frame]
        /\ \A d \in Digis : Cardinality(inbox[d]) <= 1
        /\ refused \in [Digis -> SUBSET [hash : Word, at : Nat, after : Nat]]
    BY <2>1 DEF Init, Nothing
  <2>6. /\ outQueue \in [Digis -> Seq(Frame)]
        /\ \A d \in Digis : Len(outQueue[d]) <= MaxOutQueue
        /\ log \in [Digis -> Seq(LogEntry)]
    BY <2>1, <2>3 DEF Init
  <2>7. QED
    BY <2>2, <2>4, <2>5, <2>6 DEF Init, TypeOK
<1>3. FramesLawful
  <2>1. <<>> \in Seq(Lawful(log, failures))
    OBVIOUS
  <2>2. QED
    BY <2>1 DEF Init, FramesLawful, Nothing
<1>4. FiltersInStep
  <2>1. AnswersOf(<<>>) = <<>>
    BY DEF AnswersOf
  <2>2. QED
    BY <2>1, RingInit DEF Init, FiltersInStep, Nothing
<1>5. QED
  BY <1>2, <1>3, <1>4 DEF IInv

(* The inboxes once a frame has reached these digipeaters. *)
Reached(old, hearing, frame) ==
  [d \in Digis |-> IF d \in hearing THEN {frame} ELSE old[d]]

(* A lawful frame on the air leaves every inbox lawful. *)
LEMMA AirLawful ==
  ASSUME NEW G \in SUBSET Frame, NEW old \in [Digis -> SUBSET G],
         \A d \in Digis : Cardinality(old[d]) <= 1,
         NEW frame \in G, NEW hearing
  PROVE  /\ Reached(old, hearing, frame) \in [Digis -> SUBSET G]
         /\ \A d \in Digis : Cardinality(Reached(old, hearing, frame)[d]) <= 1
<1>1. Cardinality({frame}) = 1
  BY FS_Singleton
<1>2. QED
  BY <1>1 DEF Reached

(* A frame is taken from an inbox. *)
LEMMA InboxRead ==
  ASSUME NEW G \in SUBSET Frame, NEW old \in [Digis -> SUBSET G],
         \A d \in Digis : Cardinality(old[d]) <= 1, NEW e \in Digis,
         NEW new, new = [old EXCEPT ![e] = Nothing]
  PROVE  new \in [Digis -> SUBSET G] /\ \A d \in Digis : Cardinality(new[d]) <= 1
<1>1. Cardinality({}) = 0
  BY FS_EmptySet
<1>2. QED
  BY <1>1 DEF Nothing

(* What is in flight is lawful under longer logs too. *)
LEMMA Widened ==
  ASSUME NEW G, NEW G2, G \subseteq G2,
         NEW i \in [Digis -> SUBSET G], NEW q \in [Digis -> Seq(G)]
  PROVE  i \in [Digis -> SUBSET G2] /\ q \in [Digis -> Seq(G2)]
<1>1. ASSUME NEW s \in Seq(G) PROVE s \in Seq(G2)
  <2>1. Len(s) \in Nat /\ s = [k \in 1..Len(s) |-> s[k]] /\ \A k \in 1..Len(s) : s[k] \in G2
    BY SeqParts
  <2>2. QED
    BY <2>1
<1>2. QED
  BY <1>1

(* The filter of digipeater e records a packet, the others do nothing. *)
LEMMA FiltersRemember ==
  ASSUME IInv, NEW d \in Digis, NEW p \in Packets, NEW relayed \in BOOLEAN,
         ~Holds(ring[d].buf, Hash[p], clock), Remember(d, p), UNCHANGED clock,
         log' = Logged(log, d, [pkt |-> p, at |-> clock, relayed |-> relayed])
  PROVE  FiltersInStep'
<1> DEFINE e == [pkt |-> p, at |-> clock, relayed |-> relayed]
<1>1. /\ ring' = [ring EXCEPT ![d] = [buf |-> Recorded(@.buf, @.head, Hash[p], clock),
                                     head |-> NextSlot(@.head)]]
      /\ refused' = refused /\ clock' = clock
  BY DEF Remember
<1>2. /\ ring \in [Digis -> [buf : [Slot -> Entry], head : Slot]]
      /\ log \in [Digis -> Seq(LogEntry)] /\ clock \in Nat /\ Hash[p] \in Word
      /\ FiltersInStep
  BY NetworkAssumption DEF IInv, TypeOK
<1>3. e \in LogEntry /\ e.pkt = p /\ e.at = clock
  BY <1>2 DEF LogEntry
<1> HIDE DEF e
<1>4. SUFFICES ASSUME NEW x \in Digis
      PROVE  Ring(ring'[x].buf, ring'[x].head, clock', AnswersOf(log'[x]), refused'[x])
  BY DEF FiltersInStep
<1>5. CASE x = d
  <2>1. /\ ring'[x].buf = Recorded(ring[d].buf, ring[d].head, Hash[p], clock)
        /\ ring'[x].head = NextSlot(ring[d].head)
    BY <1>1, <1>2, <1>5
  <2>2. log[d] \in Seq(LogEntry) /\ log'[x] = Append(log[d], e)
    BY <1>2, <1>5 DEF Logged, e
  <2>3. AnswersOf(log'[x]) = Append(AnswersOf(log[d]), [hash |-> Hash[p], at |-> clock])
    BY <1>3, <2>2, AnswersAppend
  <2>4. Ring(ring[d].buf, ring[d].head, clock, AnswersOf(log[d]), refused[d])
    BY <1>2 DEF FiltersInStep
  <2>5. Ring(Recorded(ring[d].buf, ring[d].head, Hash[p], clock), NextSlot(ring[d].head), clock,
             Append(AnswersOf(log[d]), [hash |-> Hash[p], at |-> clock]), refused[d])
    BY <1>2, <2>4, RingAccept
  <2>6. QED
    BY <1>1, <1>5, <2>1, <2>3, <2>5
<1>6. CASE x # d
  <2>1. ring'[x] = ring[x] /\ log'[x] = log[x]
    BY <1>1, <1>2, <1>6 DEF Logged
  <2>2. QED
    BY <1>1, <1>2, <2>1 DEF FiltersInStep
<1>7. QED
  BY <1>5, <1>6

(* The filter of digipeater e refuses a packet, the others do nothing. *)
LEMMA FiltersRefuse ==
  ASSUME IInv, NEW d \in Digis, NEW p \in Packets,
         Holds(ring[d].buf, Hash[p], clock), UNCHANGED <<ring, log, clock>>,
         refused' = [refused EXCEPT ![d] =
                       {[hash |-> Hash[p], at |-> clock, after |-> Len(log[d])]}]
  PROVE  FiltersInStep' /\ refused' \in [Digis -> SUBSET [hash : Word, at : Nat, after : Nat]]
<1>1. /\ log \in [Digis -> Seq(LogEntry)] /\ clock \in Nat /\ Hash[p] \in Word
      /\ refused \in [Digis -> SUBSET [hash : Word, at : Nat, after : Nat]]
      /\ FiltersInStep
  BY NetworkAssumption DEF IInv, TypeOK
<1>2. log[d] \in Seq(LogEntry) /\ Len(log[d]) \in Nat
  BY <1>1
<1>3. Len(AnswersOf(log[d])) = Len(log[d])
  BY <1>2 DEF AnswersOf
<1>4. refused' \in [Digis -> SUBSET [hash : Word, at : Nat, after : Nat]]
  BY <1>1, <1>2
<1>5. ASSUME NEW x \in Digis
      PROVE  Ring(ring'[x].buf, ring'[x].head, clock', AnswersOf(log'[x]), refused'[x])
  <2>1. CASE x = d
    <3>1. Ring(ring[d].buf, ring[d].head, clock, AnswersOf(log[d]), refused[d])
      BY <1>1 DEF FiltersInStep
    <3>2. Ring(ring[d].buf, ring[d].head, clock, AnswersOf(log[d]),
               {[hash |-> Hash[p], at |-> clock, after |-> Len(AnswersOf(log[d]))]})
      BY <1>1, <3>1, RingRefuse
    <3>3. refused'[x] = {[hash |-> Hash[p], at |-> clock, after |-> Len(log[d])]}
      BY <1>1, <2>1
    <3>4. QED
      BY <1>3, <2>1, <3>2, <3>3
  <2>2. CASE x # d
    <3>1. refused'[x] = refused[x]
      BY <1>1, <2>2
    <3>2. QED
      BY <1>1, <3>1 DEF FiltersInStep
  <2>3. QED
    BY <2>1, <2>2
<1>6. QED
  BY <1>4, <1>5 DEF FiltersInStep

(* The rings and the refusals stay of their types when a packet is new. *)
LEMMA RememberTypes ==
  ASSUME TypeOK, NEW d \in Digis, NEW p \in Packets, NEW relayed \in BOOLEAN, Remember(d, p)
  PROVE  /\ ring' \in [Digis -> [buf : [Slot -> Entry], head : Slot]]
         /\ [pkt |-> p, at |-> clock, relayed |-> relayed] \in LogEntry
         /\ Logged(log, d, [pkt |-> p, at |-> clock, relayed |-> relayed])
              \in [Digis -> Seq(LogEntry)]
<1>1. /\ ring \in [Digis -> [buf : [Slot -> Entry], head : Slot]]
      /\ log \in [Digis -> Seq(LogEntry)] /\ clock \in Nat /\ Hash[p] \in Word
  BY NetworkAssumption DEF TypeOK
<1>2. Recorded(ring[d].buf, ring[d].head, Hash[p], clock) \in [Slot -> Entry]
  <2>1. [hash |-> Hash[p], seenAt |-> Millis(clock)] \in Entry
    BY <1>1, WrapAssumption DEF Entry, Word, Millis
  <2>2. QED
    BY <1>1, <2>1 DEF Recorded
<1>3. NextSlot(ring[d].head) \in Slot
  BY <1>1, NextSlotCases, SlotsAssumption DEF Slot
<1>4. ring' \in [Digis -> [buf : [Slot -> Entry], head : Slot]]
  BY <1>1, <1>2, <1>3 DEF Remember
<1>5. [pkt |-> p, at |-> clock, relayed |-> relayed] \in LogEntry
  BY <1>1 DEF LogEntry
<1>6. QED
  BY <1>1, <1>4, <1>5 DEF Logged

(* The invariant, when nothing is recorded and nobody's filter is asked. *)
LEMMA FiltersStill ==
  ASSUME IInv, UNCHANGED <<ring, log, refused, clock>>
  PROVE  FiltersInStep'
BY DEF IInv, FiltersInStep

(* Every action keeps the invariant: a tracker sends,                      *)
LEMMA SendPacketInv ==
  ASSUME IInv, NEW p \in Packets, SendPacket(p)
  PROVE  IInv'
<1>1. PICK path \in FirstPaths[p], hearing \in SUBSET Hears[Sender[p]] :
        inbox' = Reached(inbox, hearing, [pkt |-> p, path |-> path, first |-> path, trips |-> 0])
  BY DEF SendPacket, OnAir, Reached
<1>2. /\ log \in [Digis -> Seq(LogEntry)] /\ sent \in 0..MaxSends /\ failures \in Nat
      /\ \A d \in Digis : Cardinality(inbox[d]) <= 1
      /\ inbox \in [Digis -> SUBSET Lawful(log, failures)] /\ outQueue \in [Digis -> Seq(Lawful(log, failures))]
  BY DEF IInv, TypeOK, FramesLawful
<1>3. [pkt |-> p, path |-> path, first |-> path, trips |-> 0] \in Lawful(log, failures)
  BY <1>2, FirstLawful
<1>4. Lawful(log, failures) \subseteq Frame
  BY DEF Lawful
<1>5. inbox' \in [Digis -> SUBSET Lawful(log, failures)] /\ \A d \in Digis : Cardinality(inbox'[d]) <= 1
  BY <1>1, <1>2, <1>3, <1>4, AirLawful
<1>6. UNCHANGED <<ring, outQueue, failures, clock, log, refused>> /\ sent' = sent + 1 /\ sent < MaxSends
  BY DEF SendPacket
<1>7. sent' \in 0..MaxSends
  BY <1>2, <1>6, NetworkAssumption
<1>8. TypeOK'
  BY <1>4, <1>5, <1>6, <1>7 DEF IInv, TypeOK
<1>9. FramesLawful'
  BY <1>2, <1>5, <1>6 DEF FramesLawful
<1>10. QED
  BY <1>6, <1>8, <1>9, FiltersStill DEF IInv

(* ... a digipeater sends its own beacon,                                  *)
LEMMA SendOwnBeaconInv ==
  ASSUME IInv, NEW p \in Packets, SendOwnBeacon(p)
  PROVE  IInv'
<1> DEFINE d == Sender[p]
           e == [pkt |-> p, at |-> clock, relayed |-> FALSE]
<1>1. /\ d \in Digis /\ sent < MaxSends /\ sent' = sent + 1
      /\ UNCHANGED <<outQueue, failures, clock>>
  BY DEF SendOwnBeacon
<1>2. PICK path \in FirstPaths[p], hearing \in SUBSET Hears[d] :
        inbox' = Reached(inbox, hearing, [pkt |-> p, path |-> path, first |-> path, trips |-> 0])
  BY DEF SendOwnBeacon, OnAir, Reached
<1>3. /\ log \in [Digis -> Seq(LogEntry)] /\ sent \in 0..MaxSends /\ failures \in Nat
      /\ \A x \in Digis : Cardinality(inbox[x]) <= 1
      /\ inbox \in [Digis -> SUBSET Lawful(log, failures)] /\ outQueue \in [Digis -> Seq(Lawful(log, failures))]
      /\ TypeOK
  BY DEF IInv, TypeOK, FramesLawful
<1>4. sent' \in 0..MaxSends
  BY <1>1, <1>3, NetworkAssumption
<1>5. Lawful(log, failures) \subseteq Frame /\ [pkt |-> p, path |-> path, first |-> path, trips |-> 0] \in Lawful(log, failures)
  BY <1>3, FirstLawful DEF Lawful
<1>6. inbox' \in [Digis -> SUBSET Lawful(log, failures)] /\ \A x \in Digis : Cardinality(inbox'[x]) <= 1
  BY <1>2, <1>3, <1>5, AirLawful
<1>7. CASE Holds(ring[d].buf, Hash[p], clock)
  <2>1. /\ refused' = [refused EXCEPT ![d] =
               {[hash |-> Hash[p], at |-> clock, after |-> Len(log[d])]}]
        /\ UNCHANGED <<ring, log>>
    BY <1>7 DEF SendOwnBeacon
  <2>2. FiltersInStep' /\ refused' \in [Digis -> SUBSET [hash : Word, at : Nat, after : Nat]]
    BY <1>1, <1>7, <2>1, FiltersRefuse
  <2>3. TypeOK'
    BY <1>1, <1>3, <1>4, <1>5, <1>6, <2>1, <2>2 DEF TypeOK
  <2>4. FramesLawful'
    BY <1>1, <1>3, <1>6, <2>1 DEF FramesLawful
  <2>5. QED
    BY <2>2, <2>3, <2>4 DEF IInv
<1>8. CASE ~Holds(ring[d].buf, Hash[p], clock)
  <2>1. Remember(d, p) /\ log' = Logged(log, d, e) /\ refused' = refused
    BY <1>8 DEF SendOwnBeacon, Remember, Logged
  <2>2. FiltersInStep'
    BY <1>1, <1>8, <2>1, FiltersRemember
  <2>3. /\ ring' \in [Digis -> [buf : [Slot -> Entry], head : Slot]]
        /\ e \in LogEntry /\ log' \in [Digis -> Seq(LogEntry)]
    BY <1>1, <1>3, <2>1, RememberTypes
  <2>4. TypeOK'
    BY <1>1, <1>3, <1>4, <1>5, <1>6, <2>1, <2>3 DEF TypeOK
  <2>5. Lawful(log, failures) \subseteq Lawful(log', failures')
    <3>1. failures <= failures
      BY <1>3
    <3>2. QED
      BY <1>1, <1>3, <2>1, <2>3, <3>1, LawfulGrows
  <2>6. FramesLawful'
    BY <1>1, <1>3, <1>6, <2>5, Widened DEF FramesLawful
  <2>7. QED
    BY <2>2, <2>4, <2>6 DEF IInv
<1>9. QED
  BY <1>7, <1>8

(* ... a frame is passed over,                                             *)
LEMMA IgnoreInv ==
  ASSUME IInv, NEW d \in Digis, Ignore(d)
  PROVE  IInv'
<1>1. /\ inbox' = [inbox EXCEPT ![d] = Nothing]
      /\ UNCHANGED <<ring, outQueue, sent, failures, clock, log, refused>>
  BY DEF Ignore
<1>2. /\ inbox \in [Digis -> SUBSET Lawful(log, failures)] /\ outQueue \in [Digis -> Seq(Lawful(log, failures))]
      /\ \A x \in Digis : Cardinality(inbox[x]) <= 1 /\ TypeOK
  BY DEF IInv, TypeOK, FramesLawful
<1>3. Lawful(log, failures) \subseteq Frame
  BY DEF Lawful
<1>4. inbox' \in [Digis -> SUBSET Lawful(log, failures)] /\ \A x \in Digis : Cardinality(inbox'[x]) <= 1
  BY <1>1, <1>2, <1>3, InboxRead
<1>5. TypeOK'
  BY <1>1, <1>2, <1>3, <1>4 DEF TypeOK
<1>6. FramesLawful'
  BY <1>1, <1>2, <1>4 DEF FramesLawful
<1>7. QED
  BY <1>1, <1>5, <1>6, FiltersStill DEF IInv

(* ... a duplicate is dropped,                                             *)
LEMMA DropDuplicateInv ==
  ASSUME IInv, NEW d \in Digis, DropDuplicate(d)
  PROVE  IInv'
<1>1. PICK frame \in inbox[d] :
        /\ Holds(ring[d].buf, Hash[frame.pkt], clock)
        /\ refused' = [refused EXCEPT ![d] =
             {[hash |-> Hash[frame.pkt], at |-> clock, after |-> Len(log[d])]}]
        /\ inbox' = [inbox EXCEPT ![d] = Nothing]
        /\ UNCHANGED <<ring, outQueue, sent, failures, clock, log>>
  BY DEF DropDuplicate
<1>2. /\ inbox \in [Digis -> SUBSET Lawful(log, failures)] /\ outQueue \in [Digis -> Seq(Lawful(log, failures))]
      /\ \A x \in Digis : Cardinality(inbox[x]) <= 1 /\ TypeOK
  BY DEF IInv, TypeOK, FramesLawful
<1>3. Lawful(log, failures) \subseteq Frame
  BY DEF Lawful
<1>4. inbox' \in [Digis -> SUBSET Lawful(log, failures)] /\ \A x \in Digis : Cardinality(inbox'[x]) <= 1
  BY <1>1, <1>2, <1>3, InboxRead
<1>5. frame.pkt \in Packets
  BY <1>2, <1>3 DEF Frame
<1>6. FiltersInStep' /\ refused' \in [Digis -> SUBSET [hash : Word, at : Nat, after : Nat]]
  BY <1>1, <1>5, FiltersRefuse
<1>7. TypeOK'
  BY <1>1, <1>2, <1>3, <1>4, <1>6 DEF TypeOK
<1>8. FramesLawful'
  BY <1>1, <1>2, <1>4 DEF FramesLawful
<1>9. QED
  BY <1>6, <1>7, <1>8 DEF IInv

(* The queue after an append that drops the oldest frame when it is full. *)
LEMMA QueueAppend ==
  ASSUME NEW G, NEW q \in Seq(G), Len(q) <= MaxOutQueue, NEW x \in G, NEW full,
         full <=> Len(q) >= MaxOutQueue
  PROVE  /\ Append(IF full THEN Tail(q) ELSE q, x) \in Seq(G)
         /\ Len(Append(IF full THEN Tail(q) ELSE q, x)) <= MaxOutQueue
<1>1. MaxOutQueue \in Nat /\ MaxOutQueue > 0 /\ Len(q) \in Nat
  BY NetworkAssumption
<1>2. CASE full
  <2>1. q # <<>>
    BY <1>1, <1>2
  <2>2. Tail(q) \in Seq(G) /\ Len(Tail(q)) = Len(q) - 1
    BY <2>1
  <2>3. QED
    BY <1>1, <1>2, <2>2
<1>3. CASE ~full
  BY <1>1, <1>3
<1>4. QED
  BY <1>2, <1>3

(* ... a new packet is remembered and its copy queued,                     *)
LEMMA ProcessInv ==
  ASSUME IInv, NEW d \in Digis, Process(d)
  PROVE  IInv'
<1>1. PICK frame \in inbox[d], lowMemory \in BOOLEAN :
        LET path == IF lowMemory THEN StampOutOfMemory(frame.path, d, Mode[d])
                                 ELSE Stamp(frame.path, d, Mode[d])
            full == Len(outQueue[d]) >= MaxOutQueue
        IN  /\ Eligible(d, frame.pkt)
            /\ ~Holds(ring[d].buf, Hash[frame.pkt], clock)
            /\ lowMemory => failures < MaxFailures
            /\ failures' = IF lowMemory THEN failures + 1 ELSE failures
            /\ Remember(d, frame.pkt)
            /\ log' = [log EXCEPT ![d] =
                 Append(@, [pkt |-> frame.pkt, at |-> clock, relayed |-> path # NoPath])]
            /\ outQueue' = IF path = NoPath THEN outQueue
                 ELSE [outQueue EXCEPT ![d] =
                         Append(IF full THEN Tail(@) ELSE @,
                                [frame EXCEPT !.path = path, !.trips = @ + 1])]
            /\ inbox' = [inbox EXCEPT ![d] = Nothing]
            /\ UNCHANGED <<sent, clock>>
  BY Zenon DEF Process
<1> DEFINE path == IF lowMemory THEN StampOutOfMemory(frame.path, d, Mode[d])
                                ELSE Stamp(frame.path, d, Mode[d])
           full == Len(outQueue[d]) >= MaxOutQueue
           e == [pkt |-> frame.pkt, at |-> clock, relayed |-> path # NoPath]
           copy == [frame EXCEPT !.path = path, !.trips = @ + 1]
<1>2. /\ Eligible(d, frame.pkt)
      /\ ~Holds(ring[d].buf, Hash[frame.pkt], clock)
      /\ lowMemory => failures < MaxFailures
      /\ failures' = IF lowMemory THEN failures + 1 ELSE failures
      /\ Remember(d, frame.pkt) /\ refused' = refused
      /\ log' = Logged(log, d, e)
      /\ inbox' = [inbox EXCEPT ![d] = Nothing]
      /\ UNCHANGED <<sent, clock>>
  BY <1>1 DEF Logged, Remember
<1>3. outQueue' = IF path = NoPath THEN outQueue
                  ELSE [outQueue EXCEPT ![d] = Append(IF full THEN Tail(@) ELSE @, copy)]
  BY <1>1
<1>4. path = IF lowMemory THEN StampOutOfMemory(frame.path, d, Mode[d])
                          ELSE Stamp(frame.path, d, Mode[d])
  OBVIOUS
<1> HIDE DEF path
<1>5. /\ inbox \in [Digis -> SUBSET Lawful(log, failures)] /\ outQueue \in [Digis -> Seq(Lawful(log, failures))]
      /\ \A x \in Digis : Cardinality(inbox[x]) <= 1 /\ Len(outQueue[x]) <= MaxOutQueue
      /\ log \in [Digis -> Seq(LogEntry)] /\ failures \in 0..MaxFailures /\ TypeOK
  BY DEF IInv, TypeOK, FramesLawful
<1>6. Lawful(log, failures) \subseteq Frame
  BY DEF Lawful
<1>7. frame.pkt \in Packets /\ frame \in Lawful(log, failures)
  BY <1>5, <1>6 DEF Frame
<1>8. (path # NoPath) \in BOOLEAN
  OBVIOUS
<1>9. FiltersInStep'
  BY <1>2, <1>7, <1>8, FiltersRemember
<1>10. /\ ring' \in [Digis -> [buf : [Slot -> Entry], head : Slot]]
       /\ e \in LogEntry /\ log' \in [Digis -> Seq(LogEntry)]
  BY <1>2, <1>5, <1>7, <1>8, RememberTypes
<1>11. Lawful(log, failures) \subseteq Lawful(log', failures') /\ Lawful(log', failures') \subseteq Frame
  <2>0. failures \in Nat /\ failures' \in Nat /\ failures <= failures'
    BY <1>2, <1>5, NetworkAssumption
  <2>1. Lawful(log, failures) \subseteq Lawful(Logged(log, d, e), failures')
    BY <1>5, <1>10, <2>0, LawfulGrows
  <2>2. QED
    BY <1>2, <2>1 DEF Lawful
<1>12. /\ inbox \in [Digis -> SUBSET Lawful(log', failures')]
       /\ outQueue \in [Digis -> Seq(Lawful(log', failures'))]
  BY <1>5, <1>11, Widened
<1>13. inbox' \in [Digis -> SUBSET Lawful(log', failures')] /\ \A x \in Digis : Cardinality(inbox'[x]) <= 1
  BY <1>2, <1>5, <1>11, <1>12, InboxRead
<1>14. /\ outQueue' \in [Digis -> Seq(Lawful(log', failures'))]
       /\ \A x \in Digis : Len(outQueue'[x]) <= MaxOutQueue
  <2>1. CASE path = NoPath
    BY <1>3, <1>5, <1>12, <2>1
  <2>2. CASE path # NoPath
    <3>1. e.pkt = frame.pkt /\ e.relayed
      BY <2>2
    <3>2. d \notin {Sender[frame.pkt], Addressee[frame.pkt]}
      BY <1>2 DEF Eligible
    <3> HIDE DEF e, copy
    <3>3. [frame EXCEPT !.path = path, !.trips = @ + 1] \in Lawful(Logged(log, d, e), failures')
      <4>1. failures \in Nat
        BY <1>5, NetworkAssumption
      <4>2. QED
        BY <1>2, <1>4, <1>5, <1>7, <1>10, <2>2, <3>1, <3>2, <4>1, RelayLawful
    <3>4. copy \in Lawful(log', failures')
      BY <1>2, <3>3 DEF copy
    <3>5. outQueue[d] \in Seq(Lawful(log', failures')) /\ Len(outQueue[d]) <= MaxOutQueue
      BY <1>5, <1>12
    <3>6. /\ Append(IF full THEN Tail(outQueue[d]) ELSE outQueue[d], copy) \in Seq(Lawful(log', failures'))
          /\ Len(Append(IF full THEN Tail(outQueue[d]) ELSE outQueue[d], copy)) <= MaxOutQueue
      BY <3>4, <3>5, QueueAppend
    <3>7. outQueue' = [outQueue EXCEPT
                         ![d] = Append(IF full THEN Tail(outQueue[d]) ELSE outQueue[d], copy)]
      BY <1>3, <2>2
    <3> DEFINE longer == Append(IF full THEN Tail(outQueue[d]) ELSE outQueue[d], copy)
    <3> HIDE DEF longer
    <3>8. outQueue' = [outQueue EXCEPT ![d] = longer]
      BY <3>7 DEF longer
    <3>9. longer \in Seq(Lawful(log', failures')) /\ Len(longer) <= MaxOutQueue
      BY <3>6 DEF longer
    <3>10. QED
      BY <1>5, <1>12, <3>8, <3>9
  <2>3. QED
    BY <2>1, <2>2
<1>15. failures' \in 0..MaxFailures
  BY <1>2, <1>5, NetworkAssumption
<1>16. outQueue' \in [Digis -> Seq(Frame)] /\ inbox' \in [Digis -> SUBSET Frame]
  BY <1>11, <1>13, <1>14, Widened
<1>17. TypeOK'
  BY <1>2, <1>5, <1>10, <1>13, <1>14, <1>15, <1>16 DEF TypeOK
<1>18. FramesLawful'
  BY <1>13, <1>14 DEF FramesLawful
<1>19. QED
  BY <1>9, <1>17, <1>18 DEF IInv

(* ... a queued copy is keyed,                                             *)
LEMMA KeyNextInv ==
  ASSUME IInv, NEW d \in Digis, KeyNext(d)
  PROVE  IInv'
<1>1. /\ outQueue[d] # <<>>
      /\ outQueue' = [outQueue EXCEPT ![d] = Tail(@)]
      /\ UNCHANGED <<ring, sent, failures, clock, log, refused>>
  BY DEF KeyNext
<1>2. PICK hearing \in SUBSET Hears[d] :
        inbox' = Reached(inbox, hearing, Head(outQueue[d]))
  BY DEF KeyNext, OnAir, Reached
<1>3. /\ inbox \in [Digis -> SUBSET Lawful(log, failures)] /\ outQueue \in [Digis -> Seq(Lawful(log, failures))]
      /\ outQueue \in [Digis -> Seq(Frame)]
      /\ \A x \in Digis : Cardinality(inbox[x]) <= 1 /\ Len(outQueue[x]) <= MaxOutQueue
      /\ TypeOK
  BY DEF IInv, TypeOK, FramesLawful
<1>4. Lawful(log, failures) \subseteq Frame
  BY DEF Lawful
<1>5. /\ outQueue[d] \in Seq(Lawful(log, failures)) /\ outQueue[d] \in Seq(Frame)
      /\ Len(outQueue[d]) <= MaxOutQueue
  BY <1>3
<1>6. Head(outQueue[d]) \in Lawful(log, failures) /\ Tail(outQueue[d]) \in Seq(Lawful(log, failures))
  BY <1>1, <1>5
<1>7. Tail(outQueue[d]) \in Seq(Frame) /\ Len(Tail(outQueue[d])) <= MaxOutQueue
  <2>1. Len(Tail(outQueue[d])) = Len(outQueue[d]) - 1 /\ Len(outQueue[d]) \in Nat
    BY <1>1, <1>5
  <2>2. MaxOutQueue \in Nat
    BY NetworkAssumption
  <2>3. Tail(outQueue[d]) \in Seq(Frame)
    BY <1>1, <1>5
  <2>4. QED
    BY <1>5, <2>1, <2>2, <2>3
<1>8. inbox' \in [Digis -> SUBSET Lawful(log, failures)] /\ \A x \in Digis : Cardinality(inbox'[x]) <= 1
  BY <1>2, <1>3, <1>4, <1>6, AirLawful
<1>9. /\ outQueue' \in [Digis -> Seq(Lawful(log, failures))] /\ outQueue' \in [Digis -> Seq(Frame)]
      /\ \A x \in Digis : Len(outQueue'[x]) <= MaxOutQueue
  BY <1>1, <1>3, <1>6, <1>7
<1>10. TypeOK'
  BY <1>1, <1>3, <1>4, <1>8, <1>9 DEF TypeOK
<1>11. FramesLawful'
  BY <1>1, <1>8, <1>9 DEF FramesLawful
<1>12. QED
  BY <1>1, <1>10, <1>11, FiltersStill DEF IInv

(* ... and time passes.                                                    *)
LEMMA AdvanceInv ==
  ASSUME IInv, Advance
  PROVE  IInv'
<1>1. /\ clock' = clock + 1 /\ clock < MaxClock
      /\ UNCHANGED <<ring, inbox, outQueue, sent, failures, log, refused>>
  BY DEF Advance
<1>2. TypeOK'
  <2>1. clock' \in 0..MaxClock
    BY <1>1, NetworkAssumption DEF IInv, TypeOK
  <2>2. QED
    BY <1>1, <2>1 DEF IInv, TypeOK
<1>3. FramesLawful'
  BY <1>1 DEF IInv, FramesLawful
<1>4. FiltersInStep'
  <2> SUFFICES ASSUME NEW d \in Digis
               PROVE  Ring(ring[d].buf, ring[d].head, clock + 1, AnswersOf(log[d]), refused[d])
    BY <1>1 DEF FiltersInStep
  <2>1. Ring(ring[d].buf, ring[d].head, clock, AnswersOf(log[d]), refused[d])
    BY DEF IInv, FiltersInStep
  <2>2. QED
    BY <2>1, RingTime
<1>5. QED
  BY <1>2, <1>3, <1>4 DEF IInv

(* Every step keeps it.                                                    *)
LEMMA NextIInv == IInv /\ [Next]_vars => IInv'
<1> SUFFICES ASSUME IInv, [Next]_vars PROVE IInv'
  OBVIOUS
<1>1. CASE UNCHANGED vars
  BY <1>1 DEF vars, IInv, TypeOK, FramesLawful, FiltersInStep
<1>2. CASE Next
  BY <1>2, SendPacketInv, SendOwnBeaconInv, IgnoreInv, DropDuplicateInv, ProcessInv,
     KeyNextInv, AdvanceInv DEF Next
<1>3. QED
  BY <1>1, <1>2

-----------------------------------------------------------------------------

(* What the invariant says of a frame in flight. *)
LEMMA FlightLawful == ASSUME IInv, NEW frame \in InFlight PROVE frame \in Lawful(log, failures)
<1>1. /\ inbox \in [Digis -> SUBSET Lawful(log, failures)] /\ outQueue \in [Digis -> Seq(Lawful(log, failures))]
  BY DEF IInv, FramesLawful
<1>2. CASE \E d \in Digis : frame \in inbox[d]
  BY <1>1, <1>2
<1>3. CASE \E d \in Digis : frame \in ToSet(outQueue[d])
  <2>1. PICK d \in Digis : frame \in ToSet(outQueue[d])
    BY <1>3
  <2>2. outQueue[d] \in Seq(Lawful(log, failures))
    BY <1>1
  <2>3. PICK i \in DOMAIN outQueue[d] : frame = outQueue[d][i]
    BY <2>1 DEF ToSet
  <2>4. i \in 1..Len(outQueue[d]) /\ \A k \in 1..Len(outQueue[d]) : outQueue[d][k] \in Lawful(log, failures)
    BY <2>2, <2>3, SeqParts
  <2>5. QED
    BY <2>3, <2>4
<1>4. QED
  BY <1>2, <1>3 DEF InFlight

(* Lawful frames keep the hop budget, and do not loop.                     *)
LEMMA IInvHopBudgetKept == IInv => HopBudgetKept
<1> SUFFICES ASSUME IInv, NEW frame \in InFlight
             PROVE  /\ Relays(frame.path, Digis) = Spent(frame)
                    /\ frame.trips \in Spent(frame) .. Spent(frame) + failures
  BY DEF HopBudgetKept
<1>1. frame \in Lawful(log, failures)
  BY FlightLawful
<1>2. frame.path \in Seq(Hops) /\ frame.first \in Seq(Hops)
  BY <1>1 DEF Lawful, Frame
<1>3. Budget(frame.path) \in Nat /\ Relays(frame.path, Digis) \in Nat
  <2>1. \A K : Count(frame.path, K) \in Nat
    BY <1>2, CountType
  <2>2. QED
    BY <2>1 DEF Budget, Relays
<1>4. /\ Budget(frame.path) + Relays(frame.path, Digis) = Budget(frame.first)
      /\ frame.trips \in Relays(frame.path, Digis) .. Relays(frame.path, Digis) + failures
  BY <1>1 DEF Lawful
<1>5. QED
  BY <1>3, <1>4 DEF Spent

(* The pauses between two relays come from the filter of the digipeater.   *)
LEMMA IInvNoLoop == IInv => NoLoop
<1> SUFFICES ASSUME IInv, NEW frame \in InFlight, NEW d \in Digis
             PROVE  /\ Relays(frame.path, {d}) <= Cardinality(Relayed(d, frame.pkt))
                    /\ d \in {Sender[frame.pkt], Addressee[frame.pkt]}
                         => Relays(frame.path, {d}) = 0
                    /\ \A i, j \in Relayed(d, frame.pkt) :
                         i < j => \/ log[d][j].at - log[d][i].at >= TTL
                                  \/ j - i > Slots
  BY DEF NoLoop
<1>1. frame \in Lawful(log, failures)
  BY FlightLawful
<1>2. Relayed(d, frame.pkt) = RelayedIn(log[d], frame.pkt)
  BY DEF Relayed, RelayedIn
<1>3. ASSUME NEW i \in Relayed(d, frame.pkt), NEW j \in Relayed(d, frame.pkt), i < j
      PROVE  log[d][j].at - log[d][i].at >= TTL \/ j - i > Slots
  <2> DEFINE acc == AnswersOf(log[d])
  <2>1. log[d] \in Seq(LogEntry) /\ Spaced(acc)
    BY DEF IInv, TypeOK, FiltersInStep, Ring
  <2>2. i \in 1..Len(log[d]) /\ j \in 1..Len(log[d]) /\ log[d][i].pkt = log[d][j].pkt
    BY DEF Relayed
  <2>3. Len(acc) = Len(log[d])
    BY <2>1 DEF AnswersOf
  <2>4. /\ acc[i].hash = Hash[log[d][i].pkt] /\ acc[j].hash = Hash[log[d][j].pkt]
        /\ acc[i].at = log[d][i].at /\ acc[j].at = log[d][j].at
    BY <2>2 DEF AnswersOf
  <2>5. log[d][i].at \in Nat /\ log[d][j].at \in Nat
    <3>1. log[d][i] \in LogEntry /\ log[d][j] \in LogEntry
      BY <2>1, <2>2
    <3>2. QED
      BY <3>1 DEF LogEntry
  <2> HIDE DEF acc
  <2>6. log[d][j].at - log[d][i].at < TTL => j - i > Slots
    BY <1>3, <2>1, <2>2, <2>3, <2>4 DEF Spaced
  <2>7. QED
    BY <2>5, <2>6, WrapAssumption
<1>4. QED
  BY <1>1, <1>2, <1>3 DEF Lawful

(* And of the filter of a digipeater. *)
LEMMA IInvFilters ==
  IInv => \A d \in Digis : Dedup(d)!RepeatNeedsEviction /\ Dedup(d)!SuppressionHasCause
<1> SUFFICES ASSUME IInv, NEW d \in Digis
             PROVE  Dedup(d)!RepeatNeedsEviction /\ Dedup(d)!SuppressionHasCause
  OBVIOUS
<1>1. Spaced(AnswersOf(log[d])) /\ Caused(AnswersOf(log[d]), refused[d])
  BY DEF IInv, FiltersInStep, Ring
<1>2. Dedup(d)!RepeatNeedsEviction
  BY <1>1, Zenon DEF Dedup!RepeatNeedsEviction, Spaced, AnswersOf
<1>3. Dedup(d)!SuppressionHasCause
  BY <1>1, Zenon DEF Dedup!SuppressionHasCause, Dedup!Millis, Millis, Caused, AnswersOf
<1>4. QED
  BY <1>2, <1>3

(* What a step does to the filter of digipeater x, in the terms of the     *)
(* network: it records a packet, refuses one, lets time pass or nothing.   *)
Still(x) == /\ ring'[x].buf = ring[x].buf /\ ring'[x].head = ring[x].head
            /\ AnswersOf(log'[x]) = AnswersOf(log[x])

Records(x) ==
  /\ clock' = clock /\ refused'[x] = refused[x]
  /\ \E h \in Word :
       /\ ~Holds(ring[x].buf, h, clock)
       /\ ring'[x].buf = Recorded(ring[x].buf, ring[x].head, h, clock)
       /\ ring'[x].head = NextSlot(ring[x].head)
       /\ AnswersOf(log'[x]) = Append(AnswersOf(log[x]), [hash |-> h, at |-> clock])

Refuses(x) ==
  /\ clock' = clock /\ Still(x)
  /\ \E h \in Word :
       /\ Holds(ring[x].buf, h, clock)
       /\ refused'[x] = {[hash |-> h, at |-> clock, after |-> Len(AnswersOf(log[x]))]}

Waits(x) == Still(x) /\ refused'[x] = refused[x] /\ clock' \in {clock, clock + 1}

FilterStep(x) == Records(x) \/ Refuses(x) \/ Waits(x)

(* Such a step is a step of PacketDedup.                                   *)
LEMMA FilterStepRefines ==
  ASSUME NEW x \in Digis, FilterStep(x)
  PROVE  [Dedup(x)!Next]_(Dedup(x)!vars)
<1>1. CASE Records(x)
  <2>1. \E h \in Dedup(x)!Word : Dedup(x)!Accept(h)
    BY <1>1, Zenon DEF Records, AnswersOf, Dedup!Accept, Dedup!IsDuplicate, Dedup!Holds, Holds,
       Dedup!Slot, Slot, Dedup!Age, Age, Dedup!Millis, Millis, Dedup!Recorded, Recorded,
       Dedup!NextSlot, NextSlot, Dedup!Word, Word
  <2>2. QED
    BY <2>1 DEF Dedup!Next
<1>2. CASE Refuses(x)
  <2>1. \E h \in Dedup(x)!Word : Dedup(x)!Suppress(h)
    BY <1>2, Zenon DEF Refuses, Still, AnswersOf, Dedup!Suppress, Dedup!IsDuplicate, Dedup!Holds,
       Holds, Dedup!Slot, Slot, Dedup!Age, Age, Dedup!Millis, Millis, Dedup!Word, Word
  <2>2. QED
    BY <2>1 DEF Dedup!Next
<1>3. CASE Waits(x) /\ clock' = clock + 1
  <2>1. Dedup(x)!Advance
    BY <1>3, Zenon DEF Waits, Still, AnswersOf, Dedup!Advance
  <2>2. QED
    BY <2>1 DEF Dedup!Next
<1>4. CASE Waits(x) /\ clock' = clock
  <2>1. UNCHANGED Dedup(x)!vars
    BY <1>4, Zenon DEF Waits, Still, AnswersOf, Dedup!vars
  <2>2. QED
    BY <2>1
<1>5. QED
  BY <1>1, <1>2, <1>3, <1>4 DEF FilterStep, Waits

(* At the start every filter is a PacketDedup at its start.                *)
LEMMA DedupInit == Init => \A d \in Digis : Dedup(d)!Init
<1> SUFFICES ASSUME Init, NEW d \in Digis PROVE Dedup(d)!Init
  OBVIOUS
<1>1. /\ ring[d].buf = [k \in Slot |-> Blank] /\ ring[d].head = 0 /\ clock = 0
      /\ log[d] = <<>> /\ refused[d] = {}
  BY DEF Init, Nothing
<1>2. [i \in 1..Len(log[d]) |-> [hash |-> Hash[log[d][i].pkt], at |-> log[d][i].at]] = <<>>
  BY <1>1
<1>3. QED
  BY <1>1, <1>2 DEF Dedup!Init, Dedup!Slot, Dedup!Blank, Slot, Blank

(* A new packet is recorded by one filter. *)
LEMMA RememberStep ==
  ASSUME IInv, NEW d \in Digis, NEW p \in Packets, NEW relayed \in BOOLEAN,
         ~Holds(ring[d].buf, Hash[p], clock), Remember(d, p), UNCHANGED clock,
         log' = Logged(log, d, [pkt |-> p, at |-> clock, relayed |-> relayed])
  PROVE  \A x \in Digis : FilterStep(x)
<1> DEFINE e == [pkt |-> p, at |-> clock, relayed |-> relayed]
<1>1. /\ ring' = [ring EXCEPT ![d] = [buf |-> Recorded(@.buf, @.head, Hash[p], clock),
                                     head |-> NextSlot(@.head)]]
      /\ refused' = refused /\ clock' = clock
  BY DEF Remember
<1>2. /\ ring \in [Digis -> [buf : [Slot -> Entry], head : Slot]]
      /\ log \in [Digis -> Seq(LogEntry)] /\ clock \in Nat /\ Hash[p] \in Word
  BY NetworkAssumption DEF IInv, TypeOK
<1>3. e \in LogEntry /\ e.pkt = p /\ e.at = clock
  BY <1>2 DEF LogEntry
<1> HIDE DEF e
<1>4. Records(d)
  <2>1. /\ ring'[d].buf = Recorded(ring[d].buf, ring[d].head, Hash[p], clock)
        /\ ring'[d].head = NextSlot(ring[d].head)
    BY <1>1, <1>2
  <2>2. log[d] \in Seq(LogEntry) /\ log'[d] = Append(log[d], e)
    BY <1>2 DEF Logged, e
  <2>3. AnswersOf(log'[d]) = Append(AnswersOf(log[d]), [hash |-> Hash[p], at |-> clock])
    BY <1>3, <2>2, AnswersAppend
  <2>4. QED
    BY <1>1, <1>2, <2>1, <2>3 DEF Records
<1>5. ASSUME NEW x \in Digis, x # d PROVE Waits(x)
  <2>1. ring'[x] = ring[x] /\ log'[x] = log[x]
    BY <1>1, <1>2, <1>5 DEF Logged
  <2>2. QED
    BY <1>1, <2>1 DEF Waits, Still
<1>6. QED
  BY <1>4, <1>5 DEF FilterStep

(* A duplicate is refused by one filter.                                   *)
LEMMA RefuseStep ==
  ASSUME IInv, NEW d \in Digis, NEW p \in Packets,
         Holds(ring[d].buf, Hash[p], clock), UNCHANGED <<ring, log, clock>>,
         refused' = [refused EXCEPT ![d] =
                       {[hash |-> Hash[p], at |-> clock, after |-> Len(log[d])]}]
  PROVE  \A x \in Digis : FilterStep(x)
<1>1. /\ log \in [Digis -> Seq(LogEntry)] /\ Hash[p] \in Word
      /\ refused \in [Digis -> SUBSET [hash : Word, at : Nat, after : Nat]]
  BY NetworkAssumption DEF IInv, TypeOK
<1>2. Len(AnswersOf(log[d])) = Len(log[d])
  <2>1. log[d] \in Seq(LogEntry)
    BY <1>1
  <2>2. Len(log[d]) \in Nat
    BY <2>1
  <2>3. QED
    BY <2>2 DEF AnswersOf
<1>3. Refuses(d)
  BY <1>1, <1>2 DEF Refuses, Still
<1>4. ASSUME NEW x \in Digis, x # d PROVE Waits(x)
  <2>1. refused'[x] = refused[x]
    BY <1>1, <1>4
  <2>2. QED
    BY <2>1 DEF Waits, Still
<1>5. QED
  BY <1>3, <1>4 DEF FilterStep

(* Every step of the network is such a step for every filter.              *)
LEMMA NextFilters ==
  ASSUME IInv, [Next]_vars
  PROVE  \A x \in Digis : FilterStep(x)
<1>1. ASSUME UNCHANGED <<ring, log, refused>>, clock' \in {clock, clock + 1}
      PROVE  \A x \in Digis : FilterStep(x)
  BY <1>1 DEF FilterStep, Waits, Still
<1>2. ASSUME NEW p \in Packets, SendOwnBeacon(p) PROVE \A x \in Digis : FilterStep(x)
  <2>1. Sender[p] \in Digis /\ UNCHANGED clock
    BY <1>2 DEF SendOwnBeacon
  <2>2. CASE Holds(ring[Sender[p]].buf, Hash[p], clock)
    BY <1>2, <2>1, <2>2, RefuseStep DEF SendOwnBeacon
  <2>3. CASE ~Holds(ring[Sender[p]].buf, Hash[p], clock)
    <3>1. /\ Remember(Sender[p], p)
          /\ log' = Logged(log, Sender[p], [pkt |-> p, at |-> clock, relayed |-> FALSE])
      BY <1>2, <2>3 DEF SendOwnBeacon, Logged
    <3>2. QED
      BY <2>1, <2>3, <3>1, RememberStep
  <2>4. QED
    BY <2>2, <2>3
<1>3. ASSUME NEW d \in Digis, DropDuplicate(d) PROVE \A x \in Digis : FilterStep(x)
  <2>1. PICK frame \in inbox[d] :
          /\ Holds(ring[d].buf, Hash[frame.pkt], clock)
          /\ refused' = [refused EXCEPT ![d] =
               {[hash |-> Hash[frame.pkt], at |-> clock, after |-> Len(log[d])]}]
          /\ UNCHANGED <<ring, clock, log>>
    BY <1>3 DEF DropDuplicate
  <2>2. frame.pkt \in Packets
    <3>1. frame \in Frame
      BY <1>3 DEF IInv, TypeOK
    <3>2. QED
      BY <3>1 DEF Frame
  <2>3. QED
    BY <2>1, <2>2, RefuseStep
<1>4. ASSUME NEW d \in Digis, Process(d) PROVE \A x \in Digis : FilterStep(x)
  <2>1. PICK frame \in inbox[d], relayed \in BOOLEAN :
          /\ ~Holds(ring[d].buf, Hash[frame.pkt], clock)
          /\ Remember(d, frame.pkt)
          /\ log' = [log EXCEPT ![d] =
               Append(@, [pkt |-> frame.pkt, at |-> clock, relayed |-> relayed])]
          /\ UNCHANGED clock
    BY <1>4 DEF Process
  <2>2. frame.pkt \in Packets
    <3>1. frame \in Frame
      BY <1>4 DEF IInv, TypeOK
    <3>2. QED
      BY <3>1 DEF Frame
  <2>3. log' = Logged(log, d, [pkt |-> frame.pkt, at |-> clock, relayed |-> relayed])
    BY <2>1 DEF Logged
  <2>4. QED
    BY <2>1, <2>2, <2>3, RememberStep
<1>5. QED
  BY <1>1, <1>2, <1>3, <1>4
     DEF Next, vars, SendPacket, Ignore, KeyNext, Advance

-----------------------------------------------------------------------------

(* Every frame in flight is lawful and every filter in step with its log,  *)
(* at all times: the inductive invariant behind the theorems below.        *)
THEOREM SpecIInv == Spec => []IInv
BY InitIInv, NextIInv, PTL DEF Spec

(* Inboxes hold one frame at most, output queues MaxOutQueue at most, and  *)
(* every variable is of its type (station_utils.cpp:115-125).              *)
THEOREM SpecTypeOK == Spec => []TypeOK
<1>1. IInv => TypeOK
  BY DEF IInv
<1>2. QED
  BY <1>1, SpecIInv, PTL

(* A path records a relay for every hop it has spent, and the packet has   *)
(* made no more relays than its sender asked for but for one per failed    *)
(* allocation, whatever the digipeaters and their modes                    *)
(* (digi_utils.cpp:36-75).                                                 *)
THEOREM SpecHopBudgetKept == Spec => []HopBudgetKept
BY IInvHopBudgetKept, SpecIInv, PTL

(* A packet does not loop: a digipeater stands in its path as often as it  *)
(* relayed it at most, never as its sender or addressee, and relays it     *)
(* again only after the TTL or Slots other packets                         *)
(* (digi_utils.cpp:97-135).                                                *)
THEOREM SpecNoLoop == Spec => []NoLoop
BY IInvNoLoop, SpecIInv, PTL

(* The filter of every digipeater answers "new" twice for a pair within    *)
(* the TTL only by eviction, and "duplicate" only with a cause             *)
(* (dedup_utils.h:22-31).                                                  *)
THEOREM SpecFilters ==
  Spec => [](\A d \in Digis : Dedup(d)!RepeatNeedsEviction /\ Dedup(d)!SuppressionHasCause)
BY IInvFilters, SpecIInv, PTL

(* The filter of each digipeater, fed by what it hears and by its own      *)
(* beacons, implements PacketDedup (station_utils.cpp:286-290).            *)
THEOREM SpecEachDigiDeduplicates == Spec => EachDigiDeduplicates
<1>1. Init => \A d \in Digis : Dedup(d)!Init
  BY DedupInit
<1>2. IInv /\ [Next]_vars => [\A d \in Digis : [Dedup(d)!Next]_(Dedup(d)!vars)]_vars
  <2> SUFFICES ASSUME IInv, [Next]_vars PROVE \A d \in Digis : [Dedup(d)!Next]_(Dedup(d)!vars)
    OBVIOUS
  <2>1. QED
    BY NextFilters, FilterStepRefines
<1>3. QED
  BY <1>1, <1>2, SpecIInv, PTL DEF Spec, EachDigiDeduplicates

-----------------------------------------------------------------------------

(* One filter by itself, as the digipeater, the iGate and the query        *)
(* handler each own one.                                                   *)
VARIABLES buf, head, accepted, suppressed

Filter == INSTANCE PacketDedup

FilterInv == Ring(buf, head, clock, accepted, suppressed)

(* Its ring is the same DedupRing. *)
LEMMA SameRing ==
  /\ Filter!Slot = Slot /\ Filter!Word = Word /\ Filter!Entry = Entry /\ Filter!Blank = Blank
  /\ \A t : Filter!Millis(t) = Millis(t)
  /\ \A k : Filter!NextSlot(k) = NextSlot(k)
  /\ \A b, h, t : Filter!Holds(b, h, t) <=> Holds(b, h, t)
  /\ \A b, hd, h, t : Filter!Recorded(b, hd, h, t) = Recorded(b, hd, h, t)
<1>1. Filter!Slot = Slot /\ Filter!Word = Word /\ Filter!Blank = Blank
  BY DEF Filter!Slot, Slot, Filter!Word, Word, Filter!Blank, Blank
<1>2. Filter!Entry = Entry
  BY <1>1 DEF Filter!Entry, Entry
<1>3. \A t : Filter!Millis(t) = Millis(t)
  BY DEF Filter!Millis, Millis
<1>4. \A k : Filter!NextSlot(k) = NextSlot(k)
  BY DEF Filter!NextSlot, NextSlot
<1>5. \A b, h, t : Filter!Holds(b, h, t) <=> Holds(b, h, t)
  BY Zenon DEF Filter!Holds, Holds, Filter!Slot, Slot, Filter!Age, Age, Filter!Millis, Millis
<1>6. \A b, hd, h, t : Filter!Recorded(b, hd, h, t) = Recorded(b, hd, h, t)
  BY Zenon DEF Filter!Recorded, Recorded, Filter!Millis, Millis
<1>7. QED
  BY <1>1, <1>2, <1>3, <1>4, <1>5, <1>6

(* It starts as a ring,                                                    *)
LEMMA FilterInit == Filter!Init => FilterInv
BY RingInit, SameRing DEF Filter!Init, FilterInv

(* ... and every call leaves it one.                                       *)
LEMMA FilterNext == FilterInv /\ [Filter!Next]_(Filter!vars) => FilterInv'
<1> SUFFICES ASSUME FilterInv, [Filter!Next]_(Filter!vars) PROVE FilterInv'
  OBVIOUS
<1>1. Ring(buf, head, clock, accepted, suppressed)
  BY DEF FilterInv
<1>2. ASSUME NEW h \in Word, Filter!Accept(h) PROVE FilterInv'
  <2>1. /\ ~Holds(buf, h, clock)
        /\ buf' = Recorded(buf, head, h, clock) /\ head' = NextSlot(head)
        /\ accepted' = Append(accepted, [hash |-> h, at |-> clock])
        /\ clock' = clock /\ suppressed' = suppressed
    BY <1>2, SameRing DEF Filter!Accept, Filter!IsDuplicate
  <2>2. Ring(Recorded(buf, head, h, clock), NextSlot(head), clock,
             Append(accepted, [hash |-> h, at |-> clock]), suppressed)
    BY <1>1, <2>1, RingAccept
  <2>3. QED
    BY <2>1, <2>2 DEF FilterInv
<1>3. ASSUME NEW h \in Word, Filter!Suppress(h) PROVE FilterInv'
  <2>1. /\ Holds(buf, h, clock)
        /\ suppressed' = {[hash |-> h, at |-> clock, after |-> Len(accepted)]}
        /\ UNCHANGED <<buf, head, clock, accepted>>
    BY <1>3, SameRing DEF Filter!Suppress, Filter!IsDuplicate
  <2>2. Ring(buf, head, clock, accepted,
             {[hash |-> h, at |-> clock, after |-> Len(accepted)]})
    BY <1>1, <2>1, RingRefuse
  <2>3. QED
    BY <2>1, <2>2 DEF FilterInv
<1>4. CASE Filter!Advance
  <2>1. Ring(buf, head, clock + 1, accepted, suppressed)
    BY <1>1, RingTime
  <2>2. QED
    BY <1>4, <2>1 DEF Filter!Advance, FilterInv
<1>5. CASE UNCHANGED Filter!vars
  BY <1>1, <1>5 DEF Filter!vars, FilterInv
<1>6. QED
  BY <1>2, <1>3, <1>4, <1>5, SameRing DEF Filter!Next

(* isNew() of include/dedup_utils.h:22-31, for every ring size, TTL and    *)
(* clock width: a pair passes twice within the TTL only by eviction, and   *)
(* none is dropped without a stored copy or a blank slot as the cause.     *)
THEOREM FilterCorrect ==
  Filter!Spec => [](Filter!TypeOK /\ Filter!RepeatNeedsEviction /\ Filter!SuppressionHasCause)
<1>1. FilterInv => Filter!TypeOK /\ Filter!RepeatNeedsEviction /\ Filter!SuppressionHasCause
  <2> SUFFICES ASSUME FilterInv
               PROVE  Filter!TypeOK /\ Filter!RepeatNeedsEviction /\ Filter!SuppressionHasCause
    OBVIOUS
  <2>1. /\ RingTypes(buf, head, clock, accepted, suppressed)
        /\ Spaced(accepted) /\ Caused(accepted, suppressed)
    BY DEF FilterInv, Ring
  <2>2. Filter!TypeOK
    BY <2>1, SameRing DEF Filter!TypeOK, RingTypes, Answer, Refusal, Filter!Call, Filter!Refusal
  <2>3. Filter!RepeatNeedsEviction /\ Filter!SuppressionHasCause
    BY <2>1, SameRing DEF Filter!RepeatNeedsEviction, Filter!SuppressionHasCause, Spaced, Caused
  <2>4. QED
    BY <2>2, <2>3
<1>2. QED
  BY <1>1, FilterInit, FilterNext, PTL DEF Filter!Spec
=============================================================================
