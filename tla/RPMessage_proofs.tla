-------------------------- MODULE RPMessage_proofs --------------------------
(***************************************************************************)
(* RPMessage and the virtqueues below it, for every number of buffers that *)
(* divides the width of the indices, every number of senders, endpoints    *)
(* and messages: no buffer and no block is lost, a woken receiver finds    *)
(* its message, and each virtqueue is a channel.  The invariant has three  *)
(* parts: ThreadInv (what a thread has and may do at its place), RingInv   *)
(* (the entries of the rings, the one owner of each buffer and what is     *)
(* under way) and EndpointInv (each semaphore counts its queue; the heap). *)
(* Most steps disturb one part: Quiet lemmas cover the others.             *)
(***************************************************************************)
EXTENDS RPMessage, FiniteSetTheorems, TLAPS

-----------------------------------------------------------------------------
(* Arithmetic of the rings                                                  *)

LEMMA Division ==
    ASSUME NEW n \in Nat \ {0}, NEW a \in Nat
    PROVE  \E q \in Nat, r \in 0 .. n - 1 : a = n * q + r /\ a % n = r
<1>1. PICK q, r \in Nat : q = a \div n /\ r = a % n /\ r \in 0 .. n - 1
  OBVIOUS
<1>2. a = n * q + r
  BY <1>1
<1> QED BY <1>1, <1>2

LEMMA Remainder ==
    ASSUME NEW n \in Nat \ {0}, NEW q \in Nat, NEW r \in 0 .. n - 1
    PROVE  (n * q + r) % n = r
BY Z3

LEMMA RemainderOfSum ==
    ASSUME NEW n \in Nat \ {0}, NEW a \in Nat, NEW b \in Nat
    PROVE  (a + b) % n = ((a % n) + b) % n
<1>1. PICK q \in Nat, r \in 0 .. n - 1 : a = n * q + r /\ a % n = r
  BY Division
<1>2. PICK q2 \in Nat, r2 \in 0 .. n - 1 : r + b = n * q2 + r2 /\ (r + b) % n = r2
  BY Division
<1>3. a + b = n * (q + q2) + r2
  BY <1>1, <1>2, Z3
<1>4. (n * (q + q2) + r2) % n = r2
  BY Remainder
<1> QED BY <1>1, <1>2, <1>3, <1>4

LEMMA SmallRemainder ==
    ASSUME NEW n \in Nat \ {0}, NEW a \in 0 .. n + n - 1
    PROVE  a % n = IF a < n THEN a ELSE a - n
<1>1. CASE a < n
  <2>1. a = n * 0 + a
    OBVIOUS
  <2>2. (n * 0 + a) % n = a
    BY <1>1, Remainder
  <2> QED BY <1>1, <2>1, <2>2
<1>2. CASE a >= n
  <2>1. a = n * 1 + (a - n)
    OBVIOUS
  <2>2. (n * 1 + (a - n)) % n = a - n
    BY <1>2, Remainder
  <2> QED BY <1>2, <2>1, <2>2
<1> QED BY <1>1, <1>2

\* What Width % Num = 0 is for: counting modulo Width keeps the place in the ring.
LEMMA WrapKeepsPlace == \A a \in Nat : (a + Width) % Num = a % Num
<1> SUFFICES ASSUME NEW a \in Nat PROVE (a + Width) % Num = a % Num
  OBVIOUS
<1>1. (Width + a) % Num = ((Width % Num) + a) % Num
  BY RemainderOfSum, RingAssumption
<1> QED BY <1>1, RingAssumption

\* The entries from one index to another, and the place of the k-th of them.
Count(from, to) == (to + Width - from) % Width
Place(i, k) == (i + k) % Num

LEMMA IncValue ==
    \A i \in Indices : Inc(i) \in Indices /\ Inc(i) = IF i = Width - 1 THEN 0 ELSE i + 1
<1> SUFFICES ASSUME NEW i \in Indices
             PROVE  Inc(i) \in Indices /\ Inc(i) = IF i = Width - 1 THEN 0 ELSE i + 1
  OBVIOUS
<1>1. Width \in Nat \ {0}
  BY RingAssumption
<1>2. PICK a \in 0 .. Width + Width - 1 : a = i + 1
  BY <1>1 DEF Indices
<1>3. a % Width = IF a < Width THEN a ELSE a - Width
  BY <1>1, SmallRemainder
<1> QED BY <1>1, <1>2, <1>3 DEF Indices, Inc

LEMMA CountValue ==
    \A i, j \in Indices :
        Count(i, j) \in Indices /\ Count(i, j) = IF i <= j THEN j - i ELSE j + Width - i
<1> SUFFICES ASSUME NEW i \in Indices, NEW j \in Indices
             PROVE  /\ Count(i, j) \in Indices
                    /\ Count(i, j) = IF i <= j THEN j - i ELSE j + Width - i
  OBVIOUS
<1>1. Width \in Nat \ {0}
  BY RingAssumption
<1>2. PICK a \in 0 .. Width + Width - 1 : a = j + Width - i
  BY <1>1 DEF Indices
<1>3. a % Width = IF a < Width THEN a ELSE a - Width
  BY <1>1, SmallRemainder
<1> QED BY <1>1, <1>2, <1>3 DEF Indices, Count

LEMMA CountZero == \A i, j \in Indices : Count(i, j) = 0 <=> i = j
<1> SUFFICES ASSUME NEW i \in Indices, NEW j \in Indices PROVE Count(i, j) = 0 <=> i = j
  OBVIOUS
<1>1. Count(i, j) = IF i <= j THEN j - i ELSE j + Width - i
  BY CountValue
<1> QED BY <1>1, RingAssumption DEF Indices

\* One entry less when the reader moves on, one more when the writer does.
LEMMA CountTaken ==
    \A i, j \in Indices : i # j => Count(i, j) > 0 /\ Count(Inc(i), j) = Count(i, j) - 1
<1> SUFFICES ASSUME NEW i \in Indices, NEW j \in Indices, i # j
             PROVE  Count(i, j) > 0 /\ Count(Inc(i), j) = Count(i, j) - 1
  OBVIOUS
<1>1. Count(i, j) = IF i <= j THEN j - i ELSE j + Width - i
  BY CountValue
<1>2. Inc(i) \in Indices /\ Inc(i) = IF i = Width - 1 THEN 0 ELSE i + 1
  BY IncValue
<1>3. Count(Inc(i), j) = IF Inc(i) <= j THEN j - Inc(i) ELSE j + Width - Inc(i)
  BY <1>2, CountValue
<1> QED BY <1>1, <1>2, <1>3, RingAssumption DEF Indices

LEMMA CountAdded ==
    \A i, j \in Indices : Count(i, j) < Width - 1 => Count(i, Inc(j)) = Count(i, j) + 1
<1> SUFFICES ASSUME NEW i \in Indices, NEW j \in Indices, Count(i, j) < Width - 1
             PROVE  Count(i, Inc(j)) = Count(i, j) + 1
  OBVIOUS
<1>1. Count(i, j) = IF i <= j THEN j - i ELSE j + Width - i
  BY CountValue
<1>2. Inc(j) \in Indices /\ Inc(j) = IF j = Width - 1 THEN 0 ELSE j + 1
  BY IncValue
<1>3. Count(i, Inc(j)) = IF i <= Inc(j) THEN Inc(j) - i ELSE Inc(j) + Width - i
  BY <1>2, CountValue
<1> QED BY <1>1, <1>2, <1>3, RingAssumption DEF Indices

LEMMA PlaceType == \A i, k \in Nat : Place(i, k) \in Tokens
BY RingAssumption DEF Place, Tokens

LEMMA PlaceFirst == \A i \in Nat : Place(i, 0) = i % Num
BY DEF Place

LEMMA PlaceInc == \A i \in Indices, k \in Nat : Place(Inc(i), k) = Place(i, k + 1)
<1> SUFFICES ASSUME NEW i \in Indices, NEW k \in Nat PROVE Place(Inc(i), k) = Place(i, k + 1)
  OBVIOUS
<1>1. CASE i = Width - 1
  <2>1. i + (k + 1) = k + Width /\ Inc(i) = 0
    BY <1>1, IncValue, RingAssumption
  <2> QED BY <2>1, WrapKeepsPlace DEF Place
<1>2. CASE i # Width - 1
  <2>1. i + (k + 1) = Inc(i) + k
    BY <1>2, IncValue, RingAssumption DEF Indices
  <2> QED BY <2>1 DEF Place
<1> QED BY <1>1, <1>2

LEMMA PlaceOfCount == \A i, j \in Indices : Place(i, Count(i, j)) = j % Num
<1> SUFFICES ASSUME NEW i \in Indices, NEW j \in Indices PROVE Place(i, Count(i, j)) = j % Num
  OBVIOUS
<1>1. CASE i <= j
  <2>1. i + Count(i, j) = j
    BY <1>1, CountValue, RingAssumption DEF Indices
  <2> QED BY <2>1 DEF Place
<1>2. CASE ~ (i <= j)
  <2>1. i + Count(i, j) = j + Width
    BY <1>2, CountValue, RingAssumption DEF Indices
  <2> QED BY <2>1, WrapKeepsPlace DEF Place, Indices
<1> QED BY <1>1, <1>2

LEMMA PlaceInjective ==
    \A i \in Nat : \A k, l \in 0 .. Num - 1 : Place(i, k) = Place(i, l) => k = l
<1> SUFFICES ASSUME NEW i \in Nat, NEW k \in 0 .. Num - 1, NEW l \in 0 .. Num - 1,
                    Place(i, k) = Place(i, l)
             PROVE  k = l
  OBVIOUS
<1>1. Num \in Nat \ {0} /\ k \in Nat /\ l \in Nat
  BY RingAssumption
<1>2. (i + k) % Num = ((i % Num) + k) % Num /\ (i + l) % Num = ((i % Num) + l) % Num
  BY <1>1, RemainderOfSum
<1>3. PICK r \in 0 .. Num - 1 : r = i % Num
  BY <1>1
<1>4. PICK a, b \in 0 .. Num + Num - 1 : a = r + k /\ b = r + l
  BY <1>1
<1>5. /\ a % Num = IF a < Num THEN a ELSE a - Num
      /\ b % Num = IF b < Num THEN b ELSE b - Num
  BY <1>1, SmallRemainder
<1>6. a % Num = b % Num
  BY <1>2, <1>3, <1>4 DEF Place
<1> QED BY <1>1, <1>3, <1>4, <1>5, <1>6

-----------------------------------------------------------------------------
(* A ring: its entries between two indices are buffers, each once           *)

RingSound(ring, from, to) ==
    /\ Count(from, to) <= Num
    /\ \A k, l \in 0 .. Count(from, to) - 1 :
          ring[Place(from, k)] = ring[Place(from, l)] => k = l

LEMMA BetweenIs ==
    ASSUME NEW ring, NEW from, NEW to
    PROVE  Between(ring, from, to) = {ring[Place(from, k)] : k \in 0 .. Count(from, to) - 1}
BY DEF Between, Place, Count

LEMMA RingTake ==
    ASSUME NEW ring \in [Tokens -> Tokens], NEW i \in Indices, NEW j \in Indices, i # j,
           RingSound(ring, i, j)
    PROVE  /\ ring[i % Num] \in Tokens /\ ring[i % Num] \in Between(ring, i, j)
           /\ RingSound(ring, Inc(i), j)
           /\ Between(ring, Inc(i), j) = Between(ring, i, j) \ {ring[i % Num]}
<1> DEFINE n == Count(i, j)
<1>1. i \in Nat /\ n \in Nat /\ n > 0 /\ n <= Num /\ Count(Inc(i), j) = n - 1 /\ Inc(i) \in Indices
  BY CountTaken, CountValue, IncValue, RingAssumption DEF Indices, RingSound
<1>2. Place(i, 0) = i % Num /\ i % Num \in Tokens
  BY <1>1, PlaceFirst, PlaceType
<1>3. \A k \in 0 .. n - 2 : Place(Inc(i), k) = Place(i, k + 1)
  BY PlaceInc, <1>1
<1>4. \A k, l \in 0 .. n - 1 : ring[Place(i, k)] = ring[Place(i, l)] => k = l
  BY DEF RingSound
<1> HIDE DEF n
<1>5. RingSound(ring, Inc(i), j)
  <2>1. ASSUME NEW k \in 0 .. n - 2, NEW l \in 0 .. n - 2,
               ring[Place(Inc(i), k)] = ring[Place(Inc(i), l)]
        PROVE  k = l
    <3>1. ring[Place(i, k + 1)] = ring[Place(i, l + 1)] /\ k + 1 \in 0 .. n - 1 /\ l + 1 \in 0 .. n - 1
      BY <2>1, <1>1, <1>3
    <3>2. k + 1 = l + 1
      BY <3>1, <1>4
    <3> QED BY <3>2
  <2>2. n - 1 - 1 = n - 2 /\ n - 1 <= Num
    BY <1>1, RingAssumption
  <2> QED BY <1>1, <2>1, <2>2 DEF RingSound
<1>6. /\ Between(ring, i, j) = {ring[Place(i, k)] : k \in 0 .. n - 1}
      /\ Between(ring, Inc(i), j) = {ring[Place(Inc(i), k)] : k \in 0 .. n - 2}
  <2>1. n - 1 - 1 = n - 2
    BY <1>1
  <2> QED BY <1>1, <2>1, BetweenIs DEF n
<1>7. {ring[Place(Inc(i), k)] : k \in 0 .. n - 2} = {ring[Place(i, k)] : k \in 0 .. n - 1} \ {ring[Place(i, 0)]}
  <2>1. ASSUME NEW k \in 0 .. n - 2
        PROVE  ring[Place(Inc(i), k)] \in {ring[Place(i, l)] : l \in 0 .. n - 1} \ {ring[Place(i, 0)]}
    <3>1. k + 1 \in 0 .. n - 1 /\ 0 \in 0 .. n - 1 /\ ring[Place(Inc(i), k)] = ring[Place(i, k + 1)]
      BY <1>1, <1>3
    <3>2. ring[Place(i, k + 1)] # ring[Place(i, 0)]
      BY <1>4, <3>1
    <3> QED BY <3>1, <3>2
  <2>2. ASSUME NEW k \in 0 .. n - 1, ring[Place(i, k)] # ring[Place(i, 0)]
        PROVE  ring[Place(i, k)] \in {ring[Place(Inc(i), l)] : l \in 0 .. n - 2}
    <3>1. PICK l \in 0 .. n - 2 : l + 1 = k
      <4>1. k # 0
        BY <2>2
      <4>2. k - 1 \in 0 .. n - 2 /\ (k - 1) + 1 = k
        BY <1>1, <4>1
      <4> QED BY <4>2
    <3>2. ring[Place(Inc(i), l)] = ring[Place(i, k)]
      BY <1>3, <3>1
    <3> QED BY <3>2
  <2> QED BY <2>1, <2>2
<1>8. ring[Place(i, 0)] \in {ring[Place(i, k)] : k \in 0 .. n - 1}
  <2>1. 0 \in 0 .. n - 1
    BY <1>1
  <2> QED BY <2>1
<1> QED BY <1>2, <1>5, <1>6, <1>7, <1>8

\* The place that is written next is not one of those between the two indices.
LEMMA RingPlaces ==
    ASSUME NEW i \in Indices, NEW j \in Indices, Count(i, j) < Num,
           NEW k \in 0 .. Count(i, j) - 1
    PROVE  Place(i, k) \in Tokens /\ Place(i, k) # j % Num
<1> DEFINE n == Count(i, j)
<1>1. i \in Nat /\ n \in Nat /\ n < Num
  BY CountValue DEF Indices
<1>2. Place(i, n) = j % Num
  BY PlaceOfCount
<1> HIDE DEF n
<1>3. k \in 0 .. Num - 1 /\ n \in 0 .. Num - 1 /\ k # n /\ k \in Nat
  BY <1>1, RingAssumption DEF n
<1> QED BY <1>1, <1>2, <1>3, PlaceInjective, PlaceType

LEMMA RingSame ==
    ASSUME NEW i, NEW j, NEW ring, NEW ring2, RingSound(ring, i, j),
           \A k \in 0 .. Count(i, j) - 1 : ring2[Place(i, k)] = ring[Place(i, k)]
    PROVE  RingSound(ring2, i, j) /\ Between(ring2, i, j) = Between(ring, i, j)
<1>1. {ring2[Place(i, k)] : k \in 0 .. Count(i, j) - 1}
        = {ring[Place(i, k)] : k \in 0 .. Count(i, j) - 1}
  OBVIOUS
<1>2. RingSound(ring2, i, j)
  BY DEF RingSound
<1> QED BY <1>1, <1>2, BetweenIs

LEMMA RingPublish ==
    ASSUME NEW ring \in [Tokens -> Tokens], NEW i \in Indices, NEW j \in Indices,
           RingSound(ring, i, j), Count(i, j) < Num,
           ring[j % Num] \notin Between(ring, i, j)
    PROVE  /\ Count(i, Inc(j)) = Count(i, j) + 1
           /\ Place(i, Count(i, j)) = j % Num
           /\ RingSound(ring, i, Inc(j))
           /\ Between(ring, i, Inc(j)) = Between(ring, i, j) \cup {ring[j % Num]}
<1> DEFINE n == Count(i, j)
<1>1. i \in Nat /\ j \in Nat /\ n \in Nat /\ n < Num /\ Count(i, Inc(j)) = n + 1
  BY CountValue, CountAdded, RingAssumption DEF Indices
<1>2. Place(i, n) = j % Num
  BY PlaceOfCount
<1>3. /\ Between(ring, i, j) = {ring[Place(i, k)] : k \in 0 .. n - 1}
      /\ Between(ring, i, Inc(j)) = {ring[Place(i, k)] : k \in 0 .. n}
  <2>1. n + 1 - 1 = n
    BY <1>1
  <2> QED BY <1>1, <2>1, BetweenIs
<1>4. \A k, l \in 0 .. n - 1 : ring[Place(i, k)] = ring[Place(i, l)] => k = l
  BY DEF RingSound
<1> HIDE DEF n
<1>5. \A k \in 0 .. n - 1 : ring[Place(i, k)] # ring[Place(i, n)]
  BY <1>2, <1>3
<1>6. \A k, l \in 0 .. n : ring[Place(i, k)] = ring[Place(i, l)] => k = l
  <2> SUFFICES ASSUME NEW k \in 0 .. n, NEW l \in 0 .. n, ring[Place(i, k)] = ring[Place(i, l)]
               PROVE  k = l
    OBVIOUS
  <2>1. /\ k = n \/ k \in 0 .. n - 1
        /\ l = n \/ l \in 0 .. n - 1
    BY <1>1
  <2> QED BY <2>1, <1>4, <1>5
<1>7. RingSound(ring, i, Inc(j))
  <2>1. n + 1 - 1 = n /\ n + 1 <= Num
    BY <1>1, RingAssumption
  <2> QED BY <1>1, <1>6, <2>1 DEF RingSound
<1>8. {ring[Place(i, k)] : k \in 0 .. n} = {ring[Place(i, k)] : k \in 0 .. n - 1} \cup {ring[Place(i, n)]}
  <2>1. 0 .. n = (0 .. n - 1) \cup {n}
    BY <1>1
  <2> QED BY <2>1
<1> QED BY <1>1, <1>2, <1>3, <1>7, <1>8 DEF n

\* A ring that lacks a buffer has room for it.
LEMMA RingRoom ==
    ASSUME NEW ring \in [Tokens -> Tokens], NEW i \in Indices, NEW j \in Indices, NEW t \in Tokens,
           RingSound(ring, i, j), t \notin Between(ring, i, j)
    PROVE  Count(i, j) < Num
<1> SUFFICES ASSUME Count(i, j) = Num PROVE FALSE
  BY CountValue, RingAssumption DEF RingSound, Indices
<1> DEFINE f == [k \in Tokens |-> ring[Place(i, k)]]
<1>1. i \in Nat /\ \A k \in Tokens : k \in Nat
  BY RingAssumption DEF Indices, Tokens
<1>2. \A k \in Tokens : f[k] \in Tokens
  BY <1>1, PlaceType
<1>3. Between(ring, i, j) = {f[k] : k \in Tokens}
  <2>1. Between(ring, i, j) = {ring[Place(i, k)] : k \in Tokens}
    BY BetweenIs DEF Tokens
  <2> QED BY <2>1
<1>4. \A k, l \in Tokens : f[k] = f[l] => k = l
  BY DEF RingSound, Tokens
<1> HIDE DEF f
<1>5. IsFiniteSet(Tokens) /\ Cardinality(Tokens) = Num
  <2>1. Num - 1 >= 0
    BY RingAssumption
  <2> QED BY <2>1, FS_Interval, RingAssumption DEF Tokens
<1>6. f \in Injection(Tokens, Tokens \ {t})
  <2>1. f \in [Tokens -> Tokens \ {t}]
    BY <1>2, <1>3 DEF f
  <2> QED BY <2>1, <1>4 DEF Injection, IsInjective
<1>7. IsFiniteSet(Tokens \ {t}) /\ Cardinality(Tokens \ {t}) = Num - 1
  BY <1>5, FS_RemoveElement
<1> QED BY <1>5, <1>6, <1>7, FS_Injection, RingAssumption

-----------------------------------------------------------------------------
(* What a step of a virtqueue changes                                       *)

VirtQueueRecords ==
    [buf : [Tokens -> Messages \cup {NoMsg}],
     avail : [Tokens -> Tokens], availIdx : Indices,
     used : [Tokens -> Tokens], usedIdx : Indices,
     noNotify : BOOLEAN, lastAvail : Indices, lastUsed : Indices, numFree : 0 .. Num + 1]

LEMMA VirtQueueChange ==
    ASSUME VirtQueueTypeOK, NEW q \in VirtQueues, NEW n \in VirtQueueRecords,
           vq' = [vq EXCEPT ![q] = n]
    PROVE  VirtQueueTypeOK' /\ vq'[q] = n /\ \A p \in VirtQueues \ {q} : vq'[p] = vq[p]
BY DEF VirtQueueTypeOK, VirtQueueRecords

LEMMA VirtQueueType ==
    ASSUME VirtQueueTypeOK, NEW q \in VirtQueues
    PROVE  /\ vq[q] \in VirtQueueRecords
           /\ vq[q].buf \in [Tokens -> Messages \cup {NoMsg}]
           /\ vq[q].avail \in [Tokens -> Tokens] /\ vq[q].availIdx \in Indices
           /\ vq[q].used \in [Tokens -> Tokens] /\ vq[q].usedIdx \in Indices
           /\ vq[q].lastAvail \in Indices /\ vq[q].lastUsed \in Indices
           /\ vq[q].numFree \in 0 .. Num + 1
BY DEF VirtQueueTypeOK, VirtQueueRecords

OnlyChanges(q) == VirtQueueTypeOK' /\ \A p \in VirtQueues \ {q} : vq'[p] = vq[p]

LEMMA ClearEffect ==
    ASSUME VirtQueueTypeOK, NEW q \in VirtQueues, ClearNoNotify(q)
    PROVE  /\ OnlyChanges(q)
           /\ vq'[q].buf = vq[q].buf
           /\ vq'[q].avail = vq[q].avail /\ vq'[q].availIdx = vq[q].availIdx
           /\ vq'[q].used = vq[q].used /\ vq'[q].usedIdx = vq[q].usedIdx
           /\ vq'[q].lastAvail = vq[q].lastAvail /\ vq'[q].lastUsed = vq[q].lastUsed
           /\ vq'[q].numFree = vq[q].numFree
<1>1. PICK v \in VirtQueueRecords : v = vq[q]
  BY VirtQueueType
<1> DEFINE n == [v EXCEPT !.noNotify = FALSE]
<1>2. vq' = [vq EXCEPT ![q] = n]
  BY <1>1 DEF ClearNoNotify
<1>3. /\ n \in VirtQueueRecords
      /\ n.buf = v.buf /\ n.avail = v.avail /\ n.availIdx = v.availIdx
      /\ n.used = v.used /\ n.usedIdx = v.usedIdx
      /\ n.lastAvail = v.lastAvail /\ n.lastUsed = v.lastUsed /\ n.numFree = v.numFree
  BY DEF VirtQueueRecords
<1> HIDE DEF n
<1> QED BY <1>1, <1>2, <1>3, VirtQueueChange DEF OnlyChanges

LEMMA TakeAvailEffect ==
    ASSUME VirtQueueTypeOK, NEW q \in VirtQueues, TakeAvail(q)
    PROVE  /\ OnlyChanges(q)
           /\ vq'[q].buf = vq[q].buf
           /\ vq'[q].avail = vq[q].avail /\ vq'[q].availIdx = vq[q].availIdx
           /\ vq'[q].used = vq[q].used /\ vq'[q].usedIdx = vq[q].usedIdx
           /\ vq'[q].lastAvail = Inc(vq[q].lastAvail) /\ vq'[q].lastUsed = vq[q].lastUsed
           /\ vq'[q].numFree = vq[q].numFree
<1>1. PICK v \in VirtQueueRecords : v = vq[q]
  BY VirtQueueType
<1>2. PICK i \in Indices : i = Inc(v.lastAvail)
  BY IncValue DEF VirtQueueRecords
<1> DEFINE n == [v EXCEPT !.noNotify = TRUE, !.lastAvail = i]
<1>3. vq' = [vq EXCEPT ![q] = n]
  BY <1>1, <1>2 DEF TakeAvail, VirtQueueTypeOK
<1>4. /\ n \in VirtQueueRecords
      /\ n.buf = v.buf /\ n.avail = v.avail /\ n.availIdx = v.availIdx
      /\ n.used = v.used /\ n.usedIdx = v.usedIdx
      /\ n.lastAvail = i /\ n.lastUsed = v.lastUsed /\ n.numFree = v.numFree
  BY DEF VirtQueueRecords
<1> HIDE DEF n
<1> QED BY <1>1, <1>2, <1>3, <1>4, VirtQueueChange DEF OnlyChanges

LEMMA WriteUsedEffect ==
    ASSUME VirtQueueTypeOK, NEW q \in VirtQueues, NEW t \in Tokens, NEW m \in Messages \cup {NoMsg},
           WriteUsed(q, t, m)
    PROVE  /\ OnlyChanges(q)
           /\ vq'[q].buf = [vq[q].buf EXCEPT ![t] = m]
           /\ vq'[q].avail = vq[q].avail /\ vq'[q].availIdx = vq[q].availIdx
           /\ vq'[q].used = [vq[q].used EXCEPT ![vq[q].usedIdx % Num] = t]
           /\ vq'[q].usedIdx = vq[q].usedIdx
           /\ vq'[q].lastAvail = vq[q].lastAvail /\ vq'[q].lastUsed = vq[q].lastUsed
           /\ vq'[q].numFree = vq[q].numFree
<1>1. PICK v \in VirtQueueRecords : v = vq[q]
  BY VirtQueueType
<1>2. PICK k \in Tokens : k = v.usedIdx % Num
  BY PlaceFirst, PlaceType DEF VirtQueueRecords, Indices
<1>3. PICK b \in [Tokens -> Messages \cup {NoMsg}] : b = [v.buf EXCEPT ![t] = m]
  BY DEF VirtQueueRecords
<1>4. PICK u \in [Tokens -> Tokens] : u = [v.used EXCEPT ![k] = t]
  BY DEF VirtQueueRecords
<1> DEFINE n == [v EXCEPT !.buf = b, !.used = u]
<1>5. vq' = [vq EXCEPT ![q] = n]
  <2> DEFINE v2 == [v EXCEPT !.buf = b]
             w == [vq EXCEPT ![q] = v2]
  <2>1. /\ v2.used = v.used /\ [v2 EXCEPT !.used = u] = n
        /\ [v EXCEPT !.buf[t] = m] = v2
    BY <1>3 DEF VirtQueueRecords
  <2>2. [vq EXCEPT ![q].buf[t] = m] = w
    BY <1>1, <2>1 DEF VirtQueueTypeOK
  <2>3. vq' = [w EXCEPT ![q].used[k] = t]
    BY <1>1, <1>2, <2>2 DEF WriteUsed
  <2>4. w[q] = v2 /\ [v2 EXCEPT !.used[k] = t] = n
    BY <1>4, <2>1 DEF VirtQueueTypeOK
  <2> QED BY <2>3, <2>4 DEF VirtQueueTypeOK
<1>6. /\ n \in VirtQueueRecords
      /\ n.buf = b /\ n.avail = v.avail /\ n.availIdx = v.availIdx
      /\ n.used = u /\ n.usedIdx = v.usedIdx
      /\ n.lastAvail = v.lastAvail /\ n.lastUsed = v.lastUsed /\ n.numFree = v.numFree
  BY DEF VirtQueueRecords
<1> HIDE DEF n
<1>8. OnlyChanges(q) /\ vq'[q] = n
  BY <1>5, <1>6, VirtQueueChange DEF OnlyChanges
<1>9. /\ b = [vq[q].buf EXCEPT ![t] = m]
      /\ u = [vq[q].used EXCEPT ![vq[q].usedIdx % Num] = t]
  BY <1>1, <1>2, <1>3, <1>4
<1> QED BY <1>1, <1>6, <1>8, <1>9

LEMMA PublishUsedEffect ==
    ASSUME VirtQueueTypeOK, NEW q \in VirtQueues, PublishUsed(q)
    PROVE  /\ OnlyChanges(q)
           /\ vq'[q].buf = vq[q].buf
           /\ vq'[q].avail = vq[q].avail /\ vq'[q].availIdx = vq[q].availIdx
           /\ vq'[q].used = vq[q].used /\ vq'[q].usedIdx = Inc(vq[q].usedIdx)
           /\ vq'[q].lastAvail = vq[q].lastAvail /\ vq'[q].lastUsed = vq[q].lastUsed
           /\ vq'[q].numFree = vq[q].numFree
<1>1. PICK v \in VirtQueueRecords : v = vq[q]
  BY VirtQueueType
<1>2. PICK i \in Indices : i = Inc(v.usedIdx)
  BY IncValue DEF VirtQueueRecords
<1> DEFINE n == [v EXCEPT !.usedIdx = i]
<1>3. vq' = [vq EXCEPT ![q] = n]
  BY <1>1, <1>2 DEF PublishUsed, VirtQueueTypeOK
<1>4. /\ n \in VirtQueueRecords
      /\ n.buf = v.buf /\ n.avail = v.avail /\ n.availIdx = v.availIdx
      /\ n.used = v.used /\ n.usedIdx = i
      /\ n.lastAvail = v.lastAvail /\ n.lastUsed = v.lastUsed /\ n.numFree = v.numFree
  BY DEF VirtQueueRecords
<1> HIDE DEF n
<1> QED BY <1>1, <1>2, <1>3, <1>4, VirtQueueChange DEF OnlyChanges

LEMMA TakeUsedEffect ==
    ASSUME VirtQueueTypeOK, NEW q \in VirtQueues, TakeUsed(q), vq[q].numFree <= Num
    PROVE  /\ OnlyChanges(q)
           /\ vq'[q].buf = vq[q].buf
           /\ vq'[q].avail = vq[q].avail /\ vq'[q].availIdx = vq[q].availIdx
           /\ vq'[q].used = vq[q].used /\ vq'[q].usedIdx = vq[q].usedIdx
           /\ vq'[q].lastAvail = vq[q].lastAvail /\ vq'[q].lastUsed = Inc(vq[q].lastUsed)
           /\ vq'[q].numFree = vq[q].numFree + 1
<1>1. PICK v \in VirtQueueRecords : v = vq[q]
  BY VirtQueueType
<1>2. PICK i \in Indices : i = Inc(v.lastUsed)
  BY IncValue DEF VirtQueueRecords
<1>3. PICK k \in 0 .. Num + 1 : k = v.numFree + 1
  BY <1>1, RingAssumption DEF VirtQueueRecords
<1> DEFINE n == [v EXCEPT !.lastUsed = i, !.numFree = k]
<1>4. vq' = [vq EXCEPT ![q] = n]
  BY <1>1, <1>2, <1>3 DEF TakeUsed, VirtQueueTypeOK
<1>5. /\ n \in VirtQueueRecords
      /\ n.buf = v.buf /\ n.avail = v.avail /\ n.availIdx = v.availIdx
      /\ n.used = v.used /\ n.usedIdx = v.usedIdx
      /\ n.lastAvail = v.lastAvail /\ n.lastUsed = i /\ n.numFree = k
  BY DEF VirtQueueRecords
<1> HIDE DEF n
<1> QED BY <1>1, <1>2, <1>3, <1>4, <1>5, VirtQueueChange DEF OnlyChanges

LEMMA WriteAvailEffect ==
    ASSUME VirtQueueTypeOK, NEW q \in VirtQueues, NEW t \in Tokens, NEW m \in Messages \cup {NoMsg},
           WriteAvail(q, t, m)
    PROVE  /\ OnlyChanges(q)
           /\ vq'[q].buf = [vq[q].buf EXCEPT ![t] = m]
           /\ vq'[q].avail = [vq[q].avail EXCEPT ![vq[q].availIdx % Num] = t]
           /\ vq'[q].availIdx = vq[q].availIdx
           /\ vq'[q].used = vq[q].used /\ vq'[q].usedIdx = vq[q].usedIdx
           /\ vq'[q].lastAvail = vq[q].lastAvail /\ vq'[q].lastUsed = vq[q].lastUsed
           /\ vq'[q].numFree = vq[q].numFree - 1
<1>1. PICK v \in VirtQueueRecords : v = vq[q]
  BY VirtQueueType
<1>2. PICK k \in Tokens : k = v.availIdx % Num
  BY PlaceFirst, PlaceType DEF VirtQueueRecords, Indices
<1>3. PICK b \in [Tokens -> Messages \cup {NoMsg}] : b = [v.buf EXCEPT ![t] = m]
  BY DEF VirtQueueRecords
<1>4. PICK u \in [Tokens -> Tokens] : u = [v.avail EXCEPT ![k] = t]
  BY DEF VirtQueueRecords
<1>5. PICK c \in 0 .. Num + 1 : c = v.numFree - 1
  BY <1>1, RingAssumption DEF VirtQueueRecords, WriteAvail
<1> DEFINE n == [v EXCEPT !.numFree = c, !.buf = b, !.avail = u]
<1>6. vq' = [vq EXCEPT ![q] = n]
  <2> DEFINE v1 == [v EXCEPT !.numFree = c]
             v2 == [v1 EXCEPT !.buf = b]
             w1 == [vq EXCEPT ![q] = v1]
             w == [vq EXCEPT ![q] = v2]
  <2>1. /\ v1.buf = v.buf /\ v2.avail = v.avail /\ [v2 EXCEPT !.avail = u] = n
        /\ [v1 EXCEPT !.buf[t] = m] = v2
    BY <1>3 DEF VirtQueueRecords
  <2>2. [vq EXCEPT ![q].numFree = @ - 1] = w1
    BY <1>1, <1>5 DEF VirtQueueTypeOK
  <2>3. w1[q] = v1 /\ [w1 EXCEPT ![q].buf[t] = m] = w
    BY <2>1 DEF VirtQueueTypeOK
  <2>4. vq' = [w EXCEPT ![q].avail[k] = t]
    BY <1>1, <1>2, <2>2, <2>3 DEF WriteAvail
  <2>5. w[q] = v2 /\ [v2 EXCEPT !.avail[k] = t] = n
    BY <1>4, <2>1 DEF VirtQueueTypeOK
  <2> QED BY <2>4, <2>5 DEF VirtQueueTypeOK
<1>7. /\ n \in VirtQueueRecords
      /\ n.buf = b /\ n.avail = u /\ n.availIdx = v.availIdx
      /\ n.used = v.used /\ n.usedIdx = v.usedIdx
      /\ n.lastAvail = v.lastAvail /\ n.lastUsed = v.lastUsed /\ n.numFree = c
  BY DEF VirtQueueRecords
<1> HIDE DEF n
<1>8. OnlyChanges(q) /\ vq'[q] = n
  BY <1>6, <1>7, VirtQueueChange DEF OnlyChanges
<1>9. /\ b = [vq[q].buf EXCEPT ![t] = m]
      /\ u = [vq[q].avail EXCEPT ![vq[q].availIdx % Num] = t]
  BY <1>1, <1>2, <1>3, <1>4
<1> QED BY <1>1, <1>5, <1>7, <1>8, <1>9

LEMMA PublishAvailEffect ==
    ASSUME VirtQueueTypeOK, NEW q \in VirtQueues, PublishAvail(q)
    PROVE  /\ OnlyChanges(q)
           /\ vq'[q].buf = vq[q].buf
           /\ vq'[q].avail = vq[q].avail /\ vq'[q].availIdx = Inc(vq[q].availIdx)
           /\ vq'[q].used = vq[q].used /\ vq'[q].usedIdx = vq[q].usedIdx
           /\ vq'[q].lastAvail = vq[q].lastAvail /\ vq'[q].lastUsed = vq[q].lastUsed
           /\ vq'[q].numFree = vq[q].numFree
<1>1. PICK v \in VirtQueueRecords : v = vq[q]
  BY VirtQueueType
<1>2. PICK i \in Indices : i = Inc(v.availIdx)
  BY IncValue DEF VirtQueueRecords
<1> DEFINE n == [v EXCEPT !.availIdx = i]
<1>3. vq' = [vq EXCEPT ![q] = n]
  BY <1>1, <1>2 DEF PublishAvail, VirtQueueTypeOK
<1>4. /\ n \in VirtQueueRecords
      /\ n.buf = v.buf /\ n.avail = v.avail /\ n.availIdx = i
      /\ n.used = v.used /\ n.usedIdx = v.usedIdx
      /\ n.lastAvail = v.lastAvail /\ n.lastUsed = v.lastUsed /\ n.numFree = v.numFree
  BY DEF VirtQueueRecords
<1> HIDE DEF n
<1> QED BY <1>1, <1>2, <1>3, <1>4, VirtQueueChange DEF OnlyChanges

-----------------------------------------------------------------------------
(* The threads                                                              *)

Labels == {"idle", "lookup", "put", "post", "freed", "clear", "test", "pend", "add", "publish",
           "kick", "recv", "woken", "deleted", "aborted", "take"}
SendLabels == {"lookup", "put", "post", "freed"}
RingLabels == {"clear", "test", "add", "publish", "kick"}

LabelsOf(th) ==
    IF th \in Senders THEN {"idle", "pend"} \cup SendLabels \cup RingLabels
    ELSE IF th \in Endpoints THEN {"idle", "recv", "woken", "deleted", "aborted"}
    ELSE IF th = Swi THEN {"idle"} \cup SendLabels \cup RingLabels
    ELSE {"idle", "take", "add", "publish", "kick"}

\* Where a thread has a buffer: the Swi has one from the ring of what was received while
\* it delivers the message, the others only while they fill it.
HoldLabels(th) == IF th = Swi THEN SendLabels \cup {"add", "publish"} ELSE {"add", "publish"}

\* What a thread at l with buffer t and message m is about to do can be done.
ThreadSound(th, l, t, m) ==
    /\ l \in LabelsOf(th)
    /\ t # NoToken <=> l \in HoldLabels(th)
    /\ l \in SendLabels => m \in Messages \ ToHost
    /\ l \in {"put", "post"} => dstEndpt[m] \in Endpoints
    /\ th \in Senders /\ l \in {"clear", "test", "pend", "add", "publish"} => m \in ToHost
    /\ th = HostTasks /\ l \in {"add", "publish"} => m \in FromHost

\* One thread of the slave is between GateHwi_enter and GateHwi_leave.
OneMasks ==
    \A a, b \in Slave : pc[a] \in {"test", "publish"} /\ pc[b] \in {"test", "publish"} => a = b

ThreadInv ==
    /\ pc \in [Threads -> Labels]
    /\ token \in [Threads -> Tokens \cup {NoToken}]
    /\ msg \in [Threads -> Messages \cup {NoMsg}]
    /\ \A th \in Threads : ThreadSound(th, pc[th], token[th], msg[th])
    /\ OneMasks

LEMMA ThreadSets ==
    /\ Threads = Senders \cup Endpoints \cup {Swi, HostIsr, HostTasks}
    /\ Swi # HostIsr /\ Swi # HostTasks /\ HostIsr # HostTasks
    /\ \A th \in Senders : th \notin Endpoints /\ th \notin {Swi, HostIsr, HostTasks}
    /\ \A th \in Endpoints : th \notin {Swi, HostIsr, HostTasks}
BY ThreadsAssumption DEF Threads, Slave, Host, Tasks, Swi, HostIsr, HostTasks

LEMMA QueueOfIs ==
    /\ \A th \in Threads : QueueOf(th) \in VirtQueues
    /\ \A th \in Senders \cup {HostIsr} : QueueOf(th) = "toHost"
    /\ \A th \in Endpoints \cup {Swi, HostTasks} : QueueOf(th) = "fromHost"
BY ThreadSets DEF QueueOf, VirtQueues

LEMMA HostThreads ==
    /\ HostIsr \in Threads /\ HostTasks \in Threads /\ Host \cap Slave = {}
    /\ QueueOf(HostIsr) = "toHost" /\ QueueOf(HostTasks) = "fromHost"
    /\ \A th \in Host : th = HostIsr \/ th = HostTasks
<1>1. Host \cap Slave = {} /\ HostIsr \in Threads /\ HostTasks \in Threads
  BY ThreadSets DEF Host, Slave, Tasks
<1>2. QueueOf(HostIsr) = "toHost" /\ QueueOf(HostTasks) = "fromHost"
  BY QueueOfIs
<1>3. \A th \in Host : th = HostIsr \/ th = HostTasks
  BY DEF Host
<1> QED BY <1>1, <1>2, <1>3

Moves(th, l, t, m) ==
    /\ pc' = [pc EXCEPT ![th] = l]
    /\ token' = [token EXCEPT ![th] = t]
    /\ msg' = [msg EXCEPT ![th] = m]

\* A thread that goes on: no other thread's place, buffer or message changes.
LEMMA ThreadMoves ==
    ASSUME ThreadInv, NEW th \in Threads, NEW l \in Labels, NEW t \in Tokens \cup {NoToken},
           NEW m \in Messages \cup {NoMsg}, Moves(th, l, t, m), ThreadSound(th, l, t, m),
           th \in Slave /\ l \in {"test", "publish"} => ~Masked(th)
    PROVE  /\ ThreadInv'
           /\ pc'[th] = l /\ token'[th] = t /\ msg'[th] = m
           /\ \A u \in Threads \ {th} : pc'[u] = pc[u] /\ token'[u] = token[u] /\ msg'[u] = msg[u]
<1>1. /\ pc' \in [Threads -> Labels]
      /\ token' \in [Threads -> Tokens \cup {NoToken}]
      /\ msg' \in [Threads -> Messages \cup {NoMsg}]
  BY DEF ThreadInv, Moves
<1>2. /\ pc'[th] = l /\ token'[th] = t /\ msg'[th] = m
      /\ \A u \in Threads \ {th} : pc'[u] = pc[u] /\ token'[u] = token[u] /\ msg'[u] = msg[u]
  BY DEF ThreadInv, Moves
<1>3. \A u \in Threads : ThreadSound(u, pc'[u], token'[u], msg'[u])
  BY <1>2 DEF ThreadInv
<1>4. OneMasks'
  <2> SUFFICES ASSUME NEW a \in Slave, NEW b \in Slave,
                      pc'[a] \in {"test", "publish"}, pc'[b] \in {"test", "publish"}
               PROVE  a = b
    BY DEF OneMasks
  <2>1. a \in Threads /\ b \in Threads
    BY DEF Threads
  <2>2. CASE a # th /\ b # th
    BY <1>2, <2>1, <2>2 DEF ThreadInv, OneMasks
  <2>3. CASE a = th /\ b # th
    <3>1. pc[b] \in {"test", "publish"} /\ ~Masked(th)
      BY <1>2, <2>1, <2>3
    <3> QED BY <3>1, <2>3 DEF Masked
  <2>4. CASE a # th /\ b = th
    <3>1. pc[a] \in {"test", "publish"} /\ ~Masked(th)
      BY <1>2, <2>1, <2>4
    <3> QED BY <3>1, <2>4 DEF Masked
  <2> QED BY <2>2, <2>3, <2>4
<1>5. ThreadInv'
  BY <1>1, <1>3, <1>4 DEF ThreadInv, ThreadSound
<1> QED BY <1>2, <1>5

\* The same for a step that leaves the thread its buffer and its message.
LEMMA ThreadGoes ==
    ASSUME ThreadInv, NEW th \in Threads, NEW l \in Labels, Goto(th, l), UNCHANGED <<token, msg>>,
           ThreadSound(th, l, token[th], msg[th]),
           th \in Slave /\ l \in {"test", "publish"} => ~Masked(th)
    PROVE  /\ ThreadInv'
           /\ pc'[th] = l
           /\ \A u \in Threads \ {th} : pc'[u] = pc[u]
<1>1. Moves(th, l, token[th], msg[th])
  BY DEF Moves, Goto, ThreadInv
<1>2. token[th] \in Tokens \cup {NoToken} /\ msg[th] \in Messages \cup {NoMsg}
  BY DEF ThreadInv
<1> QED BY <1>1, <1>2, ThreadMoves

LEMMA ThreadsStay ==
    ASSUME ThreadInv, UNCHANGED <<pc, token, msg>>
    PROVE  ThreadInv'
BY DEF ThreadInv, ThreadSound, OneMasks

\* What is known of a thread from its place.
LEMMA ThreadAt ==
    ASSUME ThreadInv, NEW th \in Threads
    PROVE  /\ pc[th] \in Labels /\ token[th] \in Tokens \cup {NoToken}
           /\ msg[th] \in Messages \cup {NoMsg}
           /\ ThreadSound(th, pc[th], token[th], msg[th])
BY DEF ThreadInv

-----------------------------------------------------------------------------
(* The rings and the buffers                                                *)

\* From i to j a ring holds, in order, the messages of s that g has not got yet.
Delivers(ring, i, j, buf, s, g) ==
    /\ Len(s) = Len(g) + Count(i, j)
    /\ \A k \in 0 .. Count(i, j) - 1 : buf[ring[Place(i, k)]] = s[Len(g) + k + 1]

\* The slave's messages go by the used ring of one queue, the host's by the avail ring of
\* the other.
Delivery(q) ==
    IF q = "toHost"
      THEN /\ sent[q] \in Seq(ToHost)
           /\ Delivers(vq[q].used, vq[q].lastUsed, vq[q].usedIdx, vq[q].buf, sent[q], got[q])
      ELSE /\ sent[q] \in Seq(FromHost)
           /\ Delivers(vq[q].avail, vq[q].lastAvail, vq[q].availIdx, vq[q].buf, sent[q], got[q])

\* A buffer is in one ring, with one thread, or leaked.
Holds(th, q, t) == token[th] = t /\ QueueOf(th) = q
IsLeaked(q, t) == q = "toHost" /\ t \in leaked
BufferSound(q, t) ==
    /\ t \in InAvail(q) \/ t \in InUsed(q) \/ IsLeaked(q, t) \/ \E th \in Threads : Holds(th, q, t)
    /\ ~ (t \in InAvail(q) /\ t \in InUsed(q))
    /\ IsLeaked(q, t) => t \notin InAvail(q) /\ t \notin InUsed(q)
    /\ \A th \in Threads : Holds(th, q, t) =>
          /\ t \notin InAvail(q) /\ t \notin InUsed(q) /\ ~ IsLeaked(q, t)
          /\ \A u \in Threads : Holds(u, q, t) => u = th

QueueSound(q) ==
    /\ RingSound(vq[q].avail, vq[q].lastAvail, vq[q].availIdx)
    /\ RingSound(vq[q].used, vq[q].lastUsed, vq[q].usedIdx)
    /\ \A t \in Tokens : BufferSound(q, t)
    /\ Delivery(q)

\* Between the writing of an entry and its publication it stays as it was written.
Written(th) ==
    pc[th] = "publish" =>
        /\ th \in Slave => vq[QueueOf(th)].used[vq[QueueOf(th)].usedIdx % Num] = token[th]
        /\ th \in Host => vq[QueueOf(th)].avail[vq[QueueOf(th)].availIdx % Num] = token[th]
        /\ th \in Senders \cup {HostTasks} => vq[QueueOf(th)].buf[token[th]] = msg[th]

\* The host counts a place as free for each buffer it has or has leaked.
NumFreeSound ==
    /\ leaked \subseteq Tokens
    /\ vq["toHost"].numFree = Cardinality(leaked) + (IF pc[HostIsr] = "add" THEN 1 ELSE 0)
    /\ vq["fromHost"].numFree = Num + (IF pc[HostTasks] = "add" THEN 1 ELSE 0)

RingInv ==
    /\ VirtQueueTypeOK
    /\ sent \in [VirtQueues -> Seq(Messages)] /\ got \in [VirtQueues -> Seq(Messages)]
    /\ \A q \in VirtQueues : QueueSound(q)
    /\ \A th \in Threads : Written(th)
    /\ NumFreeSound

LEMMA DeliversSend ==
    ASSUME NEW ring, NEW buf, NEW i \in Indices, NEW j \in Indices, NEW s \in Seq(Messages),
           NEW g \in Seq(Messages), NEW m \in Messages, Delivers(ring, i, j, buf, s, g),
           Count(i, j) < Num, buf[ring[j % Num]] = m
    PROVE  Delivers(ring, i, Inc(j), buf, Append(s, m), g)
<1> DEFINE n == Count(i, j)
           s2 == Append(s, m)
<1>1. n \in Nat /\ Count(i, Inc(j)) = n + 1 /\ Place(i, n) = j % Num
  <2>1. n \in Nat /\ n < Width - 1
    BY CountValue, RingAssumption DEF Indices
  <2> QED BY <2>1, CountAdded, PlaceOfCount
<1>2. Len(g) \in Nat /\ Len(s) = Len(g) + n /\ Len(s2) = Len(s) + 1 /\ s2[Len(s) + 1] = m
  BY DEF Delivers
<1>3. \A k \in 1 .. Len(s) : s2[k] = s[k]
  OBVIOUS
<1>4. \A k \in 0 .. n - 1 : buf[ring[Place(i, k)]] = s[Len(g) + k + 1]
  BY DEF Delivers
<1> HIDE DEF n, s2
<1>5. ASSUME NEW k \in 0 .. n PROVE buf[ring[Place(i, k)]] = s2[Len(g) + k + 1]
  <2>1. CASE k = n
    BY <1>1, <1>2, <2>1
  <2>2. CASE k # n
    <3>1. k \in 0 .. n - 1 /\ Len(g) + k + 1 \in 1 .. Len(s)
      BY <1>1, <1>2, <2>2
    <3> QED BY <1>3, <1>4, <3>1
  <2> QED BY <2>1, <2>2
<1>6. n + 1 - 1 = n /\ Len(s2) = Len(g) + (n + 1)
  BY <1>1, <1>2
<1> QED BY <1>1, <1>5, <1>6 DEF Delivers, s2

LEMMA DeliversTake ==
    ASSUME NEW ring, NEW buf, NEW i \in Indices, NEW j \in Indices, NEW s \in Seq(Messages),
           NEW g \in Seq(Messages), Delivers(ring, i, j, buf, s, g), i # j
    PROVE  /\ Len(s) > Len(g) /\ s[Len(g) + 1] = buf[ring[i % Num]]
           /\ buf[ring[i % Num]] \in Messages
           /\ Delivers(ring, Inc(i), j, buf, s, Append(g, buf[ring[i % Num]]))
<1> DEFINE n == Count(i, j)
<1>1. n \in Nat /\ n > 0 /\ Count(Inc(i), j) = n - 1 /\ i \in Nat
  BY CountValue, CountTaken, RingAssumption DEF Indices
<1>2. \A k \in 0 .. n - 1 : buf[ring[Place(i, k)]] = s[Len(g) + k + 1]
  BY DEF Delivers
<1>3. Len(s) = Len(g) + n /\ Len(g) \in Nat
  BY DEF Delivers
<1> HIDE DEF n
<1>4. Len(s) > Len(g) /\ s[Len(g) + 1] = buf[ring[i % Num]]
  <2>1. 0 \in 0 .. n - 1 /\ Len(g) + 0 + 1 = Len(g) + 1 /\ Place(i, 0) = i % Num
    BY <1>1, <1>3, PlaceFirst
  <2> QED BY <1>1, <1>2, <1>3, <2>1
<1>5. s[Len(g) + 1] \in Messages
  BY <1>3, <1>4
<1>6. PICK m \in Messages : m = buf[ring[i % Num]]
  BY <1>4, <1>5
<1>7. Append(g, m) \in Seq(Messages) /\ Len(Append(g, m)) = Len(g) + 1
  OBVIOUS
<1>8. ASSUME NEW k \in 0 .. (n - 1) - 1
      PROVE  buf[ring[Place(Inc(i), k)]] = s[(Len(g) + 1) + k + 1]
  <2>1. k + 1 \in 0 .. n - 1 /\ k \in Nat /\ Len(g) + (k + 1) + 1 = (Len(g) + 1) + k + 1
    BY <1>1, <1>3
  <2>2. Place(Inc(i), k) = Place(i, k + 1)
    BY <2>1, PlaceInc
  <2>3. buf[ring[Place(i, k + 1)]] = s[Len(g) + (k + 1) + 1]
    BY <1>2, <2>1
  <2> QED BY <2>1, <2>2, <2>3
<1>9. Len(s) = (Len(g) + 1) + (n - 1)
  BY <1>1, <1>3
<1>10. Delivers(ring, Inc(i), j, buf, s, Append(g, m))
  BY <1>1, <1>7, <1>8, <1>9 DEF Delivers
<1> QED BY <1>4, <1>5, <1>6, <1>10

LEMMA DeliversKept ==
    ASSUME NEW ring, NEW buf, NEW ring2, NEW buf2, NEW i, NEW j, NEW s, NEW g,
           Delivers(ring, i, j, buf, s, g),
           \A k \in 0 .. Count(i, j) - 1 : buf2[ring2[Place(i, k)]] = buf[ring[Place(i, k)]]
    PROVE  Delivers(ring2, i, j, buf2, s, g)
BY DEF Delivers

\* A buffer goes from a ring to a thread, from a thread to a ring, and is leaked.
LEMMA BufferTaken ==
    ASSUME NEW q \in VirtQueues, \A t \in Tokens : BufferSound(q, t),
           NEW x \in Tokens, x \in InAvail(q) \/ x \in InUsed(q),
           \A t \in Tokens \ {x} : /\ t \in InAvail(q)' <=> t \in InAvail(q)
                                   /\ t \in InUsed(q)' <=> t \in InUsed(q),
           x \notin InAvail(q)', x \notin InUsed(q)',
           NEW th \in Threads, QueueOf(th) = q, token[th] = NoToken, token'[th] = x,
           \A u \in Threads \ {th} : token'[u] = token[u], UNCHANGED leaked
    PROVE  \A t \in Tokens : BufferSound(q, t)'
<1>1. \A t \in Tokens : IsLeaked(q, t)' <=> IsLeaked(q, t)
  BY DEF IsLeaked
<1>2. \A t \in Tokens \ {x} : \A u \in Threads : Holds(u, q, t)' <=> Holds(u, q, t)
  BY SizesAssumption DEF Holds
<1>3. \A u \in Threads : ~ Holds(u, q, x)
  BY DEF BufferSound
<1>4. \A u \in Threads : Holds(u, q, x)' <=> u = th
  BY <1>3 DEF Holds
<1>5. ~ IsLeaked(q, x)
  BY DEF BufferSound
<1>6. ASSUME NEW t \in Tokens \ {x} PROVE BufferSound(q, t)'
  BY <1>1, <1>2 DEF BufferSound
<1>7. BufferSound(q, x)'
  BY <1>1, <1>4, <1>5 DEF BufferSound
<1> QED BY <1>6, <1>7

LEMMA BufferGiven ==
    ASSUME NEW q \in VirtQueues, \A t \in Tokens : BufferSound(q, t),
           NEW x \in Tokens,
           \A t \in Tokens \ {x} : /\ t \in InAvail(q)' <=> t \in InAvail(q)
                                   /\ t \in InUsed(q)' <=> t \in InUsed(q),
           (x \in InAvail(q)' /\ x \notin InUsed(q)') \/ (x \notin InAvail(q)' /\ x \in InUsed(q)'),
           NEW th \in Threads, QueueOf(th) = q, token[th] = x, token'[th] = NoToken,
           \A u \in Threads \ {th} : token'[u] = token[u], UNCHANGED leaked
    PROVE  \A t \in Tokens : BufferSound(q, t)'
<1>1. \A t \in Tokens : IsLeaked(q, t)' <=> IsLeaked(q, t)
  BY DEF IsLeaked
<1>2. \A t \in Tokens \ {x} : \A u \in Threads : Holds(u, q, t)' <=> Holds(u, q, t)
  BY SizesAssumption DEF Holds
<1>3. Holds(th, q, x)
  BY DEF Holds
<1>4. ~ IsLeaked(q, x) /\ \A u \in Threads \ {th} : ~ Holds(u, q, x)
  BY <1>3 DEF BufferSound
<1>5. \A u \in Threads : ~ Holds(u, q, x)'
  BY <1>4, SizesAssumption DEF Holds
<1>6. ASSUME NEW t \in Tokens \ {x} PROVE BufferSound(q, t)'
  BY <1>1, <1>2 DEF BufferSound
<1>7. BufferSound(q, x)'
  BY <1>1, <1>4, <1>5 DEF BufferSound
<1> QED BY <1>6, <1>7

LEMMA BufferLeaked ==
    ASSUME \A t \in Tokens : BufferSound("toHost", t), NEW x \in Tokens, x \in InUsed("toHost"),
           \A t \in Tokens : /\ t \in InAvail("toHost")' <=> t \in InAvail("toHost")
                             /\ t \in InUsed("toHost")' <=> t \in InUsed("toHost") /\ t # x,
           UNCHANGED token, leaked' = leaked \cup {x}
    PROVE  x \notin leaked /\ \A t \in Tokens : BufferSound("toHost", t)'
<1>1. \A t \in Tokens : IsLeaked("toHost", t)' <=> (IsLeaked("toHost", t) \/ t = x)
  BY DEF IsLeaked
<1>2. \A t \in Tokens : \A u \in Threads : Holds(u, "toHost", t)' <=> Holds(u, "toHost", t)
  BY DEF Holds
<1>3. /\ ~ IsLeaked("toHost", x) /\ x \notin InAvail("toHost")
      /\ \A u \in Threads : ~ Holds(u, "toHost", x)
  BY DEF BufferSound
<1>4. ASSUME NEW t \in Tokens \ {x} PROVE BufferSound("toHost", t)'
  BY <1>1, <1>2 DEF BufferSound
<1>5. BufferSound("toHost", x)'
  BY <1>1, <1>2, <1>3 DEF BufferSound
<1> QED BY <1>3, <1>4, <1>5 DEF IsLeaked

\* A queue whose rings, messages and holders are left alone.
LEMMA QueueKept ==
    ASSUME NEW q \in VirtQueues, QueueSound(q),
           vq'[q].buf = vq[q].buf,
           vq'[q].avail = vq[q].avail, vq'[q].availIdx = vq[q].availIdx,
           vq'[q].used = vq[q].used, vq'[q].usedIdx = vq[q].usedIdx,
           vq'[q].lastAvail = vq[q].lastAvail, vq'[q].lastUsed = vq[q].lastUsed,
           sent'[q] = sent[q], got'[q] = got[q],
           \A u \in Threads : QueueOf(u) = q => token'[u] = token[u],
           q = "toHost" => leaked' = leaked
    PROVE  QueueSound(q)'
<1>1. InAvail(q)' = InAvail(q) /\ InUsed(q)' = InUsed(q)
  BY DEF InAvail, InUsed
<1>2. \A t \in Tokens : IsLeaked(q, t)' <=> IsLeaked(q, t)
  BY DEF IsLeaked
<1>3. \A t \in Tokens : \A u \in Threads : Holds(u, q, t)' <=> Holds(u, q, t)
  BY DEF Holds
<1>4. ASSUME NEW t \in Tokens PROVE BufferSound(q, t)'
  <2>1. BufferSound(q, t)
    BY DEF QueueSound
  <2> QED BY <1>1, <1>2, <1>3, <2>1 DEF BufferSound
<1>5. Delivery(q)'
  BY DEF QueueSound, Delivery
<1> QED BY <1>4, <1>5 DEF QueueSound

\* A step that leaves the virtqueues alone, and no thread begins to own or publish.
RingQuiet ==
    /\ UNCHANGED <<vq, token, leaked, sent, got>>
    /\ \A th \in Threads : pc'[th] = "publish" => pc[th] = "publish" /\ msg'[th] = msg[th]
    /\ \A th \in Host : pc'[th] = "add" <=> pc[th] = "add"

LEMMA RingQuietKeeps == ASSUME RingInv, RingQuiet PROVE RingInv'
<1>1. \A q \in VirtQueues : QueueSound(q)'
  <2> SUFFICES ASSUME NEW q \in VirtQueues PROVE QueueSound(q)'
    OBVIOUS
  <2>1. QueueSound(q)
    BY DEF RingInv
  <2> QED BY <2>1, QueueKept DEF RingQuiet
<1>2. \A th \in Threads : Written(th)'
  BY DEF RingInv, RingQuiet, Written
<1>3. NumFreeSound'
  BY DEF RingInv, RingQuiet, NumFreeSound, Host
<1>4. VirtQueueTypeOK'
  BY DEF RingInv, RingQuiet, VirtQueueTypeOK
<1> QED BY <1>1, <1>2, <1>3, <1>4 DEF RingInv, RingQuiet

-----------------------------------------------------------------------------
(* The steps of the virtqueues keep the rings sound                         *)

\* A step of thread th alone, after which it has buffer t.
Hand(th, t) ==
    /\ token'[th] = t
    /\ \A u \in Threads \ {th} : pc'[u] = pc[u] /\ token'[u] = token[u] /\ msg'[u] = msg[u]

\* The queue that the thread does not work on.
LEMMA OtherQueueKept ==
    ASSUME RingInv, NEW th \in Threads, NEW t, Hand(th, t), OnlyChanges(QueueOf(th)),
           NEW p \in VirtQueues, p # QueueOf(th), sent'[p] = sent[p], got'[p] = got[p],
           p = "toHost" => leaked' = leaked
    PROVE  QueueSound(p)' /\ vq'[p] = vq[p]
<1>1. vq'[p] = vq[p] /\ QueueSound(p)
  BY DEF OnlyChanges, RingInv
<1>2. \A u \in Threads : QueueOf(u) = p => token'[u] = token[u]
  BY DEF Hand
<1> QED BY <1>1, <1>2, QueueKept

LEMMA NextAvailIs ==
    ASSUME RingInv, NEW q \in VirtQueues, HasAvail(q)
    PROVE  /\ NextAvail(q) \in Tokens /\ NextAvail(q) \in InAvail(q)
           /\ q = "fromHost" =>
                /\ Len(sent[q]) > Len(got[q])
                /\ vq[q].buf[NextAvail(q)] = sent[q][Len(got[q]) + 1]
                /\ vq[q].buf[NextAvail(q)] \in FromHost
<1>1. /\ vq[q].avail \in [Tokens -> Tokens] /\ vq[q].lastAvail \in Indices
      /\ vq[q].availIdx \in Indices /\ vq[q].lastAvail # vq[q].availIdx
  BY VirtQueueType DEF RingInv, HasAvail
<1>2. QueueSound(q)
  BY DEF RingInv
<1>3. NextAvail(q) \in Tokens /\ NextAvail(q) \in InAvail(q)
  BY <1>1, <1>2, RingTake DEF QueueSound, NextAvail, InAvail
<1>4. ASSUME q = "fromHost"
      PROVE  /\ Len(sent[q]) > Len(got[q])
             /\ vq[q].buf[NextAvail(q)] = sent[q][Len(got[q]) + 1]
             /\ vq[q].buf[NextAvail(q)] \in FromHost
  <2>1. /\ sent[q] \in Seq(Messages) /\ got[q] \in Seq(Messages) /\ sent[q] \in Seq(FromHost)
        /\ Delivers(vq[q].avail, vq[q].lastAvail, vq[q].availIdx, vq[q].buf, sent[q], got[q])
    BY <1>2, <1>4 DEF RingInv, QueueSound, Delivery
  <2>2. PICK r, i, j, b, s, g :
          /\ r = vq[q].avail /\ i = vq[q].lastAvail /\ j = vq[q].availIdx /\ b = vq[q].buf
          /\ s = sent[q] /\ g = got[q]
    OBVIOUS
  <2>3. /\ s \in Seq(Messages) /\ g \in Seq(Messages) /\ i \in Indices /\ j \in Indices /\ i # j
        /\ Delivers(r, i, j, b, s, g)
    BY <1>1, <2>1, <2>2, SMTT(30)
  <2>5. /\ Len(s) > Len(g) /\ s[Len(g) + 1] = b[r[i % Num]]
        /\ b[r[i % Num]] \in Messages
        /\ Delivers(r, Inc(i), j, b, s, Append(g, b[r[i % Num]]))
    BY <2>3, DeliversTake
  <2>4. Len(sent[q]) > Len(got[q]) /\ vq[q].buf[NextAvail(q)] = sent[q][Len(got[q]) + 1]
    BY <2>2, <2>5 DEF NextAvail
  <2> QED BY <2>1, <2>4
<1> QED BY <1>3, <1>4

LEMMA NextUsedIs ==
    ASSUME RingInv, NEW q \in VirtQueues, HasUsed(q)
    PROVE  /\ NextUsed(q) \in Tokens /\ NextUsed(q) \in InUsed(q)
           /\ q = "toHost" =>
                /\ Len(sent[q]) > Len(got[q])
                /\ vq[q].buf[NextUsed(q)] = sent[q][Len(got[q]) + 1]
                /\ vq[q].buf[NextUsed(q)] \in ToHost
<1>1. /\ vq[q].used \in [Tokens -> Tokens] /\ vq[q].lastUsed \in Indices
      /\ vq[q].usedIdx \in Indices /\ vq[q].lastUsed # vq[q].usedIdx
  BY VirtQueueType DEF RingInv, HasUsed
<1>2. QueueSound(q)
  BY DEF RingInv
<1>3. NextUsed(q) \in Tokens /\ NextUsed(q) \in InUsed(q)
  BY <1>1, <1>2, RingTake DEF QueueSound, NextUsed, InUsed
<1>4. ASSUME q = "toHost"
      PROVE  /\ Len(sent[q]) > Len(got[q])
             /\ vq[q].buf[NextUsed(q)] = sent[q][Len(got[q]) + 1]
             /\ vq[q].buf[NextUsed(q)] \in ToHost
  <2>1. /\ sent[q] \in Seq(Messages) /\ got[q] \in Seq(Messages) /\ sent[q] \in Seq(ToHost)
        /\ Delivers(vq[q].used, vq[q].lastUsed, vq[q].usedIdx, vq[q].buf, sent[q], got[q])
    BY <1>2, <1>4 DEF RingInv, QueueSound, Delivery
  <2>2. PICK r, i, j, b, s, g :
          /\ r = vq[q].used /\ i = vq[q].lastUsed /\ j = vq[q].usedIdx /\ b = vq[q].buf
          /\ s = sent[q] /\ g = got[q]
    OBVIOUS
  <2>3. /\ s \in Seq(Messages) /\ g \in Seq(Messages) /\ i \in Indices /\ j \in Indices /\ i # j
        /\ Delivers(r, i, j, b, s, g)
    BY <1>1, <2>1, <2>2, SMTT(30)
  <2>5. /\ Len(s) > Len(g) /\ s[Len(g) + 1] = b[r[i % Num]]
        /\ b[r[i % Num]] \in Messages
        /\ Delivers(r, Inc(i), j, b, s, Append(g, b[r[i % Num]]))
    BY <2>3, DeliversTake
  <2>4. Len(sent[q]) > Len(got[q]) /\ vq[q].buf[NextUsed(q)] = sent[q][Len(got[q]) + 1]
    BY <2>2, <2>5 DEF NextUsed
  <2> QED BY <2>1, <2>4
<1> QED BY <1>3, <1>4

\* Steps that only move a reader's index leave the entries being published alone.
LEMMA WrittenSame ==
    ASSUME ThreadInv, \A u \in Threads : Written(u), NEW th \in Threads, NEW t, Hand(th, t),
           pc'[th] # "publish",
           \A p \in VirtQueues :
                /\ vq'[p].buf = vq[p].buf
                /\ vq'[p].avail = vq[p].avail /\ vq'[p].availIdx = vq[p].availIdx
                /\ vq'[p].used = vq[p].used /\ vq'[p].usedIdx = vq[p].usedIdx
    PROVE  \A u \in Threads : Written(u)'
<1> SUFFICES ASSUME NEW u \in Threads PROVE Written(u)'
  OBVIOUS
<1>1. QueueOf(u) \in VirtQueues /\ Written(u)
  BY QueueOfIs
<1>2. CASE u = th
  BY <1>2 DEF Written
<1>3. CASE u # th
  BY <1>1, <1>3 DEF Written, Hand
<1> QED BY <1>2, <1>3

LEMMA TakeAvailKeeps ==
    ASSUME ThreadInv, RingInv, NEW th \in Slave, NEW q \in VirtQueues, q = QueueOf(th),
           token[th] = NoToken, HasAvail(q), TakeAvail(q), Hand(th, NextAvail(q)),
           pc'[th] # "publish", UNCHANGED <<leaked, sent>>,
           got' = IF q = "fromHost" THEN [got EXCEPT ![q] = Append(@, vq[q].buf[NextAvail(q)])]
                                    ELSE got
    PROVE  RingInv'
<1> DEFINE x == NextAvail(q)
<1>t. th \in Threads
  BY DEF Threads
<1>1. /\ vq[q].avail \in [Tokens -> Tokens] /\ vq[q].lastAvail \in Indices
      /\ vq[q].availIdx \in Indices /\ vq[q].lastAvail # vq[q].availIdx
  BY VirtQueueType DEF RingInv, HasAvail
<1>2. QueueSound(q) /\ sent[q] \in Seq(Messages) /\ got[q] \in Seq(Messages)
  BY DEF RingInv
<1>3. /\ OnlyChanges(q)
      /\ vq'[q].buf = vq[q].buf
      /\ vq'[q].avail = vq[q].avail /\ vq'[q].availIdx = vq[q].availIdx
      /\ vq'[q].used = vq[q].used /\ vq'[q].usedIdx = vq[q].usedIdx
      /\ vq'[q].lastAvail = Inc(vq[q].lastAvail) /\ vq'[q].lastUsed = vq[q].lastUsed
      /\ vq'[q].numFree = vq[q].numFree
  BY TakeAvailEffect DEF RingInv
<1>4. /\ x \in Tokens /\ x \in InAvail(q)
      /\ RingSound(vq[q].avail, Inc(vq[q].lastAvail), vq[q].availIdx)
      /\ InAvail(q)' = InAvail(q) \ {x}
  BY <1>1, <1>2, <1>3, RingTake DEF QueueSound, NextAvail, InAvail
<1>5. InUsed(q)' = InUsed(q) /\ x \notin InUsed(q)
  BY <1>2, <1>3, <1>4 DEF InUsed, QueueSound, BufferSound
<1>6. \A t \in Tokens : BufferSound(q, t)'
  <2>1. \A t \in Tokens \ {x} : /\ t \in InAvail(q)' <=> t \in InAvail(q)
                                /\ t \in InUsed(q)' <=> t \in InUsed(q)
    BY <1>4, <1>5
  <2>2. x \notin InAvail(q)' /\ x \notin InUsed(q)'
    BY <1>4, <1>5
  <2>3. token'[th] = x /\ \A u \in Threads \ {th} : token'[u] = token[u]
    BY DEF Hand
  <2>4. \A t \in Tokens : BufferSound(q, t)
    BY <1>2 DEF QueueSound
  <2> HIDE DEF x
  <2> QED BY <1>t, <1>4, <2>1, <2>2, <2>3, <2>4, BufferTaken
<1>7. /\ \A p \in VirtQueues \ {q} : sent'[p] = sent[p] /\ got'[p] = got[p]
      /\ sent' \in [VirtQueues -> Seq(Messages)] /\ got' \in [VirtQueues -> Seq(Messages)]
      /\ got'[q] = IF q = "fromHost" THEN Append(got[q], vq[q].buf[x]) ELSE got[q]
  <2>1. CASE q = "fromHost"
    <3>1. vq[q].buf[x] \in Messages
      BY <2>1, NextAvailIs, SendsAssumption
    <3>2. PICK m \in Messages : m = vq[q].buf[x]
      BY <3>1
    <3>3. Append(got[q], m) \in Seq(Messages)
      BY <1>2
    <3> HIDE DEF x
    <3> QED BY <2>1, <3>2, <3>3 DEF RingInv, x
  <2>2. CASE q # "fromHost"
    BY <2>2 DEF RingInv
  <2> QED BY <2>1, <2>2
<1>8. Delivery(q)'
  <2>1. CASE q = "toHost"
    BY <1>2, <1>3, <1>7, <2>1 DEF QueueSound, Delivery
  <2>2. CASE q = "fromHost"
    <3>1. /\ sent[q] \in Seq(FromHost)
          /\ Delivers(vq[q].avail, vq[q].lastAvail, vq[q].availIdx, vq[q].buf, sent[q], got[q])
      BY <1>2, <2>2 DEF QueueSound, Delivery
    <3>2. Delivers(vq[q].avail, Inc(vq[q].lastAvail), vq[q].availIdx, vq[q].buf, sent[q],
                   Append(got[q], vq[q].buf[x]))
      BY <1>1, <1>2, <3>1, DeliversTake DEF NextAvail
    <3> HIDE DEF x
    <3> QED BY <1>3, <1>7, <2>2, <3>1, <3>2 DEF Delivery
  <2> QED BY <2>1, <2>2 DEF VirtQueues
<1>9. QueueSound(q)'
  BY <1>2, <1>3, <1>4, <1>6, <1>8 DEF QueueSound
<1>10. \A p \in VirtQueues \ {q} : QueueSound(p)' /\ vq'[p] = vq[p]
  BY <1>t, <1>3, <1>7, OtherQueueKept
<1>11. \A u \in Threads : Written(u)'
  <2>1. \A p \in VirtQueues :
                /\ vq'[p].buf = vq[p].buf
                /\ vq'[p].avail = vq[p].avail /\ vq'[p].availIdx = vq[p].availIdx
                /\ vq'[p].used = vq[p].used /\ vq'[p].usedIdx = vq[p].usedIdx
    BY <1>3, <1>10
  <2> QED BY <1>t, <2>1, WrittenSame DEF RingInv
<1>12. NumFreeSound'
  <2>1. \A p \in VirtQueues : vq'[p].numFree = vq[p].numFree
    BY <1>3, <1>10
  <2>2. \A u \in Host : pc'[u] = pc[u]
    BY HostThreads DEF Hand, Threads
  <2> QED BY <2>1, <2>2 DEF RingInv, NumFreeSound, VirtQueues, Host
<1> QED BY <1>3, <1>7, <1>9, <1>10, <1>11, <1>12 DEF RingInv, OnlyChanges

LEMMA LeakedIsFinite ==
    ASSUME RingInv
    PROVE  IsFiniteSet(leaked) /\ Cardinality(leaked) \in Nat /\ Cardinality(leaked) <= Num
<1>1. IsFiniteSet(Tokens) /\ Cardinality(Tokens) = Num
  <2>1. Num - 1 >= 0
    BY RingAssumption
  <2> QED BY <2>1, FS_Interval, RingAssumption DEF Tokens
<1>2. IsFiniteSet(leaked) /\ Cardinality(leaked) <= Num
  BY <1>1, FS_Subset DEF RingInv, NumFreeSound
<1> QED BY <1>2, FS_CardinalityType

\* NumFree as long as the host's thread has not a buffer to offer.
LEMMA RoomToTake ==
    ASSUME RingInv, NEW th \in Host, pc[th] # "add"
    PROVE  vq[QueueOf(th)].numFree <= Num
<1>1. Cardinality(leaked) \in Nat /\ Cardinality(leaked) <= Num
  BY LeakedIsFinite
<1> QED BY <1>1, HostThreads, RingAssumption DEF RingInv, NumFreeSound

LEMMA TakeUsedKeeps ==
    ASSUME ThreadInv, RingInv, NEW th \in Host, NEW q \in VirtQueues, q = QueueOf(th),
           token[th] = NoToken, HasUsed(q), TakeUsed(q), Hand(th, NextUsed(q)),
           pc[th] # "add", pc'[th] = "add", UNCHANGED <<leaked, sent>>,
           got' = IF q = "toHost" THEN [got EXCEPT ![q] = Append(@, vq[q].buf[NextUsed(q)])]
                                  ELSE got
    PROVE  RingInv'
<1> DEFINE x == NextUsed(q)
<1>t. th \in Threads
  BY DEF Threads
<1>1. /\ vq[q].used \in [Tokens -> Tokens] /\ vq[q].lastUsed \in Indices
      /\ vq[q].usedIdx \in Indices /\ vq[q].lastUsed # vq[q].usedIdx
  BY VirtQueueType DEF RingInv, HasUsed
<1>2. QueueSound(q) /\ sent[q] \in Seq(Messages) /\ got[q] \in Seq(Messages)
  BY DEF RingInv
<1>3. /\ OnlyChanges(q)
      /\ vq'[q].buf = vq[q].buf
      /\ vq'[q].avail = vq[q].avail /\ vq'[q].availIdx = vq[q].availIdx
      /\ vq'[q].used = vq[q].used /\ vq'[q].usedIdx = vq[q].usedIdx
      /\ vq'[q].lastAvail = vq[q].lastAvail /\ vq'[q].lastUsed = Inc(vq[q].lastUsed)
      /\ vq'[q].numFree = vq[q].numFree + 1
  BY RoomToTake, TakeUsedEffect DEF RingInv
<1>4. /\ x \in Tokens /\ x \in InUsed(q)
      /\ RingSound(vq[q].used, Inc(vq[q].lastUsed), vq[q].usedIdx)
      /\ InUsed(q)' = InUsed(q) \ {x}
  BY <1>1, <1>2, <1>3, RingTake DEF QueueSound, NextUsed, InUsed
<1>5. InAvail(q)' = InAvail(q) /\ x \notin InAvail(q)
  BY <1>2, <1>3, <1>4 DEF InAvail, QueueSound, BufferSound
<1>6. \A t \in Tokens : BufferSound(q, t)'
  <2>1. \A t \in Tokens \ {x} : /\ t \in InAvail(q)' <=> t \in InAvail(q)
                                /\ t \in InUsed(q)' <=> t \in InUsed(q)
    BY <1>4, <1>5
  <2>2. x \notin InAvail(q)' /\ x \notin InUsed(q)'
    BY <1>4, <1>5
  <2>3. token'[th] = x /\ \A u \in Threads \ {th} : token'[u] = token[u]
    BY DEF Hand
  <2>4. \A t \in Tokens : BufferSound(q, t)
    BY <1>2 DEF QueueSound
  <2> HIDE DEF x
  <2> QED BY <1>t, <1>4, <2>1, <2>2, <2>3, <2>4, BufferTaken
<1>7. /\ \A p \in VirtQueues \ {q} : sent'[p] = sent[p] /\ got'[p] = got[p]
      /\ sent' \in [VirtQueues -> Seq(Messages)] /\ got' \in [VirtQueues -> Seq(Messages)]
      /\ got'[q] = IF q = "toHost" THEN Append(got[q], vq[q].buf[x]) ELSE got[q]
  <2>1. CASE q = "toHost"
    <3>1. vq[q].buf[x] \in Messages
      BY <2>1, NextUsedIs, SendsAssumption
    <3>2. PICK m \in Messages : m = vq[q].buf[x]
      BY <3>1
    <3>3. Append(got[q], m) \in Seq(Messages)
      BY <1>2
    <3> HIDE DEF x
    <3> QED BY <2>1, <3>2, <3>3 DEF RingInv, x
  <2>2. CASE q # "toHost"
    BY <2>2 DEF RingInv
  <2> QED BY <2>1, <2>2
<1>8. Delivery(q)'
  <2>1. CASE q = "fromHost"
    BY <1>2, <1>3, <1>7, <2>1 DEF QueueSound, Delivery
  <2>2. CASE q = "toHost"
    <3>1. /\ sent[q] \in Seq(ToHost)
          /\ Delivers(vq[q].used, vq[q].lastUsed, vq[q].usedIdx, vq[q].buf, sent[q], got[q])
      BY <1>2, <2>2 DEF QueueSound, Delivery
    <3>2. Delivers(vq[q].used, Inc(vq[q].lastUsed), vq[q].usedIdx, vq[q].buf, sent[q],
                   Append(got[q], vq[q].buf[x]))
      BY <1>1, <1>2, <3>1, DeliversTake DEF NextUsed
    <3> HIDE DEF x
    <3> QED BY <1>3, <1>7, <2>2, <3>1, <3>2 DEF Delivery
  <2> QED BY <2>1, <2>2 DEF VirtQueues
<1>9. QueueSound(q)'
  BY <1>2, <1>3, <1>4, <1>6, <1>8 DEF QueueSound
<1>10. \A p \in VirtQueues \ {q} : QueueSound(p)' /\ vq'[p] = vq[p]
  BY <1>t, <1>3, <1>7, OtherQueueKept
<1>11. \A u \in Threads : Written(u)'
  <2>1. \A p \in VirtQueues :
                /\ vq'[p].buf = vq[p].buf
                /\ vq'[p].avail = vq[p].avail /\ vq'[p].availIdx = vq[p].availIdx
                /\ vq'[p].used = vq[p].used /\ vq'[p].usedIdx = vq[p].usedIdx
    BY <1>3, <1>10
  <2> QED BY <1>t, <2>1, WrittenSame DEF RingInv
<1>12. NumFreeSound'
  <2>n. Cardinality(leaked) \in Nat
    BY LeakedIsFinite
  <2>1. CASE th = HostIsr
    <3>1. pc'[HostTasks] = pc[HostTasks] /\ vq'["fromHost"] = vq["fromHost"] /\ q = "toHost"
      BY <1>10, <2>1, HostThreads, ThreadSets DEF Hand, VirtQueues
    <3> QED BY <1>3, <2>n, <2>1, <3>1 DEF RingInv, NumFreeSound
  <2>2. CASE th = HostTasks
    <3>1. pc'[HostIsr] = pc[HostIsr] /\ vq'["toHost"] = vq["toHost"] /\ q = "fromHost"
      BY <1>10, <2>2, HostThreads, ThreadSets DEF Hand, VirtQueues
    <3> QED BY <1>3, <2>2, <3>1, RingAssumption DEF RingInv, NumFreeSound
  <2> QED BY <2>1, <2>2, HostThreads
<1> QED BY <1>3, <1>7, <1>9, <1>10, <1>11, <1>12 DEF RingInv, OnlyChanges

\* The buffer of a thread is in neither ring, so there is room for it in both.
LEMMA HeldBuffer ==
    ASSUME ThreadInv, RingInv, NEW th \in Threads, NEW q \in VirtQueues, q = QueueOf(th),
           token[th] # NoToken
    PROVE  /\ token[th] \in Tokens /\ token[th] \notin InAvail(q) /\ token[th] \notin InUsed(q)
           /\ ~ IsLeaked(q, token[th])
           /\ Count(vq[q].lastAvail, vq[q].availIdx) < Num
           /\ Count(vq[q].lastUsed, vq[q].usedIdx) < Num
           /\ \A u \in Threads : QueueOf(u) = q /\ token[u] = token[th] => u = th
<1>1. token[th] \in Tokens
  BY DEF ThreadInv
<1>2. BufferSound(q, token[th]) /\ QueueSound(q)
  BY <1>1 DEF RingInv, QueueSound
<1>3. Holds(th, q, token[th])
  BY DEF Holds
<1>4. /\ token[th] \notin InAvail(q) /\ token[th] \notin InUsed(q) /\ ~ IsLeaked(q, token[th])
      /\ \A u \in Threads : Holds(u, q, token[th]) => u = th
  BY <1>2, <1>3 DEF BufferSound
<1>5. /\ Count(vq[q].lastAvail, vq[q].availIdx) < Num
      /\ Count(vq[q].lastUsed, vq[q].usedIdx) < Num
  BY <1>1, <1>2, <1>4, VirtQueueType, RingRoom DEF RingInv, QueueSound, InAvail, InUsed
<1> QED BY <1>1, <1>4, <1>5 DEF Holds

\* The entries that others are publishing: writing an entry and a buffer of one's own
\* changes none of them.
LEMMA WrittenByOthers ==
    ASSUME ThreadInv, RingInv, NEW th \in Threads, NEW q \in VirtQueues, q = QueueOf(th),
           token[th] # NoToken, NEW t, Hand(th, t), NEW u \in Threads, u # th,
           th \in Slave /\ u \in Slave => pc[u] # "publish",
           \A p \in VirtQueues \ {q} : vq'[p] = vq[p],
           th \in Slave => vq'[q].avail = vq[q].avail /\ vq'[q].availIdx = vq[q].availIdx,
           th \in Host => vq'[q].used = vq[q].used /\ vq'[q].usedIdx = vq[q].usedIdx,
           \A x \in Tokens \ {token[th]} : vq'[q].buf[x] = vq[q].buf[x]
    PROVE  Written(u)'
<1>1. QueueOf(u) \in VirtQueues /\ Written(u)
  BY QueueOfIs DEF RingInv
<1>2. pc'[u] = pc[u] /\ token'[u] = token[u] /\ msg'[u] = msg[u]
  BY DEF Hand
<1>3. CASE QueueOf(u) # q
  BY <1>1, <1>2, <1>3 DEF Written
<1>4. CASE QueueOf(u) = q /\ pc[u] = "publish"
  <2>1. token[u] \in Tokens /\ token[u] # token[th]
    <3>1. ThreadSound(u, pc[u], token[u], msg[u]) /\ token[u] \in Tokens \cup {NoToken}
      BY DEF ThreadInv
    <3>2. token[u] \in Tokens
      BY <1>4, <3>1 DEF ThreadSound, HoldLabels
    <3> QED BY <1>4, <3>2, HeldBuffer
  <2>2. vq'[q].buf[token[u]] = vq[q].buf[token[u]]
    BY <2>1
  <2>3. (th \in Slave /\ u \in Host) \/ (th \in Host /\ u \in Slave)
    BY <1>4, HostThreads DEF Threads
  <2>4. CASE th \in Slave /\ u \in Host /\ u \notin Slave
    BY <1>1, <1>2, <1>4, <2>2, <2>4 DEF Written
  <2>5. CASE th \in Host /\ u \in Slave /\ u \notin Host
    BY <1>1, <1>2, <1>4, <2>2, <2>5 DEF Written
  <2> QED BY <2>3, <2>4, <2>5, HostThreads
<1>5. CASE pc[u] # "publish"
  BY <1>2, <1>5 DEF Written
<1> QED BY <1>3, <1>4, <1>5

LEMMA WriteUsedKeeps ==
    ASSUME ThreadInv, RingInv, NEW th \in Slave, NEW q \in VirtQueues, q = QueueOf(th),
           token[th] # NoToken, ~Masked(th), WriteUsed(q, token[th], msg[th]),
           Hand(th, token[th]), pc'[th] = "publish", msg'[th] = msg[th],
           UNCHANGED <<leaked, sent, got>>
    PROVE  RingInv'
<1>t. th \in Threads /\ th \notin Host
  BY HostThreads DEF Threads
<1>m. PICK x \in Tokens, m \in Messages \cup {NoMsg} : x = token[th] /\ m = msg[th]
  BY <1>t, HeldBuffer DEF ThreadInv
<1>1. /\ vq[q].used \in [Tokens -> Tokens] /\ vq[q].avail \in [Tokens -> Tokens]
      /\ vq[q].buf \in [Tokens -> Messages \cup {NoMsg}]
      /\ vq[q].lastUsed \in Indices /\ vq[q].usedIdx \in Indices
      /\ vq[q].lastAvail \in Indices /\ vq[q].availIdx \in Indices
  BY VirtQueueType DEF RingInv
<1>2. QueueSound(q)
  BY DEF RingInv
<1>h. /\ x \in Tokens /\ x \notin InAvail(q) /\ x \notin InUsed(q)
      /\ Count(vq[q].lastUsed, vq[q].usedIdx) < Num
  BY <1>t, <1>m, HeldBuffer
<1>3. /\ OnlyChanges(q)
      /\ vq'[q].buf = [vq[q].buf EXCEPT ![x] = m]
      /\ vq'[q].avail = vq[q].avail /\ vq'[q].availIdx = vq[q].availIdx
      /\ vq'[q].used = [vq[q].used EXCEPT ![vq[q].usedIdx % Num] = x]
      /\ vq'[q].usedIdx = vq[q].usedIdx
      /\ vq'[q].lastAvail = vq[q].lastAvail /\ vq'[q].lastUsed = vq[q].lastUsed
      /\ vq'[q].numFree = vq[q].numFree
  <2>1. WriteUsed(q, x, m) /\ VirtQueueTypeOK
    BY <1>m DEF RingInv
  <2> QED BY <2>1, WriteUsedEffect
<1>4. /\ vq'[q].used[vq[q].usedIdx % Num] = x
      /\ \A k \in 0 .. Count(vq[q].lastUsed, vq[q].usedIdx) - 1 :
            vq'[q].used[Place(vq[q].lastUsed, k)] = vq[q].used[Place(vq[q].lastUsed, k)]
      /\ RingSound(vq'[q].used, vq[q].lastUsed, vq[q].usedIdx)
      /\ InUsed(q)' = InUsed(q)
  <2>1. PICK r \in [Tokens -> Tokens], i \in Indices, n \in Indices,
            r2 \in [Tokens -> Tokens] :
           /\ r = vq[q].used /\ i = vq[q].lastUsed /\ n = vq[q].usedIdx /\ r2 = vq'[q].used
    BY <1>1, <1>3
  <2>2. r2 = [r EXCEPT ![n % Num] = x] /\ RingSound(r, i, n) /\ Count(i, n) < Num
    BY <1>2, <1>3, <1>h, <2>1 DEF QueueSound
  <2>4. n % Num \in Tokens
    BY PlaceFirst, PlaceType DEF Indices
  <2>5. /\ r2 \in [Tokens -> Tokens] /\ r2[n % Num] = x
        /\ \A y \in Tokens \ {n % Num} : r2[y] = r[y]
    BY <2>2, <2>4
  <2>3. /\ \A k \in 0 .. Count(i, n) - 1 : r2[Place(i, k)] = r[Place(i, k)]
        /\ RingSound(r2, i, n)
        /\ Between(r2, i, n) = Between(r, i, n)
    <3>1. \A k \in 0 .. Count(i, n) - 1 : r2[Place(i, k)] = r[Place(i, k)]
      BY <2>2, <2>5, RingPlaces
    <3>2. RingSound(r, i, n)
      BY <2>2
    <3> QED BY <3>1, <3>2, RingSame
  <2> QED BY <1>3, <2>1, <2>3, <2>5 DEF InUsed
<1>5. InAvail(q)' = InAvail(q)
  BY <1>3 DEF InAvail
<1>b. \A y \in Tokens \ {x} : vq'[q].buf[y] = vq[q].buf[y]
  BY <1>1, <1>3
<1>c. vq'[q].buf[x] = m
  BY <1>1, <1>3, <1>h
<1>6. \A t \in Tokens : BufferSound(q, t)'
  <2>1. leaked' = leaked /\ \A u \in Threads : token'[u] = token[u]
    BY DEF Hand
  <2>2. \A t \in Tokens : IsLeaked(q, t)' <=> IsLeaked(q, t)
    BY <2>1 DEF IsLeaked
  <2>3. \A t \in Tokens : \A u \in Threads : Holds(u, q, t)' <=> Holds(u, q, t)
    BY <2>1 DEF Holds
  <2> QED BY <1>2, <1>4, <1>5, <2>2, <2>3 DEF QueueSound, BufferSound
<1>8. Delivery(q)'
  <2>1. CASE q = "toHost"
    <3>1. /\ sent[q] \in Seq(ToHost)
          /\ Delivers(vq[q].used, vq[q].lastUsed, vq[q].usedIdx, vq[q].buf, sent[q], got[q])
      BY <1>2, <2>1 DEF QueueSound, Delivery
    <3>2. ASSUME NEW k \in 0 .. Count(vq[q].lastUsed, vq[q].usedIdx) - 1
          PROVE  vq'[q].buf[vq'[q].used[Place(vq[q].lastUsed, k)]]
                   = vq[q].buf[vq[q].used[Place(vq[q].lastUsed, k)]]
      <4>1. vq[q].used[Place(vq[q].lastUsed, k)] \in InUsed(q)
        BY BetweenIs DEF InUsed
      <4>2. vq[q].used[Place(vq[q].lastUsed, k)] \in Tokens
        BY <1>1, PlaceType DEF Indices
      <4> QED BY <1>4, <1>b, <1>h, <4>1, <4>2
    <3>3. Delivers(vq'[q].used, vq[q].lastUsed, vq[q].usedIdx, vq'[q].buf, sent[q], got[q])
      BY <3>1, <3>2, DeliversKept
    <3> QED BY <1>3, <2>1, <3>1, <3>3 DEF Delivery
  <2>2. CASE q = "fromHost"
    <3>1. /\ sent[q] \in Seq(FromHost)
          /\ Delivers(vq[q].avail, vq[q].lastAvail, vq[q].availIdx, vq[q].buf, sent[q], got[q])
      BY <1>2, <2>2 DEF QueueSound, Delivery
    <3>2. ASSUME NEW k \in 0 .. Count(vq[q].lastAvail, vq[q].availIdx) - 1
          PROVE  vq'[q].buf[vq[q].avail[Place(vq[q].lastAvail, k)]]
                   = vq[q].buf[vq[q].avail[Place(vq[q].lastAvail, k)]]
      <4>1. vq[q].avail[Place(vq[q].lastAvail, k)] \in InAvail(q)
        BY BetweenIs DEF InAvail
      <4>2. vq[q].avail[Place(vq[q].lastAvail, k)] \in Tokens
        BY <1>1, PlaceType DEF Indices
      <4> QED BY <1>b, <1>h, <4>1, <4>2
    <3>3. Delivers(vq[q].avail, vq[q].lastAvail, vq[q].availIdx, vq'[q].buf, sent[q], got[q])
      BY <3>1, <3>2, DeliversKept
    <3> QED BY <1>3, <2>2, <3>1, <3>3 DEF Delivery
  <2> QED BY <2>1, <2>2 DEF VirtQueues
<1>9. QueueSound(q)'
  BY <1>2, <1>3, <1>4, <1>6, <1>8 DEF QueueSound
<1>10. \A p \in VirtQueues \ {q} : QueueSound(p)' /\ vq'[p] = vq[p]
  BY <1>t, <1>3, OtherQueueKept
<1>11. ASSUME NEW u \in Threads PROVE Written(u)'
  <2>1. CASE u = th
    <3>2. token'[th] = x
      BY <1>m DEF Hand
    <3>3. /\ vq'[q].used[vq'[q].usedIdx % Num] = token'[th]
          /\ vq'[q].buf[token'[th]] = msg'[th]
      BY <1>m, <1>3, <1>4, <1>c, <3>2
    <3>4. QueueOf(th) = q /\ th \notin Host
      BY <1>t
    <3> QED BY <2>1, <3>3, <3>4 DEF Written
  <2>2. CASE u # th
    <3>1. u \in Slave => pc[u] # "publish"
      BY <2>2 DEF Masked
    <3>2. /\ vq'[q].avail = vq[q].avail /\ vq'[q].availIdx = vq[q].availIdx
          /\ \A p \in VirtQueues \ {q} : vq'[p] = vq[p]
          /\ \A y \in Tokens \ {token[th]} : vq'[q].buf[y] = vq[q].buf[y]
      BY <1>m, <1>3, <1>b, <1>10
    <3> QED BY <1>t, <2>2, <3>1, <3>2, WrittenByOthers
  <2> QED BY <2>1, <2>2
<1>12. NumFreeSound'
  <2>1. \A p \in VirtQueues : vq'[p].numFree = vq[p].numFree
    BY <1>3, <1>10
  <2>2. \A u \in Host : pc'[u] = pc[u]
    BY HostThreads DEF Hand, Threads
  <2> QED BY <2>1, <2>2 DEF RingInv, NumFreeSound, VirtQueues, Host
<1> QED BY <1>3, <1>9, <1>10, <1>11, <1>12 DEF RingInv, OnlyChanges

LEMMA WriteAvailKeeps ==
    ASSUME ThreadInv, RingInv, NEW th \in Host, NEW q \in VirtQueues, q = QueueOf(th),
           token[th] # NoToken, WriteAvail(q, token[th], msg[th]), pc[th] = "add",
           Hand(th, token[th]), pc'[th] = "publish", msg'[th] = msg[th],
           UNCHANGED <<leaked, sent, got>>
    PROVE  RingInv'
<1>t. th \in Threads /\ th \notin Slave
  BY HostThreads DEF Threads
<1>m. PICK x \in Tokens, m \in Messages \cup {NoMsg} : x = token[th] /\ m = msg[th]
  BY <1>t, HeldBuffer DEF ThreadInv
<1>1. /\ vq[q].used \in [Tokens -> Tokens] /\ vq[q].avail \in [Tokens -> Tokens]
      /\ vq[q].buf \in [Tokens -> Messages \cup {NoMsg}]
      /\ vq[q].lastUsed \in Indices /\ vq[q].usedIdx \in Indices
      /\ vq[q].lastAvail \in Indices /\ vq[q].availIdx \in Indices
  BY VirtQueueType DEF RingInv
<1>2. QueueSound(q)
  BY DEF RingInv
<1>h. /\ x \in Tokens /\ x \notin InAvail(q) /\ x \notin InUsed(q)
      /\ Count(vq[q].lastAvail, vq[q].availIdx) < Num
  BY <1>t, <1>m, HeldBuffer
<1>3. /\ OnlyChanges(q)
      /\ vq'[q].buf = [vq[q].buf EXCEPT ![x] = m]
      /\ vq'[q].avail = [vq[q].avail EXCEPT ![vq[q].availIdx % Num] = x]
      /\ vq'[q].availIdx = vq[q].availIdx
      /\ vq'[q].used = vq[q].used /\ vq'[q].usedIdx = vq[q].usedIdx
      /\ vq'[q].lastAvail = vq[q].lastAvail /\ vq'[q].lastUsed = vq[q].lastUsed
      /\ vq'[q].numFree = vq[q].numFree - 1
  <2>1. WriteAvail(q, x, m) /\ VirtQueueTypeOK
    BY <1>m DEF RingInv
  <2> QED BY <2>1, WriteAvailEffect
<1>4. /\ vq'[q].avail[vq[q].availIdx % Num] = x
      /\ \A k \in 0 .. Count(vq[q].lastAvail, vq[q].availIdx) - 1 :
            vq'[q].avail[Place(vq[q].lastAvail, k)] = vq[q].avail[Place(vq[q].lastAvail, k)]
      /\ RingSound(vq'[q].avail, vq[q].lastAvail, vq[q].availIdx)
      /\ InAvail(q)' = InAvail(q)
  <2>1. PICK r \in [Tokens -> Tokens], i \in Indices, n \in Indices,
            r2 \in [Tokens -> Tokens] :
           /\ r = vq[q].avail /\ i = vq[q].lastAvail /\ n = vq[q].availIdx /\ r2 = vq'[q].avail
    BY <1>1, <1>3
  <2>2. r2 = [r EXCEPT ![n % Num] = x] /\ RingSound(r, i, n) /\ Count(i, n) < Num
    BY <1>2, <1>3, <1>h, <2>1 DEF QueueSound
  <2>4. n % Num \in Tokens
    BY PlaceFirst, PlaceType DEF Indices
  <2>5. /\ r2 \in [Tokens -> Tokens] /\ r2[n % Num] = x
        /\ \A y \in Tokens \ {n % Num} : r2[y] = r[y]
    BY <2>2, <2>4
  <2>3. /\ \A k \in 0 .. Count(i, n) - 1 : r2[Place(i, k)] = r[Place(i, k)]
        /\ RingSound(r2, i, n)
        /\ Between(r2, i, n) = Between(r, i, n)
    <3>1. \A k \in 0 .. Count(i, n) - 1 : r2[Place(i, k)] = r[Place(i, k)]
      BY <2>2, <2>5, RingPlaces
    <3>2. RingSound(r, i, n)
      BY <2>2
    <3> QED BY <3>1, <3>2, RingSame
  <2> QED BY <1>3, <2>1, <2>3, <2>5 DEF InAvail
<1>5. InUsed(q)' = InUsed(q)
  BY <1>3 DEF InUsed
<1>b. \A y \in Tokens \ {x} : vq'[q].buf[y] = vq[q].buf[y]
  BY <1>1, <1>3
<1>c. vq'[q].buf[x] = m
  BY <1>1, <1>3, <1>h
<1>6. \A t \in Tokens : BufferSound(q, t)'
  <2>1. leaked' = leaked /\ \A u \in Threads : token'[u] = token[u]
    BY DEF Hand
  <2>2. \A t \in Tokens : IsLeaked(q, t)' <=> IsLeaked(q, t)
    BY <2>1 DEF IsLeaked
  <2>3. \A t \in Tokens : \A u \in Threads : Holds(u, q, t)' <=> Holds(u, q, t)
    BY <2>1 DEF Holds
  <2> QED BY <1>2, <1>4, <1>5, <2>2, <2>3 DEF QueueSound, BufferSound
<1>8. Delivery(q)'
  <2>1. CASE q = "toHost"
    <3>1. /\ sent[q] \in Seq(ToHost)
          /\ Delivers(vq[q].used, vq[q].lastUsed, vq[q].usedIdx, vq[q].buf, sent[q], got[q])
      BY <1>2, <2>1 DEF QueueSound, Delivery
    <3>2. ASSUME NEW k \in 0 .. Count(vq[q].lastUsed, vq[q].usedIdx) - 1
          PROVE  vq'[q].buf[vq[q].used[Place(vq[q].lastUsed, k)]]
                   = vq[q].buf[vq[q].used[Place(vq[q].lastUsed, k)]]
      <4>1. vq[q].used[Place(vq[q].lastUsed, k)] \in InUsed(q)
        BY BetweenIs DEF InUsed
      <4>2. vq[q].used[Place(vq[q].lastUsed, k)] \in Tokens
        BY <1>1, PlaceType DEF Indices
      <4> QED BY <1>b, <1>h, <4>1, <4>2
    <3>3. Delivers(vq[q].used, vq[q].lastUsed, vq[q].usedIdx, vq'[q].buf, sent[q], got[q])
      BY <3>1, <3>2, DeliversKept
    <3> QED BY <1>3, <2>1, <3>1, <3>3 DEF Delivery
  <2>2. CASE q = "fromHost"
    <3>1. /\ sent[q] \in Seq(FromHost)
          /\ Delivers(vq[q].avail, vq[q].lastAvail, vq[q].availIdx, vq[q].buf, sent[q], got[q])
      BY <1>2, <2>2 DEF QueueSound, Delivery
    <3>2. ASSUME NEW k \in 0 .. Count(vq[q].lastAvail, vq[q].availIdx) - 1
          PROVE  vq'[q].buf[vq'[q].avail[Place(vq[q].lastAvail, k)]]
                   = vq[q].buf[vq[q].avail[Place(vq[q].lastAvail, k)]]
      <4>1. vq[q].avail[Place(vq[q].lastAvail, k)] \in InAvail(q)
        BY BetweenIs DEF InAvail
      <4>2. vq[q].avail[Place(vq[q].lastAvail, k)] \in Tokens
        BY <1>1, PlaceType DEF Indices
      <4> QED BY <1>4, <1>b, <1>h, <4>1, <4>2
    <3>3. Delivers(vq'[q].avail, vq[q].lastAvail, vq[q].availIdx, vq'[q].buf, sent[q], got[q])
      BY <3>1, <3>2, DeliversKept
    <3> QED BY <1>3, <2>2, <3>1, <3>3 DEF Delivery
  <2> QED BY <2>1, <2>2 DEF VirtQueues
<1>9. QueueSound(q)'
  BY <1>2, <1>3, <1>4, <1>6, <1>8 DEF QueueSound
<1>10. \A p \in VirtQueues \ {q} : QueueSound(p)' /\ vq'[p] = vq[p]
  BY <1>t, <1>3, OtherQueueKept
<1>11. ASSUME NEW u \in Threads PROVE Written(u)'
  <2>1. CASE u = th
    <3>2. token'[th] = x
      BY <1>m DEF Hand
    <3>3. /\ vq'[q].avail[vq'[q].availIdx % Num] = token'[th]
          /\ vq'[q].buf[token'[th]] = msg'[th]
      BY <1>m, <1>3, <1>4, <1>c, <3>2
    <3>4. QueueOf(th) = q /\ th \notin Slave
      BY <1>t
    <3> QED BY <2>1, <3>3, <3>4 DEF Written
  <2>2. CASE u # th
    <3>2. /\ vq'[q].used = vq[q].used /\ vq'[q].usedIdx = vq[q].usedIdx
          /\ \A p \in VirtQueues \ {q} : vq'[p] = vq[p]
          /\ \A y \in Tokens \ {token[th]} : vq'[q].buf[y] = vq[q].buf[y]
      BY <1>m, <1>3, <1>b, <1>10
    <3> QED BY <1>t, <2>2, <3>2, WrittenByOthers
  <2> QED BY <2>1, <2>2
<1>12. NumFreeSound'
  <2>n. Cardinality(leaked) \in Nat
    BY LeakedIsFinite
  <2>f. vq'[q].numFree = vq[q].numFree - 1
    BY <1>3
  <2>1. CASE th = HostIsr
    <3>1. pc'[HostTasks] = pc[HostTasks] /\ vq'["fromHost"] = vq["fromHost"] /\ q = "toHost"
      BY <1>10, <2>1, HostThreads, ThreadSets DEF Hand, VirtQueues
    <3>2. vq["toHost"].numFree = Cardinality(leaked) + 1 /\ leaked \subseteq Tokens
          /\ vq["fromHost"].numFree = Num + (IF pc[HostTasks] = "add" THEN 1 ELSE 0)
      BY <2>1 DEF RingInv, NumFreeSound
    <3>3. vq'["toHost"].numFree = Cardinality(leaked)
      BY <2>f, <2>n, <3>1, <3>2
    <3>4. pc'[HostIsr] # "add"
      BY <2>1
    <3> QED BY <2>n, <3>1, <3>2, <3>3, <3>4 DEF NumFreeSound
  <2>2. CASE th = HostTasks
    <3>1. pc'[HostIsr] = pc[HostIsr] /\ vq'["toHost"] = vq["toHost"] /\ q = "fromHost"
      BY <1>10, <2>2, HostThreads, ThreadSets DEF Hand, VirtQueues
    <3> QED BY <2>f, <2>2, <3>1, RingAssumption DEF RingInv, NumFreeSound
  <2> QED BY <2>1, <2>2, HostThreads
<1> QED BY <1>3, <1>9, <1>10, <1>11, <1>12 DEF RingInv, OnlyChanges

LEMMA PublishUsedKeeps ==
    ASSUME ThreadInv, RingInv, NEW th \in Slave, NEW q \in VirtQueues, q = QueueOf(th),
           token[th] # NoToken, pc[th] = "publish", PublishUsed(q), Hand(th, NoToken),
           pc'[th] \notin {"publish", "add"}, UNCHANGED <<leaked, got>>,
           sent' = IF q = "toHost" THEN [sent EXCEPT ![q] = Append(@, msg[th])] ELSE sent
    PROVE  RingInv'
<1>t. th \in Threads /\ th \notin Host
  BY HostThreads DEF Threads
<1>x. PICK x \in Tokens, m \in Messages \cup {NoMsg} : x = token[th] /\ m = msg[th]
  BY <1>t, HeldBuffer DEF ThreadInv
<1>1. PICK r \in [Tokens -> Tokens], i \in Indices, j \in Indices,
              b \in [Tokens -> Messages \cup {NoMsg}] :
         r = vq[q].used /\ i = vq[q].lastUsed /\ j = vq[q].usedIdx /\ b = vq[q].buf
  BY VirtQueueType DEF RingInv
<1>2. QueueSound(q) /\ sent[q] \in Seq(Messages) /\ got[q] \in Seq(Messages)
  BY DEF RingInv
<1>3. /\ OnlyChanges(q)
      /\ vq'[q].buf = vq[q].buf
      /\ vq'[q].avail = vq[q].avail /\ vq'[q].used = vq[q].used
      /\ vq'[q].usedIdx = Inc(vq[q].usedIdx) /\ vq'[q].availIdx = vq[q].availIdx
      /\ vq'[q].lastAvail = vq[q].lastAvail /\ vq'[q].lastUsed = vq[q].lastUsed
      /\ vq'[q].numFree = vq[q].numFree
  BY PublishUsedEffect DEF RingInv
<1>h. /\ x \notin InAvail(q) /\ x \notin InUsed(q) /\ Count(i, j) < Num /\ RingSound(r, i, j)
      /\ InUsed(q) = Between(r, i, j)
  BY <1>t, <1>x, <1>1, <1>2, HeldBuffer DEF QueueSound, InUsed
<1>w. r[j % Num] = x /\ (q = "toHost" => b[x] = m)
  <2>1. Written(th) /\ (q = "toHost" => th \in Senders \cup {HostTasks})
    BY <1>t, QueueOfIs, ThreadSets, HostThreads DEF RingInv, Slave, Tasks
  <2> QED BY <1>x, <1>1, <2>1 DEF Written
<1>4. /\ RingSound(r, i, Inc(j)) /\ Between(r, i, Inc(j)) = Between(r, i, j) \cup {x}
  BY <1>h, <1>w, RingPublish
<1>5. InUsed(q)' = InUsed(q) \cup {x} /\ InAvail(q)' = InAvail(q)
  BY <1>1, <1>3, <1>4, <1>h DEF InUsed, InAvail
<1>6. \A t \in Tokens : BufferSound(q, t)'
  <2>1. \A t \in Tokens \ {x} : /\ t \in InAvail(q)' <=> t \in InAvail(q)
                                /\ t \in InUsed(q)' <=> t \in InUsed(q)
    BY <1>5
  <2>2. x \in InUsed(q)' /\ x \notin InAvail(q)'
    BY <1>5, <1>h
  <2>3. token[th] = x /\ token'[th] = NoToken /\ \A u \in Threads \ {th} : token'[u] = token[u]
    BY <1>x DEF Hand
  <2>4. \A t \in Tokens : BufferSound(q, t)
    BY <1>2 DEF QueueSound
  <2> QED BY <1>t, <2>1, <2>2, <2>3, <2>4, BufferGiven
<1>m. q = "toHost" => m \in ToHost /\ m \in Messages
  <2>1. q = "toHost" => th \in Senders
    BY <1>t, QueueOfIs, ThreadSets, HostThreads DEF Slave, Tasks
  <2>2. ThreadSound(th, pc[th], token[th], msg[th])
    BY <1>t DEF ThreadInv
  <2> QED BY <1>x, <2>1, <2>2, SendsAssumption DEF ThreadSound
<1>7. /\ \A p \in VirtQueues \ {q} : sent'[p] = sent[p] /\ got'[p] = got[p]
      /\ sent' \in [VirtQueues -> Seq(Messages)] /\ got' \in [VirtQueues -> Seq(Messages)]
      /\ sent'[q] = IF q = "toHost" THEN Append(sent[q], m) ELSE sent[q]
  <2>1. CASE q = "toHost"
    <3>1. Append(sent[q], m) \in Seq(Messages)
      BY <1>2, <1>m, <2>1
    <3> QED BY <1>x, <2>1, <3>1 DEF RingInv
  <2>2. CASE q # "toHost"
    BY <2>2 DEF RingInv
  <2> QED BY <2>1, <2>2
<1>8. Delivery(q)'
  <2>1. CASE q = "fromHost"
    BY <1>2, <1>3, <1>7, <2>1 DEF QueueSound, Delivery
  <2>2. CASE q = "toHost"
    <3>1. PICK s \in Seq(Messages), g \in Seq(Messages) : s = sent[q] /\ g = got[q]
      BY <1>2
    <3>2. s \in Seq(ToHost) /\ Delivers(r, i, j, b, s, g)
      BY <1>1, <1>2, <2>2, <3>1 DEF QueueSound, Delivery
    <3>3. m \in Messages /\ b[r[j % Num]] = m
      BY <1>m, <1>w, <2>2
    <3>4. Delivers(r, i, Inc(j), b, Append(s, m), g)
      BY <1>h, <3>2, <3>3, DeliversSend
    <3>5. Append(s, m) \in Seq(ToHost)
      BY <1>m, <2>2, <3>2
    <3>6. sent'[q] = Append(s, m) /\ got'[q] = g
      BY <1>7, <2>2, <3>1
    <3>7. /\ vq'[q].used = r /\ vq'[q].lastUsed = i /\ vq'[q].usedIdx = Inc(j)
          /\ vq'[q].buf = b
      BY <1>1, <1>3
    <3> QED BY <2>2, <3>4, <3>5, <3>6, <3>7 DEF Delivery
  <2> QED BY <2>1, <2>2 DEF VirtQueues
<1>9. QueueSound(q)'
  BY <1>1, <1>2, <1>3, <1>4, <1>6, <1>8 DEF QueueSound
<1>10. \A p \in VirtQueues \ {q} : QueueSound(p)' /\ vq'[p] = vq[p]
  BY <1>t, <1>3, <1>7, OtherQueueKept
<1>11. ASSUME NEW u \in Threads PROVE Written(u)'
  <2>1. CASE u = th
    BY <2>1 DEF Written
  <2>2. CASE u # th
    <3>1. u \in Slave => pc[u] # "publish"
      BY <2>2 DEF ThreadInv, OneMasks
    <3>2. /\ vq'[q].avail = vq[q].avail /\ vq'[q].availIdx = vq[q].availIdx
          /\ \A p \in VirtQueues \ {q} : vq'[p] = vq[p]
          /\ \A y \in Tokens \ {token[th]} : vq'[q].buf[y] = vq[q].buf[y]
      BY <1>3, <1>10
    <3> QED BY <1>t, <2>2, <3>1, <3>2, WrittenByOthers
  <2> QED BY <2>1, <2>2
<1>12. NumFreeSound'
  <2>1. \A p \in VirtQueues : vq'[p].numFree = vq[p].numFree
    BY <1>3, <1>10
  <2>2. \A u \in Host : pc'[u] = "add" <=> pc[u] = "add"
    BY HostThreads DEF Hand, Threads
  <2> QED BY <2>1, <2>2 DEF RingInv, NumFreeSound, VirtQueues, Host
<1> QED BY <1>3, <1>7, <1>9, <1>10, <1>11, <1>12 DEF RingInv, OnlyChanges

LEMMA PublishAvailKeeps ==
    ASSUME ThreadInv, RingInv, NEW th \in Host, NEW q \in VirtQueues, q = QueueOf(th),
           token[th] # NoToken, pc[th] = "publish", PublishAvail(q), Hand(th, NoToken),
           pc'[th] \notin {"publish", "add"}, UNCHANGED <<leaked, got>>,
           sent' = IF q = "fromHost" THEN [sent EXCEPT ![q] = Append(@, msg[th])] ELSE sent
    PROVE  RingInv'
<1>t. th \in Threads /\ th \notin Slave
  BY HostThreads DEF Threads
<1>x. PICK x \in Tokens, m \in Messages \cup {NoMsg} : x = token[th] /\ m = msg[th]
  BY <1>t, HeldBuffer DEF ThreadInv
<1>1. PICK r \in [Tokens -> Tokens], i \in Indices, j \in Indices,
              b \in [Tokens -> Messages \cup {NoMsg}] :
         r = vq[q].avail /\ i = vq[q].lastAvail /\ j = vq[q].availIdx /\ b = vq[q].buf
  BY VirtQueueType DEF RingInv
<1>2. QueueSound(q) /\ sent[q] \in Seq(Messages) /\ got[q] \in Seq(Messages)
  BY DEF RingInv
<1>3. /\ OnlyChanges(q)
      /\ vq'[q].buf = vq[q].buf
      /\ vq'[q].avail = vq[q].avail /\ vq'[q].used = vq[q].used
      /\ vq'[q].availIdx = Inc(vq[q].availIdx) /\ vq'[q].usedIdx = vq[q].usedIdx
      /\ vq'[q].lastAvail = vq[q].lastAvail /\ vq'[q].lastUsed = vq[q].lastUsed
      /\ vq'[q].numFree = vq[q].numFree
  BY PublishAvailEffect DEF RingInv
<1>h. /\ x \notin InAvail(q) /\ x \notin InUsed(q) /\ Count(i, j) < Num /\ RingSound(r, i, j)
      /\ InAvail(q) = Between(r, i, j)
  BY <1>t, <1>x, <1>1, <1>2, HeldBuffer DEF QueueSound, InAvail
<1>w. r[j % Num] = x /\ (q = "fromHost" => b[x] = m)
  <2>1. Written(th) /\ (q = "fromHost" => th \in Senders \cup {HostTasks})
    BY <1>t, QueueOfIs, ThreadSets, HostThreads DEF RingInv, Slave, Tasks
  <2> QED BY <1>x, <1>1, <2>1 DEF Written
<1>4. /\ RingSound(r, i, Inc(j)) /\ Between(r, i, Inc(j)) = Between(r, i, j) \cup {x}
  BY <1>h, <1>w, RingPublish
<1>5. InAvail(q)' = InAvail(q) \cup {x} /\ InUsed(q)' = InUsed(q)
  BY <1>1, <1>3, <1>4, <1>h DEF InUsed, InAvail
<1>6. \A t \in Tokens : BufferSound(q, t)'
  <2>1. \A t \in Tokens \ {x} : /\ t \in InAvail(q)' <=> t \in InAvail(q)
                                /\ t \in InUsed(q)' <=> t \in InUsed(q)
    BY <1>5
  <2>2. x \in InAvail(q)' /\ x \notin InUsed(q)'
    BY <1>5, <1>h
  <2>3. token[th] = x /\ token'[th] = NoToken /\ \A u \in Threads \ {th} : token'[u] = token[u]
    BY <1>x DEF Hand
  <2>4. \A t \in Tokens : BufferSound(q, t)
    BY <1>2 DEF QueueSound
  <2> QED BY <1>t, <2>1, <2>2, <2>3, <2>4, BufferGiven
<1>m. q = "fromHost" => m \in FromHost /\ m \in Messages
  <2>1. q = "fromHost" => th = HostTasks
    BY <1>t, QueueOfIs, ThreadSets, HostThreads DEF Slave, Tasks
  <2>2. ThreadSound(th, pc[th], token[th], msg[th])
    BY <1>t DEF ThreadInv
  <2> QED BY <1>x, <2>1, <2>2, SendsAssumption DEF ThreadSound
<1>7. /\ \A p \in VirtQueues \ {q} : sent'[p] = sent[p] /\ got'[p] = got[p]
      /\ sent' \in [VirtQueues -> Seq(Messages)] /\ got' \in [VirtQueues -> Seq(Messages)]
      /\ sent'[q] = IF q = "fromHost" THEN Append(sent[q], m) ELSE sent[q]
  <2>1. CASE q = "fromHost"
    <3>1. Append(sent[q], m) \in Seq(Messages)
      BY <1>2, <1>m, <2>1
    <3> QED BY <1>x, <2>1, <3>1 DEF RingInv
  <2>2. CASE q # "fromHost"
    BY <2>2 DEF RingInv
  <2> QED BY <2>1, <2>2
<1>8. Delivery(q)'
  <2>1. CASE q = "toHost"
    BY <1>2, <1>3, <1>7, <2>1 DEF QueueSound, Delivery
  <2>2. CASE q = "fromHost"
    <3>1. PICK s \in Seq(Messages), g \in Seq(Messages) : s = sent[q] /\ g = got[q]
      BY <1>2
    <3>2. s \in Seq(FromHost) /\ Delivers(r, i, j, b, s, g)
      BY <1>1, <1>2, <2>2, <3>1 DEF QueueSound, Delivery
    <3>3. m \in Messages /\ b[r[j % Num]] = m
      BY <1>m, <1>w, <2>2
    <3>4. Delivers(r, i, Inc(j), b, Append(s, m), g)
      BY <1>h, <3>2, <3>3, DeliversSend
    <3>5. Append(s, m) \in Seq(FromHost)
      BY <1>m, <2>2, <3>2
    <3>6. sent'[q] = Append(s, m) /\ got'[q] = g
      BY <1>7, <2>2, <3>1
    <3>7. /\ vq'[q].avail = r /\ vq'[q].lastAvail = i /\ vq'[q].availIdx = Inc(j)
          /\ vq'[q].buf = b
      BY <1>1, <1>3
    <3> QED BY <2>2, <3>4, <3>5, <3>6, <3>7 DEF Delivery
  <2> QED BY <2>1, <2>2 DEF VirtQueues
<1>9. QueueSound(q)'
  BY <1>1, <1>2, <1>3, <1>4, <1>6, <1>8 DEF QueueSound
<1>10. \A p \in VirtQueues \ {q} : QueueSound(p)' /\ vq'[p] = vq[p]
  BY <1>t, <1>3, <1>7, OtherQueueKept
<1>11. ASSUME NEW u \in Threads PROVE Written(u)'
  <2>1. CASE u = th
    BY <2>1 DEF Written
  <2>2. CASE u # th
    <3>2. /\ vq'[q].used = vq[q].used /\ vq'[q].usedIdx = vq[q].usedIdx
          /\ \A p \in VirtQueues \ {q} : vq'[p] = vq[p]
          /\ \A y \in Tokens \ {token[th]} : vq'[q].buf[y] = vq[q].buf[y]
      BY <1>3, <1>10
    <3> QED BY <1>t, <2>2, <3>2, WrittenByOthers
  <2> QED BY <2>1, <2>2
<1>12. NumFreeSound'
  <2>1. \A p \in VirtQueues : vq'[p].numFree = vq[p].numFree
    BY <1>3, <1>10
  <2>2. \A u \in Host : pc'[u] = "add" <=> pc[u] = "add"
    BY HostThreads DEF Hand, Threads
  <2> QED BY <2>1, <2>2 DEF RingInv, NumFreeSound, VirtQueues, Host
<1> QED BY <1>3, <1>7, <1>9, <1>10, <1>11, <1>12 DEF RingInv, OnlyChanges

\* The host takes a message for an endpoint it does not have: the buffer stays with it.
LEMMA LeakKeeps ==
    ASSUME RingInv, HasUsed("toHost"), TakeUsed("toHost"), pc[HostIsr] # "add",
           UNCHANGED <<pc, token, msg, sent>>, leaked' = leaked \cup {NextUsed("toHost")},
           got' = [got EXCEPT !["toHost"] = Append(@, vq["toHost"].buf[NextUsed("toHost")])]
    PROVE  RingInv'
<1> DEFINE q == "toHost"
<1>q. q \in VirtQueues
  BY DEF VirtQueues
<1>x. PICK x \in Tokens, m \in ToHost : x = NextUsed(q) /\ m = vq[q].buf[x]
  BY <1>q, NextUsedIs
<1>1. PICK r \in [Tokens -> Tokens], i \in Indices, j \in Indices,
              b \in [Tokens -> Messages \cup {NoMsg}] :
         r = vq[q].used /\ i = vq[q].lastUsed /\ j = vq[q].usedIdx /\ b = vq[q].buf
  BY <1>q, VirtQueueType DEF RingInv
<1>2. QueueSound(q) /\ sent[q] \in Seq(Messages) /\ got[q] \in Seq(Messages) /\ m \in Messages
  BY <1>q, SendsAssumption DEF RingInv
<1>3. /\ OnlyChanges(q)
      /\ vq'[q].buf = vq[q].buf
      /\ vq'[q].avail = vq[q].avail /\ vq'[q].availIdx = vq[q].availIdx
      /\ vq'[q].used = vq[q].used /\ vq'[q].usedIdx = vq[q].usedIdx
      /\ vq'[q].lastAvail = vq[q].lastAvail /\ vq'[q].lastUsed = Inc(vq[q].lastUsed)
      /\ vq'[q].numFree = vq[q].numFree + 1
  <2>1. vq[q].numFree <= Num
    BY RoomToTake, HostThreads DEF Host
  <2> QED BY <1>q, <2>1, TakeUsedEffect DEF RingInv
<1>4. /\ i # j /\ RingSound(r, i, j) /\ x = r[i % Num] /\ m = b[r[i % Num]]
      /\ InUsed(q) = Between(r, i, j)
  BY <1>x, <1>1, <1>2 DEF HasUsed, QueueSound, NextUsed, InUsed
<1>5. /\ x \in Between(r, i, j) /\ RingSound(r, Inc(i), j)
      /\ Between(r, Inc(i), j) = Between(r, i, j) \ {x}
  BY <1>4, RingTake
<1>6. x \in InUsed(q) /\ InUsed(q)' = InUsed(q) \ {x} /\ InAvail(q)' = InAvail(q)
  BY <1>1, <1>3, <1>4, <1>5 DEF InUsed, InAvail
<1>7. x \notin leaked /\ \A t \in Tokens : BufferSound(q, t)'
  BY <1>x, <1>2, <1>6, BufferLeaked DEF QueueSound
<1>8. /\ \A p \in VirtQueues \ {q} : sent'[p] = sent[p] /\ got'[p] = got[p]
      /\ sent' \in [VirtQueues -> Seq(Messages)] /\ got' \in [VirtQueues -> Seq(Messages)]
      /\ got'[q] = Append(got[q], m)
  <2>1. Append(got[q], m) \in Seq(Messages)
    BY <1>2
  <2> QED BY <1>q, <1>x, <2>1 DEF RingInv
<1>9. Delivery(q)'
  <2>1. PICK s \in Seq(Messages), g \in Seq(Messages) : s = sent[q] /\ g = got[q]
    BY <1>2
  <2>2. s \in Seq(ToHost) /\ Delivers(r, i, j, b, s, g)
    BY <1>1, <1>2, <2>1 DEF QueueSound, Delivery
  <2>3. Delivers(r, Inc(i), j, b, s, Append(g, b[r[i % Num]]))
    BY <1>4, <2>2, DeliversTake
  <2>4. /\ vq'[q].used = r /\ vq'[q].lastUsed = Inc(i) /\ vq'[q].usedIdx = j /\ vq'[q].buf = b
        /\ sent'[q] = s /\ got'[q] = Append(g, b[r[i % Num]])
    BY <1>1, <1>3, <1>4, <1>8, <2>1
  <2> QED BY <2>2, <2>3, <2>4 DEF Delivery
<1>10. QueueSound(q)'
  BY <1>1, <1>2, <1>3, <1>5, <1>7, <1>9 DEF QueueSound
<1>11. \A p \in VirtQueues \ {q} : QueueSound(p)' /\ vq'[p] = vq[p]
  <2> SUFFICES ASSUME NEW p \in VirtQueues \ {q} PROVE QueueSound(p)' /\ vq'[p] = vq[p]
    OBVIOUS
  <2>1. vq'[p] = vq[p] /\ QueueSound(p) /\ sent'[p] = sent[p] /\ got'[p] = got[p] /\ p # "toHost"
    BY <1>3, <1>8 DEF OnlyChanges, RingInv
  <2> QED BY <2>1, QueueKept
<1>12. \A u \in Threads : Written(u)'
  <2> SUFFICES ASSUME NEW u \in Threads PROVE Written(u)'
    OBVIOUS
  <2>1. PICK p \in VirtQueues : p = QueueOf(u)
    BY QueueOfIs
  <2>2. /\ vq'[p].buf = vq[p].buf
        /\ vq'[p].avail = vq[p].avail /\ vq'[p].availIdx = vq[p].availIdx
        /\ vq'[p].used = vq[p].used /\ vq'[p].usedIdx = vq[p].usedIdx
    BY <1>3, <1>11
  <2> QED BY <2>1, <2>2 DEF RingInv, Written
<1>13. NumFreeSound'
  <2>1. IsFiniteSet(leaked) /\ Cardinality(leaked) \in Nat
    BY LeakedIsFinite
  <2>2. Cardinality(leaked') = Cardinality(leaked) + 1
    BY <1>x, <1>7, <2>1, FS_AddElement
  <2>3. vq'["fromHost"] = vq["fromHost"]
    BY <1>11 DEF VirtQueues
  <2> QED BY <1>3, <1>x, <2>1, <2>2, <2>3 DEF RingInv, NumFreeSound
<1> QED BY <1>3, <1>8, <1>10, <1>11, <1>12, <1>13 DEF RingInv, OnlyChanges

LEMMA ClearKeeps ==
    ASSUME RingInv, NEW q \in VirtQueues, ClearNoNotify(q), UNCHANGED <<token, leaked, sent, got>>,
           \A th \in Threads : pc'[th] = "publish" => pc[th] = "publish" /\ msg'[th] = msg[th],
           \A th \in Host : pc'[th] = "add" <=> pc[th] = "add"
    PROVE  RingInv'
<1>1. VirtQueueTypeOK'
  BY ClearEffect DEF RingInv, OnlyChanges
<1>2. ASSUME NEW p \in VirtQueues
      PROVE  /\ vq'[p].buf = vq[p].buf
             /\ vq'[p].avail = vq[p].avail /\ vq'[p].availIdx = vq[p].availIdx
             /\ vq'[p].used = vq[p].used /\ vq'[p].usedIdx = vq[p].usedIdx
             /\ vq'[p].lastAvail = vq[p].lastAvail /\ vq'[p].lastUsed = vq[p].lastUsed
             /\ vq'[p].numFree = vq[p].numFree
  <2>1. CASE p = q
    BY <2>1, ClearEffect DEF RingInv
  <2>2. CASE p # q
    BY <2>2, ClearEffect DEF RingInv, OnlyChanges
  <2> QED BY <2>1, <2>2
<1>3. ASSUME NEW p \in VirtQueues PROVE QueueSound(p)'
  <2>1. QueueSound(p)
    BY DEF RingInv
  <2> QED BY <1>2, <2>1, QueueKept
<1>4. ASSUME NEW u \in Threads PROVE Written(u)'
  <2>1. PICK p \in VirtQueues : p = QueueOf(u)
    BY QueueOfIs
  <2>2. Written(u)
    BY DEF RingInv
  <2> QED BY <1>2, <2>1, <2>2 DEF Written
<1>5. NumFreeSound'
  BY <1>2 DEF RingInv, NumFreeSound, VirtQueues, Host
<1> QED BY <1>1, <1>3, <1>4, <1>5 DEF RingInv

-----------------------------------------------------------------------------
(* The endpoints and the heap                                               *)

Posters(e) == {th \in Threads : pc[th] = "post" /\ dstEndpt[msg[th]] = e}
Putters == {th \in Threads : pc[th] \in {"put", "aborted"}}
EntriesOf(f) == UNION {{<<e, i>> : i \in DOMAIN f[e]} : e \in Endpoints}
Entries == EntriesOf(queue)

\* The semaphore of an endpoint that was not unblocked counts the messages of its queue,
\* but for the message of a woken receiver and those whose sender has yet to post.
EndpointSound(e) ==
    /\ pc[e] \in {"recv", "woken", "deleted"} => e \in objects
    /\ e \notin objects \/ pc[e] = "deleted" =>
          /\ queue[e] = <<>> /\ semHandle[e] = 0
          /\ \A th \in Threads : pc[th] \in {"put", "post"} => dstEndpt[msg[th]] # e
    /\ \/ unblocked[e]
       \/ Len(queue[e]) = semHandle[e] + (IF pc[e] = "woken" THEN 1 ELSE 0)
                          + Cardinality(Posters(e))

\* The blocks of the heap are never more than there were, and none is lost unless a message
\* met a deletion.
HeapSound ==
    /\ IsFiniteSet(Entries) /\ heap \in Nat
    /\ heap + Cardinality(Putters) + Cardinality(Entries) <= HeapBlocks
    /\ LateIsLost \/ heap + Cardinality(Putters) + Cardinality(Entries) = HeapBlocks

EndpointTypes ==
    /\ objects \subseteq Endpoints \cup Callbacks
    /\ queue \in [Endpoints -> Seq(Messages)] /\ semHandle \in [Endpoints -> Nat]
    /\ unblocked \in [Endpoints -> BOOLEAN] /\ stale \in BOOLEAN

EndpointInv ==
    /\ EndpointTypes
    /\ \A e \in Endpoints : EndpointSound(e)
    /\ HeapSound

LEMMA ThreadsFinite ==
    /\ IsFiniteSet(Threads)
    /\ \A e : IsFiniteSet(Posters(e)) /\ Cardinality(Posters(e)) \in Nat
    /\ IsFiniteSet(Putters) /\ Cardinality(Putters) \in Nat
<1>1. IsFiniteSet(Tasks \cup {Swi}) /\ IsFiniteSet((Tasks \cup {Swi}) \cup {HostIsr})
  BY FS_AddElement, ThreadsAssumption
<1>2. IsFiniteSet(((Tasks \cup {Swi}) \cup {HostIsr}) \cup {HostTasks})
  BY <1>1, FS_AddElement
<1>3. Threads = ((Tasks \cup {Swi}) \cup {HostIsr}) \cup {HostTasks}
  BY DEF Threads, Slave, Host
<1>4. IsFiniteSet(Threads)
  BY <1>2, <1>3
<1>5. Putters \in SUBSET Threads /\ \A e : Posters(e) \in SUBSET Threads
  BY DEF Putters, Posters
<1>6. IsFiniteSet(Putters) /\ Cardinality(Putters) \in Nat
  BY <1>4, <1>5, FS_Subset, FS_CardinalityType
<1>7. ASSUME NEW e PROVE IsFiniteSet(Posters(e)) /\ Cardinality(Posters(e)) \in Nat
  BY <1>4, <1>5, FS_Subset, FS_CardinalityType
<1> QED BY <1>4, <1>6, <1>7

LEMMA EntriesAre ==
    ASSUME NEW f \in [Endpoints -> Seq(Messages)]
    PROVE  EntriesOf(f) = {x \in Endpoints \X Nat : x[2] \in 1 .. Len(f[x[1]])}
<1>1. \A e \in Endpoints : DOMAIN f[e] = 1 .. Len(f[e]) /\ Len(f[e]) \in Nat
  OBVIOUS
<1>2. ASSUME NEW x \in EntriesOf(f)
      PROVE  x \in {y \in Endpoints \X Nat : y[2] \in 1 .. Len(f[y[1]])}
  BY <1>1 DEF EntriesOf
<1>3. ASSUME NEW e \in Endpoints, NEW i \in 1 .. Len(f[e]) PROVE <<e, i>> \in EntriesOf(f)
  BY <1>1 DEF EntriesOf
<1> QED BY <1>2, <1>3

\* A message more on a queue, one less, and none left.
LEMMA EntriesAppended ==
    ASSUME EndpointInv, NEW d \in Endpoints, NEW m \in Messages,
           queue' = [queue EXCEPT ![d] = Append(@, m)]
    PROVE  /\ queue' \in [Endpoints -> Seq(Messages)]
           /\ Len(queue'[d]) = Len(queue[d]) + 1
           /\ \A e \in Endpoints \ {d} : queue'[e] = queue[e]
           /\ IsFiniteSet(Entries') /\ Cardinality(Entries') = Cardinality(Entries) + 1
<1>1. queue \in [Endpoints -> Seq(Messages)]
  BY DEF EndpointInv, EndpointTypes
<1>2. PICK s \in Seq(Messages) : s = queue[d]
  BY <1>1
<1>3. Append(s, m) \in Seq(Messages) /\ Len(Append(s, m)) = Len(s) + 1 /\ Len(s) \in Nat
  OBVIOUS
<1>4. /\ queue' \in [Endpoints -> Seq(Messages)] /\ queue'[d] = Append(s, m)
      /\ \A e \in Endpoints \ {d} : queue'[e] = queue[e]
  BY <1>1, <1>2, <1>3
<1> DEFINE x == <<d, Len(s) + 1>>
           Old == {y \in Endpoints \X Nat : y[2] \in 1 .. Len(queue[y[1]])}
           New == {y \in Endpoints \X Nat : y[2] \in 1 .. Len(queue'[y[1]])}
<1>5. Entries = Old /\ Entries' = New
  BY <1>1, <1>4, EntriesAre DEF Entries
<1>6. New = Old \cup {x} /\ x \notin Old
  <2>1. x \in New /\ x \notin Old
    BY <1>2, <1>3, <1>4
  <2>2. ASSUME NEW e \in Endpoints, NEW i \in Nat, <<e, i>> # x
        PROVE  i \in 1 .. Len(queue'[e]) <=> i \in 1 .. Len(queue[e])
    BY <1>2, <1>3, <1>4, <2>2
  <2> QED BY <2>1, <2>2
<1> HIDE DEF x, Old, New
<1>7. IsFiniteSet(Entries) /\ Entries' = Entries \cup {x} /\ x \notin Entries
  BY <1>5, <1>6 DEF EndpointInv, HeapSound
<1>8. IsFiniteSet(Entries') /\ Cardinality(Entries') = Cardinality(Entries) + 1
  BY <1>7, FS_AddElement
<1>9. Len(queue'[d]) = Len(queue[d]) + 1
  BY <1>2, <1>3, <1>4
<1> QED BY <1>4, <1>8, <1>9

LEMMA EntriesTaken ==
    ASSUME EndpointInv, NEW d \in Endpoints, queue[d] # <<>>, queue' = [queue EXCEPT ![d] = Tail(@)]
    PROVE  /\ queue' \in [Endpoints -> Seq(Messages)]
           /\ Len(queue[d]) > 0 /\ Len(queue'[d]) = Len(queue[d]) - 1
           /\ \A e \in Endpoints \ {d} : queue'[e] = queue[e]
           /\ IsFiniteSet(Entries') /\ Cardinality(Entries') = Cardinality(Entries) - 1
<1>1. queue \in [Endpoints -> Seq(Messages)]
  BY DEF EndpointInv, EndpointTypes
<1>2. PICK s \in Seq(Messages) : s = queue[d]
  BY <1>1
<1>3. Tail(s) \in Seq(Messages) /\ Len(Tail(s)) = Len(s) - 1 /\ Len(s) \in Nat /\ Len(s) > 0
  BY <1>2
<1>4. /\ queue' \in [Endpoints -> Seq(Messages)] /\ queue'[d] = Tail(s)
      /\ \A e \in Endpoints \ {d} : queue'[e] = queue[e]
  BY <1>1, <1>2, <1>3
<1> DEFINE x == <<d, Len(s)>>
           Old == {y \in Endpoints \X Nat : y[2] \in 1 .. Len(queue[y[1]])}
           New == {y \in Endpoints \X Nat : y[2] \in 1 .. Len(queue'[y[1]])}
<1>5. Entries = Old /\ Entries' = New
  BY <1>1, <1>4, EntriesAre DEF Entries
<1>6. New = Old \ {x} /\ x \in Old
  <2>1. x \notin New /\ x \in Old
    BY <1>2, <1>3, <1>4
  <2>2. ASSUME NEW e \in Endpoints, NEW i \in Nat, <<e, i>> # x
        PROVE  i \in 1 .. Len(queue'[e]) <=> i \in 1 .. Len(queue[e])
    <3>1. CASE e = d
      <4>1. i # Len(s) /\ queue[e] = s /\ queue'[e] = Tail(s)
        BY <1>2, <1>4, <2>2, <3>1, SMTT(30)
      <4>2. Len(queue'[e]) = Len(s) - 1 /\ Len(queue[e]) = Len(s)
        BY <1>3, <4>1, ZenonT(30)
      <4>3. PICK n \in Nat : n = Len(s)
        BY <1>3
      <4>4. Len(queue'[e]) = n - 1 /\ Len(queue[e]) = n /\ i # n
        BY <4>1, <4>2, <4>3
      <4> QED BY <4>4
    <3>2. CASE e # d
      BY <1>4, <3>2
    <3> QED BY <3>1, <3>2
  <2> QED BY <2>1, <2>2
<1> HIDE DEF x, Old, New
<1>7. IsFiniteSet(Entries) /\ Entries' = Entries \ {x} /\ x \in Entries
  BY <1>5, <1>6 DEF EndpointInv, HeapSound
<1>8. IsFiniteSet(Entries') /\ Cardinality(Entries') = Cardinality(Entries) - 1
  BY <1>7, FS_RemoveElement
<1>9. Len(queue[d]) > 0 /\ Len(queue'[d]) = Len(queue[d]) - 1
  BY <1>2, <1>3, <1>4
<1> QED BY <1>4, <1>8, <1>9

LEMMA EntriesDropped ==
    ASSUME EndpointInv, NEW d \in Endpoints, queue' = [queue EXCEPT ![d] = <<>>]
    PROVE  /\ queue' \in [Endpoints -> Seq(Messages)] /\ queue'[d] = <<>>
           /\ \A e \in Endpoints \ {d} : queue'[e] = queue[e]
           /\ IsFiniteSet(Entries') /\ Cardinality(Entries') = Cardinality(Entries) - Len(queue[d])
<1>1. queue \in [Endpoints -> Seq(Messages)]
  BY DEF EndpointInv, EndpointTypes
<1>2. PICK s \in Seq(Messages) : s = queue[d]
  BY <1>1
<1>4. /\ queue' \in [Endpoints -> Seq(Messages)] /\ queue'[d] = <<>>
      /\ \A e \in Endpoints \ {d} : queue'[e] = queue[e]
  BY <1>1
<1> DEFINE n == Len(s)
           f == [i \in 1 .. n |-> <<d, i>>]
           D == {f[i] : i \in 1 .. n}
           Old == {y \in Endpoints \X Nat : y[2] \in 1 .. Len(queue[y[1]])}
           New == {y \in Endpoints \X Nat : y[2] \in 1 .. Len(queue'[y[1]])}
<1>5. Entries = Old /\ Entries' = New
  BY <1>1, <1>4, EntriesAre DEF Entries
<1>6. n \in Nat
  OBVIOUS
<1>7. New = Old \ D /\ D \subseteq Old
  <2>1. ASSUME NEW i \in Nat PROVE <<d, i>> \in D <=> i \in 1 .. n
    OBVIOUS
  <2>2. ASSUME NEW e \in Endpoints, e # d, NEW i \in Nat
        PROVE  <<e, i>> \notin D /\ (i \in 1 .. Len(queue'[e]) <=> i \in 1 .. Len(queue[e]))
    BY <1>4, <2>2
  <2>3. ASSUME NEW i \in Nat PROVE <<d, i>> \notin New
    BY <1>4
  <2>4. D \subseteq Old
    <3> SUFFICES ASSUME NEW i \in 1 .. n PROVE f[i] \in Old
      OBVIOUS
    <3>1. f[i] = <<d, i>> /\ i \in Nat /\ i \in 1 .. Len(queue[d])
      BY <1>2, <1>6
    <3> QED BY <3>1
  <2>5. ASSUME NEW e \in Endpoints, NEW i \in Nat PROVE <<e, i>> \in New <=> <<e, i>> \in Old \ D
    <3>1. CASE e = d
      BY <1>2, <2>1, <2>3, <3>1
    <3>2. CASE e # d
      BY <2>2, <3>2
    <3> QED BY <3>1, <3>2
  <2>6. New \subseteq Endpoints \X Nat /\ Old \subseteq Endpoints \X Nat
    OBVIOUS
  <2> HIDE DEF D, Old, New
  <2>7. \A y \in Endpoints \X Nat : y \in New <=> y \in Old \ D
    BY <2>5
  <2> QED BY <2>4, <2>6, <2>7
<1>8. IsFiniteSet(D) /\ Cardinality(D) = n
  <2>1. f \in Bijection(1 .. n, D)
    BY DEF Bijection, Injection, Surjection, IsInjective
  <2>2. IsFiniteSet(1 .. n) /\ Cardinality(1 .. n) = n
    <3> HIDE DEF n
    <3>1. IF 1 > n THEN n = 0 ELSE n - 1 + 1 = n
      BY <1>6
    <3> QED BY <1>6, <3>1, FS_Interval
  <2> HIDE DEF f, D
  <2> QED BY <2>1, <2>2, FS_Bijection DEF ExistsBijection
<1> HIDE DEF D, Old, New, n
<1>9. IsFiniteSet(Entries) /\ Entries' = Entries \ D /\ Entries \cap D = D
  BY <1>5, <1>7 DEF EndpointInv, HeapSound
<1>10. IsFiniteSet(Entries') /\ Cardinality(Entries') = Cardinality(Entries) - n
  BY <1>8, <1>9, FS_Difference
<1> QED BY <1>2, <1>4, <1>10 DEF n

\* A step that has to do with no endpoint's queue, and with no block.
EndpointQuiet ==
    /\ UNCHANGED <<objects, queue, semHandle, unblocked, heap, stale>>
    /\ \A e \in Endpoints :
          /\ pc'[e] \in {"recv", "woken", "deleted"} => e \in objects
          /\ pc'[e] = "deleted" <=> pc[e] = "deleted"
          /\ unblocked[e] \/ (pc'[e] = "woken" <=> pc[e] = "woken")
    /\ \A th \in Threads :
          \/ pc'[th] = pc[th] /\ msg'[th] = msg[th]
          \/ pc[th] \notin {"put", "post", "freed", "aborted"}
             /\ pc'[th] \notin {"put", "post", "freed", "aborted"}

LEMMA EndpointQuietKeeps == ASSUME EndpointInv, EndpointQuiet PROVE EndpointInv'
<1>1. /\ Putters' = Putters /\ Entries' = Entries /\ \A e \in Endpoints : Posters(e)' = Posters(e)
      /\ LateIsLost' <=> LateIsLost
  BY DEF EndpointQuiet, Putters, Entries, Posters, LateIsLost
<1>2. EndpointTypes' /\ HeapSound'
  BY <1>1 DEF EndpointQuiet, EndpointInv, EndpointTypes, HeapSound
<1>3. ASSUME NEW e \in Endpoints PROVE EndpointSound(e)'
  <2>1. EndpointSound(e)
    BY DEF EndpointInv
  <2>2. \A th \in Threads : pc'[th] \in {"put", "post"} =>
            pc[th] \in {"put", "post"} /\ msg'[th] = msg[th]
    BY DEF EndpointQuiet
  <2>3. Posters(e)' = Posters(e)
    BY <1>1
  <2> QED BY <2>1, <2>2, <2>3 DEF EndpointQuiet, EndpointSound
<1> QED BY <1>2, <1>3 DEF EndpointInv

\* A step of thread th alone, which keeps its message.
Turns(th, l) ==
    /\ pc'[th] = l /\ \A u \in Threads \ {th} : pc'[u] = pc[u]
    /\ UNCHANGED msg

LEMMA AllocKeeps ==
    ASSUME ThreadInv, EndpointInv, NEW th \in Threads, NEW d \in Endpoints, d = dstEndpt[msg[th]],
           pc[th] = "lookup", d \in objects, heap > 0, heap' = heap - 1,
           Turns(th, IF pc[d] = "deleted" THEN "freed" ELSE "put"),
           UNCHANGED <<objects, queue, semHandle, unblocked, stale>>
    PROVE  EndpointInv'
<1>1. th \notin Endpoints /\ \A e \in Endpoints : pc'[e] = pc[e]
  <2>1. ThreadSound(th, pc[th], token[th], msg[th])
    BY ThreadAt
  <2>2. th \notin Endpoints
    BY <2>1, ThreadSets DEF ThreadSound, LabelsOf
  <2> QED BY <2>2 DEF Turns, Threads, Slave, Tasks
<1>2. Entries' = Entries /\ \A e \in Endpoints : Posters(e)' = Posters(e)
  BY DEF Turns, Entries, Posters
<1>3. ASSUME NEW e \in Endpoints PROVE EndpointSound(e)'
  <2>1. EndpointSound(e) /\ Posters(e)' = Posters(e)
    BY <1>2 DEF EndpointInv
  <2>2. ASSUME NEW u \in Threads, pc'[u] \in {"put", "post"}, e \notin objects \/ pc[e] = "deleted"
        PROVE  dstEndpt[msg[u]] # e
    <3>1. CASE u = th
      BY <2>2, <3>1 DEF Turns
    <3>2. CASE u # th
      BY <2>1, <2>2, <3>2 DEF Turns, EndpointSound
    <3> QED BY <3>1, <3>2
  <2> QED BY <1>1, <2>1, <2>2 DEF EndpointSound, Turns
<1>4. HeapSound'
  <2>1. /\ IsFiniteSet(Putters) /\ Cardinality(Putters) \in Nat /\ Cardinality(Entries) \in Nat
        /\ heap \in Nat /\ HeapBlocks \in Nat
    BY ThreadsFinite, FS_CardinalityType, SizesAssumption DEF EndpointInv, HeapSound
  <2>2. CASE pc[d] = "deleted"
    <3>1. Putters' = Putters /\ LateIsLost'
      BY <2>2 DEF Turns, Putters, LateIsLost
    <3> QED BY <1>2, <2>1, <3>1 DEF EndpointInv, HeapSound
  <2>3. CASE pc[d] # "deleted"
    <3>1. Putters' = Putters \cup {th} /\ th \notin Putters
      BY <2>3 DEF Turns, Putters
    <3>2. Cardinality(Putters') = Cardinality(Putters) + 1
      BY <2>1, <3>1, FS_AddElement
    <3>3. LateIsLost' <=> LateIsLost
      BY <2>3 DEF Turns, LateIsLost
    <3> QED BY <1>2, <2>1, <3>2, <3>3 DEF EndpointInv, HeapSound
  <2> QED BY <2>2, <2>3
<1>5. EndpointTypes'
  BY DEF EndpointInv, EndpointTypes
<1> QED BY <1>3, <1>4, <1>5 DEF EndpointInv

LEMMA PutKeeps ==
    ASSUME ThreadInv, EndpointInv, NEW th \in Threads, NEW d \in Endpoints, d = dstEndpt[msg[th]],
           pc[th] = "put", msg[th] \in Messages, Turns(th, "post"),
           queue' = [queue EXCEPT ![d] = Append(@, msg[th])],
           UNCHANGED <<objects, semHandle, unblocked, heap, stale>>
    PROVE  EndpointInv'
<1>1. th \notin Endpoints /\ \A e \in Endpoints : pc'[e] = pc[e]
  <2>1. ThreadSound(th, pc[th], token[th], msg[th])
    BY ThreadAt
  <2>2. th \notin Endpoints
    BY <2>1, ThreadSets DEF ThreadSound, LabelsOf
  <2> QED BY <2>2 DEF Turns, Threads, Slave, Tasks
<1>2. /\ queue' \in [Endpoints -> Seq(Messages)]
      /\ Len(queue'[d]) = Len(queue[d]) + 1
      /\ \A e \in Endpoints \ {d} : queue'[e] = queue[e]
      /\ IsFiniteSet(Entries') /\ Cardinality(Entries') = Cardinality(Entries) + 1
  BY EntriesAppended
<1>3. d \in objects /\ pc[d] # "deleted"
  BY DEF EndpointInv, EndpointSound
<1>4. Posters(d)' = Posters(d) \cup {th} /\ th \notin Posters(d)
  BY ZenonT(30) DEF Turns, Posters
<1>5. \A e \in Endpoints \ {d} : Posters(e)' = Posters(e)
  BY ZenonT(30) DEF Turns, Posters
<1>6. Cardinality(Posters(d)') = Cardinality(Posters(d)) + 1
  BY <1>4, ThreadsFinite, FS_AddElement
<1>7. Putters' = Putters \ {th} /\ th \in Putters /\ (LateIsLost' <=> LateIsLost)
  BY DEF Turns, Putters, LateIsLost
<1>8. Cardinality(Putters') = Cardinality(Putters) - 1
  BY <1>7, ThreadsFinite, FS_RemoveElement
<1>9. ASSUME NEW e \in Endpoints PROVE EndpointSound(e)'
  <2>1. EndpointSound(e)
    BY DEF EndpointInv
  <2>2. CASE e = d
    <3>1. semHandle[d] \in Nat /\ Len(queue[d]) \in Nat /\ Cardinality(Posters(d)) \in Nat
      BY ThreadsFinite DEF EndpointInv, EndpointTypes
    <3>2. \/ unblocked[d]
          \/ Len(queue[d]) = semHandle[d] + (IF pc[d] = "woken" THEN 1 ELSE 0)
                             + Cardinality(Posters(d))
      BY <2>1, <2>2 DEF EndpointSound
    <3>3. \/ unblocked[d]
          \/ Len(queue'[d]) = semHandle[d] + (IF pc[d] = "woken" THEN 1 ELSE 0)
                              + Cardinality(Posters(d)')
      <4>1. PICK n \in Nat, c \in Nat, k \in Nat, w \in {0, 1} :
               /\ n = Len(queue[d]) /\ c = Cardinality(Posters(d)) /\ k = semHandle[d]
               /\ w = IF pc[d] = "woken" THEN 1 ELSE 0
        BY <3>1
      <4>2. Len(queue'[d]) = n + 1 /\ Cardinality(Posters(d)') = c + 1
        BY <1>2, <1>6, <4>1
      <4>3. unblocked[d] \/ n = k + w + c
        BY <3>2, <4>1
      <4>4. unblocked[d] \/ n + 1 = k + w + (c + 1)
        BY <4>3
      <4> QED BY <4>1, <4>2, <4>4
    <3> QED BY <1>1, <1>3, <2>2, <3>3 DEF EndpointSound
  <2>3. CASE e # d
    <3>1. \A u \in Threads : pc'[u] \in {"put", "post"} => pc[u] \in {"put", "post"}
      BY DEF Turns
    <3>2. queue'[e] = queue[e] /\ Posters(e)' = Posters(e) /\ pc'[e] = pc[e]
      BY <1>1, <1>2, <1>5, <2>3
    <3> QED BY <2>1, <3>1, <3>2 DEF EndpointSound, Turns
  <2> QED BY <2>2, <2>3
<1>10. HeapSound'
  <2>1. /\ Cardinality(Putters) \in Nat /\ Cardinality(Entries) \in Nat
        /\ heap \in Nat /\ HeapBlocks \in Nat
    BY ThreadsFinite, FS_CardinalityType, SizesAssumption DEF EndpointInv, HeapSound
  <2> QED BY <1>2, <1>7, <1>8, <2>1 DEF EndpointInv, HeapSound
<1>11. EndpointTypes'
  BY <1>2 DEF EndpointInv, EndpointTypes
<1> QED BY <1>9, <1>10, <1>11 DEF EndpointInv

LEMMA PostKeeps ==
    ASSUME ThreadInv, EndpointInv, NEW th \in Threads, NEW d \in Endpoints, d = dstEndpt[msg[th]],
           pc[th] = "post", NEW l \in {"add", "idle"}, Turns(th, l),
           semHandle' = [semHandle EXCEPT ![d] = @ + 1],
           UNCHANGED <<objects, queue, unblocked, heap, stale>>
    PROVE  EndpointInv'
<1>1. th \notin Endpoints /\ \A e \in Endpoints : pc'[e] = pc[e]
  <2>1. ThreadSound(th, pc[th], token[th], msg[th])
    BY ThreadAt
  <2>2. th \notin Endpoints
    BY <2>1, ThreadSets DEF ThreadSound, LabelsOf
  <2> QED BY <2>2 DEF Turns, Threads, Slave, Tasks
<1>2. /\ semHandle' \in [Endpoints -> Nat] /\ semHandle'[d] = semHandle[d] + 1
      /\ \A e \in Endpoints \ {d} : semHandle'[e] = semHandle[e]
  <2>1. semHandle \in [Endpoints -> Nat]
    BY DEF EndpointInv, EndpointTypes
  <2> QED BY <2>1
<1>3. d \in objects /\ pc[d] # "deleted"
  BY DEF EndpointInv, EndpointSound
<1>4. Posters(d)' = Posters(d) \ {th} /\ th \in Posters(d)
  BY ZenonT(30) DEF Turns, Posters
<1>5. \A e \in Endpoints \ {d} : Posters(e)' = Posters(e)
  BY ZenonT(30) DEF Turns, Posters
<1>6. Cardinality(Posters(d)') = Cardinality(Posters(d)) - 1
  BY <1>4, ThreadsFinite, FS_RemoveElement, ZenonT(30)
<1>7. Putters' = Putters /\ Entries' = Entries /\ (LateIsLost' <=> LateIsLost)
  BY DEF Turns, Putters, Entries, LateIsLost
<1>9. ASSUME NEW e \in Endpoints PROVE EndpointSound(e)'
  <2>1. EndpointSound(e)
    BY DEF EndpointInv
  <2>2. CASE e = d
    <3>1. semHandle[d] \in Nat /\ Len(queue[d]) \in Nat /\ Cardinality(Posters(d)) \in Nat
      BY ThreadsFinite DEF EndpointInv, EndpointTypes
    <3>2. \/ unblocked[d]
          \/ Len(queue[d]) = semHandle[d] + (IF pc[d] = "woken" THEN 1 ELSE 0)
                             + Cardinality(Posters(d))
      BY <2>1, <2>2 DEF EndpointSound
    <3>3. \/ unblocked[d]
          \/ Len(queue[d]) = semHandle'[d] + (IF pc[d] = "woken" THEN 1 ELSE 0)
                              + Cardinality(Posters(d)')
      BY <1>2, <1>6, <3>1, <3>2
    <3> QED BY <1>1, <1>3, <2>2, <3>3 DEF EndpointSound
  <2>3. CASE e # d
    <3>1. \A u \in Threads : pc'[u] \in {"put", "post"} => pc[u] \in {"put", "post"}
      BY DEF Turns
    <3>2. semHandle'[e] = semHandle[e] /\ Posters(e)' = Posters(e) /\ pc'[e] = pc[e]
      BY <1>1, <1>2, <1>5, <2>3
    <3> QED BY <2>1, <3>1, <3>2 DEF EndpointSound, Turns
  <2> QED BY <2>2, <2>3
<1>10. HeapSound'
  BY <1>7 DEF EndpointInv, HeapSound
<1>11. EndpointTypes'
  BY <1>2 DEF EndpointInv, EndpointTypes
<1> QED BY <1>9, <1>10, <1>11 DEF EndpointInv

LEMMA PutStaleKeeps ==
    ASSUME ThreadInv, EndpointInv, NEW th \in Threads, pc[th] = "freed",
           NEW l \in {"add", "idle"}, Turns(th, l), stale' = TRUE,
           UNCHANGED <<objects, queue, semHandle, unblocked, heap>>
    PROVE  EndpointInv'
<1>1. \A e \in Endpoints : pc'[e] = pc[e]
  <2>1. ThreadSound(th, pc[th], token[th], msg[th])
    BY ThreadAt
  <2>2. th \notin Endpoints
    BY <2>1, ThreadSets DEF ThreadSound, LabelsOf
  <2> QED BY <2>2 DEF Turns, Threads, Slave, Tasks
<1>2. /\ Putters' = Putters /\ Entries' = Entries /\ \A e \in Endpoints : Posters(e)' = Posters(e)
      /\ LateIsLost'
  BY DEF Turns, Putters, Entries, Posters, LateIsLost
<1>3. ASSUME NEW e \in Endpoints PROVE EndpointSound(e)'
  <2>1. EndpointSound(e) /\ Posters(e)' = Posters(e)
    BY <1>2 DEF EndpointInv
  <2>2. \A u \in Threads : pc'[u] \in {"put", "post"} => pc[u] \in {"put", "post"}
    BY DEF Turns
  <2> QED BY <1>1, <2>1, <2>2 DEF EndpointSound, Turns
<1>4. HeapSound' /\ EndpointTypes'
  BY <1>2 DEF EndpointInv, HeapSound, EndpointTypes
<1> QED BY <1>3, <1>4 DEF EndpointInv

LEMMA EndpointIsThread == \A e \in Endpoints : e \in Threads /\ e \in Slave
BY DEF Threads, Slave, Tasks

\* An endpoint of which nothing changes.
LEMMA EndpointKept ==
    ASSUME NEW e \in Endpoints, EndpointSound(e),
           e \in objects' <=> e \in objects,
           queue'[e] = queue[e], semHandle'[e] = semHandle[e], unblocked'[e] = unblocked[e],
           pc'[e] = pc[e], UNCHANGED msg,
           \A th \in Threads : pc'[th] \in {"put", "post"} => pc'[th] = pc[th],
           \A th \in Threads : pc[th] = "post" /\ dstEndpt[msg[th]] = e => pc'[th] = pc[th]
    PROVE  EndpointSound(e)'
<1>1. Posters(e)' = Posters(e)
  BY DEF Posters
<1> QED BY <1>1 DEF EndpointSound

LEMMA WokenKeeps ==
    ASSUME ThreadInv, EndpointInv, NEW d \in Endpoints, pc[d] = "recv", semHandle[d] > 0,
           Turns(d, "woken"), semHandle' = [semHandle EXCEPT ![d] = @ - 1],
           UNCHANGED <<objects, queue, unblocked, heap, stale>>
    PROVE  EndpointInv'
<1>1. semHandle \in [Endpoints -> Nat] /\ d \in Threads
  BY EndpointIsThread DEF EndpointInv, EndpointTypes
<1>2. PICK k \in Nat : k = semHandle[d] - 1 /\ semHandle[d] = k + 1
  BY <1>1
<1>3. /\ semHandle' \in [Endpoints -> Nat] /\ semHandle'[d] = k
      /\ \A e \in Endpoints \ {d} : semHandle'[e] = semHandle[e]
  BY <1>1, <1>2
<1>4. /\ Putters' = Putters /\ Entries' = Entries /\ \A e \in Endpoints : Posters(e)' = Posters(e)
      /\ LateIsLost' <=> LateIsLost
  BY DEF Turns, Putters, Entries, Posters, LateIsLost
<1>5. \A th \in Threads : pc'[th] \in {"put", "post"} => pc'[th] = pc[th]
  BY DEF Turns
<1>6. ASSUME NEW e \in Endpoints PROVE EndpointSound(e)'
  <2>1. EndpointSound(e)
    BY DEF EndpointInv
  <2>2. CASE e = d
    <3>1. /\ d \in objects
          /\ \/ unblocked[d]
             \/ Len(queue[d]) = (k + 1) + 0 + Cardinality(Posters(d))
      BY <1>2, <2>1, <2>2 DEF EndpointSound
    <3>2. Cardinality(Posters(d)) \in Nat
      BY ThreadsFinite
    <3>3. unblocked[d] \/ Len(queue[d]) = k + 1 + Cardinality(Posters(d))
      BY <3>1, <3>2
    <3> QED BY <1>3, <1>4, <2>2, <3>1, <3>3 DEF EndpointSound, Turns
  <2>3. CASE e # d
    <3>1. pc'[e] = pc[e] /\ semHandle'[e] = semHandle[e]
      BY <1>3, <2>3, EndpointIsThread DEF Turns
    <3>2. \A th \in Threads : pc[th] = "post" => pc'[th] = pc[th]
      BY DEF Turns
    <3> QED BY <1>5, <2>1, <3>1, <3>2, EndpointKept DEF Turns
  <2> QED BY <2>2, <2>3
<1>7. EndpointTypes' /\ HeapSound'
  BY <1>3, <1>4 DEF EndpointInv, EndpointTypes, HeapSound
<1> QED BY <1>6, <1>7 DEF EndpointInv

LEMMA RecvPayloadKeeps ==
    ASSUME ThreadInv, EndpointInv, NEW d \in Endpoints, pc[d] = "woken", ~unblocked[d],
           queue[d] # <<>>, NEW l \in {"idle", "aborted"}, Turns(d, l),
           queue' = [queue EXCEPT ![d] = Tail(@)],
           heap' = IF l = "idle" THEN heap + 1 ELSE heap,
           UNCHANGED <<objects, semHandle, unblocked, stale>>
    PROVE  EndpointInv'
<1>1. semHandle \in [Endpoints -> Nat] /\ d \in Threads
  BY EndpointIsThread DEF EndpointInv, EndpointTypes
<1>2. /\ queue' \in [Endpoints -> Seq(Messages)]
      /\ Len(queue[d]) > 0 /\ Len(queue'[d]) = Len(queue[d]) - 1
      /\ \A e \in Endpoints \ {d} : queue'[e] = queue[e]
      /\ IsFiniteSet(Entries') /\ Cardinality(Entries') = Cardinality(Entries) - 1
  BY EntriesTaken
<1>4. /\ \A e \in Endpoints : Posters(e)' = Posters(e)
      /\ LateIsLost' <=> LateIsLost
  BY DEF Turns, Posters, LateIsLost
<1>5. \A th \in Threads : pc'[th] \in {"put", "post"} => pc'[th] = pc[th]
  BY DEF Turns
<1>6. ASSUME NEW e \in Endpoints PROVE EndpointSound(e)'
  <2>1. EndpointSound(e)
    BY DEF EndpointInv
  <2>2. CASE e = d
    <3>1. /\ d \in objects
          /\ Len(queue[d]) = semHandle[d] + 1 + Cardinality(Posters(d))
      BY <2>1, <2>2 DEF EndpointSound
    <3>2. PICK n \in Nat, c \in Nat, k \in Nat :
              n = Len(queue[d]) /\ c = Cardinality(Posters(d)) /\ k = semHandle[d]
      BY <1>1, ThreadsFinite DEF EndpointInv, EndpointTypes
    <3>3. n - 1 = k + 0 + c
      BY <3>1, <3>2
    <3>4. Len(queue'[d]) = semHandle'[d] + 0 + Cardinality(Posters(d)')
      BY <1>2, <1>4, <3>2, <3>3
    <3> QED BY <1>4, <2>2, <3>1, <3>4 DEF EndpointSound, Turns
  <2>3. CASE e # d
    <3>1. pc'[e] = pc[e] /\ queue'[e] = queue[e]
      BY <1>2, <2>3, EndpointIsThread DEF Turns
    <3>2. \A th \in Threads : pc[th] = "post" => pc'[th] = pc[th]
      BY DEF Turns
    <3> QED BY <1>5, <2>1, <3>1, <3>2, EndpointKept DEF Turns
  <2> QED BY <2>2, <2>3
<1>7. HeapSound'
  <2>1. /\ Cardinality(Putters) \in Nat /\ Cardinality(Entries) \in Nat
        /\ heap \in Nat /\ HeapBlocks \in Nat
    BY ThreadsFinite, FS_CardinalityType, SizesAssumption DEF EndpointInv, HeapSound
  <2>2. CASE l = "idle"
    <3>1. Putters' = Putters
      BY <2>2 DEF Turns, Putters
    <3> QED BY <1>2, <1>4, <2>1, <2>2, <3>1 DEF EndpointInv, HeapSound
  <2>3. CASE l = "aborted"
    <3>1. Putters' = Putters \cup {d} /\ d \notin Putters
      BY <1>1, <2>3 DEF Turns, Putters
    <3>2. Cardinality(Putters') = Cardinality(Putters) + 1
      BY <3>1, ThreadsFinite, FS_AddElement
    <3> QED BY <1>2, <1>4, <2>1, <2>3, <3>2 DEF EndpointInv, HeapSound
  <2> QED BY <2>2, <2>3
<1>8. EndpointTypes'
  BY <1>2 DEF EndpointInv, EndpointTypes
<1> QED BY <1>6, <1>7, <1>8 DEF EndpointInv

LEMMA CreateKeeps ==
    ASSUME ThreadInv, EndpointInv, NEW d \in Endpoints, d \notin objects,
           objects' = objects \cup {d}, unblocked' = [unblocked EXCEPT ![d] = FALSE],
           UNCHANGED <<pc, msg, queue, semHandle, heap, stale>>
    PROVE  EndpointInv'
<1>1. /\ unblocked' \in [Endpoints -> BOOLEAN] /\ unblocked'[d] = FALSE
      /\ \A e \in Endpoints \ {d} : unblocked'[e] = unblocked[e]
  <2>1. unblocked \in [Endpoints -> BOOLEAN]
    BY DEF EndpointInv, EndpointTypes
  <2> QED BY <2>1
<1>2. /\ Putters' = Putters /\ Entries' = Entries /\ \A e \in Endpoints : Posters(e)' = Posters(e)
      /\ LateIsLost' <=> LateIsLost
  BY DEF Putters, Entries, Posters, LateIsLost
<1>3. ASSUME NEW e \in Endpoints PROVE EndpointSound(e)'
  <2>1. EndpointSound(e)
    BY DEF EndpointInv
  <2>2. CASE e = d
    <3>1. /\ pc[d] \notin {"recv", "woken", "deleted"} /\ queue[d] = <<>> /\ semHandle[d] = 0
          /\ \A th \in Threads : pc[th] \in {"put", "post"} => dstEndpt[msg[th]] # d
      BY <2>1, <2>2 DEF EndpointSound
    <3>2. Cardinality(Posters(d)) = 0
      <4>1. Posters(d) = {}
        BY <3>1 DEF Posters
      <4> QED BY <4>1, FS_EmptySet
    <3>3. Len(queue[d]) = semHandle[d] + (IF pc[d] = "woken" THEN 1 ELSE 0)
                          + Cardinality(Posters(d))
      BY <3>1, <3>2
    <3> QED BY <1>2, <2>2, <3>1, <3>3 DEF EndpointSound
  <2>3. CASE e # d
    BY <1>1, <2>1, <2>3, EndpointKept
  <2> QED BY <2>2, <2>3
<1>4. EndpointTypes' /\ HeapSound'
  BY <1>1, <1>2 DEF EndpointInv, EndpointTypes, HeapSound
<1> QED BY <1>3, <1>4 DEF EndpointInv

LEMMA DeleteSlotKeeps ==
    ASSUME ThreadInv, EndpointInv, NEW d \in Endpoints, pc[d] = "deleted", Turns(d, "idle"),
           objects' = objects \ {d},
           UNCHANGED <<queue, semHandle, unblocked, heap, stale>>
    PROVE  EndpointInv'
<1>2. /\ Putters' = Putters /\ Entries' = Entries /\ \A e \in Endpoints : Posters(e)' = Posters(e)
      /\ LateIsLost' <=> LateIsLost
  BY DEF Turns, Putters, Entries, Posters, LateIsLost
<1>5. \A th \in Threads : pc'[th] \in {"put", "post"} => pc'[th] = pc[th]
  BY DEF Turns
<1>3. ASSUME NEW e \in Endpoints PROVE EndpointSound(e)'
  <2>1. EndpointSound(e)
    BY DEF EndpointInv
  <2>2. CASE e = d
    BY <1>2, <1>5, <2>1, <2>2 DEF EndpointSound, Turns
  <2>3. CASE e # d
    <3>1. pc'[e] = pc[e] /\ (e \in objects' <=> e \in objects)
      BY <2>3, EndpointIsThread DEF Turns
    <3>2. \A th \in Threads : pc[th] = "post" => pc'[th] = pc[th]
      BY DEF Turns
    <3> QED BY <1>5, <2>1, <3>1, <3>2, EndpointKept DEF Turns
  <2> QED BY <2>2, <2>3
<1>4. EndpointTypes' /\ HeapSound'
  BY <1>2 DEF EndpointInv, EndpointTypes, HeapSound
<1> QED BY <1>3, <1>4 DEF EndpointInv

LEMMA UnblockKeeps ==
    ASSUME ThreadInv, EndpointInv, NEW d \in Endpoints, d \in objects, pc[d] # "deleted",
           unblocked' = [unblocked EXCEPT ![d] = TRUE],
           semHandle' = [semHandle EXCEPT ![d] = @ + 1],
           UNCHANGED <<pc, msg, objects, queue, heap, stale>>
    PROVE  EndpointInv'
<1>1. /\ unblocked' \in [Endpoints -> BOOLEAN] /\ unblocked'[d] = TRUE
      /\ \A e \in Endpoints \ {d} : unblocked'[e] = unblocked[e]
  <2>1. unblocked \in [Endpoints -> BOOLEAN]
    BY DEF EndpointInv, EndpointTypes
  <2> QED BY <2>1
<1>2. /\ semHandle' \in [Endpoints -> Nat]
      /\ \A e \in Endpoints \ {d} : semHandle'[e] = semHandle[e]
  <2>1. semHandle \in [Endpoints -> Nat]
    BY DEF EndpointInv, EndpointTypes
  <2> QED BY <2>1
<1>3. /\ Putters' = Putters /\ Entries' = Entries /\ \A e \in Endpoints : Posters(e)' = Posters(e)
      /\ LateIsLost' <=> LateIsLost
  BY DEF Putters, Entries, Posters, LateIsLost
<1>4. ASSUME NEW e \in Endpoints PROVE EndpointSound(e)'
  <2>1. EndpointSound(e)
    BY DEF EndpointInv
  <2>2. CASE e = d
    BY <1>1, <2>1, <2>2 DEF EndpointSound
  <2>3. CASE e # d
    BY <1>1, <1>2, <2>1, <2>3, EndpointKept
  <2> QED BY <2>2, <2>3
<1>5. EndpointTypes' /\ HeapSound'
  BY <1>1, <1>2, <1>3 DEF EndpointInv, EndpointTypes, HeapSound
<1> QED BY <1>4, <1>5 DEF EndpointInv

\* Deletion gives the messages of the queue back, and cuts off who was about to put one.
LEMMA DeleteKeeps ==
    ASSUME ThreadInv, EndpointInv, NEW d \in Endpoints, d \in objects,
           pc' = [th \in Threads |->
                   IF th = d THEN "deleted"
                   ELSE IF pc[th] \in {"put", "post"} /\ dstEndpt[msg[th]] = d THEN "freed"
                   ELSE pc[th]],
           pc[d] = "idle", heap' = heap + Len(queue[d]),
           queue' = [queue EXCEPT ![d] = <<>>], semHandle' = [semHandle EXCEPT ![d] = 0],
           UNCHANGED <<msg, objects, unblocked, stale>>
    PROVE  EndpointInv'
<1>1. /\ pc'[d] = "deleted"
      /\ \A th \in Threads \ {d} : pc'[th] =
            IF pc[th] \in {"put", "post"} /\ dstEndpt[msg[th]] = d THEN "freed" ELSE pc[th]
  BY EndpointIsThread
<1>2. /\ queue' \in [Endpoints -> Seq(Messages)] /\ queue'[d] = <<>>
      /\ \A e \in Endpoints \ {d} : queue'[e] = queue[e]
      /\ IsFiniteSet(Entries') /\ Cardinality(Entries') = Cardinality(Entries) - Len(queue[d])
  BY EntriesDropped
<1>3. /\ semHandle' \in [Endpoints -> Nat] /\ semHandle'[d] = 0
      /\ \A e \in Endpoints \ {d} : semHandle'[e] = semHandle[e]
  <2>1. semHandle \in [Endpoints -> Nat]
    BY DEF EndpointInv, EndpointTypes
  <2> QED BY <2>1
<1>5. \A th \in Threads : pc'[th] \in {"put", "post"} =>
          pc'[th] = pc[th] /\ dstEndpt[msg[th]] # d
  BY <1>1
<1>6. ASSUME NEW e \in Endpoints PROVE EndpointSound(e)'
  <2>1. EndpointSound(e)
    BY DEF EndpointInv
  <2>2. CASE e = d
    <3>1. Cardinality(Posters(d)') = 0
      <4>1. Posters(d)' = {}
        BY <1>5 DEF Posters
      <4> QED BY <4>1, FS_EmptySet
    <3>2. Len(queue'[d]) = semHandle'[d] + 0 + Cardinality(Posters(d)')
      BY <1>2, <1>3, <3>1
    <3> QED BY <1>1, <1>2, <1>3, <1>5, <2>2, <3>2 DEF EndpointSound
  <2>3. CASE e # d
    <3>1. e \in Threads \ {d} /\ ThreadSound(e, pc[e], token[e], msg[e])
      BY <2>3, EndpointIsThread, ThreadAt
    <3>2. pc[e] \notin {"put", "post"}
      BY <3>1, ThreadSets DEF ThreadSound, LabelsOf
    <3>3. pc'[e] = pc[e]
      BY <1>1, <3>1, <3>2
    <3>4. queue'[e] = queue[e] /\ semHandle'[e] = semHandle[e]
      BY <1>2, <1>3, <2>3
    <3>5. \A th \in Threads : pc[th] = "post" /\ dstEndpt[msg[th]] = e => pc'[th] = pc[th]
      BY <1>1, <2>3
    <3> QED BY <1>5, <2>1, <3>3, <3>4, <3>5, EndpointKept
  <2> QED BY <2>2, <2>3
<1>7. HeapSound'
  <2>1. /\ IsFiniteSet(Putters) /\ Cardinality(Putters) \in Nat /\ Cardinality(Entries) \in Nat
        /\ heap \in Nat /\ HeapBlocks \in Nat
    BY ThreadsFinite, FS_CardinalityType, SizesAssumption DEF EndpointInv, HeapSound
  <2>2. queue \in [Endpoints -> Seq(Messages)]
    BY DEF EndpointInv, EndpointTypes
  <2>3. PICK n \in Nat : n = Len(queue[d])
    BY <2>2
  <2>4. Putters' \subseteq Putters
    BY <1>1 DEF Putters
  <2>5. Cardinality(Putters') \in Nat /\ Cardinality(Putters') <= Cardinality(Putters)
    BY <2>1, <2>4, FS_Subset, FS_CardinalityType
  <2>6. LateIsLost' \/ (~LateIsLost /\ Putters' = Putters)
    <3>1. CASE \E th \in Threads : pc[th] \in {"put", "post"} /\ dstEndpt[msg[th]] = d
      BY <1>1, <3>1 DEF LateIsLost
    <3>2. CASE ~ \E th \in Threads : pc[th] \in {"put", "post"} /\ dstEndpt[msg[th]] = d
      <4>1. Putters' = Putters /\ (LateIsLost => LateIsLost')
        BY <1>1, <3>2 DEF Putters, LateIsLost
      <4> QED BY <4>1
    <3> QED BY <3>1, <3>2
  <2>7. Cardinality(Entries') = Cardinality(Entries) - n /\ heap' = heap + n
    BY <1>2, <2>3
  <2>8. heap + Cardinality(Putters) + Cardinality(Entries) <= HeapBlocks
    BY DEF EndpointInv, HeapSound
  <2>9. /\ heap' \in Nat
        /\ heap' + Cardinality(Putters') + Cardinality(Entries') <= HeapBlocks
    <3>1. PICK h \in Nat, p \in Nat, k \in Nat, p2 \in Nat :
              /\ h = heap /\ p = Cardinality(Putters) /\ k = Cardinality(Entries)
              /\ p2 = Cardinality(Putters')
      BY <2>1, <2>5
    <3>2. p2 <= p /\ h + p + k <= HeapBlocks
      BY <2>5, <2>8, <3>1
    <3>3. Cardinality(Entries') = k - n /\ heap' = h + n
      BY <2>7, <3>1
    <3>4. h + n \in Nat /\ h + n + p2 + (k - n) <= HeapBlocks
      <4>1. ASSUME NEW a \in Nat, NEW b \in Nat, NEW c \in Nat, NEW d2 \in Nat, NEW f \in Nat,
                   NEW g \in Nat, d2 <= b, a + b + c <= g
            PROVE  a + f \in Nat /\ a + f + d2 + (c - f) <= g
        BY <4>1
      <4> QED BY <3>2, <4>1, SizesAssumption
    <3> QED BY <3>1, <3>3, <3>4
  <2>10. LateIsLost' \/ heap' + Cardinality(Putters') + Cardinality(Entries') = HeapBlocks
    BY <2>1, <2>3, <2>6, <2>7 DEF EndpointInv, HeapSound
  <2> QED BY <1>2, <2>9, <2>10 DEF HeapSound
<1>8. EndpointTypes'
  BY <1>2, <1>3 DEF EndpointInv, EndpointTypes
<1> QED BY <1>6, <1>7, <1>8 DEF EndpointInv

-----------------------------------------------------------------------------
(* Each step keeps the three parts of the invariant                         *)

Core == ThreadInv /\ RingInv /\ EndpointInv

LEMMA SenderIs ==
    \A s \in Senders :
        /\ s \in Threads /\ s \in Slave /\ s \notin Endpoints /\ s \notin Host /\ s # Swi
        /\ QueueOf(s) = "toHost" /\ HoldLabels(s) = {"add", "publish"}
        /\ LabelsOf(s) = {"idle", "pend"} \cup SendLabels \cup RingLabels
<1>1. \A s \in Senders : s \in Threads /\ s \in Slave /\ s \notin Endpoints /\ s \notin Host /\ s # Swi
  BY ThreadSets DEF Slave, Tasks, Host
<1> QED BY <1>1, QueueOfIs DEF HoldLabels, LabelsOf

LEMMA SwiIs ==
    /\ Swi \in Threads /\ Swi \in Slave /\ Swi \notin Endpoints /\ Swi \notin Host /\ Swi \notin Senders
    /\ QueueOf(Swi) = "fromHost" /\ HoldLabels(Swi) = SendLabels \cup {"add", "publish"}
    /\ LabelsOf(Swi) = {"idle"} \cup SendLabels \cup RingLabels
<1>1. Swi \in Threads /\ Swi \in Slave /\ Swi \notin Endpoints /\ Swi \notin Host /\ Swi \notin Senders
  BY ThreadSets DEF Slave, Tasks, Host
<1> QED BY <1>1, QueueOfIs DEF HoldLabels, LabelsOf

LEMMA HostIs ==
    \A h \in Host :
        /\ h \in Threads /\ h \notin Slave /\ h \notin Endpoints /\ h \notin Senders /\ h # Swi
        /\ HoldLabels(h) = {"add", "publish"}
        /\ LabelsOf(h) = {"idle", "take", "add", "publish", "kick"}
<1>1. \A h \in Host : h \in Threads /\ h \notin Slave /\ h \notin Endpoints /\ h \notin Senders /\ h # Swi
  BY ThreadSets, HostThreads DEF Slave, Tasks, Host
<1> QED BY <1>1 DEF HoldLabels, LabelsOf

LEMMA EndpointIs ==
    \A e \in Endpoints :
        /\ e \in Threads /\ e \in Slave /\ e \notin Senders /\ e \notin Host /\ e # Swi
        /\ HoldLabels(e) = {"add", "publish"}
        /\ LabelsOf(e) = {"idle", "recv", "woken", "deleted", "aborted"}
<1>1. \A e \in Endpoints : e \in Threads /\ e \in Slave /\ e \notin Senders /\ e \notin Host /\ e # Swi
  BY ThreadSets, EndpointIsThread DEF Host
<1> QED BY <1>1 DEF HoldLabels, LabelsOf

\* A step of one thread that neither takes nor gives a buffer.
LEMMA RingStays ==
    ASSUME RingInv, NEW th \in Threads, NEW l, pc'[th] = l, l # "publish",
           \A u \in Threads \ {th} : pc'[u] = pc[u] /\ msg'[u] = msg[u],
           UNCHANGED <<vq, token, leaked, sent, got>>,
           th \in Host => l # "add" /\ pc[th] # "add"
    PROVE  RingInv'
<1>1. RingQuiet
  BY HostIs DEF RingQuiet
<1> QED BY <1>1, RingQuietKeeps

LEMMA OnlyEndpointsAbort ==
    \A th \in Threads \ Endpoints : "aborted" \notin LabelsOf(th)
BY DEF LabelsOf, SendLabels, RingLabels

\* A step of a thread that has to do with no endpoint.
LEMMA EndpointsStay ==
    ASSUME ThreadInv, ThreadInv', EndpointInv, NEW th \in Threads, th \notin Endpoints,
           \A u \in Threads \ {th} : pc'[u] = pc[u] /\ msg'[u] = msg[u],
           pc[th] \notin {"put", "post", "freed"}, pc'[th] \notin {"put", "post", "freed"},
           UNCHANGED <<objects, queue, semHandle, unblocked, heap, stale>>
    PROVE  EndpointInv'
<1>1. \A e \in Endpoints : pc'[e] = pc[e] /\ (pc[e] \in {"recv", "woken", "deleted"} => e \in objects)
  BY EndpointIs DEF EndpointInv, EndpointSound
<1>2. pc[th] # "aborted" /\ pc'[th] # "aborted"
  <2>1. ThreadSound(th, pc[th], token[th], msg[th])
    BY DEF ThreadInv
  <2>2. ThreadSound(th, pc'[th], token'[th], msg'[th])
    BY DEF ThreadInv, ThreadSound
  <2> QED BY <2>1, <2>2, OnlyEndpointsAbort DEF ThreadSound
<1>3. EndpointQuiet
  BY <1>1, <1>2 DEF EndpointQuiet
<1> QED BY <1>3, EndpointQuietKeeps

\* A step that only brings a thread from one place to another.
LEMMA MovesQuietly ==
    ASSUME Core, NEW th \in Threads, NEW l \in Labels, NEW m \in Messages \cup {NoMsg},
           Moves(th, l, token[th], m), ThreadSound(th, l, token[th], m),
           UNCHANGED <<vq, leaked, sent, got, objects, queue, semHandle, unblocked, heap, stale>>,
           l \notin {"test", "publish", "put", "post", "freed"},
           pc[th] \notin {"put", "post", "freed"},
           th \in Host => l # "add" /\ pc[th] # "add",
           th \in Endpoints => /\ pc[th] \notin {"deleted", "aborted"} /\ l \in {"idle", "recv"}
                               /\ pc[th] = "woken" => unblocked[th]
                               /\ l = "recv" => th \in objects
    PROVE  Core'
<1>1. token[th] \in Tokens \cup {NoToken}
  BY DEF Core, ThreadInv
<1>2. /\ ThreadInv' /\ pc'[th] = l
      /\ \A u \in Threads \ {th} : pc'[u] = pc[u] /\ msg'[u] = msg[u]
  BY <1>1, ThreadMoves DEF Core
<1>3. token' = token
  BY DEF Moves, Core, ThreadInv
<1>4. RingInv'
  BY <1>2, <1>3, RingStays DEF Core
<1>5. EndpointInv'
  <2>1. CASE th \notin Endpoints
    BY <1>2, <2>1, EndpointsStay DEF Core
  <2>2. CASE th \in Endpoints
    <3>1. \A e \in Endpoints : pc[e] \in {"recv", "woken", "deleted"} => e \in objects
      BY DEF Core, EndpointInv, EndpointSound
    <3>2. \A e \in Endpoints : /\ pc'[e] \in {"recv", "woken", "deleted"} => e \in objects
                               /\ pc'[e] = "deleted" <=> pc[e] = "deleted"
                               /\ unblocked[e] \/ (pc'[e] = "woken" <=> pc[e] = "woken")
      <4> SUFFICES ASSUME NEW e \in Endpoints
                   PROVE  /\ pc'[e] \in {"recv", "woken", "deleted"} => e \in objects
                          /\ pc'[e] = "deleted" <=> pc[e] = "deleted"
                          /\ unblocked[e] \/ (pc'[e] = "woken" <=> pc[e] = "woken")
        OBVIOUS
      <4>1. CASE e = th
        BY <1>2, <2>2, <4>1
      <4>2. CASE e # th
        BY <1>2, <3>1, <4>2, EndpointIs
      <4> QED BY <4>1, <4>2
    <3>3. EndpointQuiet
      BY <1>2, <2>2, <3>2 DEF EndpointQuiet
    <3> QED BY <3>3, EndpointQuietKeeps DEF Core
  <2> QED BY <2>1, <2>2
<1> QED BY <1>2, <1>4, <1>5 DEF Core

LEMMA GoesQuietly ==
    ASSUME Core, NEW th \in Threads, NEW l \in Labels, Goto(th, l),
           ThreadSound(th, l, token[th], msg[th]),
           UNCHANGED <<vq, token, msg, leaked, sent, got, objects, queue, semHandle, unblocked,
                       heap, stale>>,
           l \notin {"test", "publish", "put", "post", "freed"},
           pc[th] \notin {"put", "post", "freed"},
           th \in Host => l # "add" /\ pc[th] # "add",
           th \in Endpoints => /\ pc[th] \notin {"deleted", "aborted"} /\ l \in {"idle", "recv"}
                               /\ pc[th] = "woken" => unblocked[th]
                               /\ l = "recv" => th \in objects
    PROVE  Core'
<1>1. Moves(th, l, token[th], msg[th])
  BY DEF Moves, Goto, Core, ThreadInv
<1>2. msg[th] \in Messages \cup {NoMsg}
  BY DEF Core, ThreadInv
<1> QED BY <1>1, <1>2, MovesQuietly

LEMMA StaysQuietly ==
    ASSUME Core,
           UNCHANGED <<vq, pc, token, msg, leaked, sent, got, objects, queue, semHandle, unblocked,
                       heap, stale>>
    PROVE  Core'
<1>1. ThreadInv'
  BY ThreadsStay DEF Core
<1>2. RingInv'
  <2>1. RingQuiet
    BY DEF RingQuiet
  <2> QED BY <2>1, RingQuietKeeps DEF Core
<1>3. EndpointInv'
  <2>1. EndpointQuiet
    BY DEF EndpointQuiet, Core, EndpointInv, EndpointSound
  <2> QED BY <2>1, EndpointQuietKeeps DEF Core
<1> QED BY <1>1, <1>2, <1>3 DEF Core

-----------------------------------------------------------------------------
(* RPMessage_send to an endpoint, and the steps the senders share           *)

Sending == Senders \cup {Swi}

LEMMA SendingIs ==
    \A th \in Sending :
        /\ th \in Threads /\ th \in Slave /\ th \notin Endpoints /\ th \notin Host
        /\ QueueOf(th) = IF th = Swi THEN "fromHost" ELSE "toHost"
        /\ HoldLabels(th) = IF th = Swi THEN SendLabels \cup {"add", "publish"} ELSE {"add", "publish"}
        /\ {"idle"} \cup SendLabels \cup RingLabels \subseteq LabelsOf(th)
        /\ th # Swi => th \in Senders
BY SenderIs, SwiIs DEF Sending

LEMMA SendLocalStep ==
    ASSUME Core, NEW s \in Senders, SendLocal(s)
    PROVE  Core'
<1>1. PICK m \in Messages \ ToHost : Begin(s, m) /\ Carry(s, NoToken, m)
  BY DEF SendLocal
<1>2. s \in Threads /\ pc[s] = "idle" /\ token[s] = NoToken
  BY <1>1, SenderIs, ThreadAt DEF Core, Begin, ThreadSound
<1>3. Moves(s, "lookup", token[s], m)
  BY <1>1, <1>2 DEF SendLocal, Carry, Goto, Moves
<1>4. ThreadSound(s, "lookup", token[s], m)
  BY <1>2, SenderIs DEF ThreadSound, SendLabels
<1> QED BY <1>2, <1>3, <1>4, SenderIs, MovesQuietly DEF SendLocal, local, history, Labels

LEMMA SendRemoteStep ==
    ASSUME Core, NEW s \in Senders, SendRemote(s)
    PROVE  Core'
<1>1. PICK m \in ToHost : Begin(s, m) /\ Carry(s, NoToken, m)
  BY DEF SendRemote
<1>2. s \in Threads /\ pc[s] = "idle" /\ token[s] = NoToken /\ m \in Messages
  BY <1>1, SenderIs, SendsAssumption, ThreadAt DEF Core, Begin, ThreadSound
<1>3. Moves(s, "clear", token[s], m)
  BY <1>1, <1>2 DEF SendRemote, Carry, Goto, Moves
<1>4. ThreadSound(s, "clear", token[s], m)
  BY <1>2, SenderIs, ThreadSets DEF ThreadSound, SendLabels, RingLabels
<1> QED BY <1>2, <1>3, <1>4, SenderIs, MovesQuietly DEF SendRemote, local, history, Labels

\* Where RPMessage_send returns to can be gone to.
LEMMA ReturnIsSound ==
    ASSUME ThreadInv, NEW th \in Sending, pc[th] \in SendLabels
    PROVE  /\ ThreadSound(th, IF th = Swi THEN "add" ELSE "idle", token[th], msg[th])
           /\ (IF th = Swi THEN "add" ELSE "idle") \in Labels
<1>1. ThreadSound(th, pc[th], token[th], msg[th])
  BY SendingIs, ThreadAt
<1> QED BY <1>1, SendingIs, SwiIs, ThreadSets DEF ThreadSound, SendLabels, RingLabels, Labels

LEMMA NotQueuedStep ==
    ASSUME Core, NEW th \in Sending, NotQueued(th)
    PROVE  Core'
<1>1. pc[th] = "lookup"
  BY DEF NotQueued, At
<1>2. pc[th] \in SendLabels /\ pc[th] \notin {"put", "post", "freed"}
  BY <1>1 DEF SendLabels
<1> DEFINE l == IF th = Swi THEN "add" ELSE "idle"
<1>3. ThreadSound(th, l, token[th], msg[th]) /\ l \in Labels
  BY <1>2, ReturnIsSound DEF Core
<1>4. l \notin {"test", "publish", "put", "post", "freed"} /\ Goto(th, l)
  BY DEF NotQueued, SendReturns
<1> HIDE DEF l
<1> QED BY <1>2, <1>3, <1>4, SendingIs, GoesQuietly DEF NotQueued, local, history

\* A step of RPMessage_send on the queue and the semaphore of an endpoint.
LEMMA SendingTurns ==
    ASSUME Core, NEW th \in Sending, NEW l \in Labels, l \notin {"test", "publish"},
           Goto(th, l), ThreadSound(th, l, token[th], msg[th]),
           UNCHANGED <<vq, token, msg, leaked, sent, got>>
    PROVE  ThreadInv' /\ RingInv' /\ Turns(th, l)
<1>1. th \in Threads /\ th \notin Host
  BY SendingIs
<1>2. ThreadInv' /\ pc'[th] = l /\ \A u \in Threads \ {th} : pc'[u] = pc[u]
  BY <1>1, ThreadGoes DEF Core
<1>3. RingInv'
  BY <1>1, <1>2, RingStays DEF Core
<1> QED BY <1>2, <1>3 DEF Turns

LEMMA AllocStep ==
    ASSUME Core, NEW th \in Sending, Alloc(th)
    PROVE  Core'
<1>1. /\ pc[th] = "lookup" /\ dstEndpt[msg[th]] \in objects \ Callbacks /\ heap > 0
      /\ heap' = heap - 1
      /\ Goto(th, IF pc[dstEndpt[msg[th]]] = "deleted" THEN "freed" ELSE "put")
      /\ UNCHANGED <<vq, token, msg, objects, queue, semHandle, unblocked, stale, leaked, sent, got>>
  BY DEF Alloc, At, history
<1>2. PICK d \in Endpoints : d = dstEndpt[msg[th]]
  BY <1>1 DEF Core, EndpointInv, EndpointTypes
<1> DEFINE l == IF pc[d] = "deleted" THEN "freed" ELSE "put"
<1>3. Goto(th, l) /\ l \in Labels /\ l \notin {"test", "publish"} /\ l \in {"put", "freed"}
  BY <1>1, <1>2 DEF Labels
<1>4. ThreadSound(th, "lookup", token[th], msg[th])
  BY <1>1, SendingIs, ThreadAt DEF Core
<1>5. ThreadSound(th, l, token[th], msg[th])
  BY <1>2, <1>3, <1>4, SendingIs, ThreadSets, SwiIs DEF ThreadSound, SendLabels, HostTasks
<1>6. ThreadInv' /\ RingInv' /\ Turns(th, l)
  <2> HIDE DEF l
  <2> QED BY <1>1, <1>3, <1>5, SendingTurns
<1>7. EndpointInv'
  BY <1>1, <1>2, <1>6, SendingIs, AllocKeeps DEF Core
<1> QED BY <1>6, <1>7 DEF Core

LEMMA PutStep ==
    ASSUME Core, NEW th \in Sending, Put(th)
    PROVE  Core'
<1>1. /\ pc[th] = "put" /\ Goto(th, "post")
      /\ queue' = [queue EXCEPT ![dstEndpt[msg[th]]] = Append(@, msg[th])]
      /\ UNCHANGED <<vq, token, msg, objects, semHandle, unblocked, heap, stale, leaked, sent, got>>
  BY DEF Put, At, history
<1>2. ThreadSound(th, "put", token[th], msg[th])
  BY <1>1, SendingIs, ThreadAt DEF Core
<1>3. ThreadSound(th, "post", token[th], msg[th]) /\ "post" \in Labels
  BY <1>2, SendingIs, ThreadSets, SwiIs DEF ThreadSound, SendLabels, Labels
<1>4. ThreadInv' /\ RingInv' /\ Turns(th, "post")
  BY <1>1, <1>3, SendingTurns
<1>5. msg[th] \in Messages /\ (\E d \in Endpoints : d = dstEndpt[msg[th]])
  BY <1>2 DEF ThreadSound, SendLabels
<1>6. EndpointInv'
  BY <1>1, <1>4, <1>5, SendingIs, PutKeeps DEF Core
<1> QED BY <1>4, <1>6 DEF Core

LEMMA PostStep ==
    ASSUME Core, NEW th \in Sending, Post(th)
    PROVE  Core'
<1> DEFINE l == IF th = Swi THEN "add" ELSE "idle"
<1>1. /\ pc[th] = "post" /\ Goto(th, l) /\ l \notin {"test", "publish", "put", "post", "freed"}
      /\ semHandle' = [semHandle EXCEPT ![dstEndpt[msg[th]]] = @ + 1]
      /\ UNCHANGED <<vq, token, msg, objects, queue, unblocked, heap, stale, leaked, sent, got>>
  BY DEF Post, At, SendReturns, history
<1>2. ThreadSound(th, l, token[th], msg[th]) /\ l \in Labels
  BY <1>1, ReturnIsSound DEF Core, SendLabels
<1>3. PICK d \in Endpoints : d = dstEndpt[msg[th]]
  BY <1>1, SendingIs, ThreadAt DEF Core, ThreadSound
<1>4. ThreadInv' /\ RingInv' /\ Turns(th, l)
  <2> HIDE DEF l
  <2> QED BY <1>1, <1>2, SendingTurns
<1>5. EndpointInv'
  BY <1>1, <1>3, <1>4, SendingIs, PostKeeps DEF Core
<1> QED BY <1>4, <1>5 DEF Core

LEMMA PutStaleStep ==
    ASSUME Core, NEW th \in Sending, PutStale(th)
    PROVE  Core'
<1> DEFINE l == IF th = Swi THEN "add" ELSE "idle"
<1>1. /\ pc[th] = "freed" /\ Goto(th, l) /\ l \notin {"test", "publish", "put", "post", "freed"}
      /\ stale' = TRUE
      /\ UNCHANGED <<vq, token, msg, objects, queue, semHandle, unblocked, heap, leaked, sent, got>>
  BY DEF PutStale, At, SendReturns, history
<1>2. ThreadSound(th, l, token[th], msg[th]) /\ l \in Labels
  BY <1>1, ReturnIsSound DEF Core, SendLabels
<1>3. ThreadInv' /\ RingInv' /\ Turns(th, l)
  <2> HIDE DEF l
  <2> QED BY <1>1, <1>2, SendingTurns
<1>4. EndpointInv'
  BY <1>1, <1>3, SendingIs, PutStaleKeeps DEF Core
<1> QED BY <1>3, <1>4 DEF Core

-----------------------------------------------------------------------------
(* The steps on the virtqueues                                              *)

\* The same step for the parts of the invariant that the virtqueues have nothing to do with.
LEMMA HandsOver ==
    ASSUME Core, NEW th \in Threads, th \notin Endpoints, NEW l \in Labels,
           NEW t \in Tokens \cup {NoToken}, NEW m \in Messages \cup {NoMsg},
           Moves(th, l, t, m), ThreadSound(th, l, t, m),
           th \in Slave /\ l \in {"test", "publish"} => ~Masked(th),
           pc[th] \notin {"put", "post", "freed"}, l \notin {"put", "post", "freed"},
           UNCHANGED <<objects, queue, semHandle, unblocked, heap, stale>>
    PROVE  /\ ThreadInv' /\ EndpointInv' /\ Hand(th, t)
           /\ pc'[th] = l /\ msg'[th] = m
           /\ \A u \in Threads \ {th} : pc'[u] = pc[u] /\ msg'[u] = msg[u]
<1>1. /\ ThreadInv' /\ pc'[th] = l /\ token'[th] = t /\ msg'[th] = m
      /\ \A u \in Threads \ {th} : pc'[u] = pc[u] /\ token'[u] = token[u] /\ msg'[u] = msg[u]
  BY ThreadMoves DEF Core
<1>2. EndpointInv'
  BY <1>1, EndpointsStay DEF Core
<1> QED BY <1>1, <1>2 DEF Hand

LEMMA GoesIsMoves ==
    ASSUME ThreadInv, NEW th \in Threads, NEW l, Goto(th, l), UNCHANGED <<token, msg>>
    PROVE  /\ Moves(th, l, token[th], msg[th])
           /\ token[th] \in Tokens \cup {NoToken} /\ msg[th] \in Messages \cup {NoMsg}
BY DEF Moves, Goto, ThreadInv

LEMMA ClearStep ==
    ASSUME Core, NEW th \in Sending, Clear(th)
    PROVE  Core'
<1>1. /\ pc[th] = "clear" /\ Goto(th, "test") /\ ClearNoNotify(QueueOf(th)) /\ ~Masked(th)
      /\ UNCHANGED <<token, msg, objects, queue, semHandle, unblocked, heap, stale, leaked, sent, got>>
  BY SendingIs DEF Clear, At, Runs, local, history
<1>2. ThreadSound(th, "clear", token[th], msg[th])
  BY <1>1, SendingIs, ThreadAt DEF Core
<1>3. ThreadSound(th, "test", token[th], msg[th]) /\ "test" \in Labels
  BY <1>2, SendingIs, ThreadSets, HostIs, HostThreads DEF ThreadSound, SendLabels, RingLabels, Labels
<1>4. /\ Moves(th, "test", token[th], msg[th])
      /\ token[th] \in Tokens \cup {NoToken} /\ msg[th] \in Messages \cup {NoMsg}
  BY <1>1, SendingIs, GoesIsMoves DEF Core
<1>5. /\ ThreadInv' /\ EndpointInv' /\ pc'[th] = "test"
      /\ \A u \in Threads \ {th} : pc'[u] = pc[u] /\ msg'[u] = msg[u]
  BY <1>1, <1>3, <1>4, SendingIs, HandsOver
<1>6. /\ \A u \in Threads : pc'[u] = "publish" => pc[u] = "publish" /\ msg'[u] = msg[u]
      /\ \A u \in Host : pc'[u] = "add" <=> pc[u] = "add"
  BY <1>5, SendingIs, HostIs
<1>7. RingInv'
  BY <1>1, <1>6, SendingIs, QueueOfIs, ClearKeeps DEF Core
<1> QED BY <1>5, <1>7 DEF Core

LEMMA NoAvailStep ==
    ASSUME Core, NEW th \in Sending, NoAvail(th)
    PROVE  Core'
<1> DEFINE l == IF th # Swi THEN "pend" ELSE IF added[Swi] THEN "kick" ELSE "idle"
<1>1. /\ pc[th] = "test" /\ Goto(th, l)
      /\ UNCHANGED <<vq, token, msg, objects, queue, semHandle, unblocked, heap, stale,
                     leaked, sent, got>>
  BY DEF NoAvail, At, local, history
<1>2. ThreadSound(th, "test", token[th], msg[th])
  BY <1>1, SendingIs, ThreadAt DEF Core
<1>3. ThreadSound(th, l, token[th], msg[th]) /\ l \in Labels
  <2>1. CASE th = Swi
    BY <1>2, <2>1, SwiIs, HostThreads, ThreadSets
       DEF ThreadSound, SendLabels, RingLabels, Labels
  <2>2. CASE th # Swi
    BY <1>2, <2>2, SendingIs, SenderIs, ThreadSets DEF ThreadSound, SendLabels, RingLabels, Labels
  <2> QED BY <2>1, <2>2
<1>4. l \notin {"test", "publish", "put", "post", "freed"}
  OBVIOUS
<1> HIDE DEF l
<1> QED BY <1>1, <1>3, <1>4, SendingIs, GoesQuietly

LEMMA PendStep ==
    ASSUME Core, NEW s \in Senders, Pend(s)
    PROVE  Core'
<1>1. /\ pc[s] = "pend" /\ Goto(s, "clear")
      /\ UNCHANGED <<vq, token, msg, objects, queue, semHandle, unblocked, heap, stale,
                     leaked, sent, got>>
  BY DEF Pend, At, local, history
<1>2. ThreadSound(s, "pend", token[s], msg[s])
  BY <1>1, SenderIs, ThreadAt DEF Core
<1>3. ThreadSound(s, "clear", token[s], msg[s]) /\ "clear" \in Labels
  BY <1>2, SenderIs, ThreadSets DEF ThreadSound, SendLabels, RingLabels, Labels
<1> QED BY <1>1, <1>3, SenderIs, GoesQuietly

LEMMA KickHostStep ==
    ASSUME Core, NEW th \in Sending, KickHost(th)
    PROVE  Core'
<1>1. /\ pc[th] = "kick" /\ Goto(th, "idle")
      /\ UNCHANGED <<vq, token, msg, objects, queue, semHandle, unblocked, heap, stale,
                     leaked, sent, got>>
  BY DEF KickHost, At, local, history
<1>2. ThreadSound(th, "kick", token[th], msg[th])
  BY <1>1, SendingIs, ThreadAt DEF Core
<1>3. ThreadSound(th, "idle", token[th], msg[th]) /\ "idle" \in Labels
  BY <1>2, SendingIs, ThreadSets DEF ThreadSound, SendLabels, RingLabels, Labels
<1> QED BY <1>1, <1>3, SendingIs, GoesQuietly

LEMMA SwiStartStep ==
    ASSUME Core, SwiStart
    PROVE  Core'
<1>1. /\ pc[Swi] = "idle" /\ Goto(Swi, "clear")
      /\ UNCHANGED <<vq, token, msg, objects, queue, semHandle, unblocked, heap, stale,
                     leaked, sent, got>>
  BY DEF SwiStart, local, history
<1>2. ThreadSound(Swi, "idle", token[Swi], msg[Swi])
  BY <1>1, SwiIs, ThreadAt DEF Core
<1>3. ThreadSound(Swi, "clear", token[Swi], msg[Swi]) /\ "clear" \in Labels
  BY <1>2, SwiIs, ThreadSets DEF ThreadSound, SendLabels, RingLabels, Labels
<1> QED BY <1>1, <1>3, SwiIs, GoesQuietly

LEMMA GetToSendStep ==
    ASSUME Core, NEW s \in Senders, GetToSend(s)
    PROVE  Core'
<1> DEFINE t == NextAvail("toHost")
<1>1. /\ pc[s] = "test" /\ HasAvail("toHost") /\ TakeAvail("toHost")
      /\ Moves(s, "add", t, msg[s])
      /\ UNCHANGED <<objects, queue, semHandle, unblocked, heap, stale, leaked, sent, got>>
  BY DEF GetToSend, At, Goto, Carry, Moves, local, history
<1>2. /\ ThreadSound(s, "test", token[s], msg[s]) /\ msg[s] \in Messages \cup {NoMsg}
      /\ s \in Slave /\ QueueOf(s) = "toHost" /\ "toHost" \in VirtQueues
  BY <1>1, SenderIs, ThreadAt, QueueOfIs DEF Core
<1>3. t \in Tokens /\ t # NoToken
  BY <1>1, <1>2, NextAvailIs, SizesAssumption DEF Core
<1>4. token[s] = NoToken /\ ThreadSound(s, "add", t, msg[s]) /\ "add" \in Labels
  BY <1>2, <1>3, SenderIs, ThreadSets DEF ThreadSound, SendLabels, RingLabels, Labels
<1>5. ThreadInv' /\ EndpointInv' /\ Hand(s, t) /\ pc'[s] = "add"
  <2> HIDE DEF t
  <2> QED BY <1>1, <1>2, <1>3, <1>4, SenderIs, HandsOver
<1>6. RingInv'
  BY <1>1, <1>2, <1>4, <1>5, TakeAvailKeeps DEF Core
<1> QED BY <1>5, <1>6 DEF Core

LEMMA GetReceivedStep ==
    ASSUME Core, GetReceived
    PROVE  Core'
<1> DEFINE t == NextAvail("fromHost")
           m == vq["fromHost"].buf[t]
<1>1. /\ pc[Swi] = "test" /\ HasAvail("fromHost") /\ TakeAvail("fromHost")
      /\ Moves(Swi, "lookup", t, m)
      /\ got' = [got EXCEPT !["fromHost"] = Append(@, m)]
      /\ UNCHANGED <<objects, queue, semHandle, unblocked, heap, stale, leaked, sent>>
  BY DEF GetReceived, At, Goto, Carry, Moves, local, history
<1>2. /\ ThreadSound(Swi, "test", token[Swi], msg[Swi])
      /\ Swi \in Slave /\ QueueOf(Swi) = "fromHost" /\ "fromHost" \in VirtQueues
  BY <1>1, SwiIs, ThreadAt, QueueOfIs DEF Core
<1>3. t \in Tokens /\ t # NoToken /\ m \in Messages \ ToHost
  BY <1>1, <1>2, NextAvailIs, SizesAssumption, SendsAssumption DEF Core
<1>4. token[Swi] = NoToken /\ ThreadSound(Swi, "lookup", t, m) /\ "lookup" \in Labels
  BY <1>2, <1>3, SwiIs, ThreadSets DEF ThreadSound, SendLabels, RingLabels, Labels
<1>5. ThreadInv' /\ EndpointInv' /\ Hand(Swi, t) /\ pc'[Swi] = "lookup"
  <2> HIDE DEF t, m
  <2> QED BY <1>1, <1>2, <1>3, <1>4, SwiIs, HandsOver
<1>6. RingInv'
  BY <1>1, <1>2, <1>4, <1>5, TakeAvailKeeps DEF Core
<1> QED BY <1>5, <1>6 DEF Core

LEMMA AddUsedStep ==
    ASSUME Core, NEW th \in Sending, AddUsed(th)
    PROVE  Core'
<1>1. /\ pc[th] = "add" /\ Goto(th, "publish") /\ WriteUsed(QueueOf(th), token[th], msg[th])
      /\ ~Masked(th)
      /\ UNCHANGED <<token, msg, objects, queue, semHandle, unblocked, heap, stale,
                     leaked, sent, got>>
  BY SendingIs DEF AddUsed, At, Runs, local, history
<1>2. ThreadSound(th, "add", token[th], msg[th])
  BY <1>1, SendingIs, ThreadAt DEF Core
<1>3. /\ token[th] # NoToken /\ ThreadSound(th, "publish", token[th], msg[th])
      /\ "publish" \in Labels
  BY <1>2, SendingIs, ThreadSets, SwiIs DEF ThreadSound, SendLabels, RingLabels, Labels
<1>4. /\ Moves(th, "publish", token[th], msg[th])
      /\ token[th] \in Tokens \cup {NoToken} /\ msg[th] \in Messages \cup {NoMsg}
  BY <1>1, SendingIs, GoesIsMoves DEF Core
<1>5. /\ ThreadInv' /\ EndpointInv' /\ Hand(th, token[th]) /\ pc'[th] = "publish"
      /\ msg'[th] = msg[th]
  BY <1>1, <1>3, <1>4, SendingIs, HandsOver
<1>6. QueueOf(th) \in VirtQueues /\ th \in Slave
  BY SendingIs, QueueOfIs
<1>7. RingInv'
  BY <1>1, <1>3, <1>5, <1>6, WriteUsedKeeps DEF Core
<1> QED BY <1>5, <1>7 DEF Core

LEMMA UsedAddedStep ==
    ASSUME Core, NEW s \in Senders, UsedAdded(s)
    PROVE  Core'
<1>1. /\ pc[s] = "publish" /\ PublishUsed("toHost") /\ Moves(s, "kick", NoToken, NoMsg)
      /\ sent' = [sent EXCEPT !["toHost"] = Append(@, msg[s])]
      /\ UNCHANGED <<objects, queue, semHandle, unblocked, heap, stale, leaked, got>>
  BY DEF UsedAdded, At, Goto, Carry, Moves, local, history
<1>2. /\ ThreadSound(s, "publish", token[s], msg[s])
      /\ s \in Slave /\ QueueOf(s) = "toHost" /\ "toHost" \in VirtQueues
  BY <1>1, SenderIs, ThreadAt, QueueOfIs DEF Core
<1>3. token[s] # NoToken /\ ThreadSound(s, "kick", NoToken, NoMsg) /\ "kick" \in Labels
  BY <1>2, SenderIs, ThreadSets DEF ThreadSound, SendLabels, RingLabels, Labels
<1>5. ThreadInv' /\ EndpointInv' /\ Hand(s, NoToken) /\ pc'[s] = "kick"
  BY <1>1, <1>3, SenderIs, HandsOver
<1>6. RingInv'
  BY <1>1, <1>2, <1>3, <1>5, PublishUsedKeeps DEF Core
<1> QED BY <1>5, <1>6 DEF Core

LEMMA GivenBackStep ==
    ASSUME Core, GivenBack
    PROVE  Core'
<1>1. /\ pc[Swi] = "publish" /\ PublishUsed("fromHost") /\ Moves(Swi, "clear", NoToken, NoMsg)
      /\ UNCHANGED <<objects, queue, semHandle, unblocked, heap, stale, leaked, sent, got>>
  BY DEF GivenBack, At, Goto, Carry, Moves, local, history
<1>2. /\ ThreadSound(Swi, "publish", token[Swi], msg[Swi])
      /\ Swi \in Slave /\ QueueOf(Swi) = "fromHost" /\ "fromHost" \in VirtQueues
  BY <1>1, SwiIs, ThreadAt, QueueOfIs DEF Core
<1>3. token[Swi] # NoToken /\ ThreadSound(Swi, "clear", NoToken, NoMsg) /\ "clear" \in Labels
  BY <1>2, SwiIs, ThreadSets DEF ThreadSound, SendLabels, RingLabels, Labels
<1>5. ThreadInv' /\ EndpointInv' /\ Hand(Swi, NoToken) /\ pc'[Swi] = "clear"
  BY <1>1, <1>3, SwiIs, HandsOver
<1>6. RingInv'
  BY <1>1, <1>2, <1>3, <1>5, PublishUsedKeeps DEF Core
<1> QED BY <1>5, <1>6 DEF Core

LEMMA IsrStep ==
    ASSUME Core, Isr
    PROVE  Core'
BY StaysQuietly DEF Isr, local, history

-----------------------------------------------------------------------------
(* RPMessage_create, RPMessage_delete, RPMessage_recv and RPMessage_unblock *)

LEMMA CreateStep ==
    ASSUME Core, NEW e \in Endpoints, Create(e)
    PROVE  Core'
<1>1. ThreadInv'
  BY ThreadsStay DEF Core, Create
<1>2. RingInv'
  <2>1. RingQuiet
    BY DEF Create, RingQuiet, history
  <2> QED BY <2>1, RingQuietKeeps DEF Core
<1>3. EndpointInv'
  BY CreateKeeps DEF Core, Create
<1> QED BY <1>1, <1>2, <1>3 DEF Core

LEMMA UnblockStep ==
    ASSUME Core, NEW e \in Endpoints, Unblock(e)
    PROVE  Core'
<1>1. ThreadInv'
  BY ThreadsStay DEF Core, Unblock
<1>2. RingInv'
  <2>1. RingQuiet
    BY DEF Unblock, RingQuiet, history
  <2> QED BY <2>1, RingQuietKeeps DEF Core
<1>3. EndpointInv'
  BY UnblockKeeps DEF Core, Unblock
<1> QED BY <1>1, <1>2, <1>3 DEF Core

LEMMA DeleteStep ==
    ASSUME Core, NEW e \in Endpoints, Delete(e)
    PROVE  Core'
<1>1. /\ pc[e] = "idle" /\ e \in objects
      /\ heap' = heap + Len(queue[e]) /\ queue' = [queue EXCEPT ![e] = <<>>]
      /\ semHandle' = [semHandle EXCEPT ![e] = 0]
      /\ pc' = [th \in Threads |->
                 IF th = e THEN "deleted"
                 ELSE IF pc[th] \in {"put", "post"} /\ dstEndpt[msg[th]] = e THEN "freed"
                 ELSE pc[th]]
      /\ UNCHANGED <<vq, token, msg, objects, unblocked, stale, leaked, sent, got>>
  BY DEF Delete, At, history
<1>2. \A th \in Threads : pc'[th] = pc[th] \/ pc'[th] = "deleted" \/ pc'[th] = "freed"
  BY <1>1
<1>3. ThreadInv'
  <2>1. pc' \in [Threads -> Labels]
    BY <1>1 DEF Core, ThreadInv, Labels
  <2>2. ASSUME NEW th \in Threads PROVE ThreadSound(th, pc'[th], token[th], msg[th])
    <3>1. ThreadSound(th, pc[th], token[th], msg[th])
      BY ThreadAt DEF Core
    <3>2. CASE th = e
      BY <1>1, <3>1, <3>2, EndpointIs, HostThreads DEF ThreadSound, SendLabels
    <3>3. CASE th # e /\ pc[th] \in {"put", "post"} /\ dstEndpt[msg[th]] = e
      <4>1. pc'[th] = "freed"
        BY <1>1, <3>3
      <4>2. "freed" \in LabelsOf(th) /\ ("freed" \in HoldLabels(th) <=> pc[th] \in HoldLabels(th))
        BY <3>1, <3>3, ThreadSets DEF ThreadSound, LabelsOf, HoldLabels, SendLabels, RingLabels
      <4> QED BY <3>1, <3>3, <4>1, <4>2 DEF ThreadSound, SendLabels
    <3>4. CASE th # e /\ ~ (pc[th] \in {"put", "post"} /\ dstEndpt[msg[th]] = e)
      BY <1>1, <3>1, <3>4
    <3> QED BY <3>2, <3>3, <3>4
  <2>3. OneMasks'
    BY <1>2 DEF Core, ThreadInv, OneMasks, Threads
  <2> QED BY <1>1, <2>1, <2>2, <2>3 DEF Core, ThreadInv, ThreadSound
<1>4. RingInv'
  <2>1. \A th \in Host : pc'[th] = "add" <=> pc[th] = "add"
    BY <1>1, HostIs, EndpointIs
  <2>2. RingQuiet
    BY <1>1, <1>2, <2>1 DEF RingQuiet
  <2> QED BY <2>2, RingQuietKeeps DEF Core
<1>5. EndpointInv'
  BY <1>1, DeleteKeeps DEF Core
<1> QED BY <1>3, <1>4, <1>5 DEF Core

\* A step of a receiver.
LEMMA ReceiverTurns ==
    ASSUME Core, NEW e \in Endpoints, NEW l \in {"idle", "woken", "aborted"}, Goto(e, l),
           UNCHANGED <<vq, token, msg, leaked, sent, got>>
    PROVE  ThreadInv' /\ RingInv' /\ Turns(e, l)
<1>1. ThreadSound(e, pc[e], token[e], msg[e])
  BY EndpointIs, ThreadAt DEF Core
<1>2. ThreadSound(e, l, token[e], msg[e]) /\ l \in Labels
  BY <1>1, EndpointIs, HostThreads DEF ThreadSound, SendLabels, Labels
<1>3. ThreadInv' /\ pc'[e] = l /\ \A u \in Threads \ {e} : pc'[u] = pc[u]
  BY <1>2, EndpointIs, ThreadGoes DEF Core
<1>4. RingInv'
  BY <1>3, EndpointIs, RingStays DEF Core
<1> QED BY <1>3, <1>4 DEF Turns

LEMMA DeleteSlotStep ==
    ASSUME Core, NEW e \in Endpoints, DeleteSlot(e)
    PROVE  Core'
<1>1. ThreadInv' /\ RingInv' /\ Turns(e, "idle")
  BY ReceiverTurns DEF DeleteSlot, history
<1>2. EndpointInv'
  BY <1>1, DeleteSlotKeeps DEF Core, DeleteSlot, At
<1> QED BY <1>1, <1>2 DEF Core

LEMMA WokenStep ==
    ASSUME Core, NEW e \in Endpoints, Woken(e)
    PROVE  Core'
<1>1. ThreadInv' /\ RingInv' /\ Turns(e, "woken")
  BY ReceiverTurns DEF Woken, history
<1>2. EndpointInv'
  BY <1>1, WokenKeeps DEF Core, Woken, At
<1> QED BY <1>1, <1>2 DEF Core

LEMMA RecvPayloadStep ==
    ASSUME Core, NEW e \in Endpoints, RecvPayload(e)
    PROVE  Core'
<1>1. PICK l \in {"idle", "aborted"} :
        /\ Goto(e, l)
        /\ heap' = IF l = "idle" THEN heap + 1 ELSE heap
  BY AssertsAssumption DEF RecvPayload
<1>2. ThreadInv' /\ RingInv' /\ Turns(e, l)
  BY <1>1, ReceiverTurns DEF RecvPayload, history
<1>3. EndpointInv'
  BY <1>1, <1>2, RecvPayloadKeeps DEF Core, RecvPayload, At
<1> QED BY <1>2, <1>3 DEF Core

LEMMA RecvStepsQuiet ==
    ASSUME Core, NEW e \in Endpoints, Recv(e) \/ RecvTimeout(e) \/ RecvUnblocked(e)
    PROVE  Core'
<1>1. PICK l \in {"idle", "recv"} :
        /\ Goto(e, l) /\ pc[e] \in {"idle", "recv", "woken"}
        /\ pc[e] = "woken" => unblocked[e]
        /\ l = "recv" => e \in objects
        /\ UNCHANGED <<vq, token, msg, objects, queue, semHandle, unblocked, heap, stale,
                       leaked, sent, got>>
  BY DEF Recv, RecvTimeout, RecvUnblocked, At, local, history
<1>2. ThreadSound(e, pc[e], token[e], msg[e])
  BY EndpointIs, ThreadAt DEF Core
<1>3. ThreadSound(e, l, token[e], msg[e]) /\ l \in Labels
  BY <1>1, <1>2, EndpointIs, HostThreads DEF ThreadSound, SendLabels, Labels
<1> QED BY <1>1, <1>3, EndpointIs, GoesQuietly

-----------------------------------------------------------------------------
(* The host                                                                 *)

LEMMA HostQueues ==
    /\ HostIsr \in Host /\ HostTasks \in Host /\ HostIsr # HostTasks
    /\ QueueOf(HostIsr) = "toHost" /\ QueueOf(HostTasks) = "fromHost"
    /\ "toHost" \in VirtQueues /\ "fromHost" \in VirtQueues
    /\ \A h \in Host : h \in Threads /\ h \notin Slave /\ h \notin Endpoints
BY HostThreads, HostIs DEF Host, VirtQueues, HostIsr, HostTasks

\* The host's threads go from one place to another without a buffer.
LEMMA HostGoes ==
    ASSUME Core, NEW h \in Host, NEW l \in {"idle", "take", "kick"}, Goto(h, l),
           pc[h] \in {"idle", "take", "kick"},
           UNCHANGED <<vq, token, msg, objects, queue, semHandle, unblocked, heap, stale,
                       leaked, sent, got>>
    PROVE  Core'
<1>1. ThreadSound(h, pc[h], token[h], msg[h])
  BY HostQueues, ThreadAt DEF Core
<1>2. ThreadSound(h, l, token[h], msg[h]) /\ l \in Labels
  BY <1>1, HostIs DEF ThreadSound, SendLabels, Labels
<1> QED BY <1>2, HostQueues, GoesQuietly

LEMMA HostInterruptStep ==
    ASSUME Core, HostInterrupt
    PROVE  Core'
<1>1. CASE Goto(HostIsr, "take")
  BY <1>1, HostQueues, HostGoes DEF HostInterrupt, local, history
<1>2. CASE pc' = pc
  BY <1>2, StaysQuietly DEF HostInterrupt, local, history
<1> QED BY <1>1, <1>2 DEF HostInterrupt

LEMMA HostTakenAllStep ==
    ASSUME Core, HostTakenAll
    PROVE  Core'
BY HostQueues, HostGoes DEF HostTakenAll, local, history

LEMMA KickSlaveStep ==
    ASSUME Core, NEW h \in Host, KickSlave(h)
    PROVE  Core'
BY HostGoes DEF KickSlave, local, history

LEMMA HostSendFailsStep ==
    ASSUME Core, HostSendFails
    PROVE  Core'
BY StaysQuietly DEF HostSendFails, local, history

LEMMA HostTakeStep ==
    ASSUME Core, HostTake
    PROVE  Core'
<1> DEFINE t == NextUsed("toHost")
           m == vq["toHost"].buf[t]
<1>1. /\ pc[HostIsr] = "take" /\ HasUsed("toHost") /\ TakeUsed("toHost")
      /\ Moves(HostIsr, "add", t, m)
      /\ got' = [got EXCEPT !["toHost"] = Append(@, m)]
      /\ UNCHANGED <<objects, queue, semHandle, unblocked, heap, stale, leaked, sent>>
  BY DEF HostTake, Taken, Goto, Carry, Moves, local
<1>2. ThreadSound(HostIsr, "take", token[HostIsr], msg[HostIsr])
  BY <1>1, HostQueues, ThreadAt DEF Core
<1>3. t \in Tokens /\ t # NoToken /\ m \in Messages
  BY <1>1, HostQueues, NextUsedIs, SizesAssumption, SendsAssumption DEF Core
<1>4. token[HostIsr] = NoToken /\ ThreadSound(HostIsr, "add", t, m) /\ "add" \in Labels
  BY <1>2, <1>3, HostIs, HostQueues DEF ThreadSound, SendLabels, Labels
<1>5. ThreadInv' /\ EndpointInv' /\ Hand(HostIsr, t) /\ pc'[HostIsr] = "add"
  <2> HIDE DEF t, m
  <2> QED BY <1>1, <1>3, <1>4, HostQueues, HandsOver
<1>6. RingInv'
  BY <1>1, <1>4, <1>5, HostQueues, TakeUsedKeeps DEF Core
<1> QED BY <1>5, <1>6 DEF Core

LEMMA HostLeaksStep ==
    ASSUME Core, HostLeaks
    PROVE  Core'
<1>1. ThreadInv'
  BY ThreadsStay DEF Core, HostLeaks
<1>2. RingInv'
  BY LeakKeeps DEF Core, HostLeaks, Taken
<1>3. EndpointInv'
  <2>1. EndpointQuiet
    BY DEF HostLeaks, local, EndpointQuiet, Core, EndpointInv, EndpointSound
  <2> QED BY <2>1, EndpointQuietKeeps DEF Core
<1> QED BY <1>1, <1>2, <1>3 DEF Core

LEMMA HostSendStep ==
    ASSUME Core, HostSend
    PROVE  Core'
<1> DEFINE t == NextUsed("fromHost")
<1>1. PICK m \in FromHost \cap toSend : Carry(HostTasks, t, m)
  BY DEF HostSend
<1>2. /\ pc[HostTasks] = "idle" /\ HasUsed("fromHost") /\ TakeUsed("fromHost")
      /\ Moves(HostTasks, "add", t, m)
      /\ UNCHANGED <<objects, queue, semHandle, unblocked, heap, stale, leaked, sent, got>>
  BY <1>1 DEF HostSend, Goto, Carry, Moves, local, history
<1>3. ThreadSound(HostTasks, "idle", token[HostTasks], msg[HostTasks])
  BY <1>2, HostQueues, ThreadAt DEF Core
<1>4. t \in Tokens /\ t # NoToken /\ m \in Messages
  BY <1>2, HostQueues, NextUsedIs, SizesAssumption, SendsAssumption DEF Core
<1>5. token[HostTasks] = NoToken /\ ThreadSound(HostTasks, "add", t, m) /\ "add" \in Labels
  BY <1>3, <1>4, HostIs, HostQueues DEF ThreadSound, SendLabels, Labels
<1>6. ThreadInv' /\ EndpointInv' /\ Hand(HostTasks, t) /\ pc'[HostTasks] = "add"
  <2> HIDE DEF t
  <2> QED BY <1>2, <1>4, <1>5, HostQueues, HandsOver
<1>7. RingInv'
  BY <1>2, <1>5, <1>6, HostQueues, TakeUsedKeeps DEF Core
<1> QED BY <1>6, <1>7 DEF Core

LEMMA AddAvailStep ==
    ASSUME Core, NEW h \in Host, AddAvail(h)
    PROVE  Core'
<1>1. /\ pc[h] = "add" /\ Goto(h, "publish") /\ WriteAvail(QueueOf(h), token[h], msg[h])
      /\ UNCHANGED <<token, msg, objects, queue, semHandle, unblocked, heap, stale,
                     leaked, sent, got>>
  BY DEF AddAvail, local, history
<1>2. ThreadSound(h, "add", token[h], msg[h])
  BY <1>1, HostQueues, ThreadAt DEF Core
<1>3. /\ token[h] # NoToken /\ ThreadSound(h, "publish", token[h], msg[h])
      /\ "publish" \in Labels
  BY <1>2, HostIs, HostQueues DEF ThreadSound, SendLabels, Labels
<1>4. /\ Moves(h, "publish", token[h], msg[h])
      /\ token[h] \in Tokens \cup {NoToken} /\ msg[h] \in Messages \cup {NoMsg}
  BY <1>1, HostQueues, GoesIsMoves DEF Core
<1>5. /\ ThreadInv' /\ EndpointInv' /\ Hand(h, token[h]) /\ pc'[h] = "publish"
      /\ msg'[h] = msg[h]
  BY <1>1, <1>3, <1>4, HostQueues, HandsOver
<1>6. QueueOf(h) \in VirtQueues
  BY HostQueues, QueueOfIs
<1>7. RingInv'
  BY <1>1, <1>3, <1>5, <1>6, WriteAvailKeeps DEF Core
<1> QED BY <1>5, <1>7 DEF Core

LEMMA OfferedStep ==
    ASSUME Core, Offered
    PROVE  Core'
<1>1. /\ pc[HostIsr] = "publish" /\ PublishAvail("toHost") /\ Moves(HostIsr, "take", NoToken, NoMsg)
      /\ UNCHANGED <<objects, queue, semHandle, unblocked, heap, stale, leaked, sent, got>>
  BY DEF Offered, Goto, Carry, Moves, local, history
<1>2. ThreadSound(HostIsr, "publish", token[HostIsr], msg[HostIsr])
  BY <1>1, HostQueues, ThreadAt DEF Core
<1>3. token[HostIsr] # NoToken /\ ThreadSound(HostIsr, "take", NoToken, NoMsg) /\ "take" \in Labels
  BY <1>2, HostIs, HostQueues DEF ThreadSound, SendLabels, Labels
<1>4. ThreadInv' /\ EndpointInv' /\ Hand(HostIsr, NoToken) /\ pc'[HostIsr] = "take"
  BY <1>1, <1>3, HostQueues, HandsOver
<1>5. RingInv'
  BY <1>1, <1>3, <1>4, HostQueues, PublishAvailKeeps DEF Core
<1> QED BY <1>4, <1>5 DEF Core

LEMMA HostSentStep ==
    ASSUME Core, HostSent
    PROVE  Core'
<1>1. /\ pc[HostTasks] = "publish" /\ PublishAvail("fromHost")
      /\ Moves(HostTasks, "kick", NoToken, NoMsg)
      /\ sent' = [sent EXCEPT !["fromHost"] = Append(@, msg[HostTasks])]
      /\ UNCHANGED <<objects, queue, semHandle, unblocked, heap, stale, leaked, got>>
  BY DEF HostSent, Goto, Carry, Moves, local, history
<1>2. ThreadSound(HostTasks, "publish", token[HostTasks], msg[HostTasks])
  BY <1>1, HostQueues, ThreadAt DEF Core
<1>3. /\ token[HostTasks] # NoToken /\ ThreadSound(HostTasks, "kick", NoToken, NoMsg)
      /\ "kick" \in Labels
  BY <1>2, HostIs, HostQueues DEF ThreadSound, SendLabels, Labels
<1>4. ThreadInv' /\ EndpointInv' /\ Hand(HostTasks, NoToken) /\ pc'[HostTasks] = "kick"
  BY <1>1, <1>3, HostQueues, HandsOver
<1>5. RingInv'
  BY <1>1, <1>3, <1>4, HostQueues, PublishAvailKeeps DEF Core
<1> QED BY <1>4, <1>5 DEF Core

-----------------------------------------------------------------------------
(* The invariant                                                            *)

RestInv ==
    /\ deletesLeft \in 0 .. MaxDeletes
    /\ slaveMbox \in Seq(VirtQueues) /\ hostMbox \in Seq(VirtQueues)

Inv == Core /\ RestInv

LEMMA InitThreads == ASSUME Init PROVE ThreadInv
<1>1. \A th \in Threads : pc[th] = "idle" /\ token[th] = NoToken /\ msg[th] = NoMsg
  BY DEF Init
<1>2. pc \in [Threads -> Labels]
  BY <1>1 DEF Init, Labels
<1>3. ASSUME NEW th \in Threads PROVE ThreadSound(th, pc[th], token[th], msg[th])
  BY <1>1 DEF ThreadSound, LabelsOf, HoldLabels, SendLabels
<1>4. OneMasks
  BY <1>1 DEF OneMasks, Threads
<1> QED BY <1>2, <1>3, <1>4 DEF Init, ThreadInv

\* A ring that holds every buffer at its own place, and one that holds none.
LEMMA FullRing ==
    ASSUME NEW ring, ring = [t \in Tokens |-> t]
    PROVE  RingSound(ring, 0, Num) /\ Between(ring, 0, Num) = Tokens
<1>1. Count(0, Num) = Num
  <2>1. 0 \in Indices /\ Num \in Indices /\ 0 <= Num /\ Num - 0 = Num
    BY RingAssumption DEF Indices
  <2> QED BY <2>1, CountValue
<1>2. \A k \in 0 .. Num - 1 : Place(0, k) = k
  <2>1. \A k \in 0 .. Num - 1 : k % Num = k
    BY RingAssumption, SmallRemainder
  <2> QED BY <2>1, RingAssumption DEF Place
<1>3. \A k \in 0 .. Num - 1 : ring[Place(0, k)] = k
  BY <1>2 DEF Tokens
<1>4. RingSound(ring, 0, Num)
  BY <1>1, <1>3, RingAssumption DEF RingSound
<1>5. {ring[Place(0, k)] : k \in 0 .. Num - 1} = Tokens
  <2>1. {ring[Place(0, k)] : k \in 0 .. Num - 1} = {k : k \in 0 .. Num - 1}
    BY <1>3, Zenon
  <2>2. {k : k \in 0 .. Num - 1} = 0 .. Num - 1
    BY Zenon
  <2> QED BY <2>1, <2>2 DEF Tokens
<1> QED BY <1>1, <1>4, <1>5, BetweenIs

LEMMA EmptyRing ==
    ASSUME NEW ring
    PROVE  RingSound(ring, 0, 0) /\ Between(ring, 0, 0) = {} /\ Count(0, 0) = 0
<1>1. 0 \in Indices
  BY RingAssumption DEF Indices
<1>2. Count(0, 0) = 0
  BY <1>1, CountZero
<1>3. 0 .. Count(0, 0) - 1 = {}
  BY <1>2
<1>4. RingSound(ring, 0, 0)
  BY <1>2, <1>3, RingAssumption DEF RingSound
<1> QED BY <1>2, <1>3, <1>4, BetweenIs

LEMMA InitRings == ASSUME Init PROVE RingInv
<1>1. ASSUME NEW q \in VirtQueues PROVE vq[q] = Primed(q)
  BY DEF Init, VirtQueueInit
<1> DEFINE id == [t \in Tokens |-> t]
<1>2. ASSUME NEW q \in VirtQueues
      PROVE  /\ vq[q].buf = [t \in Tokens |-> NoMsg]
             /\ vq[q].avail = id /\ vq[q].used = id
             /\ vq[q].availIdx = IF q = "toHost" THEN Num ELSE 0
             /\ vq[q].usedIdx = IF q = "toHost" THEN 0 ELSE Num
             /\ vq[q].lastAvail = 0 /\ vq[q].lastUsed = 0
             /\ vq[q].numFree = IF q = "toHost" THEN 0 ELSE Num
  <2>1. PICK v : v = vq[q] /\ v = Primed(q)
    BY <1>1
  <2>2. /\ v.buf = [t \in Tokens |-> NoMsg] /\ v.avail = id /\ v.used = id
    BY <2>1 DEF Primed
  <2>3. /\ v.availIdx = IF q = "toHost" THEN Num ELSE 0
        /\ v.usedIdx = IF q = "toHost" THEN 0 ELSE Num
        /\ v.lastAvail = 0 /\ v.lastUsed = 0
        /\ v.numFree = IF q = "toHost" THEN 0 ELSE Num
    BY <2>1 DEF Primed
  <2> QED BY <2>1, <2>2, <2>3
<1>3. VirtQueueTypeOK
  <2>1. 0 \in Indices /\ Num \in Indices /\ 0 \in 0 .. Num + 1 /\ Num \in 0 .. Num + 1
    BY RingAssumption DEF Indices
  <2>2. id \in [Tokens -> Tokens]
    OBVIOUS
  <2>3. \A q \in VirtQueues : Primed(q) \in VirtQueueRecords
    BY <2>1, <2>2 DEF Primed, VirtQueueRecords
  <2> QED BY <2>3 DEF Init, VirtQueueInit, VirtQueueTypeOK, VirtQueueRecords
<1>4. \A th \in Threads : pc[th] = "idle" /\ token[th] = NoToken
  BY DEF Init
<1>5. ASSUME NEW q \in VirtQueues PROVE QueueSound(q)
  <2>1. CASE q = "toHost"
    <3>1. RingSound(vq[q].avail, vq[q].lastAvail, vq[q].availIdx) /\ InAvail(q) = Tokens
      BY <1>2, <2>1, FullRing, Zenon DEF InAvail
    <3>2. RingSound(vq[q].used, vq[q].lastUsed, vq[q].usedIdx) /\ InUsed(q) = {}
      BY <1>2, <2>1, EmptyRing, Zenon DEF InUsed
    <3>3. \A t \in Tokens : BufferSound(q, t)
      BY <1>4, <3>1, <3>2, SizesAssumption DEF BufferSound, Holds, IsLeaked, Init
    <3>4. Delivery(q)
      <4>1. Count(vq[q].lastUsed, vq[q].usedIdx) = 0
        BY <1>2, <2>1, EmptyRing
      <4>2. sent[q] = <<>> /\ got[q] = <<>>
        BY DEF Init
      <4> QED BY <2>1, <4>1, <4>2 DEF Delivery, Delivers
    <3> QED BY <3>1, <3>2, <3>3, <3>4 DEF QueueSound
  <2>2. CASE q # "toHost"
    <3>1. RingSound(vq[q].used, vq[q].lastUsed, vq[q].usedIdx) /\ InUsed(q) = Tokens
      BY <1>2, <2>2, FullRing, Zenon DEF InUsed
    <3>2. RingSound(vq[q].avail, vq[q].lastAvail, vq[q].availIdx) /\ InAvail(q) = {}
      BY <1>2, <2>2, EmptyRing, Zenon DEF InAvail
    <3>3. \A t \in Tokens : BufferSound(q, t)
      BY <1>4, <3>1, <3>2, SizesAssumption DEF BufferSound, Holds, IsLeaked, Init
    <3>4. Delivery(q)
      <4>1. Count(vq[q].lastAvail, vq[q].availIdx) = 0
        BY <1>2, <2>2, EmptyRing
      <4>2. sent[q] = <<>> /\ got[q] = <<>>
        BY DEF Init
      <4> QED BY <2>2, <4>1, <4>2 DEF Delivery, Delivers
    <3> QED BY <3>1, <3>2, <3>3, <3>4 DEF QueueSound
  <2> QED BY <2>1, <2>2
<1>6. \A th \in Threads : Written(th)
  BY <1>4 DEF Written
<1>7. NumFreeSound
  <2>1. leaked = {} /\ Cardinality(leaked) = 0
    BY FS_EmptySet DEF Init
  <2>2. pc[HostIsr] # "add" /\ pc[HostTasks] # "add"
    BY <1>4, HostThreads
  <2>3. vq["toHost"].numFree = 0 /\ vq["fromHost"].numFree = Num
    BY <1>2 DEF VirtQueues
  <2> QED BY <2>1, <2>2, <2>3, RingAssumption DEF NumFreeSound
<1>8. sent \in [VirtQueues -> Seq(Messages)] /\ got \in [VirtQueues -> Seq(Messages)]
  BY DEF Init
<1> QED BY <1>3, <1>5, <1>6, <1>7, <1>8 DEF RingInv

LEMMA InitEndpoints == ASSUME Init PROVE EndpointInv
<1>1. \A th \in Threads : pc[th] = "idle"
  BY DEF Init
<1>2. EndpointTypes
  <2>1. /\ queue = [e \in Endpoints |-> <<>>] /\ semHandle = [e \in Endpoints |-> 0]
        /\ unblocked = [e \in Endpoints |-> FALSE] /\ objects = Callbacks /\ stale = FALSE
    BY DEF Init
  <2>2. queue \in [Endpoints -> Seq(Messages)]
    BY <2>1
  <2>3. semHandle \in [Endpoints -> Nat] /\ unblocked \in [Endpoints -> BOOLEAN]
    BY <2>1
  <2> QED BY <2>1, <2>2, <2>3 DEF EndpointTypes
<1>3. ASSUME NEW e \in Endpoints PROVE EndpointSound(e)
  <2>1. Posters(e) = {}
    BY <1>1 DEF Posters
  <2>2. Cardinality(Posters(e)) = 0
    BY <2>1, FS_EmptySet
  <2>3. queue[e] = <<>> /\ semHandle[e] = 0 /\ pc[e] = "idle"
    BY <1>1, EndpointIs DEF Init
  <2> QED BY <1>1, <2>2, <2>3 DEF EndpointSound
<1>4. HeapSound
  <2>1. Putters = {}
    BY <1>1 DEF Putters
  <2>2. Entries = {}
    BY DEF Init, Entries, EntriesOf
  <2>3. Cardinality(Putters) = 0 /\ Cardinality(Entries) = 0 /\ IsFiniteSet(Entries)
    BY <2>1, <2>2, FS_EmptySet
  <2> QED BY <2>3, SizesAssumption DEF HeapSound, Init
<1> QED BY <1>2, <1>3, <1>4 DEF EndpointInv

LEMMA InitInv == ASSUME Init PROVE Inv
<1>1. Core
  BY InitThreads, InitRings, InitEndpoints DEF Core
<1>2. RestInv
  BY SizesAssumption DEF Init, RestInv
<1> QED BY <1>1, <1>2 DEF Inv

LEMMA NextKeepsCore == ASSUME Core, Next PROVE Core'
<1>s. Swi \in Sending /\ Senders \subseteq Sending
  BY DEF Sending
<1>1. ASSUME NEW s \in Senders, SendLocal(s) \/ SendRemote(s) \/ SenderStep(s) PROVE Core'
  <2>1. CASE SendLocal(s) \/ SendRemote(s)
    BY <2>1, SendLocalStep, SendRemoteStep
  <2>2. CASE NotQueued(s) \/ Alloc(s) \/ Put(s) \/ Post(s) \/ PutStale(s)
    BY <1>s, <2>2, NotQueuedStep, AllocStep, PutStep, PostStep, PutStaleStep
  <2>3. CASE Clear(s) \/ NoAvail(s) \/ AddUsed(s) \/ KickHost(s)
    BY <1>s, <2>3, ClearStep, NoAvailStep, AddUsedStep, KickHostStep
  <2>4. CASE Pend(s) \/ GetToSend(s) \/ UsedAdded(s)
    BY <2>4, PendStep, GetToSendStep, UsedAddedStep
  <2> QED BY <1>1, <2>1, <2>2, <2>3, <2>4 DEF SenderStep
<1>2. ASSUME NEW e \in Endpoints,
             Create(e) \/ Delete(e) \/ Recv(e) \/ RecvTimeout(e) \/ RecvStep(e) \/ Unblock(e)
      PROVE  Core'
  <2>1. CASE Create(e) \/ Delete(e) \/ Unblock(e)
    BY <2>1, CreateStep, DeleteStep, UnblockStep
  <2>2. CASE Recv(e) \/ RecvTimeout(e) \/ RecvUnblocked(e)
    BY <2>2, RecvStepsQuiet
  <2>3. CASE Woken(e) \/ RecvPayload(e) \/ DeleteSlot(e)
    BY <2>3, WokenStep, RecvPayloadStep, DeleteSlotStep
  <2> QED BY <1>2, <2>1, <2>2, <2>3 DEF RecvStep
<1>3. CASE Isr
  BY <1>3, IsrStep
<1>4. ASSUME SwiStep PROVE Core'
  <2>1. CASE SwiStart \/ GetReceived \/ GivenBack
    BY <2>1, SwiStartStep, GetReceivedStep, GivenBackStep
  <2>2. CASE NotQueued(Swi) \/ Alloc(Swi) \/ Put(Swi) \/ Post(Swi) \/ PutStale(Swi)
    BY <1>s, <2>2, NotQueuedStep, AllocStep, PutStep, PostStep, PutStaleStep
  <2>3. CASE Clear(Swi) \/ NoAvail(Swi) \/ AddUsed(Swi) \/ KickHost(Swi)
    BY <1>s, <2>3, ClearStep, NoAvailStep, AddUsedStep, KickHostStep
  <2> QED BY <1>4, <2>1, <2>2, <2>3 DEF SwiStep
<1>5. CASE HostSend \/ HostSendFails
  BY <1>5, HostSendStep, HostSendFailsStep
<1>6. ASSUME HostIsrStep \/ HostTasksStep PROVE Core'
  <2>1. CASE HostInterrupt \/ HostTake \/ HostLeaks \/ HostTakenAll \/ Offered \/ HostSent
    BY <2>1, HostInterruptStep, HostTakeStep, HostLeaksStep, HostTakenAllStep, OfferedStep,
       HostSentStep
  <2>2. CASE AddAvail(HostIsr) \/ AddAvail(HostTasks) \/ KickSlave(HostIsr) \/ KickSlave(HostTasks)
    BY <2>2, HostQueues, AddAvailStep, KickSlaveStep
  <2> QED BY <1>6, <2>1, <2>2 DEF HostIsrStep, HostTasksStep
<1> QED BY <1>1, <1>2, <1>3, <1>4, <1>5, <1>6 DEF Next

\* The mailbox FIFOs hold ids of queues, and the deletions are counted down.
LEMMA NextKeepsRest == ASSUME RestInv, Next PROVE RestInv'
<1>m. \A th : QueueOf(th) \in VirtQueues
  BY DEF QueueOf, VirtQueues
<1>f. \A f \in Seq(VirtQueues) :
          /\ \A q \in VirtQueues : Append(f, q) \in Seq(VirtQueues)
          /\ f # <<>> => Tail(f) \in Seq(VirtQueues)
  OBVIOUS
<1>1. ASSUME UNCHANGED <<deletesLeft, slaveMbox, hostMbox>> PROVE RestInv'
  BY <1>1 DEF RestInv
<1>2. ASSUME NEW th, KickHost(th) PROVE RestInv'
  BY <1>2, <1>m, <1>f DEF KickHost, local, RestInv
<1>3. ASSUME NEW th, KickSlave(th) PROVE RestInv'
  BY <1>3, <1>m, <1>f DEF KickSlave, local, RestInv
<1>4. ASSUME NEW e \in Endpoints, Delete(e) PROVE RestInv'
  BY <1>4, SizesAssumption DEF Delete, mboxes, RestInv
<1>5. ASSUME NEW s \in Senders, SendLocal(s) \/ SendRemote(s) \/ SenderStep(s) PROVE RestInv'
  <2>1. CASE SendLocal(s) \/ SendRemote(s)
    BY <1>1, <2>1 DEF SendLocal, SendRemote, local, mboxes
  <2>2. CASE NotQueued(s) \/ Alloc(s) \/ Put(s) \/ Post(s) \/ PutStale(s)
    BY <1>1, <2>2 DEF NotQueued, Alloc, Put, Post, PutStale, local, mboxes
  <2>3. CASE Clear(s) \/ NoAvail(s) \/ AddUsed(s) \/ Pend(s) \/ GetToSend(s) \/ UsedAdded(s)
    BY <1>1, <2>3 DEF Clear, NoAvail, AddUsed, Pend, GetToSend, UsedAdded, local, mboxes
  <2> QED BY <1>2, <1>5, <2>1, <2>2, <2>3 DEF SenderStep
<1>6. ASSUME NEW e \in Endpoints,
             Create(e) \/ Recv(e) \/ RecvTimeout(e) \/ RecvStep(e) \/ Unblock(e)
      PROVE  RestInv'
  BY <1>1, <1>6 DEF Create, Recv, RecvTimeout, RecvStep, Woken, RecvUnblocked, RecvPayload,
     DeleteSlot, Unblock, local, mboxes
<1>7. ASSUME SwiStep PROVE RestInv'
  <2>1. CASE SwiStart \/ GetReceived \/ GivenBack
    BY <1>1, <2>1 DEF SwiStart, GetReceived, GivenBack, local, mboxes
  <2>2. CASE NotQueued(Swi) \/ Alloc(Swi) \/ Put(Swi) \/ Post(Swi) \/ PutStale(Swi)
    BY <1>1, <2>2 DEF NotQueued, Alloc, Put, Post, PutStale, local, mboxes
  <2>3. CASE Clear(Swi) \/ NoAvail(Swi) \/ AddUsed(Swi)
    BY <1>1, <2>3 DEF Clear, NoAvail, AddUsed, local, mboxes
  <2> QED BY <1>2, <1>7, <2>1, <2>2, <2>3 DEF SwiStep
<1>8. CASE Isr
  BY <1>f, <1>8 DEF Isr, local, RestInv
<1>9. CASE HostInterrupt
  BY <1>f, <1>9 DEF HostInterrupt, local, RestInv
<1>10. ASSUME HostIsrStep \/ HostTasksStep, ~HostInterrupt PROVE RestInv'
  <2>1. CASE HostTake \/ HostLeaks \/ HostTakenAll
    BY <1>1, <2>1 DEF HostTake, HostLeaks, HostTakenAll, local, mboxes
  <2>2. CASE AddAvail(HostIsr) \/ AddAvail(HostTasks) \/ Offered \/ HostSent
    BY <1>1, <2>2 DEF AddAvail, Offered, HostSent, local, mboxes
  <2> QED BY <1>3, <1>10, <2>1, <2>2 DEF HostIsrStep, HostTasksStep
<1>11. CASE HostSend \/ HostSendFails
  BY <1>1, <1>11 DEF HostSend, HostSendFails, local, mboxes
<1> QED BY <1>4, <1>5, <1>6, <1>7, <1>8, <1>9, <1>10, <1>11 DEF Next

LEMMA StutterKeeps == ASSUME Inv, UNCHANGED vars PROVE Inv'
<1>1. Core'
  BY StaysQuietly DEF Inv, vars, local, history
<1>2. RestInv'
  BY DEF Inv, RestInv, vars, local, mboxes
<1> QED BY <1>1, <1>2 DEF Inv

LEMMA Invariance == Spec => []Inv
<1>1. Init => Inv
  BY InitInv
<1>2. Inv /\ [Next]_vars => Inv'
  BY NextKeepsCore, NextKeepsRest, StutterKeeps DEF Inv
<1> QED BY <1>1, <1>2, PTL DEF Spec

LEMMA InvTypes == ASSUME Inv PROVE TypeOK
<1>1. heap \in 0 .. HeapBlocks
  <2>1. /\ heap \in Nat /\ Cardinality(Putters) \in Nat /\ Cardinality(Entries) \in Nat
        /\ heap + Cardinality(Putters) + Cardinality(Entries) <= HeapBlocks
    BY ThreadsFinite, FS_CardinalityType DEF Inv, Core, EndpointInv, HeapSound
  <2> QED BY <2>1, SizesAssumption
<1> QED BY <1>1 DEF Inv, Core, ThreadInv, RingInv, EndpointInv, EndpointTypes, RestInv, TypeOK

\* The variables stay in their types: a buffer index, a length or a heap count never
\* leaves its range (RPMessage.c, VirtQueue.c, MessageQCopy.c).
THEOREM TypeCorrect == Spec => []TypeOK
<1>1. Inv => TypeOK
  BY InvTypes
<1> QED BY <1>1, Invariance, PTL

\* RPMessage_recv never takes from an empty queue: whoever was woken for a message, and not
\* by RPMessage_unblock, finds one, whatever senders, the Swi and deletions do meanwhile.
THEOREM ReceiversFindPayload == Spec => []RecvFindsPayload
<1>1. ASSUME Inv PROVE RecvFindsPayload
  <2> SUFFICES ASSUME NEW e \in Endpoints, pc[e] = "woken", ~unblocked[e] PROVE queue[e] # <<>>
    BY DEF RecvFindsPayload
  <2>1. /\ Len(queue[e]) = semHandle[e] + 1 + Cardinality(Posters(e))
        /\ semHandle[e] \in Nat /\ Cardinality(Posters(e)) \in Nat
    BY <1>1, ThreadsFinite DEF Inv, Core, EndpointInv, EndpointTypes, EndpointSound
  <2>2. Len(queue[e]) # 0
    BY <2>1
  <2> QED BY <2>2
<1> QED BY <1>1, Invariance, PTL

LEMMA OneOwner ==
    ASSUME Inv, NEW q \in VirtQueues, NEW t \in Tokens
    PROVE  Cardinality(Owners(q, t)) = 1
<1>1. BufferSound(q, t)
  BY DEF Inv, Core, RingInv, QueueSound
<1>2. \E o : Owners(q, t) = {o}
  <2>1. CASE t \in InAvail(q)
    <3>1. Owners(q, t) = {"avail"}
      BY <1>1, <2>1 DEF BufferSound, Owners, Holds, IsLeaked
    <3> QED BY <3>1
  <2>2. CASE t \in InUsed(q)
    <3>1. Owners(q, t) = {"used"}
      BY <1>1, <2>2 DEF BufferSound, Owners, Holds, IsLeaked
    <3> QED BY <3>1
  <2>3. CASE IsLeaked(q, t)
    <3>1. Owners(q, t) = {"leaked"}
      BY <1>1, <2>3 DEF BufferSound, Owners, Holds, IsLeaked
    <3> QED BY <3>1
  <2>4. ASSUME NEW th \in Threads, Holds(th, q, t) PROVE \E o : Owners(q, t) = {o}
    <3>1. Owners(q, t) = {th}
      BY <1>1, <2>4 DEF BufferSound, Owners, Holds, IsLeaked
    <3> QED BY <3>1
  <2> QED BY <1>1, <2>1, <2>2, <2>3, <2>4 DEF BufferSound
<1>3. IsFiniteSet(Owners(q, t))
  BY <1>2, FS_Singleton
<1> QED BY <1>2, <1>3, FS_Singleton

\* No buffer of a virtqueue is lost or has two owners, whatever slave and host do between
\* each other's steps and however often the indices wrap; no block of the heap is lost until
\* a message meets the deletion of its endpoint; and VirtQueue_addAvailBuf has room.
THEOREM BuffersAreConserved == Spec => []BuffersConserved
<1>1. ASSUME Inv PROVE BuffersConserved
  <2>1. TypeOK
    BY <1>1, InvTypes
  <2>2. \A q \in VirtQueues, t \in Tokens : Cardinality(Owners(q, t)) = 1
    BY <1>1, OneOwner
  <2>3. ASSUME NEW h \in Host, pc[h] = "add" PROVE vq[QueueOf(h)].numFree > 0
    <3>1. Cardinality(leaked) \in Nat
      BY <1>1, LeakedIsFinite DEF Inv, Core
    <3> QED BY <1>1, <2>3, <3>1, HostThreads, RingAssumption DEF Inv, Core, RingInv, NumFreeSound
  <2>4. LateIsLost \/ heap + Copied = HeapBlocks
    <3>1. Copied = Cardinality(Putters) + Cardinality(Entries)
      BY DEF Copied, Putters, Entries, EntriesOf
    <3>2. heap \in Nat /\ Cardinality(Putters) \in Nat /\ Cardinality(Entries) \in Nat
      BY <1>1, ThreadsFinite, FS_CardinalityType DEF Inv, Core, EndpointInv, HeapSound
    <3> QED BY <1>1, <3>1, <3>2 DEF Inv, Core, EndpointInv, HeapSound
  <2> QED BY <2>1, <2>2, <2>3, <2>4 DEF BuffersConserved
<1> QED BY <1>1, Invariance, PTL

-----------------------------------------------------------------------------
(* Both virtqueues implement the abstract channel                           *)

\* What is under way on a channel is what its ring holds.
LEMMA UnderWayIs ==
    ASSUME RingInv, NEW q \in VirtQueues
    PROVE  C!UnderWay(q) = IF q = "toHost" THEN Count(vq[q].lastUsed, vq[q].usedIdx)
                                           ELSE Count(vq[q].lastAvail, vq[q].availIdx)
<1>1. /\ vq[q].lastUsed \in Indices /\ vq[q].usedIdx \in Indices
      /\ vq[q].lastAvail \in Indices /\ vq[q].availIdx \in Indices
  BY VirtQueueType DEF RingInv
<1>2. PICK c \in Nat : c = IF q = "toHost" THEN Count(vq[q].lastUsed, vq[q].usedIdx)
                                           ELSE Count(vq[q].lastAvail, vq[q].availIdx)
  BY <1>1, CountValue DEF Indices
<1>3. sent[q] \in Seq(Messages) /\ got[q] \in Seq(Messages) /\ Len(sent[q]) = Len(got[q]) + c
  BY <1>2 DEF RingInv, QueueSound, Delivery, Delivers
<1> QED BY <1>2, <1>3 DEF C!UnderWay

\* Who publishes a buffer has it, and so the ring does not hold them all.
LEMMA SendRefines ==
    ASSUME Core, NEW th \in Threads, NEW q \in VirtQueues, q = QueueOf(th), token[th] # NoToken,
           msg[th] \in Messages, sent' = [sent EXCEPT ![q] = Append(@, msg[th])], got' = got
    PROVE  C!ChannelNext
<1>1. /\ Count(vq[q].lastAvail, vq[q].availIdx) < Num
      /\ Count(vq[q].lastUsed, vq[q].usedIdx) < Num
  BY HeldBuffer DEF Core
<1>2. C!UnderWay(q) < Num
  BY <1>1, UnderWayIs DEF Core
<1>3. C!Send(q, msg[th])
  BY <1>2 DEF C!Send
<1> QED BY <1>3 DEF C!ChannelNext

LEMMA ReceiveRefines ==
    ASSUME Core, NEW q \in VirtQueues, NEW m, Len(sent[q]) > Len(got[q]),
           m = sent[q][Len(got[q]) + 1], got' = [got EXCEPT ![q] = Append(@, m)], sent' = sent
    PROVE  C!ChannelNext
<1>1. sent[q] \in Seq(Messages) /\ got[q] \in Seq(Messages)
  BY DEF Core, RingInv
<1>2. C!UnderWay(q) > 0
  <2>1. PICK a \in Nat, b \in Nat : a = Len(sent[q]) /\ b = Len(got[q])
    BY <1>1
  <2>2. a > b
    BY <2>1
  <2>3. a - b > 0
    BY <2>2
  <2> QED BY <2>1, <2>3 DEF C!UnderWay
<1>3. got' = [got EXCEPT ![q] = Append(@, sent[q][Len(@) + 1])]
  OBVIOUS
<1>4. C!Receive(q)
  BY <1>2, <1>3 DEF C!Receive
<1> QED BY <1>4 DEF C!ChannelNext

LEMMA StepRefines ==
    ASSUME Core, [Next]_vars
    PROVE  [C!ChannelNext]_(C!channelVars)
<1>v. "toHost" \in VirtQueues /\ "fromHost" \in VirtQueues
  BY DEF VirtQueues
<1>0. ASSUME UNCHANGED <<sent, got>> PROVE [C!ChannelNext]_(C!channelVars)
  BY <1>0 DEF C!channelVars
<1>1. ASSUME NEW s \in Senders, UsedAdded(s) PROVE C!ChannelNext
  <2>1. /\ pc[s] = "publish" /\ sent' = [sent EXCEPT !["toHost"] = Append(@, msg[s])] /\ got' = got
    BY <1>1 DEF UsedAdded, At
  <2>2. token[s] # NoToken /\ msg[s] \in Messages /\ QueueOf(s) = "toHost" /\ s \in Threads
    <3>1. ThreadSound(s, "publish", token[s], msg[s])
      BY <2>1, SenderIs, ThreadAt DEF Core
    <3> QED BY <3>1, SenderIs, SendsAssumption DEF ThreadSound
  <2> QED BY <1>v, <2>1, <2>2, SendRefines
<1>2. ASSUME HostSent PROVE C!ChannelNext
  <2>1. /\ pc[HostTasks] = "publish" /\ got' = got
        /\ sent' = [sent EXCEPT !["fromHost"] = Append(@, msg[HostTasks])]
    BY <1>2 DEF HostSent
  <2>2. token[HostTasks] # NoToken /\ msg[HostTasks] \in Messages
    <3>1. ThreadSound(HostTasks, "publish", token[HostTasks], msg[HostTasks])
      BY <2>1, HostQueues, ThreadAt DEF Core
    <3> QED BY <3>1, HostIs, HostQueues, SendsAssumption DEF ThreadSound
  <2> QED BY <1>v, <2>1, <2>2, HostQueues, SendRefines
<1>3. ASSUME HostTake \/ HostLeaks PROVE C!ChannelNext
  <2>1. /\ HasUsed("toHost") /\ sent' = sent
        /\ got' = [got EXCEPT !["toHost"] = Append(@, vq["toHost"].buf[NextUsed("toHost")])]
    BY <1>3 DEF HostTake, HostLeaks, Taken
  <2>2. /\ Len(sent["toHost"]) > Len(got["toHost"])
        /\ vq["toHost"].buf[NextUsed("toHost")] = sent["toHost"][Len(got["toHost"]) + 1]
    BY <1>v, <2>1, NextUsedIs DEF Core
  <2> QED BY <1>v, <2>1, <2>2, ReceiveRefines
<1>4. ASSUME GetReceived PROVE C!ChannelNext
  <2>1. /\ HasAvail("fromHost") /\ sent' = sent
        /\ got' = [got EXCEPT !["fromHost"] = Append(@, vq["fromHost"].buf[NextAvail("fromHost")])]
    BY <1>4 DEF GetReceived
  <2>2. /\ Len(sent["fromHost"]) > Len(got["fromHost"])
        /\ vq["fromHost"].buf[NextAvail("fromHost")] = sent["fromHost"][Len(got["fromHost"]) + 1]
    BY <1>v, <2>1, NextAvailIs DEF Core
  <2> QED BY <1>v, <2>1, <2>2, ReceiveRefines
<1>5. ASSUME NEW s \in Senders, SendLocal(s) \/ SendRemote(s) \/ SenderStep(s)
      PROVE  [C!ChannelNext]_(C!channelVars)
  <2>1. CASE SendLocal(s) \/ SendRemote(s) \/ NotQueued(s) \/ Alloc(s) \/ Put(s) \/ Post(s)
             \/ PutStale(s)
    BY <1>0, <2>1 DEF SendLocal, SendRemote, NotQueued, Alloc, Put, Post, PutStale, history
  <2>2. CASE Clear(s) \/ NoAvail(s) \/ Pend(s) \/ GetToSend(s) \/ AddUsed(s) \/ KickHost(s)
    BY <1>0, <2>2 DEF Clear, NoAvail, Pend, GetToSend, AddUsed, KickHost, history
  <2> QED BY <1>1, <1>5, <2>1, <2>2 DEF SenderStep
<1>6. ASSUME NEW e \in Endpoints,
             Create(e) \/ Delete(e) \/ Recv(e) \/ RecvTimeout(e) \/ RecvStep(e) \/ Unblock(e)
      PROVE  [C!ChannelNext]_(C!channelVars)
  BY <1>0, <1>6 DEF Create, Delete, Recv, RecvTimeout, RecvStep, Woken, RecvUnblocked,
     RecvPayload, DeleteSlot, Unblock, history
<1>7. ASSUME SwiStep PROVE [C!ChannelNext]_(C!channelVars)
  <2>1. CASE SwiStart \/ GivenBack \/ Clear(Swi) \/ NoAvail(Swi) \/ AddUsed(Swi) \/ KickHost(Swi)
    BY <1>0, <2>1 DEF SwiStart, GivenBack, Clear, NoAvail, AddUsed, KickHost, history
  <2>2. CASE NotQueued(Swi) \/ Alloc(Swi) \/ Put(Swi) \/ Post(Swi) \/ PutStale(Swi)
    BY <1>0, <2>2 DEF NotQueued, Alloc, Put, Post, PutStale, history
  <2> QED BY <1>4, <1>7, <2>1, <2>2 DEF SwiStep
<1>8. CASE Isr
  BY <1>0, <1>8 DEF Isr, history
<1>9. CASE HostSend \/ HostSendFails
  BY <1>0, <1>9 DEF HostSend, HostSendFails, history
<1>10. ASSUME HostIsrStep \/ HostTasksStep PROVE [C!ChannelNext]_(C!channelVars)
  <2>1. CASE HostInterrupt \/ HostTakenAll \/ Offered \/ AddAvail(HostIsr) \/ AddAvail(HostTasks)
             \/ KickSlave(HostIsr) \/ KickSlave(HostTasks)
    BY <1>0, <2>1 DEF HostInterrupt, HostTakenAll, Offered, AddAvail, KickSlave, history
  <2> QED BY <1>2, <1>3, <1>10, <2>1 DEF HostIsrStep, HostTasksStep
<1>11. CASE UNCHANGED vars
  BY <1>0, <1>11 DEF vars, history
<1> QED BY <1>5, <1>6, <1>7, <1>8, <1>9, <1>10, <1>11 DEF Next

\* Each virtqueue delivers what was sent on it once and in order, and never holds more than
\* its ring has places: VirtQueue.c of the slave and of the host together implement the
\* channel, for every number of buffers that divides the width of the indices.
THEOREM ChannelImplemented == Spec => ImplementsChannel
<1>1. Init => C!ChannelInit
  BY DEF Init, C!ChannelInit
<1>2. Inv /\ [Next]_vars => [C!ChannelNext]_(C!channelVars)
  BY StepRefines DEF Inv
<1> QED BY <1>1, <1>2, Invariance, PTL DEF Spec, ImplementsChannel, C!ChannelSpec
=============================================================================
