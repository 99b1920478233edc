------------------------- MODULE TransportShm_proofs -------------------------
(***************************************************************************)
(* Proofs about TransportShm with the message queues of both processors,   *)
(* for any number of tasks and messages: a message is always in one place, *)
(* none is forgotten in shared memory, and each stream of messages is a    *)
(* channel.  The invariant has four parts: what a thread has and where it  *)
(* is (ThreadsSound), who is in the gate (GateSound), what is on which     *)
(* list (PlacesSound), and what the histories say of that (RecordSound).   *)
(***************************************************************************)
EXTENDS TransportShm, FiniteSetTheorems, SequenceTheorems, TLAPS

USE TasksAssumption, PriorityAssumption, TwoProcsAssumption, NoneAssumption

-----------------------------------------------------------------------------
(* Lists without duplicates                                                 *)

Has(s, m)       == \E i \in 1 .. Len(s) : s[i] = m
Before(s, m, n) == \E i, j \in 1 .. Len(s) : i < j /\ s[i] = m /\ s[j] = n
Distinct(s)     == \A i, j \in 1 .. Len(s) : s[i] = s[j] => i = j

LEMMA EmptyHas == \A m : ~ Has(<<>>, m)
BY DEF Has

LEMMA HasNotEmpty == ASSUME NEW S, NEW s \in Seq(S), NEW m, Has(s, m) PROVE s # <<>> /\ m \in S
BY DEF Has

LEMMA HeadIsIn ==
    ASSUME NEW S, NEW s \in Seq(S), s # <<>>
    PROVE  Has(s, Head(s)) /\ Head(s) = s[1] /\ Head(s) \in S /\ Tail(s) \in Seq(S) /\ Len(s) \in Nat \ {0}
BY DEF Has

LEMMA AppendEffect ==
    ASSUME NEW S, NEW s \in Seq(S), NEW x \in S
    PROVE  /\ Append(s, x) \in Seq(S) /\ Append(s, x) # <<>>
           /\ Len(Append(s, x)) = Len(s) + 1 /\ Append(s, x)[Len(s) + 1] = x
           /\ \A i \in 1 .. Len(s) : Append(s, x)[i] = s[i]
           /\ \A m : Has(Append(s, x), m) <=> Has(s, m) \/ m = x
           /\ Distinct(s) /\ ~ Has(s, x) => Distinct(Append(s, x))
           /\ \A m, n : Before(Append(s, x), m, n) => Before(s, m, n) \/ (Has(s, m) /\ n = x)
<1> DEFINE a == Append(s, x)
<1>1. /\ a \in Seq(S) /\ a # <<>> /\ Len(a) = Len(s) + 1 /\ Len(s) \in Nat /\ a[Len(s) + 1] = x
      /\ \A i \in 1 .. Len(s) : a[i] = s[i]
  OBVIOUS
<1> HIDE DEF a
<1>2. ASSUME NEW m PROVE Has(a, m) <=> Has(s, m) \/ m = x
  <2>1. ASSUME Has(a, m) PROVE Has(s, m) \/ m = x
    <3>1. PICK i \in 1 .. Len(a) : a[i] = m
      BY <2>1 DEF Has
    <3>2. i \in 1 .. Len(s) \/ i = Len(s) + 1
      BY <1>1
    <3> QED BY <1>1, <3>1, <3>2 DEF Has
  <2>2. ASSUME Has(s, m) PROVE Has(a, m)
    <3>1. PICK i \in 1 .. Len(s) : s[i] = m
      BY <2>2 DEF Has
    <3> QED BY <1>1, <3>1 DEF Has
  <2>3. Has(a, x)
    <3>1. Len(s) + 1 \in 1 .. Len(a)
      BY <1>1
    <3> QED BY <1>1, <3>1 DEF Has
  <2> QED BY <2>1, <2>2, <2>3
<1>3. ASSUME Distinct(s), ~ Has(s, x) PROVE Distinct(a)
  <2> SUFFICES ASSUME NEW i \in 1 .. Len(a), NEW j \in 1 .. Len(a), a[i] = a[j] PROVE i = j
    BY DEF Distinct
  <2>1. /\ i \in 1 .. Len(s) \/ i = Len(s) + 1
        /\ j \in 1 .. Len(s) \/ j = Len(s) + 1
    BY <1>1
  <2> QED BY <1>1, <1>3, <2>1 DEF Distinct, Has
<1>4. ASSUME NEW m, NEW n, Before(a, m, n) PROVE Before(s, m, n) \/ (Has(s, m) /\ n = x)
  <2>1. PICK i, j \in 1 .. Len(a) : i < j /\ a[i] = m /\ a[j] = n
    BY <1>4 DEF Before
  <2>2. i \in 1 .. Len(s) /\ (j \in 1 .. Len(s) \/ j = Len(s) + 1)
    BY <1>1, <2>1
  <2> QED BY <1>1, <2>1, <2>2 DEF Before, Has
<1> QED BY <1>1, <1>2, <1>3, <1>4 DEF a

LEMMA TailEffect ==
    ASSUME NEW S, NEW s \in Seq(S), s # <<>>, Distinct(s)
    PROVE  /\ Distinct(Tail(s)) /\ Len(Tail(s)) = Len(s) - 1
           /\ \A i \in 1 .. Len(Tail(s)) : Tail(s)[i] = s[i + 1]
           /\ \A m : Has(Tail(s), m) <=> Has(s, m) /\ m # Head(s)
           /\ \A m, n : Before(Tail(s), m, n) => Before(s, m, n)
           /\ \A n : Has(Tail(s), n) => Before(s, Head(s), n)
<1> DEFINE a == Tail(s)
<1>1. /\ Len(s) \in Nat \ {0} /\ Len(a) = Len(s) - 1 /\ Head(s) = s[1]
      /\ \A i \in 1 .. Len(a) : a[i] = s[i + 1]
  OBVIOUS
<1> HIDE DEF a
<1>2. \A i \in 1 .. Len(a) : i + 1 \in 1 .. Len(s) /\ i + 1 > 1
  BY <1>1
<1>3. Distinct(a)
  <2> SUFFICES ASSUME NEW i \in 1 .. Len(a), NEW j \in 1 .. Len(a), a[i] = a[j] PROVE i = j
    BY DEF Distinct
  <2>1. i + 1 = j + 1
    BY <1>1, <1>2 DEF Distinct
  <2> QED BY <2>1
<1>4. ASSUME NEW n, Has(a, n) PROVE Before(s, Head(s), n) /\ Has(s, n) /\ n # Head(s)
  <2>1. PICK i \in 1 .. Len(a) : a[i] = n
    BY <1>4 DEF Has
  <2>2. i + 1 \in 1 .. Len(s) /\ 1 < i + 1 /\ s[i + 1] = n /\ 1 \in 1 .. Len(s)
    BY <1>1, <1>2, <2>1
  <2>3. n # s[1]
    <3> SUFFICES ASSUME n = s[1] PROVE FALSE
      OBVIOUS
    <3>1. i + 1 = 1
      BY <2>2 DEF Distinct
    <3> QED BY <2>2, <3>1
  <2> QED BY <1>1, <2>2, <2>3 DEF Before, Has
<1>5. ASSUME NEW n, Has(s, n), n # Head(s) PROVE Has(a, n)
  <2>1. PICK i \in 1 .. Len(s) : s[i] = n
    BY <1>5 DEF Has
  <2>2. i - 1 \in 1 .. Len(a) /\ (i - 1) + 1 = i
    BY <1>1, <1>5, <2>1
  <2>3. a[i - 1] = s[i]
    BY <1>1, <2>2
  <2> QED BY <2>1, <2>2, <2>3 DEF Has
<1>6. ASSUME NEW m, NEW n, Before(a, m, n) PROVE Before(s, m, n)
  <2>1. PICK i, j \in 1 .. Len(a) : i < j /\ a[i] = m /\ a[j] = n
    BY <1>6 DEF Before
  <2>2. i + 1 \in 1 .. Len(s) /\ j + 1 \in 1 .. Len(s) /\ i + 1 < j + 1 /\ s[i + 1] = m /\ s[j + 1] = n
    BY <1>1, <1>2, <2>1
  <2> QED BY <2>2 DEF Before
<1> QED BY <1>1, <1>3, <1>4, <1>5, <1>6 DEF a

\* What a list is when a message is put at its head.
LEMMA PutHeadEffect ==
    ASSUME NEW S, NEW s \in Seq(S), NEW x \in S
    PROVE  /\ <<x>> \o s \in Seq(S)
           /\ \A m : Has(<<x>> \o s, m) <=> Has(s, m) \/ m = x
           /\ Distinct(s) /\ ~ Has(s, x) => Distinct(<<x>> \o s)
           /\ \A m, n : Before(<<x>> \o s, m, n) => Before(s, m, n) \/ m = x
<1> DEFINE a == <<x>> \o s
<1>1. /\ a \in Seq(S) /\ Len(a) = Len(s) + 1 /\ Len(s) \in Nat /\ a[1] = x
      /\ \A i \in 1 .. Len(s) : a[i + 1] = s[i]
  <2>1. <<x>> \in Seq(S) /\ Len(<<x>>) = 1
    OBVIOUS
  <2>2. /\ a \in Seq(S) /\ Len(a) = 1 + Len(s)
        /\ \A i \in 1 .. 1 + Len(s) : a[i] = IF i <= 1 THEN <<x>>[i] ELSE s[i - 1]
    BY <2>1, ConcatProperties
  <2> HIDE DEF a
  <2>3. ASSUME NEW i \in 1 .. Len(s) PROVE a[i + 1] = s[i]
    <3>1. i + 1 \in 1 .. 1 + Len(s) /\ ~ (i + 1 <= 1) /\ (i + 1) - 1 = i
      OBVIOUS
    <3> QED BY <2>2, <3>1
  <2> QED BY <2>2, <2>3
<1> HIDE DEF a
<1>2. ASSUME NEW i \in 1 .. Len(a)
      PROVE  i = 1 \/ (i - 1 \in 1 .. Len(s) /\ a[i] = s[i - 1])
  <2>1. i = 1 \/ (i - 1 \in 1 .. Len(s) /\ (i - 1) + 1 = i)
    BY <1>1
  <2> QED BY <1>1, <2>1
<1>3. \A i \in 1 .. Len(s) : i + 1 \in 1 .. Len(a)
  BY <1>1
<1>4. 1 \in 1 .. Len(a)
  BY <1>1
<1>5. ASSUME NEW m PROVE Has(a, m) <=> Has(s, m) \/ m = x
  BY <1>1, <1>2, <1>3, <1>4 DEF Has
<1>6. ASSUME Distinct(s), ~ Has(s, x) PROVE Distinct(a)
  <2> SUFFICES ASSUME NEW i \in 1 .. Len(a), NEW j \in 1 .. Len(a), a[i] = a[j] PROVE i = j
    BY DEF Distinct
  <2>1. CASE i = 1 /\ j = 1
    BY <2>1
  <2>2. CASE i = 1 /\ j # 1
    BY <1>1, <1>2, <1>6, <2>2 DEF Has
  <2>3. CASE i # 1 /\ j = 1
    BY <1>1, <1>2, <1>6, <2>3 DEF Has
  <2>4. CASE i # 1 /\ j # 1
    <3>1. i - 1 = j - 1
      BY <1>2, <1>6, <2>4 DEF Distinct
    <3> QED BY <3>1
  <2> QED BY <2>1, <2>2, <2>3, <2>4
<1>7. ASSUME NEW m, NEW n, Before(a, m, n), m # x PROVE Before(s, m, n)
  <2>1. PICK i, j \in 1 .. Len(a) : i < j /\ a[i] = m /\ a[j] = n
    BY <1>7 DEF Before
  <2>2. i # 1 /\ j # 1
    BY <1>1, <1>7, <2>1
  <2>3. /\ i - 1 \in 1 .. Len(s) /\ a[i] = s[i - 1]
        /\ j - 1 \in 1 .. Len(s) /\ a[j] = s[j - 1]
    BY <1>2, <2>2
  <2>4. i - 1 < j - 1
    BY <2>1
  <2> QED BY <2>1, <2>3, <2>4 DEF Before
<1> QED BY <1>1, <1>5, <1>6, <1>7 DEF a

LEMMA Singleton ==
    ASSUME NEW S, NEW x \in S
    PROVE  /\ <<x>> \in Seq(S) /\ Len(<<x>>) = 1 /\ DOMAIN <<x>> = {1} /\ Tail(<<x>>) = <<>>
           /\ \A m : Has(<<x>>, m) <=> m = x
           /\ SubSeq(<<x>>, 1, 1 - 1) \o SubSeq(<<x>>, 1 + 1, Len(<<x>>)) = <<>>
<1>1. <<x>> \in Seq(S) /\ Len(<<x>>) = 1 /\ DOMAIN <<x>> = {1} /\ Tail(<<x>>) = <<>> /\ <<x>>[1] = x
  OBVIOUS
<1>2. SubSeq(<<x>>, 1, 0) = <<>> /\ SubSeq(<<x>>, 2, 1) = <<>>
  BY SubSeqEmpty
<1>3. \A m : Has(<<x>>, m) <=> m = x
  BY <1>1 DEF Has
<1>4. <<>> \o <<>> = <<>>
  OBVIOUS
<1> QED BY <1>1, <1>2, <1>3, <1>4

\* A list without duplicates is no longer than the set of its elements.
LEMMA DistinctLength ==
    ASSUME NEW S, IsFiniteSet(S), NEW s \in Seq(S), Distinct(s), NEW x \in S, ~ Has(s, x)
    PROVE  Len(s) < Cardinality(S)
<1>1. Len(s) \in Nat
  OBVIOUS
<1>2. IsFiniteSet(1 .. Len(s)) /\ Cardinality(1 .. Len(s)) = Len(s)
  <2>1. PICK n \in Nat : n = Len(s)
    BY <1>1
  <2>2. IsFiniteSet(1 .. n) /\ Cardinality(1 .. n) = IF 1 > n THEN 0 ELSE n - 1 + 1
    BY FS_Interval
  <2> QED BY <2>1, <2>2
<1>3. IsFiniteSet(S \ {x}) /\ Cardinality(S \ {x}) = Cardinality(S) - 1
  BY FS_RemoveElement
<1> DEFINE f == [i \in 1 .. Len(s) |-> s[i]]
<1>4. f \in Injection(1 .. Len(s), S \ {x})
  BY DEF Injection, IsInjective, Distinct, Has
<1>5. Cardinality(1 .. Len(s)) <= Cardinality(S \ {x})
  BY <1>2, <1>3, <1>4, FS_Injection
<1>6. Cardinality(S) \in Nat
  BY FS_CardinalityType
<1> QED BY <1>1, <1>2, <1>3, <1>5, <1>6

-----------------------------------------------------------------------------
(* The invariant                                                            *)

\* The types of the variables; the labels are in ThreadsSound.
Types ==
    /\ QueueTypeOK
    /\ DOMAIN pc = Threads
    /\ link \in [Procs -> {"down", "registered", "up"}]
    /\ list \in [Procs -> Seq(Messages)]
    /\ gate \in Seq(Threads) /\ gateSwi \in [Procs -> Tasks \cup {None}]
    /\ event \in [Procs -> BOOLEAN] /\ posted \in [Procs -> BOOLEAN]

GateLabels   == {"spin", "insert", "notify", "remove", "take", "leave"}
InsideLabels == GateLabels \ {"spin"}
PutLabels    == {"enqueue", "enter", "spin", "insert", "notify", "remove"}

\* What a thread at l, with message m in its hands, may do there: a task's message is not
\* sent yet, a Swi's was sent to its processor.
ThreadSound(th, l, m, v) ==
    IF th \in Tasks
      THEN /\ l \in TaskLabels
           /\ l \in PutLabels => m # NoMsg
           /\ m # NoMsg => /\ l \in PutLabels \cup {"leave"}
                           /\ v[m] = NoPath
                           /\ queueId[m] = home[th] <=> l = "enqueue"
      ELSE /\ l \in SwiLabels
           /\ l = "enqueue" => m # NoMsg
           /\ m # NoMsg => l \in {"leave", "enqueue"} /\ queueId[m] = th /\ v[m] = "remote"

ThreadsSound == \A th \in Threads : ThreadSound(th, pc[th], held[th], via)

\* The gate: whose turn it is, and that a task there keeps the Swi of its processor away.
GateSound ==
    /\ Distinct(gate)
    /\ \A th \in Threads : Has(gate, th) <=> pc[th] \in GateLabels
    /\ \A th \in Threads : pc[th] \in InsideLabels => Head(gate) = th
    /\ \A t \in Tasks : gateSwi[home[t]] = t <=> pc[t] \in GateLabels
    /\ \A p \in Procs : gateSwi[p] # None => pc[p] = "off" /\ home[gateSwi[p]] = p

\* What is on a list: nothing twice, only messages to its queue, that were sent or that the
\* put under way is about to send.
ListsSound ==
    \A p \in Procs :
        /\ Distinct(normalList[p]) /\ Distinct(highList[p]) /\ Distinct(list[p])
        /\ \A m \in Messages :
             /\ Has(normalList[p], m) => m \in NormalPri /\ queueId[m] = p /\ via[m] # NoPath
             /\ Has(highList[p], m) => m \notin NormalPri /\ queueId[m] = p /\ via[m] # NoPath
             /\ Has(list[p], m) => /\ queueId[m] = p
                                   /\ via[m] = "remote" \/ \E t \in Tasks : Undecided(t) /\ held[t] = m

\* A put that is not decided has put its message at the end of the list.
UndecidedIsLast ==
    \A t \in Tasks : Undecided(t) =>
        /\ list[Peer(home[t])] # <<>>
        /\ list[Peer(home[t])][Len(list[Peer(home[t])])] = held[t]

\* The places of a message, lists without positions.
Kinds == {"owned", "held", "transport", "normal", "high"}
Spot(m, k, x) ==
    \/ k = "owned" /\ x \in Tasks /\ m \in owns[x]
    \/ k = "held" /\ x \in Threads /\ held[x] = m /\ ~ Undecided(x)
    \/ k = "transport" /\ x \in Procs /\ Has(list[x], m)
    \/ k = "normal" /\ x \in Procs /\ Has(normalList[x], m)
    \/ k = "high" /\ x \in Procs /\ Has(highList[x], m)

OneSpot ==
    \A m \in Messages : \E k \in Kinds, x \in Threads :
        /\ Spot(m, k, x)
        /\ \A j \in Kinds, y \in Threads : Spot(m, j, y) => j = k /\ y = x

\* Nothing was sent to a processor that is not there: on its list there is at most the
\* message of the one put that is going to fail.  A Swi ends at an empty list.
MailSound ==
    /\ \A t \in Tasks : pc[t] = "remove" => list[Peer(home[t])] = <<held[t]>>
    /\ \A p \in Procs : link[p] = "down" /\ list[p] # <<>> =>
          \E t \in Tasks : Undecided(t) /\ list[p] = <<held[t]>>
    /\ \A p \in Procs : pc[p] = "leave" /\ held[p] = NoMsg => list[p] = <<>>

PlacesSound == ListsSound /\ UndecidedIsLast /\ OneSpot /\ MailSound /\ NoneStranded

\* The way of a message: over the transport's list, in the Swi's hands, on a queue's list.
Travels(m) == \E p \in Procs : Has(list[p], m)
SwiHas(m)  == \E p \in Procs : held[p] = m
Waits(m)   == \E p \in Procs : Has(normalList[p], m) \/ Has(highList[p], m)
Ahead(m, n) ==
    \/ \E p \in Procs : Before(normalList[p], m, n) \/ Before(highList[p], m, n) \/ Before(list[p], m, n)
    \/ Waits(m) /\ (SwiHas(n) \/ Travels(n))
    \/ SwiHas(m) /\ Travels(n)

OwnedBySome(m) == \E t \in Tasks : m \in owns[t]

\* The messages of a channel are those that were sent on it; those that are owned again were
\* received, they are the first ones, and on their way none of the others is overtaken.
ChannelSound(c) ==
    /\ Distinct(sent[c])
    /\ \A m \in Messages : Has(sent[c], m) <=>
          m \notin UrgentPri /\ via[m] # NoPath /\ ChannelOf(m, via[m]) = c
    /\ Len(got[c]) <= Len(sent[c])
    /\ \A k \in 1 .. Len(got[c]) : got[c][k] = sent[c][k]
    /\ \A k \in 1 .. Len(sent[c]) : k <= Len(got[c]) <=> OwnedBySome(sent[c][k])
    /\ \A k, l \in 1 .. Len(sent[c]) : Ahead(sent[c][k], sent[c][l]) => k < l

RecordSound == \A c \in Channels : ChannelSound(c)

Inv == Types /\ ThreadsSound /\ GateSound /\ PlacesSound /\ RecordSound

-----------------------------------------------------------------------------
(* Threads and the gate                                                     *)

LEMMA Procs2 ==
    /\ Threads = Tasks \cup Procs /\ creator \in Procs
    /\ \A p \in Procs : Peer(p) \in Procs /\ Peer(p) # p
    /\ \A p, q \in Procs : q # p => q = Peer(p)
    /\ \A t \in Tasks : t \in Threads /\ t \notin Procs /\ home[t] \in Procs /\ Cpu(t) = home[t]
    /\ \A p \in Procs : p \in Threads /\ p \notin Tasks /\ Cpu(p) = p
BY DEF Threads, Peer, Cpu

LEMMA LabelsTyped ==
    ASSUME Types, ThreadsSound PROVE TypeOK
BY Procs2 DEF Types, ThreadsSound, ThreadSound, TypeOK

\* Thread th goes on to l, with message m in its hands.
Moves(th, l, m) ==
    /\ DOMAIN pc' = Threads
    /\ pc'[th] = l /\ held'[th] = m
    /\ \A u \in Threads : u # th => pc'[u] = pc[u] /\ held'[u] = held[u]
    /\ held' \in [Threads -> Messages \cup {NoMsg}]

LEMMA GotoMoves ==
    ASSUME Types, NEW th \in Threads, NEW l, Goto(th, l), UNCHANGED held
    PROVE  Moves(th, l, held[th])
BY DEF Goto, Moves, Types, QueueTypeOK

LEMMA GotoHoldMoves ==
    ASSUME Types, NEW th \in Threads, NEW l, NEW m \in Messages \cup {NoMsg}, Goto(th, l), Hold(th, m)
    PROVE  Moves(th, l, m)
BY DEF Goto, Hold, Moves, Types, QueueTypeOK

LEMMA NobodyMoves ==
    ASSUME Types, UNCHANGED <<pc, held>>
    PROVE  Moves(creator, pc[creator], held[creator])
BY DEF Moves, Types, QueueTypeOK

LEMMA ThreadsMoved ==
    ASSUME Types, ThreadsSound, NEW th \in Threads, NEW l, NEW m, Moves(th, l, m),
           ThreadSound(th, l, m, via'),
           \A u \in Threads : u # th /\ held[u] # NoMsg => via'[held[u]] = via[held[u]]
    PROVE  ThreadsSound'
<1> SUFFICES ASSUME NEW u \in Threads PROVE ThreadSound(u, pc'[u], held'[u], via')
  BY DEF ThreadsSound
<1>1. CASE u = th
  BY <1>1 DEF Moves
<1>2. CASE u # th
  <2>1. ThreadSound(u, pc[u], held[u], via) /\ pc'[u] = pc[u] /\ held'[u] = held[u]
    BY <1>2 DEF ThreadsSound, Moves
  <2>2. held[u] = NoMsg \/ via'[held[u]] = via[held[u]]
    BY <1>2
  <2> QED BY <2>1, <2>2 DEF ThreadSound
<1> QED BY <1>1, <1>2

\* What ThreadsSound says of one thread.
LEMMA TaskIs ==
    ASSUME ThreadsSound, NEW t \in Tasks
    PROVE  /\ pc[t] \in TaskLabels
           /\ pc[t] \in PutLabels => held[t] # NoMsg
           /\ held[t] # NoMsg => /\ pc[t] \in PutLabels \cup {"leave"} /\ via[held[t]] = NoPath
                                 /\ queueId[held[t]] = home[t] <=> pc[t] = "enqueue"
BY Procs2 DEF ThreadsSound, ThreadSound

LEMMA SwiIs ==
    ASSUME ThreadsSound, NEW p \in Procs
    PROVE  /\ pc[p] \in SwiLabels
           /\ pc[p] = "enqueue" => held[p] # NoMsg
           /\ held[p] # NoMsg => /\ pc[p] \in {"leave", "enqueue"}
                                 /\ queueId[held[p]] = p /\ via[held[p]] = "remote"
BY Procs2 DEF ThreadsSound, ThreadSound

\* A message that was sent is in no task's hands, one that was not in no Swi's.
LEMMA HeldPaths ==
    ASSUME ThreadsSound
    PROVE  /\ \A t \in Tasks : held[t] # NoMsg => via[held[t]] = NoPath
           /\ \A p \in Procs : held[p] # NoMsg => via[held[p]] = "remote"
BY TaskIs, SwiIs

\* One thread at a time is inside.
LEMMA OneInside ==
    ASSUME GateSound, NEW a \in Threads, NEW b \in Threads,
           pc[a] \in InsideLabels, pc[b] \in InsideLabels
    PROVE  a = b
BY DEF GateSound

\* The gate is left alone.
LEMMA GateQuiet ==
    ASSUME GateSound, UNCHANGED <<gate, gateSwi>>, NEW th \in Threads, NEW l, NEW m, Moves(th, l, m),
           pc[th] \in GateLabels <=> l \in GateLabels,
           l \in InsideLabels => Head(gate) = th,
           th \in Procs /\ l # "off" => gateSwi[th] = None
    PROVE  GateSound'
<1>1. \A u \in Threads : pc'[u] = pc[u] \/ (u = th /\ pc'[u] = l)
  BY DEF Moves
<1>2. \A u \in Threads : pc'[u] \in GateLabels <=> pc[u] \in GateLabels
  BY <1>1
<1>3. \A u \in Threads : pc'[u] \in InsideLabels => Head(gate) = u
  BY <1>1 DEF GateSound
<1>4. \A p \in Procs : gateSwi[p] # None => pc'[p] = "off" /\ home[gateSwi[p]] = p
  BY <1>1, Procs2 DEF GateSound
<1> QED BY <1>2, <1>3, <1>4, Procs2 DEF GateSound

\* A task that runs keeps the Swi of its processor away, or nobody does.
LEMMA GateEntered ==
    ASSUME Types, GateSound, NEW th \in Threads, pc[th] = "enter", Runs(th),
           NEW m, Moves(th, "spin", m), gate' = Append(gate, th),
           gateSwi' = IF th \in Procs THEN gateSwi ELSE [gateSwi EXCEPT ![home[th]] = th]
    PROVE  GateSound' /\ gate' \in Seq(Threads) /\ gateSwi' \in [Procs -> Tasks \cup {None}]
<1>1. gate \in Seq(Threads) /\ gateSwi \in [Procs -> Tasks \cup {None}]
  BY DEF Types
<1>2. ~ Has(gate, th)
  BY DEF GateSound, GateLabels
<1>3. /\ Distinct(gate') /\ gate' \in Seq(Threads)
      /\ \A u : Has(gate', u) <=> Has(gate, u) \/ u = th
      /\ \A i \in 1 .. Len(gate) : gate'[i] = gate[i]
  BY <1>1, <1>2, AppendEffect DEF GateSound
<1>4. \A u \in Threads : pc'[u] \in GateLabels <=> pc[u] \in GateLabels \/ u = th
  BY DEF Moves, GateLabels
<1>5. \A u \in Threads : Has(gate', u) <=> pc'[u] \in GateLabels
  BY <1>3, <1>4 DEF GateSound
<1>6. ASSUME NEW u \in Threads, pc'[u] \in InsideLabels PROVE Head(gate') = u
  <2>1. u # th /\ pc[u] \in InsideLabels
    BY <1>6 DEF Moves, InsideLabels
  <2>2. Head(gate) = u /\ Has(gate, u)
    BY <2>1 DEF GateSound, InsideLabels
  <2>3. gate # <<>>
    BY <2>2, EmptyHas
  <2>4. Head(gate) = gate[1] /\ 1 \in 1 .. Len(gate) /\ Head(gate') = gate'[1]
    BY <1>1, <2>3
  <2> QED BY <1>3, <2>2, <2>4
<1>7. CASE th \in Procs
  <2>1. gateSwi' = gateSwi /\ gateSwi[th] = None
    BY <1>7 DEF GateSound
  <2>2. \A t \in Tasks : gateSwi'[home[t]] = t <=> pc'[t] \in GateLabels
    BY <1>4, <1>7, <2>1, Procs2 DEF GateSound
  <2>3. \A p \in Procs : gateSwi'[p] # None => pc'[p] = "off" /\ home[gateSwi'[p]] = p
    BY <1>7, <2>1, Procs2 DEF GateSound, Moves
  <2> QED BY <1>1, <1>3, <1>5, <1>6, <2>1, <2>2, <2>3 DEF GateSound
<1>8. CASE th \in Tasks
  <2>1. gateSwi' = [gateSwi EXCEPT ![home[th]] = th] /\ home[th] \in Procs /\ pc[home[th]] = "off"
    BY <1>8, Procs2 DEF Runs, TaskRuns, SwiRuns
  <2>2. gateSwi[home[th]] = None
    <3>1. gateSwi[home[th]] # th
      BY <1>8 DEF GateSound, GateLabels
    <3> QED BY <1>8, <3>1, Procs2 DEF Runs, TaskRuns
  <2>3. ASSUME NEW t \in Tasks PROVE gateSwi'[home[t]] = t <=> pc'[t] \in GateLabels
    <3>1. CASE t = th
      BY <1>1, <1>4, <2>1, <3>1
    <3>2. CASE t # th
      <4>1. gateSwi[home[t]] = t <=> pc[t] \in GateLabels
        BY DEF GateSound
      <4>2. pc'[t] \in GateLabels <=> pc[t] \in GateLabels
        BY <1>4, <3>2, Procs2
      <4>3. CASE home[t] = home[th]
        <5>1. gateSwi'[home[t]] = th /\ gateSwi[home[t]] # t
          BY <1>1, <2>1, <2>2, <4>3, Procs2
        <5> QED BY <3>2, <4>1, <4>2, <5>1
      <4>4. CASE home[t] # home[th]
        BY <1>1, <2>1, <4>1, <4>2, <4>4, Procs2
      <4> QED BY <4>3, <4>4
    <3> QED BY <3>1, <3>2
  <2>4. ASSUME NEW p \in Procs, gateSwi'[p] # None PROVE pc'[p] = "off" /\ home[gateSwi'[p]] = p
    <3>1. pc'[p] = pc[p]
      BY <1>8, Procs2 DEF Moves
    <3> QED BY <1>1, <2>1, <2>4, <3>1 DEF GateSound
  <2>5. gateSwi' \in [Procs -> Tasks \cup {None}]
    BY <1>1, <1>8, <2>1
  <2> QED BY <1>3, <1>5, <1>6, <2>3, <2>4, <2>5 DEF GateSound
<1> QED BY <1>7, <1>8, Procs2

LEMMA GateLeft ==
    ASSUME Types, GateSound, NEW th \in Threads, pc[th] = "leave",
           NEW l, NEW m, Moves(th, l, m), l \notin GateLabels, gate' = Tail(gate),
           gateSwi' = IF th \in Procs THEN gateSwi ELSE [gateSwi EXCEPT ![home[th]] = None]
    PROVE  GateSound' /\ gate' \in Seq(Threads) /\ gateSwi' \in [Procs -> Tasks \cup {None}]
<1>1. gate \in Seq(Threads) /\ gateSwi \in [Procs -> Tasks \cup {None}]
  BY DEF Types
<1>2. Head(gate) = th /\ gate # <<>> /\ Distinct(gate)
  <2>1. Has(gate, th) /\ Head(gate) = th
    BY DEF GateSound, GateLabels, InsideLabels
  <2> QED BY <2>1, EmptyHas DEF GateSound
<1>3. /\ Distinct(gate') /\ gate' \in Seq(Threads)
      /\ \A u : Has(gate', u) <=> Has(gate, u) /\ u # th
  BY <1>1, <1>2, TailEffect, HeadIsIn
<1>4. \A u \in Threads : pc'[u] \in GateLabels <=> pc[u] \in GateLabels /\ u # th
  BY DEF Moves
<1>5. \A u \in Threads : Has(gate', u) <=> pc'[u] \in GateLabels
  BY <1>3, <1>4 DEF GateSound
<1>6. ASSUME NEW u \in Threads, pc'[u] \in InsideLabels PROVE Head(gate') = u
  <2>1. u # th /\ pc[u] \in InsideLabels
    BY <1>6 DEF Moves, InsideLabels
  <2>2. pc[th] \in InsideLabels
    BY DEF InsideLabels, GateLabels
  <2> QED BY <2>1, <2>2, OneInside
<1>7. CASE th \in Procs
  <2>1. gateSwi' = gateSwi /\ gateSwi[th] = None
    BY <1>7 DEF GateSound
  <2>2. \A t \in Tasks : gateSwi'[home[t]] = t <=> pc'[t] \in GateLabels
    BY <1>4, <1>7, <2>1, Procs2 DEF GateSound
  <2>3. \A p \in Procs : gateSwi'[p] # None => pc'[p] = "off" /\ home[gateSwi'[p]] = p
    BY <1>7, <2>1, Procs2 DEF GateSound, Moves
  <2>4. \A u \in Threads : pc'[u] \in InsideLabels => Head(gate') = u
    BY <1>6
  <2>5. Distinct(gate') /\ gate' \in Seq(Threads) /\ gateSwi' \in [Procs -> Tasks \cup {None}]
    BY <1>1, <1>3, <2>1
  <2> QED BY <1>5, <2>2, <2>3, <2>4, <2>5 DEF GateSound
<1>8. CASE th \in Tasks
  <2>1. gateSwi' = [gateSwi EXCEPT ![home[th]] = None] /\ home[th] \in Procs
    BY <1>8, Procs2
  <2>2. gateSwi[home[th]] = th
    BY <1>8 DEF GateSound, GateLabels
  <2>3. ASSUME NEW t \in Tasks PROVE gateSwi'[home[t]] = t <=> pc'[t] \in GateLabels
    <3>1. CASE t = th
      BY <1>1, <1>4, <2>1, <3>1, Procs2
    <3>2. CASE t # th
      <4>1. gateSwi[home[t]] = t <=> pc[t] \in GateLabels
        BY DEF GateSound
      <4>2. pc'[t] \in GateLabels <=> pc[t] \in GateLabels
        BY <1>4, <3>2, Procs2
      <4>3. CASE home[t] = home[th]
        <5>1. gateSwi'[home[t]] = None /\ gateSwi[home[t]] # t
          BY <1>1, <2>1, <2>2, <3>2, <4>3
        <5> QED BY <4>1, <4>2, <5>1, Procs2
      <4>4. CASE home[t] # home[th]
        BY <1>1, <2>1, <4>1, <4>2, <4>4, Procs2
      <4> QED BY <4>3, <4>4
    <3> QED BY <3>1, <3>2
  <2>4. ASSUME NEW p \in Procs, gateSwi'[p] # None PROVE pc'[p] = "off" /\ home[gateSwi'[p]] = p
    <3>1. pc'[p] = pc[p]
      BY <1>8, Procs2 DEF Moves
    <3> QED BY <1>1, <2>1, <2>4, <3>1 DEF GateSound
  <2>5. gateSwi' \in [Procs -> Tasks \cup {None}]
    BY <1>1, <2>1
  <2> QED BY <1>3, <1>5, <1>6, <2>3, <2>4, <2>5 DEF GateSound
<1> QED BY <1>7, <1>8, Procs2

-----------------------------------------------------------------------------
(* Messages change places                                                   *)

\* A message goes from one place to another, the others stay where they are.
LEMMA SpotMoved ==
    ASSUME OneSpot, NEW m \in Messages, NEW k \in Kinds, NEW x \in Threads, NEW l \in Kinds, NEW y \in Threads,
           Spot(m, k, x), Spot(m, l, y)', (Spot(m, k, x) => k = l /\ x = y)',
           \A n \in Messages, j \in Kinds, z \in Threads :
              (n = m /\ ((j = k /\ z = x) \/ (j = l /\ z = y))) \/ (Spot(n, j, z)' <=> Spot(n, j, z))
    PROVE  OneSpot'
<1> SUFFICES ASSUME NEW n \in Messages
             PROVE  \E i \in Kinds, w \in Threads :
                       /\ Spot(n, i, w)'
                       /\ \A j \in Kinds, z \in Threads : Spot(n, j, z)' => j = i /\ z = w
  BY DEF OneSpot
<1>1. CASE n = m
  <2>1. ASSUME NEW j \in Kinds, NEW z \in Threads, Spot(m, j, z)' PROVE j = l /\ z = y
    <3>1. CASE j = k /\ z = x
      BY <2>1, <3>1
    <3>2. CASE ~ (j = k /\ z = x) /\ ~ (j = l /\ z = y)
      <4>1. Spot(m, j, z)
        BY <2>1, <3>2
      <4> QED BY <3>2, <4>1 DEF OneSpot
    <3> QED BY <3>1, <3>2
  <2> QED BY <1>1, <2>1
<1>2. CASE n # m
  <2>1. \A j \in Kinds, z \in Threads : Spot(n, j, z)' <=> Spot(n, j, z)
    BY <1>2
  <2> QED BY <2>1 DEF OneSpot
<1> QED BY <1>1, <1>2

LEMMA OneSpotOnly ==
    ASSUME OneSpot, NEW m \in Messages, NEW k \in Kinds, NEW x \in Threads, Spot(m, k, x),
           NEW j \in Kinds, NEW z \in Threads, Spot(m, j, z)
    PROVE  j = k /\ z = x
BY DEF OneSpot

LEMMA ChannelIs ==
    /\ \A m \in Messages, path \in Paths : ChannelOf(m, path) \in Channels
    /\ \A m, n \in Messages, a, b \in Paths : ChannelOf(m, a) = ChannelOf(n, b) =>
          a = b /\ queueId[m] = queueId[n] /\ (m \in HighPri <=> n \in HighPri)
    /\ \A m \in Messages : m \notin UrgentPri => (m \in NormalPri <=> m \notin HighPri)
BY DEF ChannelOf, Channels, Messages

\* No message is sent or received, and none overtakes another one of its queue.
LEMMA RecordKept ==
    ASSUME Types, RecordSound, UNCHANGED <<via, sent, got>>,
           \A m \in Messages : via[m] # NoPath => (OwnedBySome(m)' <=> OwnedBySome(m)),
           \A m, n \in Messages \ UrgentPri :
              via[m] # NoPath /\ via[n] # NoPath /\ queueId[m] = queueId[n] /\ Ahead(m, n)' => Ahead(m, n)
    PROVE  RecordSound'
<1> SUFFICES ASSUME NEW c \in Channels PROVE ChannelSound(c)'
  BY DEF RecordSound
<1>1. ChannelSound(c) /\ sent[c] \in Seq(Messages) /\ got[c] \in Seq(Messages)
  BY DEF RecordSound, Types, QueueTypeOK
<1>2. ASSUME NEW k \in 1 .. Len(sent[c])
      PROVE  sent[c][k] \in Messages \ UrgentPri /\ via[sent[c][k]] # NoPath /\ queueId[sent[c][k]] = c.queue
  <2>1. sent[c][k] \in Messages /\ Has(sent[c], sent[c][k])
    BY <1>1 DEF Has
  <2> QED BY <1>1, <2>1 DEF ChannelSound, ChannelOf
<1>3. \A k \in 1 .. Len(sent[c]) : k <= Len(got[c]) <=> OwnedBySome(sent[c][k])'
  BY <1>1, <1>2 DEF ChannelSound
<1>4. \A k, l \in 1 .. Len(sent[c]) : Ahead(sent[c][k], sent[c][l])' => k < l
  BY <1>1, <1>2 DEF ChannelSound
<1> QED BY <1>1, <1>3, <1>4 DEF ChannelSound

\* A message is sent: on the way nothing of its channel is behind it.
LEMMA RecordSent ==
    ASSUME Types, RecordSound, NEW m \in Messages, via[m] = NoPath, NEW path \in Paths, Sent(m, path),
           ~ OwnedBySome(m)',
           \A n \in Messages \ {m} : OwnedBySome(n)' <=> OwnedBySome(n),
           \A n \in Messages \ UrgentPri : m \notin UrgentPri /\ via[n] # NoPath
                                          /\ ChannelOf(n, via[n]) = ChannelOf(m, path) => ~ Ahead(m, n)',
           m \notin UrgentPri => ~ Ahead(m, m)',
           \A n, o \in (Messages \ UrgentPri) \ {m} :
              via[n] # NoPath /\ via[o] # NoPath /\ queueId[n] = queueId[o] /\ Ahead(n, o)' => Ahead(n, o)
    PROVE  RecordSound'
<1> SUFFICES ASSUME NEW c \in Channels PROVE ChannelSound(c)'
  BY DEF RecordSound
<1>1. /\ ChannelSound(c) /\ sent[c] \in Seq(Messages) /\ got[c] \in Seq(Messages)
      /\ Len(sent[c]) \in Nat /\ Len(got[c]) \in Nat
  BY DEF RecordSound, Types, QueueTypeOK
<1>2. /\ via \in [Messages -> Paths \cup {NoPath}] /\ via' = [via EXCEPT ![m] = path] /\ got' = got
      /\ sent \in [Channels -> Seq(Messages)]
      /\ sent' = IF m \in UrgentPri THEN sent
                 ELSE [sent EXCEPT ![ChannelOf(m, path)] = Append(@, m)]
      /\ path # NoPath
  BY DEF Sent, Record, Types, QueueTypeOK, Paths
<1>3. ASSUME NEW k \in 1 .. Len(sent[c])
      PROVE  /\ sent[c][k] \in (Messages \ UrgentPri) \ {m} /\ via[sent[c][k]] # NoPath /\ queueId[sent[c][k]] = c.queue
             /\ ChannelOf(sent[c][k], via[sent[c][k]]) = c
  <2>1. sent[c][k] \in Messages /\ Has(sent[c], sent[c][k])
    BY <1>1 DEF Has
  <2> QED BY <1>1, <2>1 DEF ChannelSound, ChannelOf
<1>4. \A k \in 1 .. Len(sent[c]), n \in Messages :
         n = sent[c][k] => (k <= Len(got[c]) <=> OwnedBySome(n)')
  BY <1>1, <1>3 DEF ChannelSound
<1>5. \A k, l \in 1 .. Len(sent[c]), n, o \in Messages :
         n = sent[c][k] /\ o = sent[c][l] /\ Ahead(n, o)' => k < l
  BY <1>1, <1>3 DEF ChannelSound
<1>6. ~ Has(sent[c], m)
  BY <1>1 DEF ChannelSound
<1>7. CASE m \in UrgentPri \/ c # ChannelOf(m, path)
  <2>1. sent'[c] = sent[c] /\ got'[c] = got[c]
    BY <1>2, <1>7
  <2>2. \A n \in Messages : Has(sent[c], n) <=>
          n \notin UrgentPri /\ via'[n] # NoPath /\ ChannelOf(n, via'[n]) = c
    <3>1. ASSUME NEW n \in Messages, n # m PROVE via'[n] = via[n]
      BY <1>2, <3>1
    <3>2. via'[m] = path
      BY <1>2
    <3> QED BY <1>1, <1>6, <1>7, <3>1, <3>2 DEF ChannelSound
  <2>3. \A k \in 1 .. Len(sent[c]) : k <= Len(got[c]) <=> OwnedBySome(sent[c][k])'
    BY <1>1, <1>4, <2>1
  <2>4. \A k, l \in 1 .. Len(sent[c]) : Ahead(sent[c][k], sent[c][l])' => k < l
    BY <1>1, <1>5, <2>1
  <2> QED BY <1>1, <2>1, <2>2, <2>3, <2>4 DEF ChannelSound
<1>8. CASE m \notin UrgentPri /\ c = ChannelOf(m, path)
  <2> DEFINE s == sent[c]
             a == Append(s, m)
  <2>1. sent'[c] = a /\ got'[c] = got[c]
    BY <1>2, <1>8
  <2>2. /\ a \in Seq(Messages) /\ Len(a) = Len(s) + 1 /\ a[Len(s) + 1] = m
        /\ \A i \in 1 .. Len(s) : a[i] = s[i]
        /\ \A n : Has(a, n) <=> Has(s, n) \/ n = m
        /\ Distinct(a)
    BY <1>1, <1>6, AppendEffect DEF ChannelSound
  <2> HIDE DEF a
  <2>3. \A n \in Messages : Has(a, n) <=>
          n \notin UrgentPri /\ via'[n] # NoPath /\ ChannelOf(n, via'[n]) = c
    <3>1. ASSUME NEW n \in Messages, n # m PROVE via'[n] = via[n]
      BY <1>2, <3>1
    <3>2. via'[m] = path
      BY <1>2
    <3> QED BY <1>1, <1>2, <1>8, <2>2, <3>1, <3>2 DEF ChannelSound
  <2>4. \A i \in 1 .. Len(a) : i \in 1 .. Len(s) \/ i = Len(s) + 1
    BY <1>1, <2>2
  <2>5. Len(got[c]) <= Len(a) /\ \A k \in 1 .. Len(got[c]) : got[c][k] = a[k]
    <3>1. Len(got[c]) <= Len(s) /\ \A k \in 1 .. Len(got[c]) : got[c][k] = s[k]
      BY <1>1 DEF ChannelSound
    <3>2. \A k \in 1 .. Len(got[c]) : k \in 1 .. Len(s)
      BY <1>1, <3>1
    <3>3. Len(got[c]) <= Len(a)
      BY <1>1, <2>2, <3>1
    <3> QED BY <2>2, <3>1, <3>2, <3>3
  <2>6. ASSUME NEW k \in 1 .. Len(a), NEW n \in Messages, n = a[k]
        PROVE  k <= Len(got[c]) <=> OwnedBySome(n)'
    <3>1. CASE k \in 1 .. Len(s)
      BY <1>4, <2>2, <2>6, <3>1
    <3>2. CASE k = Len(s) + 1
      <4>1. ~ (k <= Len(got[c]))
        BY <1>1, <3>2 DEF ChannelSound
      <4>2. n = m
        BY <2>2, <2>6, <3>2
      <4> QED BY <4>1, <4>2
    <3> QED BY <2>4, <3>1, <3>2
  <2>7. ASSUME NEW k \in 1 .. Len(a), NEW l \in 1 .. Len(a), NEW n \in Messages, NEW o \in Messages,
               n = a[k], o = a[l], Ahead(n, o)'
        PROVE  k < l
    <3>1. CASE k \in 1 .. Len(s) /\ l \in 1 .. Len(s)
      <4>1. n = s[k] /\ o = s[l]
        BY <2>2, <2>7, <3>1
      <4> QED BY <1>5, <2>7, <3>1, <4>1
    <3>2. CASE k \in 1 .. Len(s) /\ l = Len(s) + 1
      BY <1>1, <3>2
    <3>3. CASE k = Len(s) + 1 /\ l \in 1 .. Len(s)
      <4>1. n = m /\ o = s[l]
        BY <2>2, <2>7, <3>3
      <4>2. o \in Messages \ UrgentPri /\ via[o] # NoPath /\ ChannelOf(o, via[o]) = ChannelOf(m, path)
        BY <1>3, <1>8, <3>3, <4>1
      <4> QED BY <1>8, <2>7, <4>1, <4>2
    <3>4. CASE k = Len(s) + 1 /\ l = Len(s) + 1
      <4>1. n = m /\ o = m
        BY <2>2, <2>7, <3>4
      <4> QED BY <1>8, <2>7, <4>1
    <3> QED BY <2>4, <3>1, <3>2, <3>3, <3>4
  <2>8. \A k \in 1 .. Len(a) : a[k] \in Messages
    BY <2>2
  <2>9. \A k \in 1 .. Len(sent'[c]) : k <= Len(got'[c]) <=> OwnedBySome(sent[c][k])'
    BY <2>1, <2>6, <2>8
  <2>10. \A k, l \in 1 .. Len(sent'[c]) : Ahead(sent[c][k], sent[c][l])' => k < l
    BY <2>1, <2>7, <2>8
  <2> QED BY <1>1, <2>1, <2>2, <2>3, <2>5, <2>9, <2>10 DEF ChannelSound
<1> QED BY <1>7, <1>8

\* A message is received: on the way all of its channel are behind it.  So it is the next one.
LEMMA NextIsReceived ==
    ASSUME Types, RecordSound, NEW m \in Messages, m \notin UrgentPri, via[m] # NoPath,
           ~ OwnedBySome(m), NEW c \in Channels, c = ChannelOf(m, via[m]),
           \A n \in Messages : via[n] # NoPath /\ ChannelOf(n, via[n]) = c /\ n \notin UrgentPri
                               /\ ~ OwnedBySome(n) /\ n # m => Ahead(m, n)
    PROVE  /\ Len(got[c]) + 1 \in 1 .. Len(sent[c]) /\ sent[c][Len(got[c]) + 1] = m
<1>1. /\ ChannelSound(c) /\ sent[c] \in Seq(Messages) /\ got[c] \in Seq(Messages)
      /\ Len(sent[c]) \in Nat /\ Len(got[c]) \in Nat
  BY DEF RecordSound, Types, QueueTypeOK
<1>2. Has(sent[c], m)
  BY <1>1 DEF ChannelSound
<1>3. PICK k \in 1 .. Len(sent[c]) : sent[c][k] = m
  BY <1>2 DEF Has
<1>4. ~ (k <= Len(got[c]))
  BY <1>1, <1>3 DEF ChannelSound
<1>5. PICK j \in 1 .. Len(sent[c]) : j = Len(got[c]) + 1 /\ j <= k
  BY <1>1, <1>4
<1>6. SUFFICES ASSUME j # k PROVE FALSE
  BY <1>3, <1>5
<1> DEFINE n == sent[c][j]
<1>7. n \in Messages /\ Has(sent[c], n)
  BY <1>1 DEF Has
<1>8. via[n] # NoPath /\ ChannelOf(n, via[n]) = c /\ n \notin UrgentPri
  BY <1>1, <1>7 DEF ChannelSound
<1>9. ~ OwnedBySome(n)
  <2>1. ~ (j <= Len(got[c]))
    BY <1>1, <1>5
  <2> QED BY <1>1, <2>1 DEF ChannelSound
<1>10. n # m
  BY <1>1, <1>3, <1>6 DEF ChannelSound, Distinct
<1>11. Ahead(sent[c][k], sent[c][j])
  BY <1>3, <1>7, <1>8, <1>9, <1>10
<1>12. k < j
  BY <1>1, <1>11 DEF ChannelSound
<1> QED BY <1>1, <1>5, <1>12

LEMMA RecordReceived ==
    ASSUME Types, RecordSound, NEW m \in Messages, via[m] # NoPath, ~ OwnedBySome(m),
           UNCHANGED <<via, sent>>, got' = Record(got, m, via[m]),
           OwnedBySome(m)', \A n \in Messages \ {m} : OwnedBySome(n)' <=> OwnedBySome(n),
           \A n \in Messages \ UrgentPri : m \notin UrgentPri /\ via[n] # NoPath
                                          /\ ChannelOf(n, via[n]) = ChannelOf(m, via[m])
                                          /\ ~ OwnedBySome(n) /\ n # m => Ahead(m, n),
           \A n, o \in Messages \ UrgentPri :
              via[n] # NoPath /\ via[o] # NoPath /\ queueId[n] = queueId[o] /\ Ahead(n, o)' => Ahead(n, o)
    PROVE  RecordSound'
<1> SUFFICES ASSUME NEW c \in Channels PROVE ChannelSound(c)'
  BY DEF RecordSound
<1>1. /\ ChannelSound(c) /\ sent[c] \in Seq(Messages) /\ got[c] \in Seq(Messages)
      /\ Len(sent[c]) \in Nat /\ Len(got[c]) \in Nat /\ got \in [Channels -> Seq(Messages)]
  BY DEF RecordSound, Types, QueueTypeOK
<1>2. ASSUME NEW k \in 1 .. Len(sent[c])
      PROVE  /\ sent[c][k] \in Messages /\ via[sent[c][k]] # NoPath /\ queueId[sent[c][k]] = c.queue
             /\ sent[c][k] \notin UrgentPri
             /\ ChannelOf(sent[c][k], via[sent[c][k]]) = c
  <2>1. sent[c][k] \in Messages /\ Has(sent[c], sent[c][k])
    BY <1>1 DEF Has
  <2> QED BY <1>1, <2>1 DEF ChannelSound, ChannelOf
<1>3. \A k, l \in 1 .. Len(sent[c]) : Ahead(sent[c][k], sent[c][l])' => k < l
  BY <1>1, <1>2 DEF ChannelSound
<1>4. CASE m \in UrgentPri \/ c # ChannelOf(m, via[m])
  <2>1. got'[c] = got[c]
    BY <1>1, <1>4 DEF Record
  <2>2. \A k \in 1 .. Len(sent[c]) : sent[c][k] # m
    BY <1>2, <1>4
  <2>3. \A k \in 1 .. Len(sent[c]) : k <= Len(got[c]) <=> OwnedBySome(sent[c][k])'
    BY <1>1, <1>2, <2>2 DEF ChannelSound
  <2> QED BY <1>1, <1>3, <2>1, <2>3 DEF ChannelSound
<1>5. CASE m \notin UrgentPri /\ c = ChannelOf(m, via[m])
  <2> DEFINE g == got[c]
             a == Append(g, m)
  <2>1. Len(g) + 1 \in 1 .. Len(sent[c]) /\ sent[c][Len(g) + 1] = m
    BY <1>5, NextIsReceived
  <2>2. got'[c] = a
    BY <1>1, <1>5 DEF Record
  <2>3. /\ a \in Seq(Messages) /\ Len(a) = Len(g) + 1 /\ a[Len(g) + 1] = m
        /\ \A i \in 1 .. Len(g) : a[i] = g[i]
    BY <1>1
  <2> HIDE DEF a
  <2>4. Len(a) <= Len(sent[c])
    BY <1>1, <2>1, <2>3
  <2>5. ASSUME NEW k \in 1 .. Len(a) PROVE a[k] = sent[c][k]
    <3>1. k \in 1 .. Len(g) \/ k = Len(g) + 1
      BY <1>1, <2>3
    <3> QED BY <1>1, <2>1, <2>3, <3>1 DEF ChannelSound
  <2>6. ASSUME NEW k \in 1 .. Len(sent[c]) PROVE k <= Len(a) <=> OwnedBySome(sent[c][k])'
    <3>1. CASE k = Len(g) + 1
      BY <1>1, <2>1, <2>3, <3>1
    <3>2. CASE k # Len(g) + 1
      <4>1. sent[c][k] # m
        BY <1>1, <2>1, <3>2 DEF ChannelSound, Distinct
      <4>2. k <= Len(g) <=> OwnedBySome(sent[c][k])'
        BY <1>1, <1>2, <4>1 DEF ChannelSound
      <4>3. k <= Len(a) <=> k <= Len(g)
        BY <1>1, <2>3, <3>2
      <4> QED BY <4>2, <4>3
    <3> QED BY <3>1, <3>2
  <2> QED BY <1>1, <1>3, <2>2, <2>4, <2>5, <2>6 DEF ChannelSound
<1> QED BY <1>4, <1>5

-----------------------------------------------------------------------------
(* Steps that leave the messages where they are                             *)

\* Undecided(t) once thread th has gone on to l.
LEMMA UndecidedAfter ==
    ASSUME NEW th \in Threads, NEW l, NEW m, Moves(th, l, m)
    PROVE  \A t \in Tasks : Undecided(t)' <=> IF t = th THEN l \in {"notify", "remove"} ELSE Undecided(t)
BY Procs2 DEF Moves, Undecided

\* Every processor's list is still looked after.
MailKept(th, l) ==
    /\ th \in Tasks /\ l = "remove" => list[Peer(home[th])] = <<held[th]>>
    /\ th \in Procs /\ l = "leave" => held[th] # NoMsg \/ list[th] = <<>>
    /\ \A p \in Procs : link'[p] = "down" => link[p] = "down"
    /\ \A p \in Procs : event[p] \/ posted[p] \/ pc[p] # "off" =>
          event'[p] \/ posted'[p] \/ pc'[p] # "off" \/ list[p] = <<>>

LEMMA QuietStep ==
    ASSUME Inv, NEW th \in Threads, NEW l, Moves(th, l, held[th]),
           UNCHANGED <<owns, lists, list, history>>,
           th \in Tasks => (l \in {"notify", "remove"} <=> pc[th] \in {"notify", "remove"}),
           MailKept(th, l)
    PROVE  PlacesSound' /\ RecordSound'
<1>1. held' = held
  BY DEF Moves, Inv, Types, QueueTypeOK
<1>2. \A t \in Tasks : Undecided(t)' <=> Undecided(t)
  BY UndecidedAfter DEF Undecided
<1>3. UNCHANGED <<owns, list, normalList, highList, via, sent, got>>
  BY DEF lists, history
<1>4. ListsSound'
  BY <1>1, <1>2, <1>3 DEF Inv, PlacesSound, ListsSound
<1>5. UndecidedIsLast'
  BY <1>1, <1>2, <1>3 DEF Inv, PlacesSound, UndecidedIsLast
<1>6. OneSpot'
  <2>1. ASSUME NEW x \in Threads PROVE Undecided(x)' <=> Undecided(x)
    BY <1>2 DEF Undecided
  <2>2. \A m \in Messages, k \in Kinds, x \in Threads : Spot(m, k, x)' <=> Spot(m, k, x)
    BY <1>1, <1>3, <2>1 DEF Spot
  <2> QED BY <2>2 DEF Inv, PlacesSound, OneSpot
<1>7. MailSound'
  <2>1. ASSUME NEW t \in Tasks, pc'[t] = "remove" PROVE list[Peer(home[t])] = <<held[t]>>
    BY <2>1, Procs2 DEF Moves, MailKept, Inv, PlacesSound, MailSound
  <2>2. ASSUME NEW p \in Procs, link'[p] = "down", list[p] # <<>>
        PROVE  \E t \in Tasks : Undecided(t) /\ list[p] = <<held[t]>>
    BY <2>2 DEF MailKept, Inv, PlacesSound, MailSound
  <2>3. ASSUME NEW p \in Procs, pc'[p] = "leave", held[p] = NoMsg PROVE list[p] = <<>>
    BY <2>3, Procs2 DEF Moves, MailKept, Inv, PlacesSound, MailSound
  <2> QED BY <1>1, <1>2, <1>3, <2>1, <2>2, <2>3 DEF MailSound
<1>8. NoneStranded'
  <2> SUFFICES ASSUME NEW p \in Procs, list[p] # <<>>
               PROVE  \/ event'[p] \/ posted'[p] \/ pc'[p] # "off"
                      \/ \E t \in Tasks : Undecided(t)' /\ Peer(home[t]) = p
    BY <1>3 DEF NoneStranded
  <2>1. \/ event[p] \/ posted[p] \/ pc[p] # "off"
        \/ \E t \in Tasks : Undecided(t) /\ Peer(home[t]) = p
    BY DEF Inv, PlacesSound, NoneStranded
  <2> QED BY <1>2, <2>1 DEF MailKept
<1>9. RecordSound'
  <2>1. \A m \in Messages : OwnedBySome(m)' <=> OwnedBySome(m)
    BY <1>3 DEF OwnedBySome
  <2>2. \A m, n \in Messages : Ahead(m, n)' <=> Ahead(m, n)
    BY <1>1, <1>3 DEF Ahead, Waits, SwiHas, Travels
  <2> QED BY <1>3, <2>1, <2>2, RecordKept DEF Inv
<1> QED BY <1>4, <1>5, <1>6, <1>7, <1>8, <1>9 DEF PlacesSound

-----------------------------------------------------------------------------
(* Attaching, and the interrupt                                             *)

LEMMA AttachKeeps ==
    ASSUME Inv, NEW p \in Procs, Attach(p) PROVE Inv'
<1>1. /\ UNCHANGED <<queueVars, list, gate, gateSwi, event, posted>>
      /\ \E s \in {"registered", "up"} : link' = [link EXCEPT ![p] = s]
  BY DEF Attach, RegisterEvent, RegisterTransport
<1>2. UNCHANGED <<owns, pc, held, lists, synchronizer, unblocked, history>>
  BY <1>1 DEF queueVars
<1>3. link' \in [Procs -> {"down", "registered", "up"}] /\ \A q \in Procs : link'[q] = "down" => link[q] = "down"
  BY <1>1 DEF Inv, Types
<1>4. Types'
  BY <1>1, <1>2, <1>3 DEF Inv, Types, QueueTypeOK, lists, history
<1>5. Moves(creator, pc[creator], held[creator])
  BY <1>2, NobodyMoves DEF Inv
<1>6. MailKept(creator, pc[creator])
  BY <1>1, <1>2, <1>3, Procs2 DEF MailKept, Inv, PlacesSound, MailSound
<1>7. ThreadsSound' /\ GateSound'
  BY <1>1, <1>2 DEF Inv, ThreadsSound, GateSound, history
<1>8. PlacesSound' /\ RecordSound'
  BY <1>1, <1>2, <1>5, <1>6, QuietStep, Procs2
<1> QED BY <1>4, <1>7, <1>8 DEF Inv

LEMMA IsrKeeps ==
    ASSUME Inv, NEW p \in Procs, Isr(p) PROVE Inv'
<1>1. /\ UNCHANGED <<queueVars, link, list, gate, gateSwi>>
      /\ event' = [event EXCEPT ![p] = FALSE] /\ posted' = [posted EXCEPT ![p] = TRUE]
  BY DEF Isr
<1>2. UNCHANGED <<owns, pc, held, lists, synchronizer, unblocked, history>>
  BY <1>1 DEF queueVars
<1>3. /\ event' \in [Procs -> BOOLEAN] /\ posted' \in [Procs -> BOOLEAN]
      /\ \A q \in Procs : event[q] \/ posted[q] => event'[q] \/ posted'[q]
  BY <1>1 DEF Inv, Types
<1>4. Types'
  BY <1>1, <1>2, <1>3 DEF Inv, Types, QueueTypeOK, lists, history
<1>5. Moves(creator, pc[creator], held[creator])
  BY <1>2, NobodyMoves DEF Inv
<1>6. MailKept(creator, pc[creator])
  BY <1>1, <1>2, <1>3, Procs2 DEF MailKept, Inv, PlacesSound, MailSound
<1>7. ThreadsSound' /\ GateSound'
  BY <1>1, <1>2 DEF Inv, ThreadsSound, GateSound, history
<1>8. PlacesSound' /\ RecordSound'
  BY <1>1, <1>2, <1>5, <1>6, QuietStep, Procs2
<1> QED BY <1>4, <1>7, <1>8 DEF Inv

LEMMA SwiStartKeeps ==
    ASSUME Inv, NEW p \in Procs, SwiStart(p) PROVE Inv'
<1>1. /\ UNCHANGED <<owns, held, lists, synchronizer, unblocked, history, link, list, gate, gateSwi, event>>
      /\ posted' = [posted EXCEPT ![p] = FALSE] /\ Goto(p, "enter")
      /\ posted[p] /\ pc[p] = "off" /\ gateSwi[p] = None
  BY DEF SwiStart
<1>2. Moves(p, "enter", held[p]) /\ p \in Threads /\ p \notin Tasks
  BY <1>1, GotoMoves, Procs2 DEF Inv
<1>3. Types'
  BY <1>1, <1>2 DEF Inv, Types, QueueTypeOK, lists, history, Moves
<1>4. ThreadsSound'
  <2>1. ThreadSound(p, "enter", held[p], via') /\ via' = via
    BY <1>1, <1>2, SwiIs DEF Inv, ThreadSound, SwiLabels, history
  <2> QED BY <1>2, <2>1, ThreadsMoved DEF Inv
<1>5. GateSound'
  BY <1>1, <1>2, GateQuiet DEF Inv, GateLabels, InsideLabels
<1>6. MailKept(p, "enter")
  <2>1. \A q \in Procs : q # p => posted'[q] = posted[q] /\ pc'[q] = pc[q] /\ event'[q] = event[q]
    BY <1>1, <1>2, Procs2 DEF Moves, Inv, Types
  <2>2. pc'[p] # "off" /\ link' = link
    BY <1>1, <1>2 DEF Moves
  <2> QED BY <1>2, <2>1, <2>2 DEF MailKept
<1>7. PlacesSound' /\ RecordSound'
  BY <1>1, <1>2, <1>6, QuietStep
<1> QED BY <1>3, <1>4, <1>5, <1>7 DEF Inv

-----------------------------------------------------------------------------
(* The gate, and the calls that find nothing                                *)

LEMMA EnterKeeps ==
    ASSUME Inv, NEW th \in Threads, Runs(th), Enter(th) PROVE Inv'
<1>1. /\ UNCHANGED <<owns, held, lists, synchronizer, unblocked, history, link, list, event, posted>>
      /\ pc[th] = "enter" /\ Goto(th, "spin") /\ gate' = Append(gate, th)
      /\ gateSwi' = IF th \in Procs THEN gateSwi ELSE [gateSwi EXCEPT ![home[th]] = th]
  BY DEF Enter, gateFrame
<1>2. Moves(th, "spin", held[th])
  BY <1>1, GotoMoves DEF Inv
<1>3. GateSound' /\ gate' \in Seq(Threads) /\ gateSwi' \in [Procs -> Tasks \cup {None}]
  BY <1>1, <1>2, GateEntered DEF Inv
<1>4. Types'
  BY <1>1, <1>2, <1>3 DEF Inv, Types, QueueTypeOK, lists, history, Moves
<1>5. ThreadsSound'
  <2>1. ThreadSound(th, "enter", held[th], via) /\ via' = via
    BY <1>1 DEF Inv, ThreadsSound, history
  <2>2. ThreadSound(th, "spin", held[th], via')
    BY <2>1 DEF ThreadSound, TaskLabels, SwiLabels, PutLabels
  <2> QED BY <1>2, <2>1, <2>2, ThreadsMoved DEF Inv
<1>6. MailKept(th, "spin")
  <2>1. \A q \in Procs : (pc[q] = "off" <=> pc'[q] = "off") /\ posted' = posted /\ event' = event /\ link' = link
    BY <1>1, <1>2, Procs2 DEF Moves
  <2> QED BY <2>1 DEF MailKept
<1>7. PlacesSound' /\ RecordSound'
  BY <1>1, <1>2, <1>6, QuietStep
<1> QED BY <1>3, <1>4, <1>5, <1>7 DEF Inv

LEMMA AcquireKeeps ==
    ASSUME Inv, NEW th \in Threads, Acquire(th) PROVE Inv'
<1> DEFINE l == IF th \in Procs THEN "take" ELSE "insert"
<1>1. /\ UNCHANGED <<owns, held, lists, synchronizer, unblocked, history, link, list, event, posted, gate, gateSwi>>
      /\ pc[th] = "spin" /\ Goto(th, l) /\ Head(gate) = th
  BY DEF Acquire, gateFrame
<1>2. l = IF th \in Procs THEN "take" ELSE "insert"
  OBVIOUS
<1> HIDE DEF l
<1>3. Moves(th, l, held[th])
  BY <1>1, GotoMoves DEF Inv
<1>4. GateSound'
  <2>1. th \in Procs => gateSwi[th] = None
    BY <1>1 DEF Inv, GateSound
  <2> QED BY <1>1, <1>2, <1>3, <2>1, GateQuiet DEF Inv, GateLabels, InsideLabels
<1>5. Types'
  BY <1>1, <1>3 DEF Inv, Types, QueueTypeOK, lists, history, Moves
<1>6. ThreadsSound'
  <2>1. ThreadSound(th, "spin", held[th], via) /\ via' = via
    BY <1>1 DEF Inv, ThreadsSound, history
  <2>2. ThreadSound(th, l, held[th], via')
    BY <1>2, <2>1, Procs2 DEF ThreadSound, TaskLabels, SwiLabels, PutLabels
  <2> QED BY <1>3, <2>1, <2>2, ThreadsMoved DEF Inv
<1>7. MailKept(th, l)
  <2>1. \A q \in Procs : (pc[q] = "off" <=> pc'[q] = "off") /\ posted' = posted /\ event' = event /\ link' = link
    BY <1>1, <1>2, <1>3, Procs2 DEF Moves
  <2> QED BY <1>2, <2>1, Procs2 DEF MailKept
<1>8. PlacesSound' /\ RecordSound'
  BY <1>1, <1>2, <1>3, <1>7, QuietStep
<1> QED BY <1>4, <1>5, <1>6, <1>8 DEF Inv

\* The put that is going to fail is alone on the list.
LEMMA NotifyFailsKeeps ==
    ASSUME Inv, NEW t \in Tasks, NotifyFails(t) PROVE Inv'
<1>1. /\ UNCHANGED <<owns, held, lists, synchronizer, unblocked, history, link, list, event, posted, gate, gateSwi>>
      /\ pc[t] = "notify" /\ Goto(t, "remove") /\ link[Peer(home[t])] = "down"
  BY DEF NotifyFails, transportVars
<1>2. t \in Threads /\ t \notin Procs /\ Peer(home[t]) \in Procs
  BY Procs2
<1>3. Moves(t, "remove", held[t])
  BY <1>1, <1>2, GotoMoves DEF Inv
<1>4. GateSound'
  <2>1. Head(gate) = t
    BY <1>1, <1>2 DEF Inv, GateSound, GateLabels, InsideLabels
  <2> QED BY <1>1, <1>2, <1>3, <2>1, GateQuiet DEF Inv, GateLabels, InsideLabels
<1>5. Types'
  BY <1>1, <1>3 DEF Inv, Types, QueueTypeOK, lists, history, Moves
<1>6. ThreadsSound'
  <2>1. ThreadSound(t, "notify", held[t], via) /\ via' = via
    BY <1>1, <1>2 DEF Inv, ThreadsSound, history
  <2>2. ThreadSound(t, "remove", held[t], via')
    BY <2>1 DEF ThreadSound, TaskLabels, PutLabels
  <2> QED BY <1>2, <1>3, <2>1, <2>2, ThreadsMoved DEF Inv
<1>7. MailKept(t, "remove")
  <2>1. \A q \in Procs : pc'[q] = pc[q] /\ posted' = posted /\ event' = event /\ link' = link
    BY <1>1, <1>2, <1>3, Procs2 DEF Moves
  <2>2. Undecided(t) /\ list[Peer(home[t])] # <<>>
    BY <1>1 DEF Undecided, Inv, PlacesSound, UndecidedIsLast
  <2>3. PICK u \in Tasks : Undecided(u) /\ list[Peer(home[t])] = <<held[u]>>
    BY <1>1, <1>2, <2>2 DEF Inv, PlacesSound, MailSound
  <2>4. u = t
    BY <2>2, <2>3, OneInside, Procs2 DEF Undecided, InsideLabels, GateLabels, Inv
  <2> QED BY <1>2, <2>1, <2>3, <2>4 DEF MailKept
<1>8. PlacesSound' /\ RecordSound'
  BY <1>1, <1>2, <1>3, <1>7, QuietStep
<1> QED BY <1>4, <1>5, <1>6, <1>8 DEF Inv

\* A thread outside the gate goes from one label to another.
LEMMA CallKeeps ==
    ASSUME Inv, NEW th \in Threads, NEW l, Goto(th, l),
           UNCHANGED <<owns, held, lists, history, transportVars>>,
           synchronizer' \in [Procs -> BOOLEAN], unblocked' \in [Procs -> BOOLEAN],
           pc[th] \notin GateLabels, l \notin GateLabels,
           ThreadSound(th, l, held[th], via),
           th \in Procs => pc[th] # "off" /\ l # "off"
    PROVE  Inv'
<1>1. UNCHANGED <<owns, held, lists, history, link, list, event, posted, gate, gateSwi>>
  BY DEF transportVars
<1>2. Moves(th, l, held[th])
  BY <1>1, GotoMoves DEF Inv
<1>3. GateSound'
  <2>1. th \in Procs => gateSwi[th] = None
    BY DEF Inv, GateSound
  <2> QED BY <1>1, <1>2, <2>1, GateQuiet DEF Inv, InsideLabels
<1>4. Types'
  BY <1>1, <1>2 DEF Inv, Types, QueueTypeOK, lists, history, Moves
<1>5. ThreadsSound'
  <2>1. via' = via
    BY <1>1 DEF history
  <2> QED BY <1>2, <2>1, ThreadsMoved DEF Inv
<1>6. MailKept(th, l)
  <2>1. \A q \in Procs : (pc[q] = "off" <=> pc'[q] = "off") /\ posted' = posted /\ event' = event /\ link' = link
    BY <1>1, <1>2, Procs2 DEF Moves
  <2>2. l # "remove" /\ l # "leave"
    BY DEF GateLabels
  <2> QED BY <2>1, <2>2 DEF MailKept
<1>7. PlacesSound' /\ RecordSound'
  <2>1. th \in Tasks => (l \in {"notify", "remove"} <=> pc[th] \in {"notify", "remove"})
    BY DEF GateLabels
  <2> QED BY <1>1, <1>2, <1>6, <2>1, QuietStep
<1> QED BY <1>3, <1>4, <1>5, <1>7 DEF Inv

LEMMA SignalKeeps ==
    ASSUME Inv, NEW th \in Threads, Signal(th), UNCHANGED transportVars PROVE Inv'
<1> DEFINE l == IF th \in Procs THEN "enter" ELSE "idle"
<1>1. /\ UNCHANGED <<owns, held, lists, unblocked, history>> /\ Goto(th, l) /\ pc[th] = "signal"
      /\ synchronizer' \in [Procs -> BOOLEAN] /\ unblocked' \in [Procs -> BOOLEAN]
  BY Procs2 DEF Signal, Inv, Types, QueueTypeOK
<1>2. ThreadSound(th, "signal", held[th], via)
  BY <1>1 DEF Inv, ThreadsSound
<1>3. ThreadSound(th, l, held[th], via)
  BY <1>2, Procs2 DEF ThreadSound, TaskLabels, SwiLabels, PutLabels
<1>4. l \in {"enter", "idle"} /\ (th \in Procs => l # "off")
  OBVIOUS
<1> HIDE DEF l
<1> QED BY <1>1, <1>3, <1>4, CallKeeps DEF GateLabels

\* A task that has no message in its hands, and looks for one.
LEMMA WaitKeeps ==
    ASSUME Inv, NEW t \in Tasks, NEW l \in {"idle", "signal", "getNormal", "wait", "woken"}, Goto(t, l),
           pc[t] \in {"idle", "getNormal", "wait", "woken"},
           UNCHANGED <<owns, held, lists, history, transportVars>>,
           synchronizer' \in [Procs -> BOOLEAN], unblocked' \in [Procs -> BOOLEAN]
    PROVE  Inv'
<1>1. t \in Threads /\ t \notin Procs
  BY Procs2
<1>2. ThreadSound(t, pc[t], held[t], via)
  BY <1>1 DEF Inv, ThreadsSound
<1>3. ThreadSound(t, l, held[t], via)
  BY <1>2 DEF ThreadSound, TaskLabels, PutLabels
<1>4. pc[t] \notin GateLabels /\ l \notin GateLabels
  BY DEF GateLabels
<1> QED BY <1>1, <1>3, <1>4, CallKeeps

LEMMA UnblockKeeps ==
    ASSUME Inv, NEW t \in Tasks, Unblock(t), UNCHANGED transportVars PROVE Inv'
<1>1. UNCHANGED <<owns, held, lists, history>> /\ Goto(t, "signal") /\ pc[t] = "idle"
  BY DEF Unblock
<1>2. synchronizer' \in [Procs -> BOOLEAN] /\ unblocked' \in [Procs -> BOOLEAN]
  BY DEF Unblock, Inv, Types, QueueTypeOK
<1> QED BY <1>1, <1>2, WaitKeeps

LEMMA WakeKeeps ==
    ASSUME Inv, NEW t \in Tasks, Wake(t) \/ Timeout(t) \/ WokenUnblocked(t), UNCHANGED transportVars
    PROVE  Inv'
<1>1. /\ UNCHANGED <<owns, held, lists, history>>
      /\ \E l \in {"idle", "woken"} : Goto(t, l)
      /\ pc[t] \in {"wait", "woken"}
  BY DEF Wake, Timeout, WokenUnblocked
<1>2. synchronizer' \in [Procs -> BOOLEAN] /\ unblocked' \in [Procs -> BOOLEAN]
  BY DEF Wake, Timeout, WokenUnblocked, Inv, Types, QueueTypeOK
<1> QED BY <1>1, <1>2, WaitKeeps

\* The Swi leaves the gate, to put the message it has taken or because there is none.
LEMMA SwiLeaveKeeps ==
    ASSUME Inv, NEW p \in Procs, Leave(p) PROVE Inv'
<1> DEFINE l == IF held[p] = NoMsg THEN "off" ELSE "enqueue"
<1>1. /\ UNCHANGED <<owns, held, lists, synchronizer, unblocked, history, link, list, event, posted, gateSwi>>
      /\ pc[p] = "leave" /\ Goto(p, l) /\ gate' = Tail(gate)
  BY Procs2 DEF Leave
<1>2. l = IF held[p] = NoMsg THEN "off" ELSE "enqueue"
  OBVIOUS
<1> HIDE DEF l
<1>3. p \in Threads /\ p \notin Tasks /\ l \notin GateLabels
  BY <1>2, Procs2 DEF GateLabels
<1>4. Moves(p, l, held[p])
  BY <1>1, <1>3, GotoMoves DEF Inv
<1>5. GateSound' /\ gate' \in Seq(Threads) /\ gateSwi' \in [Procs -> Tasks \cup {None}]
  BY <1>1, <1>3, <1>4, GateLeft DEF Inv
<1>6. Types'
  BY <1>1, <1>4, <1>5 DEF Inv, Types, QueueTypeOK, lists, history, Moves
<1>7. ThreadsSound'
  <2>1. ThreadSound(p, "leave", held[p], via) /\ via' = via
    BY <1>1, <1>3 DEF Inv, ThreadsSound, history
  <2>2. ThreadSound(p, l, held[p], via')
    BY <1>2, <1>3, <2>1 DEF ThreadSound, SwiLabels
  <2> QED BY <1>3, <1>4, <2>1, <2>2, ThreadsMoved DEF Inv
<1>8. MailKept(p, l)
  <2>1. \A q \in Procs : (q # p => pc'[q] = pc[q]) /\ posted' = posted /\ event' = event /\ link' = link
    BY <1>1, <1>3, <1>4, Procs2 DEF Moves
  <2>2. pc'[p] # "off" \/ list[p] = <<>>
    BY <1>1, <1>2, <1>4 DEF Moves, Inv, PlacesSound, MailSound
  <2>3. l # "remove" /\ l # "leave"
    BY <1>3 DEF GateLabels
  <2> QED BY <2>1, <2>2, <2>3 DEF MailKept
<1>9. PlacesSound' /\ RecordSound'
  BY <1>1, <1>3, <1>4, <1>8, QuietStep
<1> QED BY <1>5, <1>6, <1>7, <1>9 DEF Inv

-----------------------------------------------------------------------------
(* A put begins; one that failed ends                                       *)

\* The transport's list is left alone, by a thread that has nothing undecided there.
LEMMA HandStep ==
    ASSUME Inv, NEW th \in Threads, NEW l, NEW m, Moves(th, l, m), UNCHANGED <<list, link, event, posted>>,
           th \in Tasks => pc[th] \notin {"notify", "remove"} /\ l \notin {"notify", "remove"},
           th \in Procs => l \notin {"off", "leave"}
    PROVE  /\ UndecidedIsLast' /\ MailSound' /\ NoneStranded'
           /\ \A x \in Threads : Undecided(x)' <=> Undecided(x)
           /\ \A t \in Tasks : Undecided(t) => t # th /\ held'[t] = held[t]
<1>1. \A x \in Threads : Undecided(x)' <=> Undecided(x)
  BY UndecidedAfter DEF Undecided
<1>2. \A t \in Tasks : Undecided(t) => t # th /\ held'[t] = held[t]
  BY Procs2 DEF Undecided, Moves
<1>3. \A t \in Tasks : Undecided(t)' <=> Undecided(t)
  BY <1>1, Procs2
<1>4. UndecidedIsLast'
  BY <1>2, <1>3 DEF Inv, PlacesSound, UndecidedIsLast
<1>5. MailSound'
  <2>1. ASSUME NEW t \in Tasks, pc'[t] = "remove" PROVE list[Peer(home[t])] = <<held'[t]>>
    <3>1. Undecided(t) /\ t # th /\ pc[t] = "remove"
      BY <1>2, <1>3, <2>1, Procs2 DEF Undecided, Moves
    <3> QED BY <1>2, <3>1 DEF Inv, PlacesSound, MailSound
  <2>2. ASSUME NEW p \in Procs, link[p] = "down", list[p] # <<>>
        PROVE  \E t \in Tasks : Undecided(t)' /\ list[p] = <<held'[t]>>
    BY <1>2, <1>3, <2>2 DEF Inv, PlacesSound, MailSound
  <2>3. ASSUME NEW p \in Procs, pc'[p] = "leave", held'[p] = NoMsg PROVE list[p] = <<>>
    BY <2>3, Procs2 DEF Moves, Inv, PlacesSound, MailSound
  <2> QED BY <2>1, <2>2, <2>3 DEF MailSound
<1>6. NoneStranded'
  <2>1. \A p \in Procs : pc[p] # "off" => pc'[p] # "off"
    BY Procs2 DEF Moves
  <2> QED BY <1>3, <2>1 DEF Inv, PlacesSound, NoneStranded
<1> QED BY <1>1, <1>2, <1>4, <1>5, <1>6

LEMMA ListsKept ==
    ASSUME Inv, UNCHANGED <<list, normalList, highList, via>>,
           \A t \in Tasks : Undecided(t) => Undecided(t)' /\ held'[t] = held[t]
    PROVE  ListsSound'
BY DEF Inv, PlacesSound, ListsSound

\* A message that was not sent passes between its task's own and its hands.
LEMMA HandRecord ==
    ASSUME Inv, NEW t \in Tasks, NEW l, NEW h, Moves(t, l, h), UNCHANGED <<lists, list, history>>,
           NEW m \in Messages, via[m] = NoPath, \A n \in Messages \ {m} : OwnedBySome(n)' <=> OwnedBySome(n)
    PROVE  RecordSound'
<1>1. UNCHANGED <<list, normalList, highList, via, sent, got>>
  BY DEF lists, history
<1>2. \A p \in Procs : held'[p] = held[p]
  BY Procs2 DEF Moves
<1>3. \A n, o \in Messages : Ahead(n, o)' <=> Ahead(n, o)
  BY <1>1, <1>2 DEF Ahead, Waits, SwiHas, Travels
<1> QED BY <1>1, <1>3, RecordKept DEF Inv

LEMMA GiveAwayKeeps ==
    ASSUME Inv, NEW t \in Tasks, NEW m \in Messages, MaySend(t, m), GiveAway(t, m),
           NEW l \in {"enter", "enqueue"}, queueId[m] = home[t] <=> l = "enqueue", Goto(t, l),
           UNCHANGED <<lists, synchronizer, unblocked, history, transportVars>>
    PROVE  Inv'
<1>1. /\ pc[t] = "idle" /\ m \in owns[t] /\ via[m] = NoPath /\ held[t] = NoMsg /\ m # NoMsg
      /\ t \in Threads /\ t \notin Procs
  BY Procs2, TaskIs DEF MaySend, Inv, PutLabels
<1>2. /\ UNCHANGED <<lists, synchronizer, unblocked, history, list, link, event, posted, gate, gateSwi>>
      /\ owns' = [owns EXCEPT ![t] = @ \ {m}] /\ Hold(t, m)
  BY DEF transportVars, GiveAway
<1>3. UNCHANGED <<list, normalList, highList, via, sent, got>>
  BY <1>2 DEF lists, history
<1>4. Moves(t, l, m)
  BY <1>1, <1>2, GotoHoldMoves DEF Inv
<1>5. owns \in [Tasks -> SUBSET Messages]
  BY DEF Inv, Types, QueueTypeOK
<1>6. Types'
  BY <1>2, <1>3, <1>4 DEF Inv, Types, QueueTypeOK, Moves
<1>7. ThreadsSound'
  <2>1. ThreadSound(t, l, m, via')
    BY <1>1, <1>3 DEF ThreadSound, TaskLabels, PutLabels
  <2> QED BY <1>1, <1>3, <1>4, <2>1, ThreadsMoved DEF Inv
<1>8. GateSound'
  BY <1>1, <1>2, <1>4, GateQuiet DEF Inv, GateLabels, InsideLabels
<1>9. /\ UndecidedIsLast' /\ MailSound' /\ NoneStranded'
      /\ \A x \in Threads : Undecided(x)' <=> Undecided(x)
      /\ \A u \in Tasks : Undecided(u) => u # t /\ held'[u] = held[u]
  BY <1>1, <1>2, <1>4, HandStep
<1>10. ListsSound'
  BY <1>3, <1>9, ListsKept, Procs2
<1>11. OneSpot'
  <2>1. Spot(m, "owned", t)
    BY <1>1 DEF Spot
  <2>2. Spot(m, "held", t)'
    BY <1>1, <1>4, <1>9 DEF Spot, Moves, Undecided
  <2>3. ~ Spot(m, "owned", t)'
    BY <1>2, <1>5 DEF Spot
  <2>4. ASSUME NEW n \in Messages, NEW j \in Kinds, NEW z \in Threads
        PROVE  \/ n = m /\ ((j = "owned" /\ z = t) \/ (j = "held" /\ z = t))
               \/ Spot(n, j, z)' <=> Spot(n, j, z)
    <3>1. (n = m /\ z = t) \/ (n \in owns'[z] <=> n \in owns[z]) \/ z \notin Tasks
      BY <1>2, <1>5
    <3>2. (n = m /\ z = t) \/ (held'[z] = n <=> held[z] = n)
      BY <1>1, <1>4 DEF Moves
    <3> QED BY <1>3, <1>9, <3>1, <3>2 DEF Spot
  <2> QED BY <1>1, <2>1, <2>2, <2>3, <2>4, SpotMoved DEF Kinds, Inv, PlacesSound
<1>12. RecordSound'
  <2>1. \A n \in Messages \ {m} : OwnedBySome(n)' <=> OwnedBySome(n)
    BY <1>2, <1>5 DEF OwnedBySome
  <2> QED BY <1>1, <1>2, <1>4, <2>1, HandRecord
<1> QED BY <1>6, <1>7, <1>8, <1>9, <1>10, <1>11, <1>12 DEF Inv, PlacesSound

LEMMA PutKeeps ==
    ASSUME Inv, NEW t \in Tasks, PutRemote(t) \/ (PutLocal(t) /\ UNCHANGED transportVars) PROVE Inv'
<1>1. CASE PutRemote(t)
  <2>1. PICK m \in Messages : MaySend(t, m) /\ queueId[m] # home[t] /\ GiveAway(t, m)
    BY <1>1 DEF PutRemote
  <2>2. Goto(t, "enter") /\ UNCHANGED <<lists, synchronizer, unblocked, history, transportVars>>
    BY <1>1 DEF PutRemote
  <2> QED BY <2>1, <2>2, GiveAwayKeeps
<1>2. CASE PutLocal(t) /\ UNCHANGED transportVars
  <2>1. PICK m \in Messages : MaySend(t, m) /\ queueId[m] = home[t] /\ GiveAway(t, m)
    BY <1>2 DEF PutLocal
  <2>2. Goto(t, "enqueue") /\ UNCHANGED <<lists, synchronizer, unblocked, history, transportVars>>
    BY <1>2 DEF PutLocal
  <2> QED BY <2>1, <2>2, GiveAwayKeeps
<1> QED BY <1>1, <1>2

\* A put returns: the message that could not be sent is its caller's again.
LEMMA LeaveKeeps ==
    ASSUME Inv, NEW t \in Tasks, Leave(t) PROVE Inv'
<1>1. /\ UNCHANGED <<lists, synchronizer, unblocked, history, list, link, event, posted>>
      /\ pc[t] = "leave" /\ gate' = Tail(gate) /\ Goto(t, "idle") /\ Hold(t, NoMsg)
      /\ owns' = [owns EXCEPT ![t] = @ \cup ({held[t]} \ {NoMsg})]
      /\ gateSwi' = [gateSwi EXCEPT ![home[t]] = None]
      /\ t \in Threads /\ t \notin Procs
  BY Procs2 DEF Leave
<1>2. UNCHANGED <<list, normalList, highList, via, sent, got>>
  BY <1>1 DEF lists, history
<1>3. Moves(t, "idle", NoMsg)
  BY <1>1, GotoHoldMoves DEF Inv
<1>4. owns \in [Tasks -> SUBSET Messages] /\ held[t] \in Messages \cup {NoMsg}
  BY <1>1 DEF Inv, Types, QueueTypeOK
<1>5. GateSound' /\ gate' \in Seq(Threads) /\ gateSwi' \in [Procs -> Tasks \cup {None}]
  BY <1>1, <1>3, GateLeft DEF Inv, GateLabels
<1>6. Types'
  <2>1. owns' \in [Tasks -> SUBSET Messages]
    BY <1>1, <1>4
  <2> QED BY <1>1, <1>2, <1>3, <1>5, <2>1 DEF Inv, Types, QueueTypeOK, Moves
<1>7. ThreadsSound'
  <2>1. ThreadSound(t, "idle", NoMsg, via')
    BY <1>1 DEF ThreadSound, TaskLabels, PutLabels
  <2> QED BY <1>1, <1>2, <1>3, <2>1, ThreadsMoved DEF Inv
<1>8. /\ UndecidedIsLast' /\ MailSound' /\ NoneStranded'
      /\ \A x \in Threads : Undecided(x)' <=> Undecided(x)
      /\ \A u \in Tasks : Undecided(u) => u # t /\ held'[u] = held[u]
  BY <1>1, <1>3, HandStep
<1>9. ListsSound'
  BY <1>2, <1>8, ListsKept, Procs2
<1>10. CASE held[t] = NoMsg
  <2>1. owns' = owns /\ held' = held
    BY <1>1, <1>4, <1>10 DEF Hold, Inv, Types, QueueTypeOK
  <2>2. \A n \in Messages, j \in Kinds, z \in Threads : Spot(n, j, z)' <=> Spot(n, j, z)
    BY <1>2, <1>8, <2>1 DEF Spot
  <2>3. OneSpot'
    BY <2>2 DEF OneSpot, Inv, PlacesSound
  <2>4. \A n \in Messages : OwnedBySome(n)' <=> OwnedBySome(n)
    BY <2>1 DEF OwnedBySome
  <2>5. \A n, o \in Messages : Ahead(n, o)' <=> Ahead(n, o)
    BY <1>2, <2>1 DEF Ahead, Waits, SwiHas, Travels
  <2>6. RecordSound'
    BY <1>2, <2>4, <2>5, RecordKept DEF Inv
  <2> QED BY <1>5, <1>6, <1>7, <1>8, <1>9, <2>3, <2>6 DEF Inv, PlacesSound
<1>11. CASE held[t] # NoMsg
  <2>1. PICK m \in Messages : m = held[t] /\ m # NoMsg /\ via[m] = NoPath
    BY <1>4, <1>11, TaskIs DEF Inv
  <2>2. owns' = [owns EXCEPT ![t] = @ \cup {m}]
    BY <1>1, <2>1
  <2>3. OneSpot'
    <3>1. Spot(m, "held", t) /\ ~ Undecided(t)
      BY <1>1, <2>1 DEF Spot, Undecided
    <3>2. Spot(m, "owned", t)'
      BY <1>4, <2>2 DEF Spot
    <3>3. ~ Spot(m, "held", t)'
      BY <1>3, <2>1 DEF Spot, Moves
    <3>4. ASSUME NEW n \in Messages, NEW j \in Kinds, NEW z \in Threads
          PROVE  \/ n = m /\ ((j = "held" /\ z = t) \/ (j = "owned" /\ z = t))
                 \/ Spot(n, j, z)' <=> Spot(n, j, z)
      <4>1. (n = m /\ z = t) \/ (n \in owns'[z] <=> n \in owns[z]) \/ z \notin Tasks
        BY <1>4, <2>2
      <4>2. (n = m /\ z = t) \/ (held'[z] = n <=> held[z] = n)
        BY <1>3, <2>1 DEF Moves
      <4> QED BY <1>2, <1>8, <4>1, <4>2 DEF Spot
    <3> QED BY <1>1, <3>1, <3>2, <3>3, <3>4, SpotMoved DEF Kinds, Inv, PlacesSound
  <2>4. RecordSound'
    <3>1. \A n \in Messages \ {m} : OwnedBySome(n)' <=> OwnedBySome(n)
      BY <1>4, <2>2 DEF OwnedBySome
    <3> QED BY <1>1, <1>3, <2>1, <3>1, HandRecord
  <2> QED BY <1>5, <1>6, <1>7, <1>8, <1>9, <2>3, <2>4 DEF Inv, PlacesSound
<1> QED BY <1>10, <1>11

-----------------------------------------------------------------------------
(* The transport's list                                                     *)

\* While a thread is inside, no put of another one is undecided, and no Swi is about to end.
LEMMA InsideAlone ==
    ASSUME Inv, NEW th \in Threads, pc[th] \in InsideLabels
    PROVE  /\ \A t \in Tasks : Undecided(t) => t = th
           /\ \A p \in Procs : pc[p] = "leave" => p = th
           /\ \A t \in Tasks : pc[t] = "remove" => t = th
           /\ Head(gate) = th
BY OneInside, Procs2 DEF Inv, Undecided, InsideLabels, GateLabels, GateSound

\* A thread that is inside, before and after the step.
LEMMA InsideQuiet ==
    ASSUME Inv, NEW th \in Threads, NEW l, NEW m, Moves(th, l, m), UNCHANGED <<gate, gateSwi>>,
           pc[th] \in InsideLabels, l \in InsideLabels
    PROVE  GateSound'
<1>1. Head(gate) = th /\ pc[th] \in GateLabels /\ l \in GateLabels
  BY InsideAlone DEF InsideLabels
<1>2. th \in Procs => gateSwi[th] = None
  BY DEF Inv, GateSound, InsideLabels, GateLabels
<1> QED BY <1>1, <1>2, GateQuiet DEF Inv

LEMMA InsertKeeps ==
    ASSUME Inv, NEW t \in Tasks, Insert(t) PROVE Inv'
<1> DEFINE q == Peer(home[t])
<1>1. /\ UNCHANGED <<owns, held, lists, synchronizer, unblocked, history, link, gate, gateSwi, event, posted>>
      /\ pc[t] = "insert" /\ Goto(t, "notify") /\ list' = [list EXCEPT ![q] = Append(@, held[t])]
      /\ t \in Threads /\ t \notin Procs /\ q \in Procs /\ q # home[t] /\ home[t] \in Procs
      /\ UNCHANGED <<normalList, highList, via, sent, got>>
  BY Procs2 DEF Insert, lists, history
<1>2. \A p \in Procs : p # home[t] => p = q
  BY Procs2
<1> HIDE DEF q
<1>3. PICK m \in Messages : /\ m = held[t] /\ via[m] = NoPath /\ queueId[m] = q
  <2>1. held[t] # NoMsg /\ via[held[t]] = NoPath /\ queueId[held[t]] # home[t]
    BY <1>1, TaskIs DEF Inv, PutLabels
  <2>2. held[t] \in Messages
    BY <1>1, <2>1 DEF Inv, Types, QueueTypeOK
  <2> QED BY <1>2, <2>1, <2>2
<1>4. Moves(t, "notify", m)
  BY <1>1, <1>3, GotoMoves DEF Inv
<1>5. /\ \A u \in Tasks : ~ Undecided(u)
      /\ \A p \in Procs : pc[p] # "leave"
      /\ \A u \in Tasks : pc[u] # "remove"
  BY <1>1, InsideAlone, Procs2 DEF Undecided, InsideLabels, GateLabels
<1>6. \A u \in Tasks : Undecided(u)' <=> u = t
  BY <1>1, <1>4, <1>5, UndecidedAfter
<1>7. ~ Has(list[q], m)
  <2>1. Spot(m, "held", t)
    BY <1>1, <1>3, <1>5 DEF Spot
  <2>2. ~ Spot(m, "transport", q)
    BY <1>1, <2>1, OneSpotOnly, Procs2 DEF Kinds, Inv, PlacesSound
  <2> QED BY <1>1, <2>2 DEF Spot
<1>8. /\ list[q] \in Seq(Messages) /\ list \in [Procs -> Seq(Messages)] /\ Distinct(list[q])
      /\ \A p \in Procs : p # q => list'[p] = list[p]
      /\ list'[q] = Append(list[q], m)
  BY <1>1, <1>3 DEF Inv, Types, PlacesSound, ListsSound
<1>9. /\ list'[q] \in Seq(Messages) /\ list'[q] # <<>> /\ Len(list'[q]) = Len(list[q]) + 1
      /\ list'[q][Len(list[q]) + 1] = m
      /\ \A n : Has(list'[q], n) <=> Has(list[q], n) \/ n = m
      /\ Distinct(list'[q])
      /\ \A n, o : Before(list'[q], n, o) => Before(list[q], n, o) \/ (Has(list[q], n) /\ o = m)
  <2>1. PICK s \in Seq(Messages) : s = list[q]
    BY <1>8
  <2>2. PICK a : a = Append(s, m)
    OBVIOUS
  <2>3. /\ a \in Seq(Messages) /\ a # <<>> /\ Len(a) = Len(s) + 1 /\ a[Len(s) + 1] = m
        /\ \A n : Has(a, n) <=> Has(s, n) \/ n = m
        /\ Distinct(s) /\ ~ Has(s, m) => Distinct(a)
        /\ \A n, o : Before(a, n, o) => Before(s, n, o) \/ (Has(s, n) /\ o = m)
    BY <2>2, AppendEffect
  <2>4. list'[q] = a
    BY <1>8, <2>1, <2>2
  <2> QED BY <1>7, <1>8, <2>1, <2>3, <2>4
<1>10. Types'
  <2>1. list' \in [Procs -> Seq(Messages)]
    BY <1>1, <1>3, <1>8
  <2> QED BY <1>1, <1>4, <2>1 DEF Inv, Types, QueueTypeOK, Moves
<1>11. ThreadsSound'
  <2>1. ThreadSound(t, "insert", m, via)
    BY <1>1, <1>3 DEF Inv, ThreadsSound
  <2>2. ThreadSound(t, "notify", m, via')
    BY <1>1, <2>1 DEF ThreadSound, TaskLabels, PutLabels
  <2> QED BY <1>1, <1>4, <2>2, ThreadsMoved DEF Inv
<1>12. GateSound'
  BY <1>1, <1>4, InsideQuiet DEF InsideLabels, GateLabels
<1>13. ListsSound'
  <2>1. held'[t] = m
    BY <1>1, <1>3
  <2>2. ASSUME NEW p \in Procs, NEW n \in Messages, Has(list'[p], n)
        PROVE  queueId[n] = p /\ (via[n] = "remote" \/ n = m)
    <3>1. Has(list[p], n) => queueId[n] = p /\ via[n] = "remote"
      BY <1>5 DEF Inv, PlacesSound, ListsSound
    <3>2. Has(list[p], n) \/ (p = q /\ n = m)
      BY <1>8, <1>9, <2>2
    <3> QED BY <1>3, <3>1, <3>2
  <2>3. \A p \in Procs : Distinct(list'[p])
    BY <1>8, <1>9 DEF Inv, PlacesSound, ListsSound
  <2> QED BY <1>1, <1>6, <2>1, <2>2, <2>3 DEF ListsSound, Inv, PlacesSound
<1>14. UndecidedIsLast'
  <2>1. home' = home
    OBVIOUS
  <2> QED BY <1>1, <1>3, <1>6, <1>9 DEF UndecidedIsLast, q
<1>15. OneSpot'
  <2>1. Spot(m, "held", t) /\ Spot(m, "transport", q)'
    BY <1>1, <1>3, <1>5, <1>9 DEF Spot
  <2>2. ~ Spot(m, "held", t)'
    BY <1>6 DEF Spot
  <2>3. ASSUME NEW n \in Messages, NEW j \in Kinds, NEW z \in Threads
        PROVE  \/ n = m /\ ((j = "held" /\ z = t) \/ (j = "transport" /\ z = q))
               \/ Spot(n, j, z)' <=> Spot(n, j, z)
    <3>1. (n = m /\ z = q) \/ z \notin Procs \/ (Has(list'[z], n) <=> Has(list[z], n))
      BY <1>8, <1>9
    <3>2. (n = m /\ z = t) \/ (held'[z] = n /\ ~ Undecided(z)' <=> held[z] = n /\ ~ Undecided(z))
      <4>1. held' = held
        BY <1>1
      <4>2. Undecided(z)' <=> z = t
        BY <1>6 DEF Undecided
      <4>3. ~ Undecided(z)
        BY <1>5 DEF Undecided
      <4> QED BY <1>3, <4>1, <4>2, <4>3
    <3>3. CASE n = m /\ z = t
      <4>1. CASE j = "held"
        <5>1. n = m /\ ((j = "held" /\ z = t) \/ (j = "transport" /\ z = q))
          BY <3>3, <4>1
        <5> QED BY <5>1
      <4>2. CASE j # "held"
        BY <1>1, <3>3, <4>2 DEF Spot
      <4> QED BY <4>1, <4>2
    <3>5. CASE n = m /\ z = q
      <4>1. held'[z] = n /\ ~ Undecided(z)' <=> held[z] = n /\ ~ Undecided(z)
        BY <1>1, <3>2, <3>5
      <4>2. j = "transport" \/ (Spot(n, j, z)' <=> Spot(n, j, z))
        BY <1>1, <4>1 DEF Spot
      <4> QED BY <3>5, <4>2
    <3>4. CASE ~ (n = m /\ (z = t \/ z = q))
      BY <1>1, <3>1, <3>2, <3>4 DEF Spot
    <3> QED BY <3>3, <3>4, <3>5
  <2>4. (Spot(m, "held", t) => "held" = "transport" /\ t = q)'
    BY <2>2
  <2>5. OneSpot /\ q \in Threads /\ "transport" \in Kinds /\ "held" \in Kinds
    BY <1>1, Procs2 DEF Kinds, Inv, PlacesSound
  <2> QED BY <1>1, <2>1, <2>3, <2>4, <2>5, SpotMoved
<1>16. MailSound'
  <2>1. ASSUME NEW u \in Tasks PROVE pc'[u] # "remove"
    BY <1>4, <1>5, Procs2 DEF Moves
  <2>2. ASSUME NEW p \in Procs PROVE pc'[p] # "leave"
    BY <1>1, <1>4, <1>5, Procs2 DEF Moves
  <2>3. ASSUME NEW p \in Procs, link[p] = "down", list'[p] # <<>>
        PROVE  p = q /\ list'[p] = <<m>>
    <3>1. list[p] = <<>>
      BY <1>5, <2>3 DEF Inv, PlacesSound, MailSound
    <3>2. p = q
      BY <1>8, <2>3, <3>1
    <3> QED BY <1>8, <3>1, <3>2
  <2> QED BY <1>1, <1>3, <1>6, <2>1, <2>2, <2>3 DEF MailSound
<1>17. NoneStranded'
  <2>1. \A p \in Procs : p # q /\ list'[p] # <<>> => event[p] \/ posted[p] \/ pc'[p] # "off"
    <3>1. \A p \in Procs : pc'[p] = pc[p]
      BY <1>1, <1>4, Procs2 DEF Moves
    <3> QED BY <1>5, <1>8, <3>1 DEF Inv, PlacesSound, NoneStranded
  <2> QED BY <1>1, <1>6, <2>1 DEF NoneStranded, q
<1>18. RecordSound'
  <2>1. \A n \in Messages : OwnedBySome(n)' <=> OwnedBySome(n)
    BY <1>1 DEF OwnedBySome
  <2>2. ASSUME NEW n \in Messages \ {m}, NEW o \in Messages \ {m}, Ahead(n, o)' PROVE Ahead(n, o)
    <3>1. \A p \in Procs : Before(list'[p], n, o) => Before(list[p], n, o)
      BY <1>8, <1>9
    <3>2. Travels(o)' => Travels(o)
      BY <1>8, <1>9 DEF Travels
    <3>3. /\ Waits(n)' <=> Waits(n)
          /\ SwiHas(n)' <=> SwiHas(n)
          /\ SwiHas(o)' <=> SwiHas(o)
      BY <1>1 DEF Waits, SwiHas
    <3> QED BY <1>1, <2>2, <3>1, <3>2, <3>3 DEF Ahead
  <2>3. \A n \in Messages \ UrgentPri : via[n] # NoPath => n \in Messages \ {m}
    BY <1>3
  <2> QED BY <1>1, <2>1, <2>2, <2>3, RecordKept DEF Inv
<1> QED BY <1>10, <1>11, <1>12, <1>13, <1>14, <1>15, <1>16, <1>17, <1>18 DEF Inv, PlacesSound

\* What is known of a put that is not decided.
LEMMA UndecidedKnown ==
    ASSUME Inv, NEW t \in Tasks, Undecided(t), NEW q, q = Peer(home[t])
    PROVE  /\ t \in Threads /\ t \notin Procs /\ q \in Procs /\ held[t] \in Messages /\ held[t] # NoMsg
           /\ via[held[t]] = NoPath /\ queueId[held[t]] = q
           /\ list[q] \in Seq(Messages) /\ list[q] # <<>> /\ Len(list[q]) \in Nat \ {0}
           /\ list[q][Len(list[q])] = held[t] /\ Has(list[q], held[t]) /\ Distinct(list[q])
           /\ \A u \in Tasks : Undecided(u) => u = t
           /\ \A p \in Procs : pc[p] # "leave"
           /\ \A p \in Procs : Has(list[p], held[t]) => p = q
           /\ \A p \in Procs : ~ Has(normalList[p], held[t]) /\ ~ Has(highList[p], held[t])
           /\ \A x \in Threads : held[x] = held[t] => x = t
           /\ ~ OwnedBySome(held[t])
<1>1. /\ t \in Threads /\ t \notin Procs /\ home[t] \in Procs /\ q \in Procs /\ q # home[t]
      /\ \A p \in Procs : p # home[t] => p = q
  BY Procs2
<1>2. pc[t] \in {"notify", "remove"}
  BY DEF Undecided
<1>3. held[t] # NoMsg /\ via[held[t]] = NoPath /\ queueId[held[t]] # home[t]
  BY <1>2, TaskIs DEF Inv, PutLabels
<1>4. PICK m \in Messages : m = held[t]
  BY <1>1, <1>3 DEF Inv, Types, QueueTypeOK
<1>5. queueId[m] = q
  BY <1>1, <1>3, <1>4
<1>6. /\ list[q] \in Seq(Messages) /\ list[q] # <<>> /\ list[q][Len(list[q])] = m /\ Distinct(list[q])
  BY <1>1, <1>4 DEF Inv, Types, PlacesSound, UndecidedIsLast, ListsSound
<1>7. Len(list[q]) \in Nat \ {0} /\ Has(list[q], m)
  BY <1>6 DEF Has
<1>8. Spot(m, "transport", q) /\ q \in Threads
  BY <1>1, <1>7, Procs2 DEF Spot
<1>9. /\ \A u \in Tasks : Undecided(u) => u = t
      /\ \A p \in Procs : pc[p] # "leave"
  BY <1>1, <1>2, InsideAlone DEF InsideLabels, GateLabels
<1>10. \A j \in Kinds, z \in Threads : Spot(m, j, z) => j = "transport" /\ z = q
  BY <1>8, OneSpotOnly DEF Kinds, Inv, PlacesSound
<1>11. \A p \in Procs : Has(list[p], m) => p = q
  BY <1>10, Procs2 DEF Spot, Kinds
<1>12. \A p \in Procs : ~ Has(normalList[p], m) /\ ~ Has(highList[p], m)
  BY <1>10, Procs2 DEF Spot, Kinds
<1>13. \A x \in Threads : held[x] = m => x = t
  BY <1>9, <1>10 DEF Spot, Kinds, Undecided
<1>14. ~ OwnedBySome(m)
  BY <1>10, Procs2 DEF Spot, Kinds, OwnedBySome
<1> QED BY <1>1, <1>3, <1>4, <1>5, <1>6, <1>7, <1>9, <1>11, <1>12, <1>13, <1>14

\* The put is decided: its message is sent, the last one on the transport's list.
LEMMA NotifyKeeps ==
    ASSUME Inv, NEW t \in Tasks, Notify(t) PROVE Inv'
<1> DEFINE q == Peer(home[t])
<1>1. /\ UNCHANGED <<owns, lists, list, synchronizer, unblocked, link, gate, gateSwi, posted, got>>
      /\ pc[t] = "notify" /\ Goto(t, "leave") /\ Hold(t, NoMsg) /\ Sent(held[t], "remote")
      /\ event' = [event EXCEPT ![q] = TRUE] /\ link[q] # "down"
      /\ UNCHANGED <<normalList, highList>>
  BY DEF Notify, lists, Sent
<1>2. PICK r : r = q
  OBVIOUS
<1> HIDE DEF q
<1>3. Undecided(t) /\ r = Peer(home[t])
  BY <1>1, <1>2 DEF Undecided, q
<1>4. PICK m \in Messages : m = held[t]
  BY <1>3, UndecidedKnown
<1>5. /\ t \in Threads /\ t \notin Procs /\ r \in Procs /\ m # NoMsg
      /\ via[m] = NoPath /\ queueId[m] = r
      /\ list[r] \in Seq(Messages) /\ list[r] # <<>> /\ Len(list[r]) \in Nat \ {0}
      /\ list[r][Len(list[r])] = m /\ Has(list[r], m) /\ Distinct(list[r])
      /\ \A u \in Tasks : Undecided(u) => u = t
      /\ \A p \in Procs : pc[p] # "leave"
      /\ \A p \in Procs : Has(list[p], m) => p = r
      /\ \A p \in Procs : ~ Has(normalList[p], m) /\ ~ Has(highList[p], m)
      /\ \A x \in Threads : held[x] = m => x = t
      /\ ~ OwnedBySome(m)
  BY <1>3, <1>4, UndecidedKnown
<1>6. Moves(t, "leave", NoMsg)
  BY <1>1, <1>5, GotoHoldMoves DEF Inv
<1>7. /\ via' = [via EXCEPT ![m] = "remote"] /\ via'[m] = "remote" /\ Sent(m, "remote")
      /\ \A n \in Messages : n # m => via'[n] = via[n]
      /\ via' \in [Messages -> Paths \cup {NoPath}]
  BY <1>1, <1>4 DEF Sent, Inv, Types, QueueTypeOK, Paths
<1>8. \A u \in Tasks : ~ Undecided(u)'
  BY <1>5, <1>6, UndecidedAfter
<1>9. Types'
  <2>1. event' \in [Procs -> BOOLEAN]
    BY <1>1 DEF Inv, Types
  <2>2. ChannelOf(m, "remote") \in Channels
    BY ChannelIs DEF Paths
  <2>3. sent' \in [Channels -> Seq(Messages)]
    BY <1>7, <2>2 DEF Sent, Record, Inv, Types, QueueTypeOK
  <2> QED BY <1>1, <1>6, <1>7, <2>1, <2>3 DEF Inv, Types, QueueTypeOK, Moves
<1>10. ThreadsSound'
  <2>1. ThreadSound(t, "leave", NoMsg, via')
    BY <1>5 DEF ThreadSound, TaskLabels, PutLabels
  <2>2. \A u \in Threads : u # t /\ held[u] # NoMsg => held[u] \in Messages /\ held[u] # m
    BY <1>5 DEF Inv, Types, QueueTypeOK
  <2>3. \A u \in Threads : u # t /\ held[u] # NoMsg => via'[held[u]] = via[held[u]]
    BY <1>7, <2>2
  <2> QED BY <1>5, <1>6, <2>1, <2>3, ThreadsMoved DEF Inv
<1>11. GateSound'
  BY <1>1, <1>5, <1>6, InsideQuiet DEF InsideLabels, GateLabels
<1>12. ListsSound'
  <2>1. ASSUME NEW p \in Procs, NEW n \in Messages, Has(list[p], n)
        PROVE  queueId[n] = p /\ via'[n] = "remote"
    <3>1. queueId[n] = p /\ (via[n] = "remote" \/ n = m)
      BY <1>4, <1>5, <2>1 DEF Inv, PlacesSound, ListsSound
    <3> QED BY <1>7, <3>1
  <2>2. \A n \in Messages : via[n] # NoPath => via'[n] # NoPath
    BY <1>5, <1>7
  <2> QED BY <1>1, <2>1, <2>2 DEF ListsSound, Inv, PlacesSound
<1>13. UndecidedIsLast'
  BY <1>8 DEF UndecidedIsLast
<1>14. OneSpot'
  <2>1. ASSUME NEW x \in Threads, NEW n \in Messages
        PROVE  (held'[x] = n /\ ~ Undecided(x)') <=> (held[x] = n /\ ~ Undecided(x))
    <3>1. CASE x = t
      <4>1. held'[x] = NoMsg /\ NoMsg # n
        BY <1>6, <2>1, <3>1, PriorityAssumption DEF Moves
      <4> QED BY <1>3, <3>1, <4>1
    <3>2. CASE x # t
      <4>1. held'[x] = held[x] /\ ~ Undecided(x)
        BY <1>5, <1>6, <3>2 DEF Moves, Undecided
      <4>2. ~ Undecided(x)'
        BY <1>8 DEF Undecided
      <4> QED BY <4>1, <4>2
    <3> QED BY <3>1, <3>2
  <2>2. \A n \in Messages, k \in Kinds, x \in Threads : Spot(n, k, x)' <=> Spot(n, k, x)
    BY <1>1, <2>1 DEF Spot
  <2> QED BY <2>2 DEF Inv, PlacesSound, OneSpot
<1>15. MailSound'
  <2>1. ASSUME NEW u \in Tasks PROVE pc'[u] # "remove"
    BY <1>8, <2>1 DEF Undecided
  <2>2. ASSUME NEW p \in Procs PROVE pc'[p] # "leave"
    BY <1>5, <1>6, Procs2 DEF Moves
  <2>3. ASSUME NEW p \in Procs, link[p] = "down" PROVE list[p] = <<>>
    <3>1. SUFFICES ASSUME list[p] # <<>> PROVE FALSE
      OBVIOUS
    <3>2. list[p] = <<m>>
      BY <1>4, <1>5, <2>3, <3>1 DEF Inv, PlacesSound, MailSound
    <3>3. Has(list[p], m)
      BY <3>2, Singleton
    <3> QED BY <1>1, <1>2, <1>5, <2>3, <3>3
  <2> QED BY <1>1, <2>1, <2>2, <2>3 DEF MailSound
<1>16. NoneStranded'
  <2>1. event'[r] /\ \A p \in Procs : event[p] => event'[p]
    BY <1>1, <1>2, <1>5 DEF Inv, Types
  <2>2. \A p \in Procs : pc'[p] = pc[p]
    BY <1>5, <1>6, Procs2 DEF Moves
  <2> QED BY <1>1, <1>3, <1>5, <2>1, <2>2 DEF NoneStranded, Inv, PlacesSound
<1>17. RecordSound'
  <2>1. \A n \in Messages : OwnedBySome(n)' <=> OwnedBySome(n)
    BY <1>1 DEF OwnedBySome
  <2>2. ASSUME NEW n \in Messages PROVE /\ SwiHas(n)' <=> SwiHas(n)
                                        /\ Waits(n)' <=> Waits(n)
                                        /\ Travels(n)' <=> Travels(n)
    <3>1. \A p \in Procs : held'[p] = held[p]
      BY <1>5, <1>6, Procs2 DEF Moves
    <3> QED BY <1>1, <3>1 DEF SwiHas, Waits, Travels
  <2>3. ASSUME NEW n \in Messages, NEW o \in Messages PROVE Ahead(n, o)' <=> Ahead(n, o)
    BY <1>1, <2>2 DEF Ahead
  <2>4. ~ Waits(m) /\ ~ SwiHas(m)
    BY <1>5, Procs2 DEF Waits, SwiHas
  <2>5. ASSUME NEW n \in Messages PROVE ~ Ahead(m, n)
    <3>1. ASSUME NEW p \in Procs, Before(list[p], m, n) PROVE FALSE
      <4>1. PICK i, j \in 1 .. Len(list[p]) : i < j /\ list[p][i] = m /\ list[p][j] = n
        BY <3>1 DEF Before
      <4>2. p = r
        BY <1>5, <4>1 DEF Has
      <4>3. i = Len(list[r])
        BY <1>5, <4>1, <4>2 DEF Distinct
      <4> QED BY <1>5, <4>1, <4>2, <4>3
    <3>2. \A p \in Procs : ~ Before(normalList[p], m, n) /\ ~ Before(highList[p], m, n)
      BY <1>5 DEF Before, Has
    <3> QED BY <2>4, <3>1, <3>2 DEF Ahead
  <2> QED BY <1>5, <1>7, <2>1, <2>3, <2>5, RecordSent DEF Inv, Paths
<1> QED BY <1>9, <1>10, <1>11, <1>12, <1>13, <1>14, <1>15, <1>16, <1>17 DEF Inv, PlacesSound

\* The put fails: its message is taken off the list, where it is alone.
LEMMA RemoveFromListKeeps ==
    ASSUME Inv, NEW t \in Tasks, RemoveFromList(t) PROVE Inv'
<1> DEFINE q == Peer(home[t])
<1>1. /\ UNCHANGED <<owns, held, lists, synchronizer, unblocked, history, link, gate, gateSwi, event, posted>>
      /\ pc[t] = "remove" /\ Goto(t, "leave")
      /\ UNCHANGED <<normalList, highList, via, sent, got>>
  BY DEF RemoveFromList, lists, history
<1>2. PICK r : r = q
  OBVIOUS
<1>3. Undecided(t) /\ r = Peer(home[t])
  BY <1>1, <1>2 DEF Undecided
<1>4. PICK m \in Messages : m = held[t]
  BY <1>3, UndecidedKnown
<1>5. /\ t \in Threads /\ t \notin Procs /\ r \in Procs /\ m # NoMsg
      /\ via[m] = NoPath /\ queueId[m] = r
      /\ \A u \in Tasks : Undecided(u) => u = t
      /\ \A p \in Procs : pc[p] # "leave"
      /\ ~ OwnedBySome(m) /\ Has(list[r], m)
      /\ \A p \in Procs : Has(list[p], m) => p = r
      /\ \A x \in Threads : held[x] = m => x = t
  BY <1>3, <1>4, UndecidedKnown
<1>6. list[r] = <<m>>
  BY <1>1, <1>3, <1>4 DEF Inv, PlacesSound, MailSound
<1>7. list' = [list EXCEPT ![r] = <<>>]
  <2>1. PICK s : s = list[r]
    OBVIOUS
  <2>2. PICK i \in DOMAIN s : list' = [list EXCEPT ![r] = SubSeq(s, 1, i - 1) \o SubSeq(s, i + 1, Len(s))]
    BY <1>2, <2>1 DEF RemoveFromList
  <2>3. DOMAIN <<m>> = {1} /\ SubSeq(<<m>>, 1, 1 - 1) \o SubSeq(<<m>>, 1 + 1, Len(<<m>>)) = <<>>
    BY Singleton
  <2>4. i = 1
    BY <1>6, <2>1, <2>2, <2>3
  <2> QED BY <1>6, <2>1, <2>2, <2>3, <2>4
<1> HIDE DEF q
<1>8. Moves(t, "leave", m)
  BY <1>1, <1>4, <1>5, GotoMoves DEF Inv
<1>9. \A u \in Tasks : ~ Undecided(u)'
  BY <1>5, <1>8, UndecidedAfter
<1>10. /\ list' \in [Procs -> Seq(Messages)] /\ list'[r] = <<>>
       /\ \A p \in Procs : p # r => list'[p] = list[p]
  <2>1. list \in [Procs -> Seq(Messages)] /\ <<>> \in Seq(Messages)
    BY DEF Inv, Types
  <2> QED BY <1>5, <1>7, <2>1
<1>11. Types'
  BY <1>1, <1>8, <1>10 DEF Inv, Types, QueueTypeOK, Moves
<1>12. ThreadsSound'
  <2>1. ThreadSound(t, "remove", m, via)
    BY <1>1, <1>4, <1>5 DEF Inv, ThreadsSound
  <2>2. ThreadSound(t, "leave", m, via')
    BY <1>1, <1>5, <2>1 DEF ThreadSound, TaskLabels, PutLabels
  <2> QED BY <1>1, <1>5, <1>8, <2>2, ThreadsMoved DEF Inv
<1>13. GateSound'
  BY <1>1, <1>5, <1>8, InsideQuiet DEF InsideLabels, GateLabels
<1>14. ASSUME NEW p \in Procs, NEW n \in Messages
       PROVE  Has(list'[p], n) <=> Has(list[p], n) /\ n # m
  <2>1. CASE p = r
    <3>1. Has(<<m>>, n) <=> n = m
      BY Singleton
    <3>2. ~ Has(<<>>, n)
      BY EmptyHas
    <3> QED BY <1>6, <1>10, <2>1, <3>1, <3>2
  <2>2. CASE p # r
    BY <1>5, <1>10, <2>2
  <2> QED BY <2>1, <2>2
<1>15. ListsSound'
  <2>1. \A p \in Procs : Distinct(list'[p])
    <3>1. Distinct(<<>>)
      BY DEF Distinct
    <3> QED BY <1>10, <3>1 DEF Inv, PlacesSound, ListsSound
  <2>2. ASSUME NEW p \in Procs, NEW n \in Messages, Has(list'[p], n)
        PROVE  queueId[n] = p /\ via[n] = "remote"
    BY <1>4, <1>5, <1>14, <2>2 DEF Inv, PlacesSound, ListsSound
  <2> QED BY <1>1, <2>1, <2>2 DEF ListsSound, Inv, PlacesSound
<1>16. UndecidedIsLast'
  BY <1>9 DEF UndecidedIsLast
<1>17. OneSpot'
  <2>1. Spot(m, "transport", r) /\ Spot(m, "held", t)' /\ ~ Spot(m, "transport", r)'
    BY <1>1, <1>4, <1>5, <1>9, <1>14 DEF Spot
  <2>2. ASSUME NEW n \in Messages, NEW j \in Kinds, NEW z \in Threads
        PROVE  \/ n = m /\ ((j = "transport" /\ z = r) \/ (j = "held" /\ z = t))
               \/ (Spot(n, j, z)' <=> Spot(n, j, z))
    <3>1. CASE n = m /\ j = "transport"
      <4>1. z = r \/ (~ Spot(n, j, z)' /\ ~ Spot(n, j, z))
        BY <1>5, <1>14, <3>1 DEF Spot
      <4> QED BY <3>1, <4>1
    <3>2. CASE n # m /\ j = "transport"
      BY <1>14, <3>2 DEF Spot
    <3>3. CASE j = "held"
      <4>1. ~ Undecided(z)' /\ held'[z] = held[z] /\ (z # t => ~ Undecided(z))
        BY <1>1, <1>5, <1>9 DEF Undecided
      <4>2. CASE z = t /\ n = m
        <5>1. n = m /\ ((j = "transport" /\ z = r) \/ (j = "held" /\ z = t))
          BY <3>3, <4>2
        <5> QED BY <5>1
      <4>3. CASE z = t /\ n # m
        BY <1>4, <3>3, <4>1, <4>3 DEF Spot
      <4>4. CASE z # t
        BY <3>3, <4>1, <4>4 DEF Spot
      <4> QED BY <4>2, <4>3, <4>4
    <3>4. CASE j \notin {"transport", "held"}
      BY <1>1, <3>4 DEF Spot
    <3> QED BY <3>1, <3>2, <3>3, <3>4
  <2>3. (Spot(m, "transport", r) => "transport" = "held" /\ r = t)'
    BY <2>1
  <2>4. OneSpot /\ r \in Threads /\ "transport" \in Kinds /\ "held" \in Kinds
    BY <1>5, Procs2 DEF Kinds, Inv, PlacesSound
  <2> QED BY <1>5, <2>1, <2>2, <2>3, <2>4, SpotMoved
<1>18. MailSound'
  <2>1. ASSUME NEW u \in Tasks PROVE pc'[u] # "remove"
    BY <1>9, <2>1 DEF Undecided
  <2>2. ASSUME NEW p \in Procs PROVE pc'[p] # "leave"
    BY <1>5, <1>8, Procs2 DEF Moves
  <2>3. ASSUME NEW p \in Procs, link[p] = "down" PROVE list'[p] = <<>>
    <3>1. SUFFICES ASSUME list'[p] # <<>> PROVE FALSE
      OBVIOUS
    <3>2. p # r /\ list[p] # <<>>
      BY <1>10, <3>1
    <3>3. list[p] = <<m>>
      BY <1>4, <1>5, <2>3, <3>2 DEF Inv, PlacesSound, MailSound
    <3>4. Has(list[p], m)
      BY <3>3, Singleton
    <3> QED BY <1>5, <3>2, <3>4
  <2> QED BY <1>1, <2>1, <2>2, <2>3 DEF MailSound
<1>19. NoneStranded'
  <2>1. \A p \in Procs : pc'[p] = pc[p]
    BY <1>5, <1>8, Procs2 DEF Moves
  <2>2. ASSUME NEW p \in Procs, list'[p] # <<>> PROVE p # r /\ list[p] # <<>>
    BY <1>10, <2>2
  <2> QED BY <1>1, <1>3, <1>5, <2>1, <2>2 DEF NoneStranded, Inv, PlacesSound
<1>20. RecordSound'
  <2>1. \A n \in Messages : OwnedBySome(n)' <=> OwnedBySome(n)
    BY <1>1 DEF OwnedBySome
  <2>2. ASSUME NEW n \in Messages, NEW o \in Messages, Ahead(n, o)' PROVE Ahead(n, o)
    <3>1. ~ Before(<<>>, n, o)
      BY DEF Before
    <3>2. \A p \in Procs : Before(list'[p], n, o) => Before(list[p], n, o)
      BY <1>10, <3>1
    <3>3. Travels(o)' => Travels(o)
      BY <1>14 DEF Travels
    <3>4. /\ SwiHas(n)' <=> SwiHas(n)
          /\ SwiHas(o)' <=> SwiHas(o)
          /\ Waits(n)' <=> Waits(n)
      BY <1>1 DEF SwiHas, Waits
    <3> QED BY <1>1, <2>2, <3>2, <3>3, <3>4 DEF Ahead
  <2> QED BY <1>1, <2>1, <2>2, RecordKept DEF Inv
<1> QED BY <1>11, <1>12, <1>13, <1>15, <1>16, <1>17, <1>18, <1>19, <1>20 DEF Inv, PlacesSound

\* The Swi takes a message off the transport's list, or finds none.
LEMMA TakeNothingKeeps ==
    ASSUME Inv, NEW p \in Procs, Take(p), list[p] = <<>> PROVE Inv'
<1>1. /\ UNCHANGED <<owns, held, lists, synchronizer, unblocked, history, link, list, gate, gateSwi, event, posted>>
      /\ pc[p] = "take" /\ Goto(p, "leave") /\ p \in Threads /\ p \notin Tasks
  BY Procs2 DEF Take
<1>2. Moves(p, "leave", held[p])
  BY <1>1, GotoMoves DEF Inv
<1>3. Types'
  BY <1>1, <1>2 DEF Inv, Types, QueueTypeOK, lists, history, Moves
<1>4. ThreadsSound'
  <2>1. ThreadSound(p, "take", held[p], via) /\ via' = via
    BY <1>1 DEF Inv, ThreadsSound, history
  <2>2. ThreadSound(p, "leave", held[p], via')
    BY <1>1, <2>1 DEF ThreadSound, SwiLabels
  <2> QED BY <1>1, <1>2, <2>1, <2>2, ThreadsMoved DEF Inv
<1>5. GateSound'
  BY <1>1, <1>2, InsideQuiet DEF InsideLabels, GateLabels
<1>6. MailKept(p, "leave")
  <2>1. \A q \in Procs : (pc[q] = "off" <=> pc'[q] = "off") /\ posted' = posted /\ event' = event /\ link' = link
    BY <1>1, <1>2, Procs2 DEF Moves
  <2> QED BY <1>1, <2>1 DEF MailKept
<1>7. PlacesSound' /\ RecordSound'
  BY <1>1, <1>2, <1>6, QuietStep
<1> QED BY <1>3, <1>4, <1>5, <1>7 DEF Inv

LEMMA TakeOneKeeps ==
    ASSUME Inv, NEW p \in Procs, Take(p), list[p] # <<>> PROVE Inv'
<1>1. /\ UNCHANGED <<owns, lists, synchronizer, unblocked, history, link, gate, gateSwi, event, posted>>
      /\ pc[p] = "take" /\ Goto(p, "leave") /\ p \in Threads /\ p \notin Tasks
      /\ Hold(p, Head(list[p])) /\ list' = [list EXCEPT ![p] = Tail(@)]
      /\ UNCHANGED <<normalList, highList, via, sent, got>>
  BY Procs2 DEF Take, lists, history
<1>2. list \in [Procs -> Seq(Messages)] /\ list[p] \in Seq(Messages) /\ Distinct(list[p])
  BY DEF Inv, Types, PlacesSound, ListsSound
<1>3. PICK m \in Messages : m = Head(list[p]) /\ Has(list[p], m) /\ m # NoMsg
  BY <1>2, HeadIsIn
<1>4. /\ \A t \in Tasks : ~ Undecided(t) /\ pc[t] # "remove"
      /\ \A r \in Procs : pc[r] # "leave"
      /\ held[p] = NoMsg
  <2>1. pc[p] \in InsideLabels /\ pc[p] # "leave"
    BY <1>1 DEF InsideLabels, GateLabels
  <2>2. held[p] = NoMsg
    BY <1>1, SwiIs DEF Inv
  <2> QED BY <1>1, <2>1, <2>2, InsideAlone
<1>5. queueId[m] = p /\ via[m] = "remote"
  BY <1>3, <1>4 DEF Inv, PlacesSound, ListsSound
<1>6. Moves(p, "leave", m)
  BY <1>1, <1>3, GotoHoldMoves DEF Inv
<1>7. \A t \in Tasks : ~ Undecided(t)'
  BY <1>1, <1>4, <1>6, UndecidedAfter
<1>8. /\ list' \in [Procs -> Seq(Messages)]
      /\ \A r \in Procs : r # p => list'[r] = list[r]
      /\ Distinct(list'[p])
      /\ \A n : Has(list'[p], n) <=> Has(list[p], n) /\ n # m
      /\ \A n, o : Before(list'[p], n, o) => Before(list[p], n, o)
      /\ \A n : Has(list'[p], n) => Before(list[p], m, n)
  <2>1. PICK s \in Seq(Messages) : s = list[p] /\ s # <<>> /\ Distinct(s)
    BY <1>2
  <2>2. PICK a : a = Tail(s)
    OBVIOUS
  <2>3. /\ a \in Seq(Messages) /\ Distinct(a)
        /\ \A n : Has(a, n) <=> Has(s, n) /\ n # Head(s)
        /\ \A n, o : Before(a, n, o) => Before(s, n, o)
        /\ \A n : Has(a, n) => Before(s, Head(s), n)
    BY <2>1, <2>2, TailEffect, HeadIsIn
  <2>4. list'[p] = a /\ list' = [list EXCEPT ![p] = a]
    BY <1>1, <1>2, <2>1, <2>2
  <2> QED BY <1>2, <1>3, <2>1, <2>3, <2>4
<1>9. Types'
  BY <1>1, <1>6, <1>8 DEF Inv, Types, QueueTypeOK, Moves
<1>10. ThreadsSound'
  <2>1. ThreadSound(p, "leave", m, via')
    BY <1>1, <1>5 DEF ThreadSound, SwiLabels
  <2> QED BY <1>1, <1>6, <2>1, ThreadsMoved DEF Inv
<1>11. GateSound'
  BY <1>1, <1>6, InsideQuiet DEF InsideLabels, GateLabels
<1>12. ASSUME NEW r \in Procs, NEW n \in Messages, Has(list'[r], n) PROVE Has(list[r], n)
  BY <1>8, <1>12
<1>13. ListsSound'
  <2>1. \A r \in Procs : Distinct(list'[r])
    BY <1>8 DEF Inv, PlacesSound, ListsSound
  <2>2. ASSUME NEW r \in Procs, NEW n \in Messages, Has(list'[r], n)
        PROVE  queueId[n] = r /\ via[n] = "remote"
    BY <1>4, <1>12, <2>2 DEF Inv, PlacesSound, ListsSound
  <2> QED BY <1>1, <2>1, <2>2 DEF ListsSound, Inv, PlacesSound
<1>14. UndecidedIsLast'
  BY <1>7 DEF UndecidedIsLast
<1>15. OneSpot'
  <2>1. Spot(m, "transport", p)
    BY <1>3 DEF Spot
  <2>2. Spot(m, "held", p)' /\ ~ Undecided(p)'
    BY <1>1, <1>6 DEF Spot, Moves, Undecided
  <2>3. ~ Spot(m, "transport", p)'
    BY <1>8 DEF Spot
  <2>4. ASSUME NEW n \in Messages, NEW j \in Kinds, NEW z \in Threads
        PROVE  \/ n = m /\ ((j = "transport" /\ z = p) \/ (j = "held" /\ z = p))
               \/ (Spot(n, j, z)' <=> Spot(n, j, z))
    <3>1. CASE n = m /\ z = p /\ j \in {"transport", "held"}
      <4>1. n = m /\ ((j = "transport" /\ z = p) \/ (j = "held" /\ z = p))
        BY <3>1
      <4> QED BY <4>1
    <3>2. CASE j = "transport" /\ ~ (n = m /\ z = p)
      <4>1. z \in Procs => (Has(list'[z], n) <=> Has(list[z], n))
        BY <1>8, <3>2
      <4> QED BY <3>2, <4>1 DEF Spot
    <3>3. CASE j = "held" /\ ~ (n = m /\ z = p)
      <4>1. ~ Undecided(z)' /\ ~ Undecided(z)
        BY <1>4, <1>7 DEF Undecided
      <4>2. held'[z] = n <=> held[z] = n
        BY <1>4, <1>6, <3>3, PriorityAssumption DEF Moves
      <4> QED BY <3>3, <4>1, <4>2 DEF Spot
    <3>4. CASE j \notin {"transport", "held"}
      BY <1>1, <3>4 DEF Spot
    <3> QED BY <3>1, <3>2, <3>3, <3>4
  <2>5. (Spot(m, "transport", p) => "transport" = "held" /\ p = p)'
    BY <2>3
  <2>6. OneSpot /\ "transport" \in Kinds /\ "held" \in Kinds
    BY DEF Kinds, Inv, PlacesSound
  <2> QED BY <1>1, <2>1, <2>2, <2>4, <2>5, <2>6, SpotMoved
<1>16. MailSound'
  <2>1. ASSUME NEW u \in Tasks PROVE pc'[u] # "remove"
    BY <1>7, <2>1 DEF Undecided
  <2>2. ASSUME NEW r \in Procs, pc'[r] = "leave" PROVE held'[r] # NoMsg
    BY <1>3, <1>4, <1>6, <2>2, Procs2 DEF Moves
  <2>3. ASSUME NEW r \in Procs, link[r] = "down" PROVE list'[r] = <<>>
    <3>1. \A s \in Procs : link[s] = "down" => list[s] = <<>>
      BY <1>4 DEF Inv, PlacesSound, MailSound
    <3> QED BY <1>8, <2>3, <3>1
  <2> QED BY <1>1, <2>1, <2>2, <2>3 DEF MailSound
<1>17. NoneStranded'
  <2>1. \A r \in Procs : r # p /\ list'[r] # <<>> => event[r] \/ posted[r] \/ pc[r] # "off"
    BY <1>4, <1>8 DEF Inv, PlacesSound, NoneStranded
  <2>2. \A r \in Procs : pc[r] # "off" => pc'[r] # "off"
    BY <1>6, Procs2 DEF Moves
  <2>3. pc'[p] # "off"
    BY <1>6 DEF Moves
  <2> QED BY <1>1, <2>1, <2>2, <2>3 DEF NoneStranded
<1>18. RecordSound'
  <2>1. \A n \in Messages : OwnedBySome(n)' <=> OwnedBySome(n)
    BY <1>1 DEF OwnedBySome
  <2>2. ASSUME NEW n \in Messages, NEW o \in Messages, queueId[n] = queueId[o], Ahead(n, o)' PROVE Ahead(n, o)
    <3>1. Waits(n)' <=> Waits(n)
      BY <1>1 DEF Waits
    <3>2. Travels(o)' => Travels(o)
      BY <1>12 DEF Travels
    <3>3. SwiHas(n)' => SwiHas(n) \/ n = m
      BY <1>6, Procs2 DEF SwiHas, Moves
    <3>4. SwiHas(o)' => SwiHas(o) \/ o = m
      BY <1>6, Procs2 DEF SwiHas, Moves
    <3>5. Travels(m)
      BY <1>3 DEF Travels
    <3>6. CASE SwiHas(n)' /\ Travels(o)' /\ n = m
      <4>1. PICK r \in Procs : Has(list'[r], o) /\ Has(list[r], o)
        BY <1>12, <3>6 DEF Travels
      <4>2. queueId[o] = r
        BY <4>1 DEF Inv, PlacesSound, ListsSound
      <4>3. Before(list[p], n, o)
        BY <1>5, <1>8, <2>2, <3>6, <4>1, <4>2
      <4> QED BY <4>3 DEF Ahead
    <3>7. CASE \E r \in Procs : Before(normalList[r], n, o)' \/ Before(highList[r], n, o)' \/ Before(list[r], n, o)'
      <4>1. \A r \in Procs : Before(list'[r], n, o) => Before(list[r], n, o)
        BY <1>8
      <4> QED BY <1>1, <3>7, <4>1 DEF Ahead
    <3>8. CASE Waits(n)' /\ (SwiHas(o)' \/ Travels(o)')
      BY <3>1, <3>2, <3>4, <3>5, <3>8 DEF Ahead
    <3>9. CASE SwiHas(n)' /\ Travels(o)' /\ n # m
      BY <3>2, <3>3, <3>9 DEF Ahead
    <3> QED BY <2>2, <3>6, <3>7, <3>8, <3>9 DEF Ahead
  <2> QED BY <1>1, <2>1, <2>2, RecordKept DEF Inv
<1> QED BY <1>9, <1>10, <1>11, <1>13, <1>14, <1>15, <1>16, <1>17, <1>18 DEF Inv, PlacesSound

-----------------------------------------------------------------------------
(* The queue's lists                                                        *)

\* The lists of the other queue are left alone.
OnlyAt(p) == \A r \in Procs : r # p => normalList'[r] = normalList[r] /\ highList'[r] = highList[r]

\* A message is put behind the others of its list, or in front of them when it is urgent.
LEMMA OnListsEffect ==
    ASSUME Types, NEW p \in Procs, NEW m \in Messages, OnLists(p, m)
    PROVE  /\ normalList' \in [Procs -> Seq(Messages)] /\ highList' \in [Procs -> Seq(Messages)] /\ OnlyAt(p)
           /\ \A n : Has(normalList'[p], n) <=> Has(normalList[p], n) \/ (n = m /\ m \in NormalPri)
           /\ \A n : Has(highList'[p], n) <=> Has(highList[p], n) \/ (n = m /\ m \notin NormalPri)
           /\ Distinct(normalList[p]) /\ ~ Has(normalList[p], m) => Distinct(normalList'[p])
           /\ Distinct(highList[p]) /\ ~ Has(highList[p], m) => Distinct(highList'[p])
           /\ \A n, o : Before(normalList'[p], n, o) =>
                 Before(normalList[p], n, o) \/ (Has(normalList[p], n) /\ o = m)
           /\ \A n, o : Before(highList'[p], n, o) =>
                 Before(highList[p], n, o) \/ (Has(highList[p], n) /\ o = m) \/ (n = m /\ m \in UrgentPri)
<1>1. /\ normalList \in [Procs -> Seq(Messages)] /\ highList \in [Procs -> Seq(Messages)]
  BY DEF Types, QueueTypeOK
<1>2. CASE m \in NormalPri /\ normalList' = [normalList EXCEPT ![p] = Append(@, m)] /\ UNCHANGED highList
  <2>1. PICK s \in Seq(Messages) : s = normalList[p]
    BY <1>1
  <2>2. PICK a : a = Append(s, m)
    OBVIOUS
  <2>3. /\ a \in Seq(Messages)
        /\ \A n : Has(a, n) <=> Has(s, n) \/ n = m
        /\ Distinct(s) /\ ~ Has(s, m) => Distinct(a)
        /\ \A n, o : Before(a, n, o) => Before(s, n, o) \/ (Has(s, n) /\ o = m)
    BY <2>2, AppendEffect
  <2>4. normalList' = [normalList EXCEPT ![p] = a] /\ normalList'[p] = a /\ highList' = highList
    BY <1>1, <1>2, <2>1, <2>2
  <2>5. normalList' \in [Procs -> Seq(Messages)] /\ OnlyAt(p)
    BY <1>1, <2>3, <2>4 DEF OnlyAt
  <2> QED BY <1>1, <1>2, <2>1, <2>3, <2>4, <2>5
<1>3. CASE m \notin NormalPri /\ UNCHANGED normalList /\ highList' = [highList EXCEPT ![p] = Append(@, m)]
  <2>1. PICK s \in Seq(Messages) : s = highList[p]
    BY <1>1
  <2>2. PICK a : a = Append(s, m)
    OBVIOUS
  <2>3. /\ a \in Seq(Messages)
        /\ \A n : Has(a, n) <=> Has(s, n) \/ n = m
        /\ Distinct(s) /\ ~ Has(s, m) => Distinct(a)
        /\ \A n, o : Before(a, n, o) => Before(s, n, o) \/ (Has(s, n) /\ o = m)
    BY <2>2, AppendEffect
  <2>4. highList' = [highList EXCEPT ![p] = a] /\ highList'[p] = a /\ normalList' = normalList
    BY <1>1, <1>3, <2>1, <2>2
  <2>5. highList' \in [Procs -> Seq(Messages)] /\ OnlyAt(p)
    BY <1>1, <2>3, <2>4 DEF OnlyAt
  <2> QED BY <1>1, <1>3, <2>1, <2>3, <2>4, <2>5
<1>4. CASE m \in UrgentPri /\ UNCHANGED normalList /\ highList' = [highList EXCEPT ![p] = <<m>> \o @]
  <2>1. PICK s \in Seq(Messages) : s = highList[p]
    BY <1>1
  <2>2. PICK a : a = <<m>> \o s
    OBVIOUS
  <2>3. /\ a \in Seq(Messages)
        /\ \A n : Has(a, n) <=> Has(s, n) \/ n = m
        /\ Distinct(s) /\ ~ Has(s, m) => Distinct(a)
        /\ \A n, o : Before(a, n, o) => Before(s, n, o) \/ n = m
    BY <2>2, PutHeadEffect
  <2>4. highList' = [highList EXCEPT ![p] = a] /\ highList'[p] = a /\ normalList' = normalList
    BY <1>1, <1>4, <2>1, <2>2
  <2>5. highList' \in [Procs -> Seq(Messages)] /\ OnlyAt(p)
    BY <1>1, <2>3, <2>4 DEF OnlyAt
  <2>6. m \notin NormalPri
    BY <1>4
  <2> QED BY <1>1, <1>4, <2>1, <2>3, <2>4, <2>5, <2>6
<1>5. m \in HighPri => m \notin NormalPri
  OBVIOUS
<1> QED BY <1>2, <1>3, <1>4, <1>5 DEF OnLists

\* What is known of the message that a thread puts on the lists of its processor.
LEMMA EnqueueKnown ==
    ASSUME Inv, NEW th \in Threads, pc[th] = "enqueue"
    PROVE  /\ Cpu(th) \in Procs /\ held[th] \in Messages /\ queueId[held[th]] = Cpu(th)
           /\ th \in Tasks => via[held[th]] = NoPath
           /\ th \in Procs => via[held[th]] = "remote"
           /\ Spot(held[th], "held", th) /\ ~ Undecided(th)
           /\ \A r \in Procs : /\ ~ Has(list[r], held[th])
                               /\ ~ Has(normalList[r], held[th]) /\ ~ Has(highList[r], held[th])
           /\ \A x \in Threads : held[x] = held[th] => x = th
           /\ ~ OwnedBySome(held[th])
<1>1. held[th] # NoMsg
  <2>1. CASE th \in Tasks
    BY <2>1, TaskIs DEF Inv, PutLabels
  <2>2. CASE th \in Procs
    BY <2>2, SwiIs DEF Inv
  <2> QED BY <2>1, <2>2, Procs2
<1>2. PICK m \in Messages : m = held[th]
  BY <1>1 DEF Inv, Types, QueueTypeOK
<1>3. /\ queueId[m] = Cpu(th) /\ Cpu(th) \in Procs
      /\ th \in Tasks => via[m] = NoPath
      /\ th \in Procs => via[m] = "remote"
  <2>1. CASE th \in Tasks
    <3>1. queueId[m] = home[th] /\ via[m] = NoPath
      BY <1>1, <1>2, <2>1, TaskIs DEF Inv
    <3> QED BY <2>1, <3>1, Procs2
  <2>2. CASE th \in Procs
    <3>1. queueId[m] = th /\ via[m] = "remote"
      BY <1>1, <1>2, <2>2, SwiIs DEF Inv
    <3> QED BY <2>2, <3>1, Procs2
  <2> QED BY <2>1, <2>2, Procs2
<1>4. Spot(m, "held", th) /\ ~ Undecided(th)
  BY <1>2 DEF Spot, Undecided
<1>5. \A j \in Kinds, z \in Threads : Spot(m, j, z) => j = "held" /\ z = th
  BY <1>4, OneSpotOnly DEF Kinds, Inv, PlacesSound
<1>6. \A r \in Procs : ~ Has(list[r], m) /\ ~ Has(normalList[r], m) /\ ~ Has(highList[r], m)
  BY <1>5, Procs2 DEF Spot, Kinds
<1>7. ASSUME NEW x \in Threads, held[x] = m PROVE x = th
  <2>1. ~ Undecided(x)
    <3> SUFFICES ASSUME Undecided(x) PROVE FALSE
      OBVIOUS
    <3>1. x \in Tasks
      BY DEF Undecided
    <3>2. Has(list[Peer(home[x])], m) /\ Peer(home[x]) \in Procs
      BY <1>7, <3>1, UndecidedKnown
    <3> QED BY <1>6, <3>2
  <2> QED BY <1>5, <1>7, <2>1 DEF Spot, Kinds
<1>8. ~ OwnedBySome(m)
  BY <1>5, Procs2 DEF Spot, Kinds, OwnedBySome
<1> QED BY <1>2, <1>3, <1>4, <1>6, <1>7, <1>8

\* The history after a put to a queue: the task's message is sent now, the Swi's was before.
LEMMA EnqueueHistory ==
    ASSUME Inv, NEW th \in Threads, Enqueue(th), NEW m \in Messages, m = held[th],
           th \in Procs => via[m] = "remote"
    PROVE  /\ th \in Procs => UNCHANGED <<via, sent, got>>
           /\ th \in Tasks => Sent(m, "local")
           /\ \A n \in Messages : n # m => via'[n] = via[n]
           /\ via'[m] \in Paths /\ via'[m] # NoPath
           /\ via' \in [Messages -> Paths \cup {NoPath}]
           /\ sent' \in [Channels -> Seq(Messages)] /\ got' = got
<1>1. CASE th \in Procs
  BY <1>1, Procs2 DEF Enqueue, history, Inv, Types, QueueTypeOK, Paths
<1>2. CASE th \in Tasks
  <2>1. Sent(m, "local") /\ ChannelOf(m, "local") \in Channels /\ th \notin Procs
    BY <1>2, Procs2, ChannelIs DEF Enqueue, Paths
  <2> QED BY <1>2, <2>1 DEF Sent, Record, Inv, Types, QueueTypeOK, Paths
<1> QED BY <1>1, <1>2, Procs2

LEMMA EnqueueKeeps ==
    ASSUME Inv, NEW th \in Threads, Enqueue(th), UNCHANGED transportVars PROVE Inv'
<1>1. /\ UNCHANGED <<owns, synchronizer, unblocked, link, list, gate, gateSwi, event, posted>>
      /\ pc[th] = "enqueue" /\ Goto(th, "signal") /\ Hold(th, NoMsg) /\ OnLists(Cpu(th), held[th])
  BY DEF Enqueue, transportVars
<1>2. PICK p \in Procs : p = Cpu(th)
  BY <1>1, EnqueueKnown
<1>3. PICK m \in Messages : m = held[th]
  BY <1>1, EnqueueKnown
<1>4. /\ queueId[m] = p /\ m # NoMsg
      /\ th \in Tasks => via[m] = NoPath
      /\ th \in Procs => via[m] = "remote"
      /\ Spot(m, "held", th) /\ ~ Undecided(th)
      /\ \A r \in Procs : ~ Has(list[r], m) /\ ~ Has(normalList[r], m) /\ ~ Has(highList[r], m)
      /\ \A x \in Threads : held[x] = m => x = th
      /\ ~ OwnedBySome(m)
  BY <1>1, <1>2, <1>3, EnqueueKnown, PriorityAssumption
<1>5. /\ th \in Procs => UNCHANGED <<via, sent, got>>
      /\ th \in Tasks => Sent(m, "local")
      /\ \A n \in Messages : n # m => via'[n] = via[n]
      /\ via'[m] \in Paths /\ via'[m] # NoPath
      /\ via' \in [Messages -> Paths \cup {NoPath}]
      /\ sent' \in [Channels -> Seq(Messages)] /\ got' = got
  BY <1>3, <1>4, EnqueueHistory
<1>6. Moves(th, "signal", NoMsg)
  BY <1>1, GotoHoldMoves DEF Inv
<1>7. /\ normalList' \in [Procs -> Seq(Messages)] /\ highList' \in [Procs -> Seq(Messages)] /\ OnlyAt(p)
      /\ \A n : Has(normalList'[p], n) <=> Has(normalList[p], n) \/ (n = m /\ m \in NormalPri)
      /\ \A n : Has(highList'[p], n) <=> Has(highList[p], n) \/ (n = m /\ m \notin NormalPri)
      /\ Distinct(normalList'[p]) /\ Distinct(highList'[p])
      /\ \A n, o : Before(normalList'[p], n, o) =>
            Before(normalList[p], n, o) \/ (Has(normalList[p], n) /\ o = m)
      /\ \A n, o : Before(highList'[p], n, o) =>
            Before(highList[p], n, o) \/ (Has(highList[p], n) /\ o = m) \/ (n = m /\ m \in UrgentPri)
  <2>1. Types /\ OnLists(p, m) /\ Distinct(normalList[p]) /\ Distinct(highList[p])
    BY <1>1, <1>2, <1>3 DEF Inv, PlacesSound, ListsSound
  <2> QED BY <1>4, <2>1, OnListsEffect
<1>8. Types'
  BY <1>1, <1>5, <1>6, <1>7 DEF Inv, Types, QueueTypeOK, Moves
<1>9. ThreadsSound'
  <2>1. ThreadSound(th, "signal", NoMsg, via')
    BY Procs2 DEF ThreadSound, TaskLabels, SwiLabels, PutLabels
  <2>2. \A u \in Threads : u # th /\ held[u] # NoMsg => held[u] \in Messages /\ held[u] # m
    BY <1>4 DEF Inv, Types, QueueTypeOK
  <2>3. \A u \in Threads : u # th /\ held[u] # NoMsg => via'[held[u]] = via[held[u]]
    BY <1>5, <2>2
  <2> QED BY <1>6, <2>1, <2>3, ThreadsMoved DEF Inv
<1>10. GateSound'
  <2>1. th \in Procs => gateSwi[th] = None
    BY <1>1 DEF Inv, GateSound
  <2> QED BY <1>1, <1>6, <2>1, GateQuiet DEF Inv, GateLabels, InsideLabels
<1>11. /\ UndecidedIsLast' /\ MailSound' /\ NoneStranded'
       /\ \A x \in Threads : Undecided(x)' <=> Undecided(x)
       /\ \A u \in Tasks : Undecided(u) => u # th /\ held'[u] = held[u]
  BY <1>1, <1>6, HandStep
<1>12. ASSUME NEW r \in Procs, NEW n \in Messages
       PROVE  /\ Has(normalList'[r], n) <=> Has(normalList[r], n) \/ (r = p /\ n = m /\ m \in NormalPri)
              /\ Has(highList'[r], n) <=> Has(highList[r], n) \/ (r = p /\ n = m /\ m \notin NormalPri)
  <2>1. CASE r = p
    BY <1>7, <2>1
  <2>2. CASE r # p
    BY <1>7, <2>2 DEF OnlyAt
  <2> QED BY <2>1, <2>2
<1>13. ListsSound'
  <2>1. \A r \in Procs : Distinct(normalList'[r]) /\ Distinct(highList'[r]) /\ Distinct(list[r])
    BY <1>7 DEF OnlyAt, Inv, PlacesSound, ListsSound
  <2>2. ASSUME NEW r \in Procs, NEW n \in Messages, Has(normalList'[r], n)
        PROVE  n \in NormalPri /\ queueId[n] = r /\ via'[n] # NoPath
    BY <1>4, <1>5, <1>12, <2>2 DEF Inv, PlacesSound, ListsSound
  <2>3. ASSUME NEW r \in Procs, NEW n \in Messages, Has(highList'[r], n)
        PROVE  n \notin NormalPri /\ queueId[n] = r /\ via'[n] # NoPath
    BY <1>4, <1>5, <1>12, <2>3 DEF Inv, PlacesSound, ListsSound
  <2>4. ASSUME NEW r \in Procs, NEW n \in Messages, Has(list[r], n)
        PROVE  queueId[n] = r /\ (via'[n] = "remote" \/ \E u \in Tasks : Undecided(u)' /\ held'[u] = n)
    <3>1. queueId[n] = r /\ (via[n] = "remote" \/ \E u \in Tasks : Undecided(u) /\ held[u] = n)
      BY <2>4 DEF Inv, PlacesSound, ListsSound
    <3>2. via'[n] = via[n]
      BY <1>4, <1>5, <2>4
    <3>3. \A u \in Tasks : Undecided(u) => Undecided(u)' /\ held'[u] = held[u]
      BY <1>11, Procs2
    <3> QED BY <3>1, <3>2, <3>3
  <2> QED BY <1>1, <2>1, <2>2, <2>3, <2>4 DEF ListsSound
<1>14. PICK k \in {"normal", "high"} : k = IF m \in NormalPri THEN "normal" ELSE "high"
  OBVIOUS
<1>15. OneSpot'
  <2>1. Spot(m, k, p)'
    BY <1>12, <1>14 DEF Spot
  <2>2. ~ Spot(m, "held", th)'
    BY <1>4, <1>6 DEF Spot, Moves
  <2>3. ASSUME NEW n \in Messages, NEW j \in Kinds, NEW z \in Threads
        PROVE  \/ n = m /\ ((j = "held" /\ z = th) \/ (j = k /\ z = p))
               \/ (Spot(n, j, z)' <=> Spot(n, j, z))
    <3>1. CASE j = "held"
      <4>1. z = th \/ held'[z] = held[z]
        BY <1>6 DEF Moves
      <4>2. CASE z = th /\ n = m
        <5>1. n = m /\ ((j = "held" /\ z = th) \/ (j = k /\ z = p))
          BY <3>1, <4>2
        <5> QED BY <5>1
      <4>3. CASE z = th /\ n # m
        <5>1. held'[z] # n /\ held[z] # n
          BY <1>3, <1>6, <4>3, PriorityAssumption DEF Moves
        <5> QED BY <3>1, <5>1 DEF Spot
      <4>4. CASE z # th
        BY <1>11, <3>1, <4>1, <4>4 DEF Spot
      <4> QED BY <4>2, <4>3, <4>4
    <3>2. CASE j \in {"normal", "high"}
      <4>1. CASE n = m /\ z = p /\ j = k
        <5>1. n = m /\ ((j = "held" /\ z = th) \/ (j = k /\ z = p))
          BY <4>1
        <5> QED BY <5>1
      <4>2. CASE ~ (n = m /\ z = p /\ j = k)
        BY <1>12, <1>14, <3>2, <4>2 DEF Spot
      <4> QED BY <4>1, <4>2
    <3>3. CASE j \in {"owned", "transport"}
      BY <1>1, <3>3 DEF Spot
    <3> QED BY <3>1, <3>2, <3>3 DEF Kinds
  <2>4. (Spot(m, "held", th) => "held" = k /\ th = p)'
    BY <2>2
  <2>5. OneSpot /\ p \in Threads /\ k \in Kinds /\ "held" \in Kinds
    BY Procs2 DEF Kinds, Inv, PlacesSound
  <2> QED BY <1>4, <2>1, <2>3, <2>4, <2>5, SpotMoved
<1>16. \A n \in Messages : OwnedBySome(n)' <=> OwnedBySome(n)
  BY <1>1 DEF OwnedBySome
<1>17. \A n \in Messages : /\ Waits(n)' <=> Waits(n) \/ n = m
                           /\ Travels(n)' <=> Travels(n)
  BY <1>1, <1>12 DEF Waits, Travels
<1>18. ASSUME NEW r \in Procs, NEW n \in Messages \ UrgentPri, NEW o \in Messages,
              Before(normalList'[r], n, o) \/ Before(highList'[r], n, o)
       PROVE  Before(normalList[r], n, o) \/ Before(highList[r], n, o) \/ (Waits(n) /\ o = m)
  <2>1. CASE r = p
    BY <1>7, <1>18, <2>1 DEF Waits
  <2>2. CASE r # p
    BY <1>7, <1>18, <2>2 DEF OnlyAt
  <2> QED BY <2>1, <2>2
<1>19. CASE th \in Procs
  <2>1. \A n \in Messages : SwiHas(n)' => SwiHas(n)
    BY <1>6, PriorityAssumption, Procs2 DEF SwiHas, Moves
  <2>2. SwiHas(m)
    BY <1>3, <1>19 DEF SwiHas
  <2>3. ASSUME NEW n \in Messages \ UrgentPri, NEW o \in Messages \ UrgentPri,
               queueId[n] = queueId[o], Ahead(n, o)'
        PROVE  Ahead(n, o)
    <3>1. CASE \E r \in Procs : Before(normalList[r], n, o)' \/ Before(highList[r], n, o)' \/ Before(list[r], n, o)'
      BY <1>1, <1>18, <2>2, <3>1 DEF Ahead
    <3>2. CASE Waits(n) /\ (SwiHas(o)' \/ Travels(o)')
      BY <1>17, <2>1, <3>2 DEF Ahead
    <3>3. CASE n = m /\ Travels(o)'
      BY <1>17, <2>2, <3>3 DEF Ahead
    <3>4. CASE n = m /\ SwiHas(o)'
      <4>1. PICK r \in Procs : held'[r] = o
        BY <3>4 DEF SwiHas
      <4>2. r # th /\ held[r] = o /\ held[r] # NoMsg
        BY <1>6, <4>1, PriorityAssumption, Procs2 DEF Moves
      <4>3. queueId[o] = r
        BY <4>2, SwiIs DEF Inv
      <4>4. p = th
        BY <1>2, <1>19, Procs2
      <4> QED BY <1>4, <2>3, <3>4, <4>2, <4>3, <4>4
    <3>5. CASE SwiHas(n)' /\ Travels(o)'
      BY <1>17, <2>1, <3>5 DEF Ahead
    <3>6. Waits(n)' => Waits(n) \/ n = m
      BY <1>17
    <3> QED BY <2>3, <3>1, <3>2, <3>3, <3>4, <3>5, <3>6 DEF Ahead
  <2>4. RecordSound'
    BY <1>5, <1>16, <1>19, <2>3, RecordKept DEF Inv
  <2> QED BY <1>8, <1>9, <1>10, <1>11, <1>13, <1>15, <2>4 DEF Inv, PlacesSound
<1>20. CASE th \in Tasks
  <2>1. \A n \in Messages : SwiHas(n)' <=> SwiHas(n)
    BY <1>6, <1>20, Procs2 DEF SwiHas, Moves
  <2>2. ASSUME NEW n \in Messages, via[n] # "remote" PROVE ~ SwiHas(n) /\ (n = m \/ via[n] # NoPath => ~ Travels(n))
    <3>1. ~ SwiHas(n)
      BY <2>2, HeldPaths, PriorityAssumption DEF SwiHas, Inv
    <3>2. n = m => ~ Travels(n)
      BY <1>4 DEF Travels
    <3>3. via[n] # NoPath => ~ Travels(n)
      BY <2>2, UndecidedKnown DEF Travels, Inv, PlacesSound, ListsSound
    <3> QED BY <3>1, <3>2, <3>3
  <2>3. ASSUME NEW n \in Messages \ UrgentPri, m \notin UrgentPri,
               n = m \/ (via[n] # NoPath /\ ChannelOf(n, via[n]) = ChannelOf(m, "local"))
        PROVE  ~ Ahead(m, n)'
    <3>1. ~ SwiHas(n) /\ ~ Travels(n)
      <4>1. CASE n = m
        BY <1>4, <1>20, <2>2, <4>1
      <4>2. CASE n # m
        <5>1. via[n] \in Paths
          BY <2>3, <4>2 DEF Inv, Types, QueueTypeOK
        <5>2. via[n] = "local"
          BY <2>3, <4>2, <5>1, ChannelIs DEF Paths
        <5> QED BY <2>2, <2>3, <4>2, <5>2
      <4> QED BY <4>1, <4>2
    <3>2. ~ SwiHas(m)
      BY <1>4, <1>20, <2>2
    <3>3. ~ Waits(m)
      BY <1>4 DEF Waits
    <3>4. ASSUME NEW r \in Procs PROVE ~ Before(normalList'[r], m, n) /\ ~ Before(highList'[r], m, n)
      <4>1. ~ Before(normalList[r], m, n) /\ ~ Before(highList[r], m, n)
        BY <1>4 DEF Before, Has
      <4> QED BY <1>18, <2>3, <3>3, <4>1
    <3>5. \A r \in Procs : ~ Before(list[r], m, n)
      BY <1>4 DEF Before, Has
    <3> QED BY <1>1, <1>17, <2>1, <3>1, <3>2, <3>4, <3>5 DEF Ahead
  <2>4. ASSUME NEW n \in (Messages \ UrgentPri) \ {m}, NEW o \in (Messages \ UrgentPri) \ {m}, Ahead(n, o)'
        PROVE  Ahead(n, o)
    <3>1. CASE \E r \in Procs : Before(normalList[r], n, o)' \/ Before(highList[r], n, o)' \/ Before(list[r], n, o)'
      BY <1>1, <1>18, <3>1 DEF Ahead
    <3>2. CASE (Waits(n)' /\ (SwiHas(o)' \/ Travels(o)')) \/ (SwiHas(n)' /\ Travels(o)')
      BY <1>17, <2>1, <3>2 DEF Ahead
    <3> QED BY <2>4, <3>1, <3>2 DEF Ahead
  <2>5. ~ OwnedBySome(m)' /\ Sent(m, "local") /\ "local" \in Paths
    BY <1>4, <1>5, <1>16, <1>20 DEF Paths
  <2>6. m \notin UrgentPri => ~ Ahead(m, m)'
    BY <2>3
  <2>7. RecordSound'
    BY <1>4, <1>16, <1>20, <2>3, <2>4, <2>5, <2>6, RecordSent DEF Inv
  <2> QED BY <1>8, <1>9, <1>10, <1>11, <1>13, <1>15, <2>7 DEF Inv, PlacesSound
<1> QED BY <1>19, <1>20, Procs2

\* The reader takes the first message of a list of its queue.
TakesFrom(p, m) ==
    \/ /\ highList[p] # <<>> /\ m = Head(highList[p])
       /\ highList' = [highList EXCEPT ![p] = Tail(@)] /\ UNCHANGED normalList
    \/ /\ normalList[p] # <<>> /\ m = Head(normalList[p])
       /\ normalList' = [normalList EXCEPT ![p] = Tail(@)] /\ UNCHANGED highList

LEMMA TakesFromEffect ==
    ASSUME Types, ListsSound, NEW p \in Procs, NEW m, TakesFrom(p, m)
    PROVE  /\ m \in Messages /\ queueId[m] = p /\ via[m] # NoPath
           /\ m \in NormalPri => Has(normalList[p], m)
           /\ m \notin NormalPri => Has(highList[p], m)
           /\ normalList' \in [Procs -> Seq(Messages)] /\ highList' \in [Procs -> Seq(Messages)] /\ OnlyAt(p)
           /\ Distinct(normalList'[p]) /\ Distinct(highList'[p])
           /\ \A n \in Messages : Has(normalList'[p], n) <=> Has(normalList[p], n) /\ n # m
           /\ \A n \in Messages : Has(highList'[p], n) <=> Has(highList[p], n) /\ n # m
           /\ \A n, o : Before(normalList'[p], n, o) => Before(normalList[p], n, o)
           /\ \A n, o : Before(highList'[p], n, o) => Before(highList[p], n, o)
           /\ \A n \in Messages : n # m /\ m \in NormalPri /\ Has(normalList[p], n) => Before(normalList[p], m, n)
           /\ \A n \in Messages : n # m /\ m \notin NormalPri /\ Has(highList[p], n) => Before(highList[p], m, n)
<1>1. /\ normalList \in [Procs -> Seq(Messages)] /\ highList \in [Procs -> Seq(Messages)]
      /\ Distinct(normalList[p]) /\ Distinct(highList[p])
      /\ \A n \in Messages : Has(normalList[p], n) => n \in NormalPri /\ queueId[n] = p /\ via[n] # NoPath
      /\ \A n \in Messages : Has(highList[p], n) => n \notin NormalPri /\ queueId[n] = p /\ via[n] # NoPath
  BY DEF Types, QueueTypeOK, ListsSound
<1>2. CASE /\ highList[p] # <<>> /\ m = Head(highList[p])
           /\ highList' = [highList EXCEPT ![p] = Tail(@)] /\ UNCHANGED normalList
  <2>1. PICK s \in Seq(Messages) : s = highList[p] /\ s # <<>> /\ Distinct(s)
    BY <1>1, <1>2
  <2>2. PICK a : a = Tail(s)
    OBVIOUS
  <2>3. /\ a \in Seq(Messages) /\ Distinct(a) /\ Has(s, m) /\ m \in Messages
        /\ \A n : Has(a, n) <=> Has(s, n) /\ n # m
        /\ \A n, o : Before(a, n, o) => Before(s, n, o)
        /\ \A n : Has(a, n) => Before(s, m, n)
    BY <1>2, <2>1, <2>2, TailEffect, HeadIsIn
  <2>4. highList' = [highList EXCEPT ![p] = a] /\ highList'[p] = a /\ normalList' = normalList
    BY <1>1, <1>2, <2>1, <2>2
  <2>5. highList' \in [Procs -> Seq(Messages)] /\ OnlyAt(p)
    BY <1>1, <2>3, <2>4 DEF OnlyAt
  <2>6. m \notin NormalPri /\ queueId[m] = p /\ via[m] # NoPath /\ ~ Has(normalList[p], m)
    BY <1>1, <2>1, <2>3
  <2>7. \A n \in Messages : Has(normalList'[p], n) <=> Has(normalList[p], n) /\ n # m
    BY <2>4, <2>6
  <2> QED BY <1>1, <2>1, <2>3, <2>4, <2>5, <2>6, <2>7
<1>3. CASE /\ normalList[p] # <<>> /\ m = Head(normalList[p])
           /\ normalList' = [normalList EXCEPT ![p] = Tail(@)] /\ UNCHANGED highList
  <2>1. PICK s \in Seq(Messages) : s = normalList[p] /\ s # <<>> /\ Distinct(s)
    BY <1>1, <1>3
  <2>2. PICK a : a = Tail(s)
    OBVIOUS
  <2>3. /\ a \in Seq(Messages) /\ Distinct(a) /\ Has(s, m) /\ m \in Messages
        /\ \A n : Has(a, n) <=> Has(s, n) /\ n # m
        /\ \A n, o : Before(a, n, o) => Before(s, n, o)
        /\ \A n : Has(a, n) => Before(s, m, n)
    BY <1>3, <2>1, <2>2, TailEffect, HeadIsIn
  <2>4. normalList' = [normalList EXCEPT ![p] = a] /\ normalList'[p] = a /\ highList' = highList
    BY <1>1, <1>3, <2>1, <2>2
  <2>5. normalList' \in [Procs -> Seq(Messages)] /\ OnlyAt(p)
    BY <1>1, <2>3, <2>4 DEF OnlyAt
  <2>6. m \in NormalPri /\ queueId[m] = p /\ via[m] # NoPath /\ ~ Has(highList[p], m)
    BY <1>1, <2>1, <2>3
  <2>7. \A n \in Messages : Has(highList'[p], n) <=> Has(highList[p], n) /\ n # m
    BY <2>4, <2>6
  <2> QED BY <1>1, <2>1, <2>3, <2>4, <2>5, <2>6, <2>7
<1> QED BY <1>2, <1>3 DEF TakesFrom

\* The messages of its channel that were not received yet are behind the one that is taken.
LEMMA TakenIsFirst ==
    ASSUME Inv, NEW p \in Procs, NEW m \in Messages, TakesFrom(p, m),
           NEW n \in Messages \ UrgentPri, m \notin UrgentPri, n # m, via[n] # NoPath, ~ OwnedBySome(n),
           ChannelOf(n, via[n]) = ChannelOf(m, via[m])
    PROVE  Ahead(m, n)
<1>1. /\ queueId[m] = p /\ via[m] # NoPath
      /\ m \in NormalPri => Has(normalList[p], m)
      /\ m \notin NormalPri => Has(highList[p], m)
      /\ m \in NormalPri /\ Has(normalList[p], n) => Before(normalList[p], m, n)
      /\ m \notin NormalPri /\ Has(highList[p], n) => Before(highList[p], m, n)
  BY TakesFromEffect DEF Inv, PlacesSound
<1>2. via[n] \in Paths /\ via[m] \in Paths
  BY <1>1 DEF Inv, Types, QueueTypeOK
<1>3. queueId[n] = p /\ (m \in NormalPri <=> n \in NormalPri)
  BY <1>1, <1>2, ChannelIs
<1>4. Waits(m)
  BY <1>1 DEF Waits
<1>5. PICK k \in Kinds, x \in Threads : Spot(n, k, x)
  BY DEF Inv, PlacesSound, OneSpot
<1>6. CASE k = "owned"
  BY <1>5, <1>6 DEF Spot, OwnedBySome
<1>7. CASE k = "held"
  <2>1. held[x] = n /\ held[x] # NoMsg
    BY <1>5, <1>7, PriorityAssumption DEF Spot
  <2>2. x \in Procs
    BY <2>1, HeldPaths, Procs2 DEF Inv
  <2> QED BY <1>4, <2>1, <2>2 DEF Ahead, SwiHas
<1>8. CASE k = "transport"
  BY <1>4, <1>5, <1>8 DEF Spot, Ahead, Travels
<1>9. CASE k = "normal"
  <2>1. x \in Procs /\ Has(normalList[x], n)
    BY <1>5, <1>9 DEF Spot
  <2>2. x = p /\ n \in NormalPri
    BY <1>3, <2>1 DEF Inv, PlacesSound, ListsSound
  <2> QED BY <1>1, <1>3, <2>1, <2>2 DEF Ahead
<1>10. CASE k = "high"
  <2>1. x \in Procs /\ Has(highList[x], n)
    BY <1>5, <1>10 DEF Spot
  <2>2. x = p /\ n \notin NormalPri
    BY <1>3, <2>1 DEF Inv, PlacesSound, ListsSound
  <2> QED BY <1>1, <1>3, <2>1, <2>2 DEF Ahead
<1> QED BY <1>6, <1>7, <1>8, <1>9, <1>10 DEF Kinds

LEMMA ReceiveKeeps ==
    ASSUME Inv, NEW t \in Tasks, pc[t] \in {"idle", "getNormal", "woken"}, NEW m, Receive(t, m),
           TakesFrom(home[t], m), UNCHANGED transportVars
    PROVE  Inv'
<1>1. PICK p \in Procs : p = home[t]
  BY Procs2
<1>2. /\ UNCHANGED <<held, synchronizer, unblocked, via, sent, link, list, gate, gateSwi, event, posted>>
      /\ owns' = [owns EXCEPT ![t] = @ \cup {m}] /\ Goto(t, "idle") /\ got' = Record(got, m, via[m])
      /\ t \in Threads /\ t \notin Procs
  BY Procs2 DEF Receive, transportVars
<1>3. TakesFrom(p, m)
  BY <1>1
<1>4. /\ m \in Messages /\ queueId[m] = p /\ via[m] # NoPath
      /\ m \in NormalPri => Has(normalList[p], m)
      /\ m \notin NormalPri => Has(highList[p], m)
      /\ normalList' \in [Procs -> Seq(Messages)] /\ highList' \in [Procs -> Seq(Messages)] /\ OnlyAt(p)
      /\ Distinct(normalList'[p]) /\ Distinct(highList'[p])
      /\ \A n \in Messages : Has(normalList'[p], n) <=> Has(normalList[p], n) /\ n # m
      /\ \A n \in Messages : Has(highList'[p], n) <=> Has(highList[p], n) /\ n # m
      /\ \A n, o : Before(normalList'[p], n, o) => Before(normalList[p], n, o)
      /\ \A n, o : Before(highList'[p], n, o) => Before(highList[p], n, o)
  BY <1>3, TakesFromEffect DEF Inv, PlacesSound
<1>5. Moves(t, "idle", held[t]) /\ held[t] = NoMsg
  BY <1>2, GotoMoves, TaskIs DEF Inv, PutLabels
<1>6. PICK k \in {"normal", "high"} : k = IF m \in NormalPri THEN "normal" ELSE "high"
  OBVIOUS
<1>7. Spot(m, k, p)
  BY <1>4, <1>6 DEF Spot
<1>8. ~ OwnedBySome(m)
  BY <1>4, <1>7, OneSpotOnly, Procs2 DEF OwnedBySome, Spot, Kinds, Inv, PlacesSound
<1>9. owns \in [Tasks -> SUBSET Messages]
  BY DEF Inv, Types, QueueTypeOK
<1>10. Types'
  <2>1. via[m] \in Paths
    BY <1>4 DEF Inv, Types, QueueTypeOK
  <2>2. got' \in [Channels -> Seq(Messages)]
    BY <1>2, <1>4, <2>1, ChannelIs DEF Record, Inv, Types, QueueTypeOK
  <2>3. owns' \in [Tasks -> SUBSET Messages]
    BY <1>2, <1>4, <1>9
  <2> QED BY <1>2, <1>4, <1>5, <2>2, <2>3 DEF Inv, Types, QueueTypeOK, Moves
<1>11. ThreadsSound'
  <2>1. ThreadSound(t, "idle", NoMsg, via')
    BY DEF ThreadSound, TaskLabels, PutLabels
  <2> QED BY <1>2, <1>5, <2>1, ThreadsMoved DEF Inv
<1>12. GateSound'
  BY <1>2, <1>5, GateQuiet DEF Inv, GateLabels, InsideLabels
<1>13. /\ UndecidedIsLast' /\ MailSound' /\ NoneStranded'
       /\ \A x \in Threads : Undecided(x)' <=> Undecided(x)
       /\ \A u \in Tasks : Undecided(u) => u # t /\ held'[u] = held[u]
  BY <1>2, <1>5, HandStep
<1>14. ASSUME NEW r \in Procs, NEW n \in Messages
       PROVE  /\ Has(normalList'[r], n) <=> Has(normalList[r], n) /\ n # m
              /\ Has(highList'[r], n) <=> Has(highList[r], n) /\ n # m
  <2>1. CASE r = p
    BY <1>4, <2>1
  <2>2. CASE r # p
    <3>1. ~ Has(normalList[r], m) /\ ~ Has(highList[r], m)
      BY <1>4, <2>2 DEF Inv, PlacesSound, ListsSound
    <3> QED BY <1>4, <2>2, <3>1 DEF OnlyAt
  <2> QED BY <2>1, <2>2
<1>15. ListsSound'
  <2>1. \A r \in Procs : Distinct(normalList'[r]) /\ Distinct(highList'[r])
    BY <1>4 DEF OnlyAt, Inv, PlacesSound, ListsSound
  <2>2. \A u \in Tasks : Undecided(u) => Undecided(u)' /\ held'[u] = held[u]
    BY <1>13, Procs2
  <2> QED BY <1>2, <1>14, <2>1, <2>2 DEF ListsSound, Inv, PlacesSound
<1>16. OneSpot'
  <2>1. Spot(m, "owned", t)'
    BY <1>2, <1>9 DEF Spot
  <2>2. ~ Spot(m, k, p)'
    BY <1>4, <1>6, <1>14 DEF Spot
  <2>3. ASSUME NEW n \in Messages, NEW j \in Kinds, NEW z \in Threads
        PROVE  \/ n = m /\ ((j = k /\ z = p) \/ (j = "owned" /\ z = t))
               \/ (Spot(n, j, z)' <=> Spot(n, j, z))
    <3>1. CASE n = m /\ j = "owned" /\ z = t
      <4>1. n = m /\ ((j = k /\ z = p) \/ (j = "owned" /\ z = t))
        BY <3>1
      <4> QED BY <4>1
    <3>2. CASE j = "owned" /\ ~ (n = m /\ z = t)
      <4>1. z \in Tasks => (n \in owns'[z] <=> n \in owns[z])
        BY <1>2, <1>9, <3>2
      <4> QED BY <3>2, <4>1 DEF Spot
    <3>3. CASE n = m /\ j = k /\ z = p
      <4>1. n = m /\ ((j = k /\ z = p) \/ (j = "owned" /\ z = t))
        BY <3>3
      <4> QED BY <4>1
    <3>4. CASE j \in {"normal", "high"} /\ n # m
      BY <1>14, <3>4 DEF Spot
    <3>5. CASE j \in {"normal", "high"} /\ n = m /\ ~ (j = k /\ z = p)
      <4>1. ~ Spot(n, j, z)
        BY <1>4, <1>7, <3>5, OneSpotOnly, Procs2 DEF Kinds, Inv, PlacesSound
      <4>2. ~ Spot(n, j, z)'
        BY <1>14, <3>5 DEF Spot
      <4> QED BY <4>1, <4>2
    <3>6. CASE j \in {"held", "transport"}
      BY <1>2, <1>13, <3>6 DEF Spot
    <3> QED BY <3>1, <3>2, <3>3, <3>4, <3>5, <3>6 DEF Kinds
  <2>4. (Spot(m, k, p) => k = "owned" /\ p = t)'
    BY <2>2
  <2>5. OneSpot /\ p \in Threads /\ k \in Kinds /\ "owned" \in Kinds
    BY Procs2 DEF Kinds, Inv, PlacesSound
  <2> QED BY <1>2, <1>4, <1>7, <2>1, <2>3, <2>4, <2>5, SpotMoved
<1>17. RecordSound'
  <2>1. OwnedBySome(m)' /\ \A n \in Messages \ {m} : OwnedBySome(n)' <=> OwnedBySome(n)
    BY <1>2, <1>9 DEF OwnedBySome
  <2>2. \A n \in Messages : /\ Waits(n)' => Waits(n)
                            /\ SwiHas(n)' <=> SwiHas(n)
                            /\ Travels(n)' <=> Travels(n)
    BY <1>2, <1>14 DEF Waits, SwiHas, Travels
  <2>3. \A r \in Procs, n, o \in Messages :
           /\ Before(normalList'[r], n, o) => Before(normalList[r], n, o)
           /\ Before(highList'[r], n, o) => Before(highList[r], n, o)
    BY <1>4 DEF OnlyAt
  <2>4. \A n, o \in Messages : Ahead(n, o)' => Ahead(n, o)
    BY <1>2, <2>2, <2>3 DEF Ahead
  <2>5. \A n \in Messages \ UrgentPri :
           m \notin UrgentPri /\ via[n] # NoPath /\ ChannelOf(n, via[n]) = ChannelOf(m, via[m])
           /\ ~ OwnedBySome(n) /\ n # m => Ahead(m, n)
    BY <1>3, <1>4, TakenIsFirst
  <2> QED BY <1>2, <1>4, <1>8, <2>1, <2>4, <2>5, RecordReceived DEF Inv
<1> QED BY <1>10, <1>11, <1>12, <1>13, <1>15, <1>16, <1>17 DEF Inv, PlacesSound

\* MessageQ_get looks at the high list, then at the normal one: it takes a message or goes on.
LEMMA LookHighKeeps ==
    ASSUME Inv, NEW t \in Tasks, pc[t] \in {"idle", "woken"}, LookHigh(t), UNCHANGED transportVars
    PROVE  Inv'
<1>1. CASE highList[home[t]] # <<>>
  <2>1. Receive(t, Head(highList[home[t]])) /\ TakesFrom(home[t], Head(highList[home[t]]))
    BY <1>1 DEF LookHigh, TakesFrom
  <2> QED BY <2>1, ReceiveKeeps
<1>2. CASE highList[home[t]] = <<>>
  <2>1. Goto(t, "getNormal") /\ UNCHANGED <<owns, held, lists, synchronizer, unblocked, history>>
    BY <1>2 DEF LookHigh
  <2>2. synchronizer' \in [Procs -> BOOLEAN] /\ unblocked' \in [Procs -> BOOLEAN]
    BY <2>1 DEF Inv, Types, QueueTypeOK
  <2> QED BY <2>1, <2>2, WaitKeeps
<1> QED BY <1>1, <1>2

LEMMA GetNormalKeeps ==
    ASSUME Inv, NEW t \in Tasks, GetNormal(t), UNCHANGED transportVars PROVE Inv'
<1>1. pc[t] = "getNormal"
  BY DEF GetNormal
<1>2. CASE normalList[home[t]] # <<>>
  <2>1. Receive(t, Head(normalList[home[t]])) /\ TakesFrom(home[t], Head(normalList[home[t]]))
    BY <1>2 DEF GetNormal, TakesFrom
  <2> QED BY <1>1, <2>1, ReceiveKeeps
<1>3. CASE normalList[home[t]] = <<>>
  <2>1. Goto(t, "wait") /\ UNCHANGED <<owns, held, lists, synchronizer, unblocked, history>>
    BY <1>3 DEF GetNormal
  <2>2. synchronizer' \in [Procs -> BOOLEAN] /\ unblocked' \in [Procs -> BOOLEAN]
    BY <2>1 DEF Inv, Types, QueueTypeOK
  <2> QED BY <1>1, <2>1, <2>2, WaitKeeps
<1> QED BY <1>2, <1>3

-----------------------------------------------------------------------------
(* The invariant holds                                                      *)

LEMMA InitInv == ASSUME Init PROVE Inv
<1>1. /\ owns = Sends /\ pc = [th \in Threads |-> IF th \in Procs THEN "off" ELSE "idle"]
      /\ held = [th \in Threads |-> NoMsg]
      /\ normalList = [p \in Procs |-> <<>>] /\ highList = [p \in Procs |-> <<>>]
      /\ synchronizer = [p \in Procs |-> FALSE] /\ unblocked = [p \in Procs |-> FALSE]
      /\ via = [m \in Messages |-> NoPath]
      /\ sent = [c \in Channels |-> <<>>] /\ got = [c \in Channels |-> <<>>]
      /\ link = [p \in Procs |-> "down"] /\ list = [p \in Procs |-> <<>>]
      /\ gate = <<>> /\ gateSwi = [p \in Procs |-> None]
      /\ event = [p \in Procs |-> FALSE] /\ posted = [p \in Procs |-> FALSE]
  BY DEF Init, QueueInit
<1>2. Types
  <2>1. \A S : <<>> \in Seq(S)
    OBVIOUS
  <2>2. QueueTypeOK
    BY <1>1, <2>1, TasksAssumption DEF QueueTypeOK
  <2> QED BY <1>1, <2>1, <2>2 DEF Types
<1>3. /\ \A t \in Tasks : pc[t] = "idle" /\ held[t] = NoMsg
      /\ \A p \in Procs : pc[p] = "off" /\ held[p] = NoMsg
      /\ \A th \in Threads : pc[th] \notin GateLabels /\ held[th] = NoMsg
  BY <1>1, Procs2 DEF GateLabels
<1>4. ThreadsSound
  BY <1>3, Procs2 DEF ThreadsSound, ThreadSound, TaskLabels, SwiLabels, PutLabels
<1>5. GateSound
  <2>1. Distinct(gate) /\ \A th \in Threads : ~ Has(gate, th)
    BY <1>1, EmptyHas DEF Distinct
  <2>2. \A p \in Procs : gateSwi[p] = None
    BY <1>1
  <2>3. \A t \in Tasks : gateSwi[home[t]] # t
    BY <2>2, Procs2
  <2> QED BY <1>3, <2>1, <2>2, <2>3, Procs2 DEF GateSound, InsideLabels
<1>6. /\ \A m : \A p \in Procs : ~ Has(list[p], m) /\ ~ Has(normalList[p], m) /\ ~ Has(highList[p], m)
      /\ \A p \in Procs : Distinct(list[p]) /\ Distinct(normalList[p]) /\ Distinct(highList[p])
      /\ \A t : ~ Undecided(t)
  BY <1>1, <1>3, EmptyHas DEF Distinct, Undecided
<1>7. ListsSound /\ UndecidedIsLast
  BY <1>6 DEF ListsSound, UndecidedIsLast
<1>8. OneSpot
  <2> SUFFICES ASSUME NEW m \in Messages
               PROVE  \E k \in Kinds, x \in Threads :
                         /\ Spot(m, k, x)
                         /\ \A j \in Kinds, y \in Threads : Spot(m, j, y) => j = k /\ y = x
    BY DEF OneSpot
  <2>1. PICK t \in Tasks : \A s \in Tasks : m \in Sends[s] <=> s = t
    BY SendsAssumption
  <2>2. \A j \in Kinds, y \in Threads : Spot(m, j, y) <=> j = "owned" /\ y = t
    <3>1. \A y \in Threads : held[y] # m
      BY <1>3, PriorityAssumption
    <3> QED BY <1>1, <1>6, <2>1, <3>1, Procs2 DEF Spot
  <2> QED BY <2>2, Procs2 DEF Kinds
<1>9. MailSound /\ NoneStranded
  BY <1>1, <1>3, <1>6 DEF MailSound, NoneStranded
<1>10. RecordSound
  <2> SUFFICES ASSUME NEW c \in Channels PROVE ChannelSound(c)
    BY DEF RecordSound
  <2>1. sent[c] = <<>> /\ got[c] = <<>> /\ Len(<<>>) = 0 /\ Distinct(<<>>)
    BY <1>1 DEF Distinct
  <2> QED BY <1>1, <2>1, EmptyHas DEF ChannelSound
<1> QED BY <1>2, <1>4, <1>5, <1>7, <1>8, <1>9, <1>10 DEF Inv, PlacesSound

LEMMA StepKeeps ==
    ASSUME Inv, NEW th \in Threads, Step(th) PROVE Inv'
<1>1. Runs(th)
  BY DEF Step
<1>2. CASE InTransport(th)
  <2>1. CASE Enter(th)
    BY <1>1, <2>1, EnterKeeps
  <2>2. CASE Acquire(th)
    BY <2>2, AcquireKeeps
  <2>3. CASE Leave(th)
    BY <2>3, LeaveKeeps, SwiLeaveKeeps, Procs2
  <2>4. CASE th \in Tasks /\ Insert(th)
    BY <2>4, InsertKeeps
  <2>5. CASE th \in Tasks /\ Notify(th)
    BY <2>5, NotifyKeeps
  <2>6. CASE th \in Tasks /\ NotifyFails(th)
    BY <2>6, NotifyFailsKeeps
  <2>7. CASE th \in Tasks /\ RemoveFromList(th)
    BY <2>7, RemoveFromListKeeps
  <2>8. CASE th \in Procs /\ Take(th)
    BY <2>8, TakeNothingKeeps, TakeOneKeeps
  <2> QED BY <1>2, <2>1, <2>2, <2>3, <2>4, <2>5, <2>6, <2>7, <2>8 DEF InTransport
<1>3. CASE InQueue(th) /\ UNCHANGED transportVars
  <2>1. CASE Enqueue(th)
    BY <1>3, <2>1, EnqueueKeeps
  <2>2. CASE Signal(th)
    BY <1>3, <2>2, SignalKeeps
  <2>3. CASE th \in Tasks /\ (Get(th) \/ WokenGet(th))
    <3>1. pc[th] \in {"idle", "woken"} /\ LookHigh(th)
      BY <2>3 DEF Get, WokenGet
    <3> QED BY <1>3, <2>3, <3>1, LookHighKeeps
  <2>4. CASE th \in Tasks /\ GetNormal(th)
    BY <1>3, <2>4, GetNormalKeeps
  <2>5. CASE th \in Tasks /\ (Wake(th) \/ WokenUnblocked(th))
    BY <1>3, <2>5, WakeKeeps
  <2> QED BY <1>3, <2>1, <2>2, <2>3, <2>4, <2>5 DEF InQueue, Puts, Reads
<1> QED BY <1>2, <1>3 DEF Step

LEMMA NextInv == ASSUME Inv, [Next]_vars PROVE Inv'
<1>1. CASE \E th \in Threads : Step(th)
  BY <1>1, StepKeeps
<1>2. ASSUME NEW t \in Tasks, Start(t) PROVE Inv'
  BY <1>2, PutKeeps, UnblockKeeps DEF Start
<1>3. ASSUME NEW t \in Tasks, Timeout(t), UNCHANGED transportVars PROVE Inv'
  BY <1>3, WakeKeeps
<1>4. ASSUME NEW p \in Procs, Attach(p) \/ Isr(p) \/ SwiStart(p) PROVE Inv'
  BY <1>4, AttachKeeps, IsrKeeps, SwiStartKeeps
<1>5. CASE UNCHANGED vars
  <2>1. /\ UNCHANGED <<owns, pc, held, normalList, highList, synchronizer, unblocked, via, sent, got>>
        /\ UNCHANGED <<link, list, gate, gateSwi, event, posted>>
    BY <1>5 DEF vars, queueVars, transportVars, lists, history
  <2>2. Types' /\ ThreadsSound' /\ GateSound'
    BY <2>1 DEF Inv, Types, QueueTypeOK, ThreadsSound, GateSound
  <2>3. Moves(creator, pc[creator], held[creator])
    BY <2>1, NobodyMoves DEF Inv
  <2>4. MailKept(creator, pc[creator])
    BY <2>1, Procs2 DEF MailKept, Inv, PlacesSound, MailSound
  <2>5. PlacesSound' /\ RecordSound'
    BY <1>5, <2>3, <2>4, QuietStep, Procs2 DEF vars, queueVars, transportVars
  <2> QED BY <2>2, <2>5 DEF Inv
<1> QED BY <1>1, <1>2, <1>3, <1>4, <1>5 DEF Next

LEMMA InvAlways == Spec => []Inv
<1>1. Init => Inv
  BY InitInv
<1>2. Inv /\ [Next]_vars => Inv'
  BY NextInv
<1> QED BY <1>1, <1>2, PTL DEF Spec

-----------------------------------------------------------------------------
(* A message has one owner                                                  *)

\* The elements of Places(m).
LEMMA PlacesAre ==
    ASSUME NEW m, NEW x
    PROVE  x \in Places(m) <=>
              \/ \E t \in Tasks : m \in owns[t] /\ x = <<"owned", t, 0>>
              \/ \E th \in Threads : held[th] = m /\ ~ Undecided(th) /\ x = <<"held", th, 0>>
              \/ \E p \in Procs :
                    \/ \E i \in DOMAIN list[p] : list[p][i] = m /\ x = <<"transport", p, i>>
                    \/ \E i \in DOMAIN normalList[p] : normalList[p][i] = m /\ x = <<"normal", p, i>>
                    \/ \E i \in DOMAIN highList[p] : highList[p][i] = m /\ x = <<"high", p, i>>
<1> DEFINE At(k, p) == {<<k, p, i>> : i \in {j \in DOMAIN ListOf[k][p] : ListOf[k][p][j] = m}}
<1>1. /\ DOMAIN ListOf = {"transport", "normal", "high"}
      /\ ListOf["transport"] = list /\ ListOf["normal"] = normalList /\ ListOf["high"] = highList
  BY DEF ListOf
<1>3. \A k, p : x \in At(k, p) <=> \E i \in DOMAIN ListOf[k][p] : ListOf[k][p][i] = m /\ x = <<k, p, i>>
  OBVIOUS
<1> HIDE DEF At
<1>2. x \in UNION {At(k, p) : k \in DOMAIN ListOf, p \in Procs} <=>
        \E k \in DOMAIN ListOf, p \in Procs : x \in At(k, p)
  OBVIOUS
<1>4. x \in UNION {At(k, p) : k \in DOMAIN ListOf, p \in Procs} <=>
        \E p \in Procs :
           \/ \E i \in DOMAIN list[p] : list[p][i] = m /\ x = <<"transport", p, i>>
           \/ \E i \in DOMAIN normalList[p] : normalList[p][i] = m /\ x = <<"normal", p, i>>
           \/ \E i \in DOMAIN highList[p] : highList[p][i] = m /\ x = <<"high", p, i>>
  BY <1>1, <1>2, <1>3
<1>5. x \in Places(m) <=>
        \/ \E t \in Tasks : m \in owns[t] /\ x = <<"owned", t, 0>>
        \/ \E th \in Threads : held[th] = m /\ ~ Undecided(th) /\ x = <<"held", th, 0>>
        \/ x \in UNION {At(k, p) : k \in DOMAIN ListOf, p \in Procs}
  BY DEF Places, At
<1> QED BY <1>4, <1>5

\* The place of a message that is in one spot, on a list s that has nothing twice.
LEMMA OnePlace ==
    ASSUME NEW s \in Seq(Messages), Distinct(s), NEW m, Has(s, m)
    PROVE  \E i \in DOMAIN s : \A j \in DOMAIN s : s[j] = m <=> j = i
<1>1. PICK i \in 1 .. Len(s) : s[i] = m
  BY DEF Has
<1>2. DOMAIN s = 1 .. Len(s)
  OBVIOUS
<1> QED BY <1>1, <1>2 DEF Distinct

LEMMA OneOwnerHolds == ASSUME Inv PROVE OneOwner
<1> SUFFICES ASSUME NEW m \in Messages PROVE Cardinality(Places(m)) = 1
  BY DEF OneOwner
<1>1. PICK k \in Kinds, x \in Threads :
        /\ Spot(m, k, x)
        /\ \A j \in Kinds, y \in Threads : Spot(m, j, y) => j = k /\ y = x
  BY DEF Inv, PlacesSound, OneSpot
<1>2. \A j \in Kinds, y \in Threads : Spot(m, j, y) <=> j = k /\ y = x
  BY <1>1
<1>3. /\ \A t \in Tasks : m \in owns[t] <=> k = "owned" /\ t = x
      /\ \A th \in Threads : held[th] = m /\ ~ Undecided(th) <=> k = "held" /\ th = x
  BY <1>2, Procs2 DEF Spot, Kinds
<1>4. ASSUME NEW p \in Procs
      PROVE  /\ Has(list[p], m) <=> k = "transport" /\ p = x
             /\ Has(normalList[p], m) <=> k = "normal" /\ p = x
             /\ Has(highList[p], m) <=> k = "high" /\ p = x
  BY <1>2, Procs2 DEF Spot, Kinds
<1>5. /\ \A p \in Procs : list[p] \in Seq(Messages) /\ Distinct(list[p])
      /\ \A p \in Procs : normalList[p] \in Seq(Messages) /\ Distinct(normalList[p])
      /\ \A p \in Procs : highList[p] \in Seq(Messages) /\ Distinct(highList[p])
  BY DEF Inv, Types, QueueTypeOK, PlacesSound, ListsSound
<1>6. \A p \in Procs :
         /\ (k = "transport" /\ p = x) \/ \A i \in DOMAIN list[p] : list[p][i] # m
         /\ (k = "normal" /\ p = x) \/ \A i \in DOMAIN normalList[p] : normalList[p][i] # m
         /\ (k = "high" /\ p = x) \/ \A i \in DOMAIN highList[p] : highList[p][i] # m
  BY <1>4, <1>5 DEF Has
<1>7. Cardinality(Places(m)) = 1
  <2>1. CASE k = "owned"
    <3>1. x \in Tasks /\ m \in owns[x]
      BY <1>1, <2>1 DEF Spot
    <3>2. \A v : v \in Places(m) <=> v = <<"owned", x, 0>>
      BY <1>3, <1>6, <2>1, <3>1, PlacesAre
    <3>3. Places(m) = {<<"owned", x, 0>>}
      BY <3>2
    <3> QED BY <3>3, FS_Singleton
  <2>2. CASE k = "held"
    <3>1. \A v : v \in Places(m) <=> v = <<"held", x, 0>>
      BY <1>3, <1>6, <2>2, PlacesAre
    <3>2. Places(m) = {<<"held", x, 0>>}
      BY <3>1
    <3> QED BY <3>2, FS_Singleton
  <2>3. CASE k = "transport"
    <3>1. x \in Procs /\ Has(list[x], m)
      BY <1>1, <2>3 DEF Spot
    <3>2. list[x] \in Seq(Messages) /\ Distinct(list[x])
      BY <1>5, <3>1
    <3>3. PICK i \in DOMAIN list[x] : \A j \in DOMAIN list[x] : list[x][j] = m <=> j = i
      BY <3>1, <3>2, OnePlace
    <3>4. \A v : v \in Places(m) <=> v = <<"transport", x, i>>
      BY <1>3, <1>6, <2>3, <3>1, <3>3, PlacesAre
    <3>5. Places(m) = {<<"transport", x, i>>}
      BY <3>4
    <3> QED BY <3>5, FS_Singleton
  <2>4. CASE k = "normal"
    <3>1. x \in Procs /\ Has(normalList[x], m)
      BY <1>1, <2>4 DEF Spot
    <3>2. normalList[x] \in Seq(Messages) /\ Distinct(normalList[x])
      BY <1>5, <3>1
    <3>3. PICK i \in DOMAIN normalList[x] : \A j \in DOMAIN normalList[x] : normalList[x][j] = m <=> j = i
      BY <3>1, <3>2, OnePlace
    <3>4. \A v : v \in Places(m) <=> v = <<"normal", x, i>>
      BY <1>3, <1>6, <2>4, <3>1, <3>3, PlacesAre
    <3>5. Places(m) = {<<"normal", x, i>>}
      BY <3>4
    <3> QED BY <3>5, FS_Singleton
  <2>5. CASE k = "high"
    <3>1. x \in Procs /\ Has(highList[x], m)
      BY <1>1, <2>5 DEF Spot
    <3>2. highList[x] \in Seq(Messages) /\ Distinct(highList[x])
      BY <1>5, <3>1
    <3>3. PICK i \in DOMAIN highList[x] : \A j \in DOMAIN highList[x] : highList[x][j] = m <=> j = i
      BY <3>1, <3>2, OnePlace
    <3>4. \A v : v \in Places(m) <=> v = <<"high", x, i>>
      BY <1>3, <1>6, <2>5, <3>1, <3>3, PlacesAre
    <3>5. Places(m) = {<<"high", x, i>>}
      BY <3>4
    <3> QED BY <3>5, FS_Singleton
  <2> QED BY <2>1, <2>2, <2>3, <2>4, <2>5 DEF Kinds
<1> QED BY <1>7

-----------------------------------------------------------------------------
(* Theorems                                                                 *)

\* Whatever the tasks, readers and Swis of both processors do together, every message is in
\* one place, once, and none is on a list in shared memory where nobody will look for it:
\* TransportShm_put, TransportShm_swiFxn, MessageQ_put and MessageQ_get.
THEOREM MessagesAreAccounted == Spec => []MessagesAccounted
<1>1. Inv => MessagesAccounted
  <2> SUFFICES ASSUME Inv PROVE MessagesAccounted
    OBVIOUS
  <2>1. TypeOK
    BY LabelsTyped DEF Inv
  <2>2. OneOwner
    BY OneOwnerHolds
  <2>3. NoneStranded
    BY DEF Inv, PlacesSound
  <2> QED BY <2>1, <2>2, <2>3 DEF MessagesAccounted
<1> QED BY <1>1, InvAlways, PTL

\* At the lock between the processors, inside it or waiting, is one thread of each.
OnePerProcessor ==
    \A a, b \in Threads : pc[a] \in GateLabels /\ pc[b] \in GateLabels /\ Cpu(a) = Cpu(b) => a = b

\* The thread of a processor that asks for the lock is the task that has disabled its Swis, or
\* the Swi (GateMP_enter: GateSwi, then the remote gate): the Peterson gate is made for that.
THEOREM GateHasOnePerProcessor == Spec => []OnePerProcessor
<1>1. Inv => OnePerProcessor
  <2> SUFFICES ASSUME Inv, NEW a \in Threads, NEW b \in Threads,
                      pc[a] \in GateLabels, pc[b] \in GateLabels, Cpu(a) = Cpu(b)
               PROVE  a = b
    BY DEF OnePerProcessor
  <2>1. CASE a \in Tasks /\ b \in Tasks
    BY <2>1, Procs2 DEF Inv, GateSound
  <2>2. CASE a \in Procs /\ b \in Procs
    BY <2>2, Procs2
  <2>3. ASSUME NEW t \in Tasks, NEW p \in Procs, pc[t] \in GateLabels, pc[p] \in GateLabels, home[t] = p
        PROVE  FALSE
    <3>1. gateSwi[p] = t /\ t # None
      BY <2>3, Procs2 DEF Inv, GateSound
    <3>2. pc[p] = "off"
      BY <3>1 DEF Inv, GateSound
    <3> QED BY <2>3, <3>2 DEF GateLabels
  <2>4. CASE a \in Tasks /\ b \in Procs
    BY <2>3, <2>4, Procs2
  <2>5. CASE a \in Procs /\ b \in Tasks
    BY <2>3, <2>5, Procs2
  <2> QED BY <2>1, <2>2, <2>4, <2>5, Procs2
<1> QED BY <1>1, InvAlways, PTL

-----------------------------------------------------------------------------
(* Each stream of messages is a channel                                     *)

LEMMA SendIsSend ==
    ASSUME Inv, NEW m \in Messages, via[m] = NoPath, NEW path \in Paths, Sent(m, path)
    PROVE  C!ChannelNext \/ UNCHANGED C!channelVars
<1>1. CASE m \in UrgentPri
  BY <1>1 DEF Sent, Record, C!channelVars
<1>2. CASE m \notin UrgentPri
  <2>1. PICK c \in Channels : c = ChannelOf(m, path)
    BY ChannelIs
  <2>2. /\ ChannelSound(c) /\ sent[c] \in Seq(Messages) /\ got[c] \in Seq(Messages)
        /\ Len(sent[c]) \in Nat /\ Len(got[c]) \in Nat
    BY DEF Inv, RecordSound, Types, QueueTypeOK
  <2>3. ~ Has(sent[c], m) /\ Distinct(sent[c])
    BY <2>2 DEF ChannelSound
  <2>4. Len(sent[c]) < Cardinality(Messages) /\ Cardinality(Messages) \in Nat
    BY <2>2, <2>3, MessagesAssumption, DistinctLength, FS_CardinalityType
  <2>5. C!UnderWay(c) < Cardinality(Messages)
    <3>1. PICK a \in Nat, b \in Nat, n \in Nat : a = Len(sent[c]) /\ b = Len(got[c]) /\ n = Cardinality(Messages)
      BY <2>2, <2>4
    <3>2. a < n
      BY <2>4, <3>1
    <3>3. a - b < n
      BY <3>2
    <3> QED BY <3>1, <3>3 DEF C!UnderWay
  <2>6. sent' = [sent EXCEPT ![c] = Append(@, m)] /\ got' = got
    BY <1>2, <2>1 DEF Sent, Record
  <2>7. C!Send(c, m)
    BY <2>5, <2>6 DEF C!Send
  <2> QED BY <2>7 DEF C!ChannelNext
<1> QED BY <1>1, <1>2

LEMMA ReceiveIsReceive ==
    ASSUME Inv, NEW p \in Procs, NEW m, TakesFrom(p, m), NEW t \in Tasks, Receive(t, m)
    PROVE  C!ChannelNext \/ UNCHANGED C!channelVars
<1>1. /\ m \in Messages /\ via[m] # NoPath
      /\ m \in NormalPri => Has(normalList[p], m)
      /\ m \notin NormalPri => Has(highList[p], m)
  BY TakesFromEffect DEF Inv, PlacesSound
<1>2. sent' = sent /\ got' = Record(got, m, via[m])
  BY DEF Receive
<1>3. CASE m \in UrgentPri
  BY <1>2, <1>3 DEF Record, C!channelVars
<1>4. CASE m \notin UrgentPri
  <2>1. via[m] \in Paths
    BY <1>1 DEF Inv, Types, QueueTypeOK
  <2>2. PICK c \in Channels : c = ChannelOf(m, via[m])
    BY <1>1, <2>1, ChannelIs
  <2>3. Spot(m, "normal", p) \/ Spot(m, "high", p)
    BY <1>1 DEF Spot
  <2>4. ~ OwnedBySome(m)
    BY <1>1, <2>3, OneSpotOnly, Procs2 DEF OwnedBySome, Spot, Kinds, Inv, PlacesSound
  <2>5. \A n \in Messages : via[n] # NoPath /\ ChannelOf(n, via[n]) = c /\ n \notin UrgentPri
                               /\ ~ OwnedBySome(n) /\ n # m => Ahead(m, n)
    BY <1>1, <1>4, <2>2, TakenIsFirst
  <2>6. Len(got[c]) + 1 \in 1 .. Len(sent[c]) /\ sent[c][Len(got[c]) + 1] = m
    BY <1>1, <1>4, <2>2, <2>4, <2>5, NextIsReceived DEF Inv
  <2>7. Len(sent[c]) \in Nat /\ Len(got[c]) \in Nat /\ got \in [Channels -> Seq(Messages)]
    BY DEF Inv, Types, QueueTypeOK
  <2>8. C!UnderWay(c) > 0
    BY <2>6, <2>7 DEF C!UnderWay
  <2>9. got' = [got EXCEPT ![c] = Append(@, sent[c][Len(@) + 1])]
    BY <1>2, <1>4, <2>2, <2>6, <2>7 DEF Record
  <2>10. C!Receive(c)
    BY <1>2, <2>8, <2>9 DEF C!Receive
  <2> QED BY <2>10 DEF C!ChannelNext
<1> QED BY <1>3, <1>4

\* A step sends a message, receives the next one of its channel, or does neither.
LEMMA NextIsChannelStep == ASSUME Inv, [Next]_vars PROVE [C!ChannelNext]_(C!channelVars)
<1> DEFINE Goal == C!ChannelNext \/ UNCHANGED C!channelVars
<1>1. UNCHANGED <<sent, got>> => Goal
  BY DEF C!channelVars
<1> HIDE DEF Goal
<1>2. ASSUME NEW t \in Tasks, LookHigh(t) PROVE Goal
  <2>1. CASE highList[home[t]] # <<>>
    <3>1. Receive(t, Head(highList[home[t]])) /\ TakesFrom(home[t], Head(highList[home[t]]))
      BY <1>2, <2>1 DEF LookHigh, TakesFrom
    <3> QED BY <3>1, ReceiveIsReceive, Procs2 DEF Goal
  <2>2. CASE highList[home[t]] = <<>>
    BY <1>1, <1>2, <2>2 DEF LookHigh, history
  <2> QED BY <2>1, <2>2
<1>3. ASSUME NEW t \in Tasks, GetNormal(t) PROVE Goal
  <2>1. CASE normalList[home[t]] # <<>>
    <3>1. Receive(t, Head(normalList[home[t]])) /\ TakesFrom(home[t], Head(normalList[home[t]]))
      BY <1>3, <2>1 DEF GetNormal, TakesFrom
    <3> QED BY <3>1, ReceiveIsReceive, Procs2 DEF Goal
  <2>2. CASE normalList[home[t]] = <<>>
    BY <1>1, <1>3, <2>2 DEF GetNormal, history
  <2> QED BY <2>1, <2>2
<1>4. ASSUME NEW th \in Threads, Enqueue(th) PROVE Goal
  <2>1. pc[th] = "enqueue"
    BY <1>4 DEF Enqueue
  <2>2. CASE th \in Tasks
    <3>1. Sent(held[th], "local") /\ held[th] \in Messages /\ via[held[th]] = NoPath
      BY <1>4, <2>1, <2>2, EnqueueKnown, Procs2 DEF Enqueue
    <3> QED BY <3>1, SendIsSend DEF Goal, Paths
  <2>3. CASE th \in Procs
    BY <1>1, <1>4, <2>3 DEF Enqueue, history
  <2> QED BY <2>2, <2>3, Procs2
<1>5. ASSUME NEW t \in Tasks, Notify(t) PROVE Goal
  <2>1. Undecided(t) /\ Sent(held[t], "remote")
    BY <1>5 DEF Notify, Undecided
  <2>2. held[t] \in Messages /\ via[held[t]] = NoPath
    BY <2>1, UndecidedKnown
  <2> QED BY <2>1, <2>2, SendIsSend DEF Goal, Paths
<1>6. ASSUME NEW th \in Threads, Step(th) PROVE Goal
  <2>1. CASE InTransport(th)
    <3>1. CASE Enter(th) \/ Acquire(th)
      BY <1>1, <3>1 DEF Enter, Acquire, gateFrame, history
    <3>2. CASE Leave(th) \/ Insert(th) \/ NotifyFails(th) \/ RemoveFromList(th) \/ Take(th)
      BY <1>1, <3>2 DEF Leave, Insert, NotifyFails, RemoveFromList, Take, history
    <3> QED BY <1>5, <2>1, <3>1, <3>2 DEF InTransport
  <2>2. CASE InQueue(th)
    <3>1. CASE Signal(th) \/ Wake(th) \/ WokenUnblocked(th)
      BY <1>1, <3>1 DEF Signal, Wake, WokenUnblocked, history
    <3>2. CASE th \in Tasks /\ (Get(th) \/ WokenGet(th))
      BY <1>2, <3>2 DEF Get, WokenGet
    <3> QED BY <1>3, <1>4, <2>2, <3>1, <3>2 DEF InQueue, Puts, Reads
  <2> QED BY <1>6, <2>1, <2>2 DEF Step
<1>7. ASSUME NEW t \in Tasks, Start(t) \/ Timeout(t) PROVE Goal
  BY <1>1, <1>7 DEF Start, PutRemote, PutLocal, Unblock, Timeout, history
<1>8. ASSUME NEW p \in Procs, Attach(p) \/ Isr(p) \/ SwiStart(p) PROVE Goal
  BY <1>1, <1>8 DEF Attach, RegisterEvent, RegisterTransport, Isr, SwiStart, queueVars, history
<1>9. ASSUME UNCHANGED vars PROVE Goal
  <2>1. UNCHANGED <<sent, got>>
    BY <1>9 DEF vars, queueVars, history
  <2> QED BY <1>1, <2>1
<1>10. Goal
  BY <1>6, <1>7, <1>8, <1>9 DEF Next
<1> QED BY <1>10 DEF Goal

\* What one side sends with one priority to a queue, through the transport or not, arrives
\* there once each and in that order: two queues and a transport implement the channels of
\* module Channel, where at most all the messages are under way.
THEOREM ChannelsImplemented == Spec => ImplementsChannel
<1>1. Init => C!ChannelInit
  BY DEF Init, QueueInit, C!ChannelInit
<1>2. Inv /\ [Next]_vars => [C!ChannelNext]_(C!channelVars)
  BY NextIsChannelStep
<1> QED BY <1>1, <1>2, InvAlways, PTL DEF Spec, ImplementsChannel, C!ChannelSpec
=============================================================================
