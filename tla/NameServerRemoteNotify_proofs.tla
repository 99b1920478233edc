-------------------- MODULE NameServerRemoteNotify_proofs --------------------
(***************************************************************************)
(* Proofs about NameServerRemoteNotify for any number of processors,       *)
(* clients, owners and names.                                              *)
(***************************************************************************)
EXTENDS NameServerRemoteNotify, FiniteSetTheorems, SequenceTheorems, TLAPS

USE TableAssumption, ClientsAssumption

-----------------------------------------------------------------------------
(* The first of a set of places, and the list of one table                  *)

\* Every set of naturals that is not empty has a least element.
LEMMA LeastExists == \A S \in SUBSET Nat : S # {} => \E i \in S : \A j \in S : i <= j
<1> SUFFICES ASSUME NEW S \in SUBSET Nat, S # {}
             PROVE \E i \in S : \A j \in S : i <= j
  OBVIOUS
<1> DEFINE T == {0 .. i : i \in S}
<1>1. T # {} /\ T \subseteq FiniteSubsetsOf(Nat)
  <2>1. ASSUME NEW i \in S PROVE 0 .. i \in FiniteSubsetsOf(Nat)
    <3>1. IsFiniteSet(0 .. i)
      BY FS_Interval
    <3> QED BY <3>1 DEF FiniteSubsetsOf
  <2>2. \A x \in T : x \in FiniteSubsetsOf(Nat)
    BY <2>1, Zenon
  <2>3. T # {}
    <3>1. PICK i \in S : TRUE
      OBVIOUS
    <3>2. 0 .. i \in T
      OBVIOUS
    <3> QED BY <3>2
  <2> QED BY <2>2, <2>3, Zenon
<1>2. PICK x \in T : \A y \in T : ~ (<<y, x>> \in StrictSubsetOrdering(Nat))
  <2> HIDE DEF T
  <2> QED BY <1>1, FS_StrictSubsetOrderingWellFounded, WFMin
<1>3. PICK i \in S : x = 0 .. i
  OBVIOUS
<1>4. ASSUME NEW j \in S PROVE i <= j
  <2> SUFFICES ASSUME j < i PROVE FALSE
    OBVIOUS
  <2>1. 0 .. j \in T /\ 0 .. j \subseteq 0 .. i /\ i \in 0 .. i /\ i \notin 0 .. j
    OBVIOUS
  <2>2. 0 .. j \in SUBSET Nat /\ 0 .. i \in SUBSET Nat /\ 0 .. j # 0 .. i
    BY <2>1
  <2> QED BY <1>2, <1>3, <2>1, <2>2 DEF StrictSubsetOrdering
<1> QED BY <1>4

\* FirstOf finds it.
LEMMA FirstOfIsLeast ==
    ASSUME NEW S \in SUBSET Nat, S # {}
    PROVE  FirstOf(S) \in S /\ \A j \in S : FirstOf(S) <= j
BY LeastExists DEF FirstOf

\* A look-up finds a value or nothing.
LEMMA GetLocalType ==
    ASSUME TableTypeOK, NEW p \in Procs, NEW n \in Names
    PROVE  GetLocal(p, n) \in Values \cup {NotFound}
<1>1. CASE Places(p, n) = {}
  BY <1>1 DEF GetLocal
<1>2. CASE Places(p, n) # {}
  <2>1. nameList[p] \in Seq(Entries)
    BY DEF TableTypeOK
  <2>2. Places(p, n) \subseteq DOMAIN nameList[p] /\ Places(p, n) \in SUBSET Nat
    BY <2>1 DEF Places
  <2>3. FirstOf(Places(p, n)) \in DOMAIN nameList[p]
    BY <1>2, <2>2, FirstOfIsLeast
  <2>4. nameList[p][FirstOf(Places(p, n))] \in Entries
    BY <2>1, <2>3
  <2> QED BY <1>2, <2>4 DEF GetLocal, Entries
<1> QED BY <1>1, <1>2

\* Taking one entry off a list leaves a list that is shorter by one.
LEMMA DropAtType ==
    ASSUME NEW S, NEW s \in Seq(S), NEW i \in 1 .. Len(s)
    PROVE  DropAt(s, i) \in Seq(S) /\ Len(DropAt(s, i)) = Len(s) - 1
<1>1. SubSeq(s, 1, i - 1) \in Seq(S) /\ Len(SubSeq(s, 1, i - 1)) = i - 1
  BY SubSeqProperties
<1>2. SubSeq(s, i + 1, Len(s)) \in Seq(S) /\ Len(SubSeq(s, i + 1, Len(s))) = Len(s) - i
  BY SubSeqProperties
<1> DEFINE a == SubSeq(s, 1, i - 1)
           b == SubSeq(s, i + 1, Len(s))
<1>3. a \o b \in Seq(S) /\ Len(a \o b) = Len(a) + Len(b)
  <2> HIDE DEF a, b
  <2> QED BY <1>1, <1>2, ConcatProperties DEF a, b
<1>4. DropAt(s, i) = a \o b /\ Len(s) \in Nat
  BY DEF DropAt
<1> HIDE DEF a, b
<1>5. Len(a) = i - 1 /\ Len(b) = Len(s) - i
  BY <1>1, <1>2 DEF a, b
<1>6. (i - 1) + (Len(s) - i) = Len(s) - 1
  BY <1>4
<1> QED BY <1>3, <1>4, <1>5, <1>6

AnyValue == CHOOSE v \in Versions : TRUE

LEMMA AnyAreTyped == AnyName \in Names /\ <<AnyName, AnyValue>> \in Values /\ 0 \in Procs
BY DEF AnyName, AnyValue, Values, Procs

-----------------------------------------------------------------------------
(* Every entry is free, on its way to the list, or on it                    *)

Putting(p) == {o \in Owners : home[o] = p /\ opc[o] = "put"}

EntriesCounted ==
    \A p \in Procs :
        /\ Len(nameList[p]) >= Len(StaticTable[p])
        /\ freeEntries[p] + Cardinality(Putting(p)) + Len(nameList[p])
              = numDynamic + Len(StaticTable[p])

TableInv == TableTypeOK /\ EntriesCounted

LEMMA PuttingIsFinite ==
    \A p \in Procs : IsFiniteSet(Putting(p)) /\ Cardinality(Putting(p)) \in Nat
BY FS_Subset, FS_CardinalityType DEF Putting

LEMMA TableInitIsSound == TableInit => TableInv
<1> SUFFICES ASSUME TableInit PROVE TableInv
  OBVIOUS
<1>1. \A p \in Procs : Putting(p) = {}
  BY DEF TableInit, Putting
<1>2. Cardinality({}) = 0
  BY FS_EmptySet
<1>3. TableTypeOK
  BY AnyAreTyped DEF TableInit, TableTypeOK
<1>4. \A p \in Procs : Len(StaticTable[p]) \in Nat
  OBVIOUS
<1>5. ASSUME NEW p \in Procs PROVE Cardinality(Putting(p)) = 0
  BY <1>1, <1>2
<1>6. ASSUME NEW p \in Procs PROVE nameList[p] = StaticTable[p] /\ freeEntries[p] = numDynamic
  BY DEF TableInit
<1>7. EntriesCounted
  BY <1>4, <1>5, <1>6 DEF EntriesCounted
<1> QED BY <1>3, <1>7 DEF TableInv

\* Adding in three steps, removing in one: no entry is lost or counted twice.
LEMMA TableStepIsSound ==
    ASSUME TableInv, NEW o \in Owners, OwnerStep(o) PROVE TableInv'
<1>h. home[o] \in Procs
  OBVIOUS
<1>l. \A p \in Procs : /\ Len(nameList[p]) \in Nat /\ Len(StaticTable[p]) \in Nat
                       /\ nameList[p] \in Seq(Entries) /\ freeEntries[p] \in 0 .. numDynamic
  BY DEF TableInv, TableTypeOK
<1>c. \A p \in Procs : IsFiniteSet(Putting(p)) /\ Cardinality(Putting(p)) \in Nat
  BY PuttingIsFinite
<1>1. ASSUME NEW n \in Names, AddCheck(o, n) PROVE TableInv'
  <2>1. \A p \in Procs : Putting(p)' = Putting(p)
    BY <1>1 DEF AddCheck, Putting, TableInv, TableTypeOK
  <2> QED BY <1>1, <2>1 DEF AddCheck, TableInv, TableTypeOK, EntriesCounted
<1>2. CASE AddGet(o)
  <2>1. CASE freeEntries[home[o]] > 0 /\ freeEntries' # freeEntries
    <3>0. /\ freeEntries' = [freeEntries EXCEPT ![home[o]] = @ - 1]
          /\ opc' = [opc EXCEPT ![o] = "put"] /\ opc[o] = "get"
          /\ UNCHANGED <<nameList, oname>>
      BY <1>2, <2>1 DEF AddGet
    <3>1. \A p \in Procs : Putting(p)' = IF p = home[o] THEN Putting(p) \cup {o} ELSE Putting(p)
      BY <3>0 DEF Putting, TableInv, TableTypeOK
    <3>2. o \notin Putting(home[o])
      BY <3>0 DEF Putting
    <3>3. \A p \in Procs : Cardinality(Putting(p)') =
                           IF p = home[o] THEN Cardinality(Putting(p)) + 1 ELSE Cardinality(Putting(p))
      <4>1. Cardinality(Putting(home[o]) \cup {o}) = Cardinality(Putting(home[o])) + 1
        BY <1>h, <1>c, <3>2, FS_AddElement
      <4> QED BY <3>1, <4>1
    <3>4. EntriesCounted'
      BY <1>c, <1>h, <1>l, <3>0, <3>3 DEF TableInv, TableTypeOK, EntriesCounted
    <3>5. TableTypeOK'
      BY <1>h, <2>1, <3>0 DEF TableInv, TableTypeOK
    <3> QED BY <3>4, <3>5 DEF TableInv
  <2>2. CASE opc' = [opc EXCEPT ![o] = "idle"] /\ UNCHANGED <<nameList, freeEntries>>
             /\ opc[o] = "get" /\ oname' = [oname EXCEPT ![o] = AnyName]
    <3>1. \A p \in Procs : Putting(p)' = Putting(p)
      BY <2>2 DEF Putting, TableInv, TableTypeOK
    <3> QED BY <2>2, <3>1, AnyAreTyped DEF TableInv, TableTypeOK, EntriesCounted
  <2> QED BY <1>2, <2>1, <2>2, <1>h, <1>l DEF AddGet, TableInv, TableTypeOK
<1>3. CASE AddPut(o)
  <2>0. PICK v \in Versions : nameList' = [nameList EXCEPT ![home[o]] =
                          Append(@, [name |-> oname[o], value |-> <<oname[o], v>>])]
    BY <1>3 DEF AddPut
  <2>1. /\ opc[o] = "put" /\ opc' = [opc EXCEPT ![o] = "idle"]
        /\ oname' = [oname EXCEPT ![o] = AnyName] /\ UNCHANGED freeEntries
    BY <1>3 DEF AddPut
  <2> DEFINE e == [name |-> oname[o], value |-> <<oname[o], v>>]
  <2>2. e \in Entries
    BY DEF TableInv, TableTypeOK, Entries, Values
  <2>3. Append(nameList[home[o]], e) \in Seq(Entries)
        /\ Len(Append(nameList[home[o]], e)) = Len(nameList[home[o]]) + 1
    BY <1>h, <1>l, <2>2, AppendProperties
  <2>4. nameList' = [nameList EXCEPT ![home[o]] = Append(@, e)]
    BY <2>0
  <2> HIDE DEF e
  <2>5. \A p \in Procs : Len(nameList'[p]) =
                         IF p = home[o] THEN Len(nameList[p]) + 1 ELSE Len(nameList[p])
    BY <2>3, <2>4 DEF TableInv, TableTypeOK
  <2>6. \A p \in Procs : Putting(p)' = IF p = home[o] THEN Putting(p) \ {o} ELSE Putting(p)
    BY <2>1 DEF Putting, TableInv, TableTypeOK
  <2>7. o \in Putting(home[o])
    BY <2>1 DEF Putting
  <2>8. \A p \in Procs : Cardinality(Putting(p)') =
                         IF p = home[o] THEN Cardinality(Putting(p)) - 1 ELSE Cardinality(Putting(p))
    <3>1. Cardinality(Putting(home[o]) \ {o}) = Cardinality(Putting(home[o])) - 1
      BY <1>h, <1>c, <2>7, FS_RemoveElement
    <3> QED BY <2>6, <3>1
  <2>9. EntriesCounted'
    <3> SUFFICES ASSUME NEW p \in Procs
                 PROVE  /\ Len(nameList'[p]) >= Len(StaticTable[p])
                        /\ freeEntries'[p] + Cardinality(Putting(p)') + Len(nameList'[p])
                              = numDynamic + Len(StaticTable[p])
      BY DEF EntriesCounted
    <3>1. /\ Len(nameList[p]) >= Len(StaticTable[p]) /\ freeEntries'[p] = freeEntries[p]
          /\ freeEntries[p] + Cardinality(Putting(p)) + Len(nameList[p])
                = numDynamic + Len(StaticTable[p])
      BY <2>1 DEF TableInv, EntriesCounted
    <3>2. CASE p = home[o]
      <4>1. /\ Cardinality(Putting(p)') = Cardinality(Putting(p)) - 1
            /\ Len(nameList'[p]) = Len(nameList[p]) + 1
        BY <2>5, <2>8, <3>2
      <4>2. /\ freeEntries[p] \in Int /\ Cardinality(Putting(p)) \in Int /\ Len(nameList[p]) \in Int
            /\ Len(StaticTable[p]) \in Int /\ numDynamic \in Int
        BY <1>c, <1>l
      <4>3. PICK f, c, l \in Int : /\ f = freeEntries[p] /\ c = Cardinality(Putting(p))
                                   /\ l = Len(nameList[p])
        BY <4>2
      <4>4. f + (c - 1) + (l + 1) = f + c + l /\ l + 1 >= l
        OBVIOUS
      <4>5. l + 1 >= Len(StaticTable[p])
        BY <3>1, <4>2, <4>3
      <4> QED BY <3>1, <4>1, <4>3, <4>4, <4>5
    <3>3. CASE p # home[o]
      BY <1>c, <1>l, <2>5, <2>8, <3>1, <3>3
    <3> QED BY <3>2, <3>3
  <2>10. TableTypeOK'
    BY <1>h, <2>1, <2>3, <2>4, AnyAreTyped DEF TableInv, TableTypeOK
  <2> QED BY <2>9, <2>10 DEF TableInv
<1>4. ASSUME NEW n \in Names, Remove(o, n) PROVE TableInv'
  <2> DEFINE p == home[o]
             S == {i \in Places(p, n) : i > Len(StaticTable[p])}
             i == FirstOf(S)
  <2>1. /\ S # {} /\ nameList' = [nameList EXCEPT ![p] = DropAt(@, i)]
        /\ freeEntries' = [freeEntries EXCEPT ![p] = @ + 1] /\ UNCHANGED <<opc, oname>>
    BY <1>4 DEF Remove
  <2>2. S \in SUBSET Nat /\ S \subseteq 1 .. Len(nameList[p])
    BY <1>h, <1>l DEF Places
  <2>3. i \in S
    BY <2>1, <2>2, FirstOfIsLeast
  <2>4. i \in 1 .. Len(nameList[p]) /\ Len(nameList[p]) > Len(StaticTable[p])
    BY <1>h, <1>l, <2>2, <2>3
  <2> HIDE DEF S, i, p
  <2>p. p \in Procs
    BY <1>h DEF p
  <2>5. DropAt(nameList[p], i) \in Seq(Entries)
        /\ Len(DropAt(nameList[p], i)) = Len(nameList[p]) - 1
    BY <1>l, <2>p, <2>4, DropAtType
  <2>6. \A q \in Procs : Putting(q)' = Putting(q)
    BY <2>1 DEF Putting
  <2>7. \A q \in Procs : Len(nameList'[q]) =
                         IF q = p THEN Len(nameList[q]) - 1 ELSE Len(nameList[q])
    BY <2>1, <2>5 DEF TableInv, TableTypeOK
  <2>8. EntriesCounted'
    <3> SUFFICES ASSUME NEW q \in Procs
                 PROVE  /\ Len(nameList'[q]) >= Len(StaticTable[q])
                        /\ freeEntries'[q] + Cardinality(Putting(q)') + Len(nameList'[q])
                              = numDynamic + Len(StaticTable[q])
      BY DEF EntriesCounted
    <3>1. /\ Len(nameList[q]) >= Len(StaticTable[q])
          /\ freeEntries'[q] = IF q = p THEN freeEntries[q] + 1 ELSE freeEntries[q]
          /\ freeEntries[q] + Cardinality(Putting(q)) + Len(nameList[q])
                = numDynamic + Len(StaticTable[q])
      BY <2>1 DEF TableInv, TableTypeOK, EntriesCounted
    <3>2. CASE q = p
      <4>1. /\ Putting(q)' = Putting(q) /\ freeEntries'[q] = freeEntries[q] + 1
            /\ Len(nameList'[q]) = Len(nameList[q]) - 1
        BY <2>6, <2>7, <3>1, <3>2
      <4>2. Len(nameList[q]) > Len(StaticTable[q])
        BY <2>4, <3>2
      <4>3. \A f, c, l, m, d \in Int : f + c + l = d /\ l > m => l - 1 >= m /\ (f + 1) + c + (l - 1) = d
        OBVIOUS
      <4>4. /\ freeEntries[q] \in Int /\ Cardinality(Putting(q)) \in Int /\ Len(nameList[q]) \in Int
            /\ Len(StaticTable[q]) \in Int /\ numDynamic + Len(StaticTable[q]) \in Int
        BY <1>c, <1>l
      <4> QED BY <3>1, <4>1, <4>2, <4>3, <4>4
    <3>3. CASE q # p
      BY <1>c, <1>l, <2>6, <2>7, <3>1, <3>3
    <3> QED BY <3>2, <3>3
  <2>9. freeEntries[p] + 1 <= numDynamic
    BY <1>c, <1>l, <2>p, <2>4 DEF TableInv, EntriesCounted
  <2>10. TableTypeOK'
    BY <1>l, <2>p, <2>1, <2>5, <2>9 DEF TableInv, TableTypeOK
  <2> QED BY <2>8, <2>10 DEF TableInv
<1> QED BY <1>1, <1>2, <1>3, <1>4 DEF OwnerStep

-----------------------------------------------------------------------------
(* Sequences: who is in the queue of a semaphore                            *)

In(x, s) == \E i \in 1 .. Len(s) : s[i] = x

LEMMA InNotEmpty == ASSUME NEW S, NEW s \in Seq(S), NEW x, In(x, s) PROVE s # <<>>
BY DEF In

LEMMA InAppend ==
    ASSUME NEW S, NEW s \in Seq(S), NEW e \in S
    PROVE  /\ Append(s, e) \in Seq(S) /\ In(e, Append(s, e))
           /\ \A x : In(x, s) => In(x, Append(s, e)) /\ Head(Append(s, e)) = Head(s)
<1>1. Len(s) \in Nat /\ \A x : In(x, s) => s # <<>>
  BY InNotEmpty
<1>2. In(e, Append(s, e))
  <2>1. Len(Append(s, e)) = Len(s) + 1 /\ Append(s, e)[Len(s) + 1] = e
    BY AppendProperties
  <2>2. Len(s) + 1 \in 1 .. Len(Append(s, e))
    BY <1>1, <2>1
  <2> QED BY <2>1, <2>2 DEF In
<1> QED BY <1>1, <1>2, AppendProperties, HeadTailAppend DEF In

LEMMA InTail ==
    ASSUME NEW S, NEW s \in Seq(S), NEW x, In(x, s), x # Head(s)
    PROVE  Tail(s) \in Seq(S) /\ In(x, Tail(s))
<1>1. PICK i \in 1 .. Len(s) : s[i] = x
  BY DEF In
<1>2. s # <<>> /\ i # 1 /\ Len(s) \in Nat
  BY <1>1
<1>3. Len(Tail(s)) = Len(s) - 1 /\ Tail(s) \in Seq(S)
      /\ \A j \in 1 .. Len(Tail(s)) : Tail(s)[j] = s[j + 1]
  BY <1>2, HeadTailProperties
<1>4. i - 1 \in 1 .. Len(Tail(s)) /\ (i - 1) + 1 = i
  BY <1>2, <1>3
<1>5. Tail(s)[i - 1] = x
  BY <1>1, <1>3, <1>4
<1> QED BY <1>3, <1>4, <1>5 DEF In

-----------------------------------------------------------------------------
(* Who queries waits for the slot in turn, and the one inside holds it      *)

Queue(c)  == semMultiBlock[home[c]][cproc[c]]
Inside(c) == cpc[c] \in {"write", "send", "wait", "read", "post"}

\* Client d has its place in the queues of sem, the first one if it is inside.
HasPlace(d, sem) ==
    LET s == sem[home[d]][cproc[d]]
    IN  /\ In(d, s)
        /\ Inside(d) => Head(s) = d

Turns == \A c \in Clients : cpc[c] # "idle" =>
             /\ home[c] # cproc[c] /\ attached[home[c]][cproc[c]] = "driver"
             /\ HasPlace(c, semMultiBlock)

TurnInv == TypeOK /\ EntriesCounted /\ Turns

\* At most one client is inside for one slot.
LEMMA OneInside ==
    ASSUME Turns, NEW c \in Clients, NEW d \in Clients, Inside(c), Inside(d),
           home[c] = home[d], cproc[c] = cproc[d]
    PROVE  c = d
BY DEF Turns, HasPlace, Inside

\* The processor that the loop of NameServer_get turns to, if there is one.
LEMMA QueryFromEffect ==
    ASSUME NEW c, NEW n, NEW i \in Nat, NEW sem, QueryFrom(c, n, i, sem)
    PROVE  \/ \E q \in Procs : /\ q >= i /\ q # home[c] /\ attached[home[c]][q] = "driver"
                               /\ Pend(c, n, q, sem)
           \/ Return(c) /\ semMultiBlock' = sem
<1> DEFINE Remote == {q \in Procs : q >= i /\ q # home[c] /\ attached[home[c]][q] = "driver"}
<1>1. CASE Remote # {}
  <2>1. Remote \in SUBSET Nat
    BY DEF Procs
  <2>2. FirstOf(Remote) \in Remote
    BY <1>1, <2>1, FirstOfIsLeast
  <2>3. Pend(c, n, FirstOf(Remote), sem)
    BY <1>1 DEF QueryFrom
  <2> HIDE DEF Remote
  <2>4. PICK q \in Remote : Pend(c, n, q, sem)
    BY <2>2, <2>3
  <2> QED BY <2>4 DEF Remote
<1>2. CASE Remote = {}
  BY <1>2 DEF QueryFrom
<1> QED BY <1>1, <1>2

\* A client that enqueues itself, or leaves, keeps the places of the others.
LEMMA LoopKeepsTurns ==
    ASSUME TypeOK, Turns, NEW c \in Clients, NEW n \in Names, NEW i \in Nat,
           NEW sem \in [Procs -> [Procs -> Seq(Clients)]],
           \A d \in Clients \ {c} : cpc[d] # "idle" => HasPlace(d, sem),
           QueryFrom(c, n, i, sem), UNCHANGED attached
    PROVE  /\ Turns' /\ semMultiBlock' \in [Procs -> [Procs -> Seq(Clients)]]
           /\ cpc' \in [Clients -> Labels] /\ cname' \in [Clients -> Names]
           /\ cproc' \in [Clients -> Procs] /\ cresult' \in [Clients -> Results]
<1>h. home[c] \in Procs /\ \A d \in Clients : home[d] \in Procs
  OBVIOUS
<1>t. /\ cpc \in [Clients -> Labels] /\ cname \in [Clients -> Names]
      /\ cproc \in [Clients -> Procs] /\ cresult \in [Clients -> Results]
  BY DEF TypeOK
<1>1. CASE Return(c) /\ semMultiBlock' = sem
  <2>1. /\ cpc' = [cpc EXCEPT ![c] = "idle"] /\ semMultiBlock' = sem
        /\ \A d \in Clients \ {c} : cproc'[d] = cproc[d] /\ cpc'[d] = cpc[d]
    BY <1>1, <1>t DEF Return, Goto
  <2>2. ASSUME NEW d \in Clients, cpc'[d] # "idle"
        PROVE  /\ home[d] # cproc'[d] /\ attached'[home[d]][cproc'[d]] = "driver"
               /\ HasPlace(d, semMultiBlock)'
    <3>1. d # c
      BY <2>1, <2>2, <1>t
    <3>2. HasPlace(d, sem) /\ home[d] # cproc[d] /\ attached[home[d]][cproc[d]] = "driver"
      BY <2>1, <2>2, <3>1 DEF Turns
    <3>3. HasPlace(d, semMultiBlock)'
      BY <2>1, <3>1, <3>2 DEF HasPlace, Inside
    <3> QED BY <2>1, <3>1, <3>2, <3>3
  <2>3. /\ cpc' \in [Clients -> Labels] /\ cname' \in [Clients -> Names]
        /\ cproc' \in [Clients -> Procs] /\ cresult' \in [Clients -> Results]
    BY <1>1, <1>t, AnyAreTyped DEF Return, Goto, Labels, Results
  <2> QED BY <1>1, <2>2, <2>3 DEF Turns
<1>2. ASSUME NEW q \in Procs, q # home[c], attached[home[c]][q] = "driver", Pend(c, n, q, sem)
      PROVE  /\ Turns' /\ semMultiBlock' \in [Procs -> [Procs -> Seq(Clients)]]
             /\ cpc' \in [Clients -> Labels] /\ cname' \in [Clients -> Names]
             /\ cproc' \in [Clients -> Procs] /\ cresult' \in [Clients -> Results]
  <2> DEFINE s == sem[home[c]][q]
  <2>1. /\ cpc' = [cpc EXCEPT ![c] = "pend"] /\ cproc' = [cproc EXCEPT ![c] = q]
        /\ semMultiBlock' = [sem EXCEPT ![home[c]][q] = Append(s, c)]
    BY <1>2 DEF Pend, Goto
  <2>2. s \in Seq(Clients)
    BY <1>h
  <2> HIDE DEF s
  <2>3. /\ Append(s, c) \in Seq(Clients) /\ In(c, Append(s, c))
        /\ \A x : In(x, s) => In(x, Append(s, c)) /\ Head(Append(s, c)) = Head(s)
    BY <2>2, InAppend
  <2>4. \A p, r \in Procs : semMultiBlock'[p][r] =
                            IF p = home[c] /\ r = q THEN Append(s, c) ELSE sem[p][r]
    BY <1>h, <2>1
  <2>5. semMultiBlock' \in [Procs -> [Procs -> Seq(Clients)]]
    BY <1>h, <2>1, <2>3
  <2>6. ASSUME NEW d \in Clients, cpc'[d] # "idle"
        PROVE  /\ home[d] # cproc'[d] /\ attached'[home[d]][cproc'[d]] = "driver"
               /\ HasPlace(d, semMultiBlock)'
    <3>1. CASE d = c
      <4>1. cproc'[d] = q /\ cpc'[d] = "pend"
        BY <2>1, <3>1, <1>t
      <4>2. semMultiBlock'[home[d]][cproc'[d]] = Append(s, c)
        BY <1>h, <2>4, <3>1, <4>1
      <4> QED BY <1>2, <2>3, <3>1, <4>1, <4>2 DEF HasPlace, Inside
    <3>2. CASE d # c
      <4>1. cproc'[d] = cproc[d] /\ cpc'[d] = cpc[d] /\ cproc[d] \in Procs
        BY <2>1, <3>2, <1>t
      <4>2. HasPlace(d, sem) /\ home[d] # cproc[d] /\ attached[home[d]][cproc[d]] = "driver"
        BY <2>6, <3>2, <4>1 DEF Turns
      <4>3. \/ semMultiBlock'[home[d]][cproc[d]] = sem[home[d]][cproc[d]]
            \/ /\ semMultiBlock'[home[d]][cproc[d]] = Append(s, c)
               /\ s = sem[home[d]][cproc[d]]
        <5>1. home[d] \in Procs
          BY <1>h
        <5> QED BY <2>4, <4>1, <5>1 DEF s
      <4>4. In(d, sem[home[d]][cproc[d]]) /\ (Inside(d) => Head(sem[home[d]][cproc[d]]) = d)
        BY <4>2 DEF HasPlace
      <4>5. /\ In(d, semMultiBlock'[home[d]][cproc[d]])
            /\ Inside(d) => Head(semMultiBlock'[home[d]][cproc[d]]) = d
        BY <2>3, <4>3, <4>4
      <4>6. HasPlace(d, semMultiBlock)'
        BY <4>1, <4>5 DEF HasPlace, Inside
      <4> QED BY <4>1, <4>2, <4>6
    <3> QED BY <3>1, <3>2
  <2>7. /\ cpc' \in [Clients -> Labels] /\ cname' \in [Clients -> Names]
        /\ cproc' \in [Clients -> Procs] /\ cresult' \in [Clients -> Results]
    BY <1>2, <1>t DEF Pend, Goto, Labels
  <2> QED BY <2>5, <2>6, <2>7 DEF Turns
<1> QED BY <1>1, <1>2, QueryFromEffect

-----------------------------------------------------------------------------
(* Type correctness, and the turns                                          *)

Slots == [requestStatus : BOOLEAN, name : Names, value : Values]

LEMMA AnySlotIsSlot == AnySlot \in Slots
BY AnyAreTyped DEF AnySlot, Slots, AnyValue

\* A client that goes on inside keeps every place.
LEMMA MoveKeepsTurns ==
    ASSUME TypeOK, Turns, NEW c \in Clients, NEW label \in Labels,
           cpc[c] # "idle", Head(Queue(c)) = c, cpc' = [cpc EXCEPT ![c] = label],
           UNCHANGED <<attached, semMultiBlock, cproc>>
    PROVE  Turns' /\ cpc' \in [Clients -> Labels]
<1>t. cpc \in [Clients -> Labels]
  BY DEF TypeOK
<1>1. ASSUME NEW d \in Clients, cpc'[d] # "idle"
      PROVE  /\ home[d] # cproc'[d] /\ attached'[home[d]][cproc'[d]] = "driver"
             /\ HasPlace(d, semMultiBlock)'
  <2>1. CASE d = c
    BY <2>1 DEF Turns, HasPlace, Queue
  <2>2. CASE d # c
    BY <1>t, <1>1, <2>2 DEF Turns, HasPlace, Inside
  <2> QED BY <2>1, <2>2
<1> QED BY <1>1, <1>t DEF Turns

LEMMA TurnInit == Init => TurnInv
<1> SUFFICES ASSUME Init PROVE TurnInv
  OBVIOUS
<1>1. TableInv
  BY TableInitIsSound DEF Init
<1>2. Turns
  BY DEF Init, Turns
<1>3. /\ msg \in [Procs -> [Procs -> Slots]] /\ cname \in [Clients -> Names]
      /\ cproc \in [Clients -> Procs] /\ cresult \in [Clients -> Results]
  BY AnyAreTyped, AnySlotIsSlot DEF Init, Pairs, Results
<1>4. TypeOK
  BY <1>1, <1>3 DEF Init, TypeOK, TableInv, Pairs, Labels, Slots
<1> QED BY <1>1, <1>2, <1>4 DEF TurnInv, TableInv

\* The steps of a processor that attaches to another.
LEMMA TurnAttach ==
    ASSUME TurnInv, NEW p \in Procs, NEW q \in Procs, AttachEvent(p, q) \/ AttachDriver(p, q)
    PROVE  TurnInv'
<1> USE DEF swis, sems, clients, table
<1>t. /\ attached \in [Procs -> [Procs -> {"no", "event", "driver"}]]
      /\ msg \in [Procs -> [Procs -> Slots]]
  BY DEF TurnInv, TypeOK, Slots
<1>0. PICK x \in {"event", "driver"} : /\ attached' = [attached EXCEPT ![p][q] = x]
                                       /\ attached[p][q] = "driver" => x = "driver"
  BY DEF AttachEvent, AttachDriver
<1>1. TypeOK'
  <2>1. attached' \in [Procs -> [Procs -> {"no", "event", "driver"}]]
    BY <1>t, <1>0
  <2>2. msg' = msg \/ msg' = [msg EXCEPT ![p][q] = AnySlot]
    BY DEF AttachEvent, AttachDriver
  <2>3. msg' \in [Procs -> [Procs -> Slots]]
    <3>1. CASE msg' = msg
      BY <1>t, <3>1
    <3>2. CASE msg' = [msg EXCEPT ![p][q] = AnySlot]
      BY <1>t, <3>2, AnySlotIsSlot
    <3> QED BY <2>2, <3>1, <3>2
  <2>4. UNCHANGED <<table, event, swis, sems, clients>>
    BY DEF AttachEvent, AttachDriver
  <2> QED BY <2>1, <2>3, <2>4 DEF TurnInv, TypeOK, TableTypeOK, Slots
<1>2. Turns'
  <2>1. \A a, b \in Procs : attached[a][b] = "driver" => attached'[a][b] = "driver"
    BY <1>t, <1>0
  <2>2. UNCHANGED <<semMultiBlock, cpc, cproc>>
    BY DEF AttachEvent, AttachDriver
  <2>3. \A c \in Clients : home[c] \in Procs /\ cproc[c] \in Procs
    BY DEF TurnInv, TypeOK
  <2> QED BY <2>1, <2>2, <2>3 DEF TurnInv, Turns, HasPlace, Inside
<1>3. EntriesCounted'
  BY DEF AttachEvent, AttachDriver, TurnInv, EntriesCounted, Putting
<1> QED BY <1>1, <1>2, <1>3 DEF TurnInv

\* The steps of the interrupt and of the Swis.
LEMMA TurnServer ==
    ASSUME TurnInv, NEW p \in Procs, (\E q \in Procs : CbFxn(p, q)) \/ Swi(p)
    PROVE  TurnInv'
<1> USE DEF swis, sems, clients, table
<1>1. UNCHANGED <<table, attached, semMultiBlock, clients>>
  BY DEF CbFxn, Swi, SwiRequestLookup, SwiRequestStatus, SwiRequestSend, SwiResponse, serverFrame
<1>2. EntriesCounted' /\ Turns'
  BY <1>1 DEF TurnInv, EntriesCounted, Putting, Turns, HasPlace, Inside
<1> DEFINE Kinds == {"Request", "Response"}
           Types == /\ msg' \in [Procs -> [Procs -> Slots]]
                    /\ event' \in [Procs -> [Procs -> {"none", "Request", "Response"}]]
                    /\ posted' \in [Procs -> Seq(Procs \X Kinds)]
                    /\ swiPc' \in [Procs -> {"idle", "status", "send"}]
                    /\ swiFor' \in [Procs -> Procs] /\ swiFound' \in [Procs -> BOOLEAN]
                    /\ semRemoteWait' \in [Procs -> [Procs -> Nat]]
<1>t. /\ msg \in [Procs -> [Procs -> Slots]]
      /\ event \in [Procs -> [Procs -> {"none", "Request", "Response"}]]
      /\ posted \in [Procs -> Seq(Procs \X Kinds)]
      /\ swiPc \in [Procs -> {"idle", "status", "send"}]
      /\ swiFor \in [Procs -> Procs] /\ swiFound \in [Procs -> BOOLEAN]
      /\ semRemoteWait \in [Procs -> [Procs -> Nat]]
  BY DEF TurnInv, TypeOK, Slots
<1>s. ASSUME NEW q \in Procs, NEW kind \in Kinds, StartSwi(p, q, kind)
      PROVE  posted' \in [Procs -> Seq(Procs \X Kinds)]
  <2>1. posted[p] \in Seq(Procs \X Kinds) /\ posted[p] # <<>>
    BY <1>t, <1>s DEF StartSwi
  <2>2. Tail(posted[p]) \in Seq(Procs \X Kinds)
    BY <2>1, HeadTailProperties
  <2> QED BY <1>t, <1>s, <2>2 DEF StartSwi
<1>3. ASSUME NEW q \in Procs, CbFxn(p, q) PROVE Types
  <2>1. event' \in [Procs -> [Procs -> {"none", "Request", "Response"}]]
    BY <1>t, <1>3 DEF CbFxn
  <2>2. <<q, event[q][p]>> \in Procs \X Kinds
    BY <1>t, <1>3 DEF CbFxn
  <2>3. Append(posted[p], <<q, event[q][p]>>) \in Seq(Procs \X Kinds)
    BY <1>t, <2>2, AppendProperties
  <2>4. posted' \in [Procs -> Seq(Procs \X Kinds)]
    BY <1>t, <1>3, <2>3 DEF CbFxn
  <2> QED BY <1>t, <1>3, <2>1, <2>4 DEF CbFxn, serverFrame
<1>4. ASSUME NEW q \in Procs, SwiRequestLookup(p, q) PROVE Types
  <2> DEFINE r == GetLocal(p, msg[q][p].name)
             m == [msg[q][p] EXCEPT !.value = IF r = NotFound THEN @ ELSE r]
  <2>1. msg[q][p] \in Slots
    BY <1>t
  <2>2. r \in Values \cup {NotFound}
    BY <2>1, GetLocalType DEF TurnInv, TypeOK, Slots
  <2>3. m \in Slots
    <3> HIDE DEF r
    <3> QED BY <2>1, <2>2 DEF Slots
  <2>4. msg' = [msg EXCEPT ![q][p] = m]
    BY <1>4 DEF SwiRequestLookup
  <2>5. msg' \in [Procs -> [Procs -> Slots]]
    <3> HIDE DEF m
    <3> QED BY <1>t, <2>3, <2>4
  <2>6. posted' \in [Procs -> Seq(Procs \X Kinds)]
    BY <1>4, <1>s DEF SwiRequestLookup
  <2> QED BY <1>t, <1>4, <2>5, <2>6 DEF SwiRequestLookup, serverFrame
<1>5. ASSUME NEW q \in Procs, SwiResponse(p, q) PROVE Types
  <2>1. posted' \in [Procs -> Seq(Procs \X Kinds)]
    BY <1>5, <1>s DEF SwiResponse
  <2>2. semRemoteWait' \in [Procs -> [Procs -> Nat]]
    <3>1. semRemoteWait' = [semRemoteWait EXCEPT ![p][q] = @ + 1]
      BY <1>5 DEF SwiResponse
    <3> QED BY <1>t, <3>1
  <2>3. UNCHANGED <<msg, event, swiPc, swiFor, swiFound>>
    BY <1>5 DEF SwiResponse
  <2> QED BY <1>t, <2>1, <2>2, <2>3
<1>6. ASSUME SwiRequestStatus(p) PROVE Types
  <2> DEFINE m == [msg[swiFor[p]][p] EXCEPT !.requestStatus = @ \/ swiFound[p]]
  <2>1. m \in Slots
    <3> DEFINE b == msg[swiFor[p]][p].requestStatus \/ swiFound[p]
    <3>1. b \in BOOLEAN /\ msg[swiFor[p]][p] \in Slots
      BY <1>t
    <3> HIDE DEF b
    <3>2. [msg[swiFor[p]][p] EXCEPT !.requestStatus = b] \in Slots
      BY <3>1 DEF Slots
    <3> QED BY <3>2 DEF b
  <2>2. msg' = [msg EXCEPT ![swiFor[p]][p] = m]
    BY <1>6 DEF SwiRequestStatus
  <2>3. msg' \in [Procs -> [Procs -> Slots]]
    <3> HIDE DEF m
    <3> QED BY <1>t, <2>1, <2>2
  <2>4. /\ swiPc' = [swiPc EXCEPT ![p] = "send"]
        /\ UNCHANGED <<event, posted, swiFor, swiFound, semRemoteWait>>
    BY <1>6 DEF SwiRequestStatus, serverFrame
  <2>5. swiPc' \in [Procs -> {"idle", "status", "send"}]
    BY <1>t, <2>4
  <2> QED BY <1>t, <2>3, <2>4, <2>5
<1>7. ASSUME SwiRequestSend(p) PROVE Types
  <2>1. /\ event' = [event EXCEPT ![p][swiFor[p]] = "Response"]
        /\ swiPc' = [swiPc EXCEPT ![p] = "idle"] /\ swiFound' = [swiFound EXCEPT ![p] = FALSE]
        /\ UNCHANGED <<msg, posted, swiFor, semRemoteWait>>
    BY <1>7 DEF SwiRequestSend, serverFrame
  <2>2. event' \in [Procs -> [Procs -> {"none", "Request", "Response"}]]
    BY <1>t, <2>1
  <2>3. swiPc' \in [Procs -> {"idle", "status", "send"}] /\ swiFound' \in [Procs -> BOOLEAN]
    BY <1>t, <2>1
  <2> QED BY <1>t, <2>1, <2>2, <2>3
<1>8. Types
  <2> HIDE DEF Types
  <2>1. CASE \E q \in Procs : CbFxn(p, q)
    BY <1>3, <2>1
  <2>2. CASE \E q \in Procs : SwiRequestLookup(p, q) \/ SwiResponse(p, q)
    BY <1>4, <1>5, <2>2
  <2> QED BY <1>6, <1>7, <2>1, <2>2 DEF Swi
<1>9. TypeOK'
  BY <1>1, <1>8 DEF TurnInv, TypeOK, TableTypeOK, Slots
<1> QED BY <1>2, <1>9 DEF TurnInv

\* The steps of a client, those of the loop of NameServer_get included.
LEMMA TurnClient ==
    ASSUME TurnInv, NEW c \in Clients,
           (\E n \in Names : Get(c, n)) \/ Client(c) \/ WaitTimeout(c)
    PROVE  TurnInv'
<1> USE DEF swis, sems, clients, table
<1>h. home[c] \in Procs /\ cproc[c] \in Procs
  BY DEF TurnInv, TypeOK
<1>t. /\ msg \in [Procs -> [Procs -> Slots]]
      /\ event \in [Procs -> [Procs -> {"none", "Request", "Response"}]]
      /\ semRemoteWait \in [Procs -> [Procs -> Nat]]
      /\ semMultiBlock \in [Procs -> [Procs -> Seq(Clients)]]
      /\ cpc \in [Clients -> Labels] /\ cname \in [Clients -> Names]
      /\ cproc \in [Clients -> Procs] /\ cresult \in [Clients -> Results]
      /\ TypeOK /\ Turns
  BY DEF TurnInv, TypeOK, Slots
<1>1. UNCHANGED <<table, attached, swis>>
  BY DEF Get, Client, Enter, WriteRequest, SendRequest, RefusedRequest, Wait, WaitTimeout,
         ReadAnswer, Post, clientFrame
<1>2. EntriesCounted'
  BY <1>1 DEF TurnInv, EntriesCounted, Putting
<1> DEFINE Shared  == /\ msg' \in [Procs -> [Procs -> Slots]]
                      /\ event' \in [Procs -> [Procs -> {"none", "Request", "Response"}]]
                      /\ semRemoteWait' \in [Procs -> [Procs -> Nat]]
           Private == /\ Turns' /\ semMultiBlock' \in [Procs -> [Procs -> Seq(Clients)]]
                      /\ cpc' \in [Clients -> Labels] /\ cname' \in [Clients -> Names]
                      /\ cproc' \in [Clients -> Procs] /\ cresult' \in [Clients -> Results]
<1>3. ASSUME NEW n \in Names, Get(c, n) PROVE Shared /\ Private
  <2>1. \A d \in Clients \ {c} : cpc[d] # "idle" => HasPlace(d, semMultiBlock)
    BY <1>t DEF Turns
  <2>2. QueryFrom(c, n, 0, semMultiBlock) /\ UNCHANGED <<attached, msg, event, semRemoteWait>>
    BY <1>3 DEF Get, clientFrame
  <2>3. Private
    BY <1>t, <2>1, <2>2, LoopKeepsTurns
  <2> QED BY <1>t, <2>2, <2>3
<1>4. ASSUME Post(c) PROVE Shared /\ Private
  <2> DEFINE s == Queue(c)
             sem == [semMultiBlock EXCEPT ![home[c]][cproc[c]] = Tail(@)]
  <2>0. cpc[c] = "post" /\ Finish(c, sem) /\ UNCHANGED <<attached, msg, event, semRemoteWait>>
    BY <1>4 DEF Post, clientFrame
  <2>1. s \in Seq(Clients) /\ In(c, s) /\ Head(s) = c
    <3>1. HasPlace(c, semMultiBlock) /\ Inside(c)
      BY <1>t, <2>0 DEF Turns, Inside
    <3>2. s \in Seq(Clients)
      BY <1>h, <1>t DEF Queue
    <3> QED BY <3>1, <3>2 DEF HasPlace, Queue
  <2>2. s # <<>> /\ Tail(s) \in Seq(Clients)
    BY <2>1, InNotEmpty, HeadTailProperties
  <2>3. sem = [semMultiBlock EXCEPT ![home[c]][cproc[c]] = Tail(s)]
    BY DEF Queue
  <2> HIDE DEF sem
  <2>4. sem \in [Procs -> [Procs -> Seq(Clients)]]
    BY <1>h, <1>t, <2>2, <2>3
  <2>5. ASSUME NEW d \in Clients \ {c}, cpc[d] # "idle" PROVE HasPlace(d, sem)
    <3>1. HasPlace(d, semMultiBlock) /\ home[d] \in Procs /\ cproc[d] \in Procs
      BY <1>t, <2>5 DEF Turns
    <3>2. CASE home[d] = home[c] /\ cproc[d] = cproc[c]
      <4>1. In(d, s) /\ ~ Inside(d)
        BY <2>1, <3>1, <3>2 DEF HasPlace, Queue
      <4>2. In(d, Tail(s))
        BY <2>1, <4>1, InTail
      <4>3. sem[home[d]][cproc[d]] = Tail(s)
        BY <1>t, <2>3, <3>1, <3>2
      <4> QED BY <4>1, <4>2, <4>3 DEF HasPlace
    <3>3. CASE ~ (home[d] = home[c] /\ cproc[d] = cproc[c])
      <4>1. sem[home[d]][cproc[d]] = semMultiBlock[home[d]][cproc[d]]
        BY <1>h, <1>t, <2>3, <3>1, <3>3
      <4> QED BY <3>1, <4>1 DEF HasPlace
    <3> QED BY <3>2, <3>3
  <2>6. Private
    <3>1. CASE QueryFrom(c, cname[c], cproc[c] + 1, sem)
      <4>1. cproc[c] + 1 \in Nat /\ cname[c] \in Names
        <5>1. cproc[c] + 1 \in Nat
          BY <1>h DEF Procs
        <5> QED BY <1>t, <5>1
      <4> QED BY <1>t, <2>0, <2>4, <2>5, <3>1, <4>1, LoopKeepsTurns
    <3>2. CASE Return(c) /\ semMultiBlock' = sem
      <4>1. /\ cpc' = [cpc EXCEPT ![c] = "idle"] /\ cname' = [cname EXCEPT ![c] = AnyName]
            /\ cproc' = [cproc EXCEPT ![c] = 0] /\ cresult' = [cresult EXCEPT ![c] = NotFound]
        BY <3>2 DEF Return, Goto
      <4>2. ASSUME NEW d \in Clients, cpc'[d] # "idle"
            PROVE  /\ home[d] # cproc'[d] /\ attached'[home[d]][cproc'[d]] = "driver"
                   /\ HasPlace(d, semMultiBlock)'
        <5>1. d # c /\ cpc'[d] = cpc[d] /\ cproc'[d] = cproc[d] /\ cpc[d] # "idle"
          BY <1>t, <4>1, <4>2
        <5>2. HasPlace(d, sem)
          BY <2>5, <5>1
        <5>3. HasPlace(d, semMultiBlock)'
          BY <3>2, <5>1, <5>2 DEF HasPlace, Inside
        <5> QED BY <1>t, <2>0, <5>1, <5>3 DEF Turns
      <4> QED BY <1>t, <2>4, <3>2, <4>1, <4>2, AnyAreTyped DEF Turns, Labels, Results
    <3> QED BY <2>0, <3>1, <3>2 DEF Finish
  <2> QED BY <1>t, <2>0, <2>6
<1>5. ASSUME Enter(c) \/ WriteRequest(c) \/ SendRequest(c) \/ RefusedRequest(c) \/ Wait(c)
             \/ WaitTimeout(c) \/ ReadAnswer(c)
      PROVE  Shared /\ Private
  <2>1. PICK label \in Labels : cpc' = [cpc EXCEPT ![c] = label]
    BY <1>5 DEF Enter, WriteRequest, SendRequest, RefusedRequest, Wait, WaitTimeout, ReadAnswer,
                Goto, Labels
  <2>2. cpc[c] # "idle" /\ UNCHANGED <<attached, semMultiBlock, cproc, cname>>
    BY <1>5 DEF Enter, WriteRequest, SendRequest, RefusedRequest, Wait, WaitTimeout, ReadAnswer,
                clientFrame
  <2>3. Head(Queue(c)) = c
    <3>1. CASE Enter(c)
      BY <3>1 DEF Enter, Queue
    <3>2. CASE ~ Enter(c)
      <4>1. Inside(c)
        BY <1>5, <3>2 DEF WriteRequest, SendRequest, RefusedRequest, Wait, WaitTimeout,
                          ReadAnswer, Inside
      <4> QED BY <1>t, <2>2, <4>1 DEF Turns, HasPlace, Queue
    <3> QED BY <3>1, <3>2
  <2>4. Turns' /\ cpc' \in [Clients -> Labels]
    BY <1>t, <2>1, <2>2, <2>3, MoveKeepsTurns
  <2>5. cresult' \in [Clients -> Results]
    <3>1. \/ cresult' = cresult
          \/ \E r \in Results : cresult' = [cresult EXCEPT ![c] = r]
      <4>1. CASE ReadAnswer(c)
        <5> DEFINE m == msg[home[c]][cproc[c]]
        <5>1. m \in Slots
          BY <1>h, <1>t
        <5>2. (IF m.requestStatus THEN m.value ELSE NotFound) \in Results
          BY <5>1 DEF Slots, Results
        <5> QED BY <4>1, <5>2 DEF ReadAnswer
      <4>2. CASE ~ ReadAnswer(c)
        BY <1>5, <4>2 DEF Enter, WriteRequest, SendRequest, RefusedRequest, Wait, WaitTimeout,
                          Results
      <4> QED BY <4>1, <4>2
    <3> QED BY <1>t, <3>1
  <2>6. msg' \in [Procs -> [Procs -> Slots]]
    <3>1. CASE WriteRequest(c)
      <4> DEFINE m == [msg[home[c]][cproc[c]] EXCEPT !.requestStatus = FALSE, !.name = cname[c]]
      <4>1. m \in Slots
        <5>1. msg[home[c]][cproc[c]] \in Slots /\ cname[c] \in Names
          BY <1>h, <1>t
        <5> QED BY <5>1 DEF Slots
      <4>2. msg' = [msg EXCEPT ![home[c]][cproc[c]] = m]
        BY <3>1 DEF WriteRequest
      <4> HIDE DEF m
      <4> QED BY <1>t, <4>1, <4>2
    <3>2. CASE ~ WriteRequest(c)
      <4>1. msg' = msg
        BY <1>5, <3>2 DEF Enter, SendRequest, RefusedRequest, Wait, WaitTimeout, ReadAnswer
      <4> QED BY <1>t, <4>1
    <3> QED BY <3>1, <3>2
  <2>7. event' \in [Procs -> [Procs -> {"none", "Request", "Response"}]]
    <3>1. \/ event' = event
          \/ event' = [event EXCEPT ![home[c]][cproc[c]] = "Request"]
      BY <1>5 DEF Enter, WriteRequest, SendRequest, RefusedRequest, Wait, WaitTimeout, ReadAnswer
    <3>2. CASE event' = event
      BY <1>t, <3>2
    <3>3. CASE event' = [event EXCEPT ![home[c]][cproc[c]] = "Request"]
      BY <1>t, <3>3
    <3> QED BY <3>1, <3>2, <3>3
  <2>8. semRemoteWait' \in [Procs -> [Procs -> Nat]]
    <3>1. CASE Wait(c)
      <4>1. semRemoteWait[home[c]][cproc[c]] - 1 \in Nat
        BY <1>h, <1>t, <3>1 DEF Wait
      <4>2. semRemoteWait' = [semRemoteWait EXCEPT ![home[c]][cproc[c]]
                                = semRemoteWait[home[c]][cproc[c]] - 1]
        BY <3>1 DEF Wait
      <4> QED BY <1>t, <4>1, <4>2
    <3>2. CASE ~ Wait(c)
      <4>1. semRemoteWait' = semRemoteWait
        BY <1>5, <3>2 DEF Enter, WriteRequest, SendRequest, RefusedRequest, WaitTimeout,
                          ReadAnswer
      <4> QED BY <1>t, <4>1
    <3> QED BY <3>1, <3>2
  <2> QED BY <1>t, <2>2, <2>4, <2>5, <2>6, <2>7, <2>8
<1>6. Shared /\ Private
  <2> HIDE DEF Shared, Private
  <2> QED BY <1>3, <1>4, <1>5 DEF Client
<1>7. TypeOK'
  BY <1>1, <1>6 DEF TurnInv, TypeOK, TableTypeOK, Slots
<1> QED BY <1>2, <1>6, <1>7 DEF TurnInv

\* The steps of the owners of the tables.
LEMMA TurnTable == ASSUME TurnInv, TableNext PROVE TurnInv'
<1>1. TableInv'
  BY TableStepIsSound DEF TableNext, TurnInv, TypeOK, TableInv
<1>2. UNCHANGED <<attached, msg, event, swis, sems, clients>>
  BY DEF TableNext
<1>3. TypeOK'
  BY <1>1, <1>2 DEF TurnInv, TypeOK, TableInv, swis, sems, clients
<1>4. Turns'
  BY <1>2 DEF TurnInv, Turns, HasPlace, Inside, sems, clients
<1> QED BY <1>1, <1>3, <1>4 DEF TurnInv, TableInv

LEMMA TurnNext == TurnInv /\ [TimeoutNext]_vars => TurnInv'
<1> SUFFICES ASSUME TurnInv, [TimeoutNext]_vars PROVE TurnInv'
  OBVIOUS
<1>1. CASE UNCHANGED vars
  <2> USE DEF vars, table, swis, sems, clients
  <2>1. TypeOK'
    BY <1>1 DEF TurnInv, TypeOK, TableTypeOK
  <2>2. EntriesCounted'
    BY <1>1 DEF TurnInv, EntriesCounted, Putting
  <2>3. Turns'
    BY <1>1 DEF TurnInv, Turns, HasPlace, Inside
  <2> QED BY <2>1, <2>2, <2>3 DEF TurnInv
<1>2. CASE TableNext
  BY <1>2, TurnTable
<1>3. CASE \E p, q \in Procs : AttachEvent(p, q) \/ AttachDriver(p, q) \/ CbFxn(p, q)
  BY <1>3, TurnAttach, TurnServer
<1>4. CASE \E c \in Clients : (\E n \in Names : Get(c, n)) \/ Client(c)
  BY <1>4, TurnClient
<1>5. CASE \E p \in Procs : Swi(p)
  BY <1>5, TurnServer
<1>6. CASE \E c \in Clients : WaitTimeout(c)
  BY <1>6, TurnClient
<1> QED BY <1>1, <1>2, <1>3, <1>4, <1>5, <1>6 DEF TimeoutNext, Next

\* The variables keep their types, also when queries time out: no table outgrows its
\* entries, no semaphore is posted by a thread that does not hold it.
THEOREM TypeCorrect == TimeoutSpec => []TypeOK
<1>1. TurnInv => TypeOK
  BY DEF TurnInv
<1> QED BY <1>1, TurnInit, TurnNext, PTL DEF TimeoutSpec

-----------------------------------------------------------------------------
(* Every query is under way in one form                                     *)

PairAccounted(p, q) ==
    /\ semRemoteWait[p][q] <= 1
    /\ \A s, t \in UnderWay(p, q) : s = t
    /\ UnderWay(p, q) # {} <=> \E c \in Clients : Waiting(c, p, q)

\* No Swi is posted twice.
PostedOnce ==
    \A p \in Procs : \A i, j \in 1 .. Len(posted[p]) : posted[p][i] = posted[p][j] => i = j

\* The slot of a client whose query has not been looked up holds its name, and no answer.
Asks(c) == \/ cpc[c] = "send"
           \/ cpc[c] = "wait" /\ \/ event[home[c]][cproc[c]] = "Request"
                                 \/ Posted(cproc[c], home[c], "Request")

SlotsAsked ==
    \A c \in Clients : Asks(c) =>
        /\ msg[home[c]][cproc[c]].name = cname[c]
        /\ msg[home[c]][cproc[c]].requestStatus = FALSE

\* The Swi that has looked a name up is the first to set the status.
StatusClear ==
    \A p \in Procs : swiPc[p] = "status" => msg[swiFor[p]][p].requestStatus = FALSE

QueryInv == PostedOnce /\ OneAnswerPerQuery /\ SlotsAsked /\ StatusClear

LEMMA PairsAccounted ==
    OneAnswerPerQuery <=> \A p, q \in Procs : PairAccounted(p, q)
BY DEF OneAnswerPerQuery, PairAccounted

\* A pair whose forms, semaphore and clients stay as they are stays accounted for.
LEMMA PairKept ==
    ASSUME OneAnswerPerQuery, NEW p \in Procs, NEW q \in Procs,
           semRemoteWait'[p][q] = semRemoteWait[p][q], UnderWay(p, q)' = UnderWay(p, q),
           \A c \in Clients : Waiting(c, p, q)' <=> Waiting(c, p, q)
    PROVE  PairAccounted(p, q)'
<1>1. (UnderWay(p, q) # {})' <=> (\E c \in Clients : Waiting(c, p, q))'
  BY DEF OneAnswerPerQuery
<1>2. (\A x, y \in UnderWay(p, q) : x = y)' /\ (semRemoteWait[p][q] <= 1)'
  BY DEF OneAnswerPerQuery
<1> QED BY <1>1, <1>2, Zenon DEF PairAccounted

\* So does one whose query passes from one form to the next.
LEMMA PairMoved ==
    ASSUME OneAnswerPerQuery, NEW p \in Procs, NEW q \in Procs, NEW s, NEW t,
           semRemoteWait'[p][q] <= 1, s \in UnderWay(p, q), UnderWay(p, q)' = {t},
           \A c \in Clients : Waiting(c, p, q)' <=> Waiting(c, p, q)
    PROVE  PairAccounted(p, q)'
<1>1. \E c \in Clients : Waiting(c, p, q)
  BY DEF OneAnswerPerQuery
<1>2. \E c \in Clients : Waiting(c, p, q)'
  BY <1>1
<1>3. (\A x, y \in UnderWay(p, q) : x = y)' /\ (UnderWay(p, q) # {})'
  OBVIOUS
<1>4. (semRemoteWait[p][q] <= 1)'
  OBVIOUS
<1> QED BY <1>2, <1>3, <1>4, Zenon DEF PairAccounted

\* What is posted after the head has been taken, and after one more has been posted.
LEMMA PostedTail ==
    ASSUME NEW S, NEW s \in Seq(S), s # <<>>,
           \A i, j \in 1 .. Len(s) : s[i] = s[j] => i = j
    PROVE  /\ \A x : In(x, Tail(s)) <=> In(x, s) /\ x # Head(s)
           /\ \A i, j \in 1 .. Len(Tail(s)) : Tail(s)[i] = Tail(s)[j] => i = j
<1>1. /\ Len(s) \in Nat \ {0} /\ Len(Tail(s)) = Len(s) - 1 /\ Head(s) = s[1]
      /\ \A i \in 1 .. Len(Tail(s)) : Tail(s)[i] = s[i + 1]
  BY EmptySeq, HeadTailProperties
<1>2. ASSUME NEW x, In(x, Tail(s)) PROVE In(x, s) /\ x # Head(s)
  <2>1. PICK i \in 1 .. Len(Tail(s)) : Tail(s)[i] = x
    BY <1>2 DEF In
  <2>2. i + 1 \in 1 .. Len(s) /\ s[i + 1] = x /\ i + 1 # 1 /\ 1 \in 1 .. Len(s)
    BY <1>1, <2>1
  <2>3. s[i + 1] # s[1]
    BY <2>2
  <2> QED BY <1>1, <2>2, <2>3 DEF In
<1>3. \A x : In(x, s) /\ x # Head(s) => In(x, Tail(s))
  BY InTail
<1>4. ASSUME NEW i \in 1 .. Len(Tail(s)), NEW j \in 1 .. Len(Tail(s)), Tail(s)[i] = Tail(s)[j]
      PROVE  i = j
  <2>1. i + 1 \in 1 .. Len(s) /\ j + 1 \in 1 .. Len(s) /\ s[i + 1] = s[j + 1]
    BY <1>1, <1>4
  <2>2. i + 1 = j + 1
    BY <2>1
  <2> QED BY <2>2
<1> QED BY <1>2, <1>3, <1>4

LEMMA PostedAppend ==
    ASSUME NEW S, NEW s \in Seq(S), NEW e \in S, ~ In(e, s),
           \A i, j \in 1 .. Len(s) : s[i] = s[j] => i = j
    PROVE  /\ \A x : In(x, Append(s, e)) <=> In(x, s) \/ x = e
           /\ \A i, j \in 1 .. Len(Append(s, e)) : Append(s, e)[i] = Append(s, e)[j] => i = j
<1>1. /\ Len(s) \in Nat /\ Len(Append(s, e)) = Len(s) + 1 /\ Append(s, e)[Len(s) + 1] = e
      /\ \A i \in 1 .. Len(s) : Append(s, e)[i] = s[i]
  BY AppendProperties
<1>2. ASSUME NEW x, In(x, Append(s, e)) PROVE In(x, s) \/ x = e
  BY <1>1, <1>2 DEF In
<1>3. \A i \in 1 .. Len(s) : s[i] # e
  BY DEF In
<1>4. \A i, j \in 1 .. Len(Append(s, e)) : Append(s, e)[i] = Append(s, e)[j] => i = j
  <2> SUFFICES ASSUME NEW i \in 1 .. Len(s) + 1, NEW j \in 1 .. Len(s) + 1,
                      Append(s, e)[i] = Append(s, e)[j]
               PROVE  i = j
    BY <1>1
  <2>1. CASE i \in 1 .. Len(s) /\ j \in 1 .. Len(s)
    BY <1>1, <2>1
  <2>2. CASE i = Len(s) + 1 \/ j = Len(s) + 1
    BY <1>1, <1>3, <2>2
  <2> QED BY <1>1, <2>1, <2>2
<1> QED BY <1>2, <1>4, InAppend

LEMMA PostedIsIn ==
    ASSUME TypeOK, NEW p \in Procs, NEW q, NEW kind
    PROVE  /\ Posted(p, q, kind) <=> In(<<q, kind>>, posted[p])
           /\ posted[p] \in Seq(Procs \X {"Request", "Response"})
<1>1. posted[p] \in Seq(Procs \X {"Request", "Response"})
  BY DEF TypeOK
<1>2. DOMAIN posted[p] = 1 .. Len(posted[p])
  BY <1>1
<1> QED BY <1>1, <1>2 DEF Posted, In

LEMMA QueryInit == Init => QueryInv
<1> SUFFICES ASSUME Init PROVE QueryInv
  OBVIOUS
<1>1. PostedOnce
  BY DEF Init, PostedOnce
<1>2. ASSUME NEW p \in Procs, NEW q \in Procs
      PROVE  UnderWay(p, q) = {} /\ semRemoteWait[p][q] = 0
  BY DEF Init, Pairs, UnderWay, Posted
<1>3. OneAnswerPerQuery
  BY <1>2 DEF OneAnswerPerQuery, Waiting, Init
<1>4. SlotsAsked /\ StatusClear
  BY DEF Init, SlotsAsked, Asks, StatusClear
<1> QED BY <1>1, <1>3, <1>4 DEF QueryInv

Kinds == {"Request", "Response"}

LEMMA FormsOf ==
    ASSUME NEW p, NEW q
    PROVE  /\ "request" \in UnderWay(p, q) <=> event[p][q] = "Request"
           /\ "posted" \in UnderWay(p, q) <=> Posted(q, p, "Request")
           /\ "served" \in UnderWay(p, q) <=> swiPc[q] # "idle" /\ swiFor[q] = p
           /\ "response" \in UnderWay(p, q) <=> event[q][p] = "Response"
           /\ "back" \in UnderWay(p, q) <=> Posted(p, q, "Response")
           /\ "post" \in UnderWay(p, q) <=> semRemoteWait[p][q] > 0
           /\ UnderWay(p, q) \subseteq {"request", "posted", "served", "response", "back", "post"}
BY DEF UnderWay

\* A query takes no other form when none of the places it can be in changes.
LEMMA FormsKept ==
    ASSUME NEW p, NEW q,
           event'[p][q] = "Request" <=> event[p][q] = "Request",
           event'[q][p] = "Response" <=> event[q][p] = "Response",
           Posted(q, p, "Request")' <=> Posted(q, p, "Request"),
           Posted(p, q, "Response")' <=> Posted(p, q, "Response"),
           (swiPc'[q] # "idle" /\ swiFor'[q] = p) <=> (swiPc[q] # "idle" /\ swiFor[q] = p),
           semRemoteWait'[p][q] > 0 <=> semRemoteWait[p][q] > 0
    PROVE  UnderWay(p, q)' = UnderWay(p, q)
BY DEF UnderWay

\* Who is under way to whom is asked for by a client, and not of itself.
LEMMA UnderWayIsAsked ==
    ASSUME TurnInv, OneAnswerPerQuery, NEW p \in Procs, NEW q \in Procs, NEW s \in UnderWay(p, q)
    PROVE  /\ p # q /\ UnderWay(p, q) = {s}
           /\ \E c \in Clients : Waiting(c, p, q)
<1>1. PICK c \in Clients : Waiting(c, p, q)
  BY DEF OneAnswerPerQuery
<1>2. p # q
  BY <1>1 DEF TurnInv, Turns, Waiting
<1>3. UnderWay(p, q) = {s}
  BY DEF OneAnswerPerQuery
<1> QED BY <1>1, <1>2, <1>3

\* The interrupt takes an event: the query of one of the two goes on from there.
LEMMA CbFxnEffect ==
    ASSUME TurnInv, QueryInv, NEW p \in Procs, NEW q \in Procs, CbFxn(p, q)
    PROVE  \E k \in Kinds :
               /\ k = event[q][p] /\ k # "none" /\ PostedOnce'
               /\ \A a, b \in Procs :
                     event'[a][b] = IF a = q /\ b = p THEN "none" ELSE event[a][b]
               /\ k = "Request" => "request" \in UnderWay(q, p)
               /\ k = "Response" => "response" \in UnderWay(p, q)
               /\ k = "Request" => UnderWay(q, p) = {"request"} /\ p # q
               /\ k = "Response" => UnderWay(p, q) = {"response"} /\ p # q
               /\ \A a, b \in Procs : \A kind :
                     Posted(a, b, kind)' <=> Posted(a, b, kind) \/ (a = p /\ b = q /\ kind = k)
<1> DEFINE k == event[q][p]
<1>t. TypeOK /\ OneAnswerPerQuery /\ PostedOnce
  BY DEF TurnInv, QueryInv
<1>0. /\ event' = [event EXCEPT ![q][p] = "none"] /\ k # "none" /\ k \in Kinds
      /\ UNCHANGED <<msg, swiPc, swiFor, semRemoteWait, cpc, cproc, cname>>
  BY <1>t DEF CbFxn, serverFrame, sems, clients, TypeOK, Kinds
<1>e. \A a, b \in Procs : event'[a][b] = IF a = q /\ b = p THEN "none" ELSE event[a][b]
  BY <1>t, <1>0 DEF TypeOK
<1> HIDE DEF k
<1>1. /\ k = "Request" => "request" \in UnderWay(q, p)
      /\ k = "Response" => "response" \in UnderWay(p, q)
  BY FormsOf DEF k
<1>2. /\ k = "Request" => UnderWay(q, p) = {"request"} /\ p # q
      /\ k = "Response" => UnderWay(p, q) = {"response"} /\ p # q
  BY <1>1, <1>t, UnderWayIsAsked
<1>3. ~ Posted(p, q, k)
  <2>1. CASE k = "Request"
    BY <1>2, <2>1, FormsOf
  <2>2. CASE k = "Response"
    BY <1>2, <2>2, FormsOf
  <2> QED BY <1>0, <2>1, <2>2 DEF Kinds
<1>4. posted' = [posted EXCEPT ![p] = Append(@, <<q, k>>)]
  BY <1>3 DEF CbFxn, k
<1>5. /\ posted[p] \in Seq(Procs \X Kinds) /\ ~ In(<<q, k>>, posted[p])
      /\ posted'[p] = Append(posted[p], <<q, k>>)
      /\ \A a \in Procs \ {p} : posted'[a] = posted[a]
  BY <1>t, <1>3, <1>4, PostedIsIn DEF Kinds, TypeOK
<1>6. /\ \A x : In(x, posted'[p]) <=> In(x, posted[p]) \/ x = <<q, k>>
      /\ \A i, j \in 1 .. Len(posted'[p]) : posted'[p][i] = posted'[p][j] => i = j
  <2>1. <<q, k>> \in Procs \X Kinds
    BY <1>0
  <2>2. \A i, j \in 1 .. Len(posted[p]) : posted[p][i] = posted[p][j] => i = j
    BY <1>t DEF PostedOnce
  <2> DEFINE s == posted[p]
             e == <<q, k>>
             S == Procs \X Kinds
  <2>3. s \in Seq(S) /\ e \in S /\ ~ In(e, s) /\ posted'[p] = Append(s, e)
    BY <1>5, <2>1
  <2>4. \A i, j \in 1 .. Len(s) : s[i] = s[j] => i = j
    BY <2>2
  <2> HIDE DEF s, e, S
  <2>5. /\ \A x : In(x, Append(s, e)) <=> In(x, s) \/ x = e
        /\ \A i, j \in 1 .. Len(Append(s, e)) : Append(s, e)[i] = Append(s, e)[j] => i = j
    BY <2>3, <2>4, PostedAppend
  <2> QED BY <2>3, <2>5 DEF s, e
<1>7. PostedOnce'
  BY <1>5, <1>6, <1>t DEF PostedOnce
<1>8. ASSUME NEW a \in Procs, NEW b \in Procs, NEW kind
      PROVE  Posted(a, b, kind)' <=> Posted(a, b, kind) \/ (a = p /\ b = q /\ kind = k)
  <2>1. TypeOK'
    BY TurnServer DEF TurnInv
  <2>2. Posted(a, b, kind)' <=> In(<<b, kind>>, posted'[a])
    <3>1. DOMAIN posted'[a] = 1 .. Len(posted'[a])
      BY <2>1 DEF TypeOK
    <3> QED BY <3>1 DEF Posted, In
  <2>3. CASE a = p
    BY <1>6, <1>t, <2>2, <2>3, PostedIsIn
  <2>4. CASE a # p
    BY <1>5, <1>t, <2>2, <2>4, PostedIsIn
  <2> QED BY <2>3, <2>4
<1> QED BY <1>0, <1>1, <1>2, <1>e, <1>7, <1>8 DEF k

\* So the query goes on from there.
LEMMA QueryCbFxn ==
    ASSUME TurnInv, QueryInv, NEW p \in Procs, NEW q \in Procs, CbFxn(p, q)
    PROVE  QueryInv'
<1>t. TypeOK /\ OneAnswerPerQuery /\ PostedOnce
  BY DEF TurnInv, QueryInv
<1>0. UNCHANGED <<msg, swiPc, swiFor, semRemoteWait, cpc, cproc, cname>>
  BY DEF CbFxn, serverFrame, sems, clients
<1>k. PICK k \in Kinds :
         /\ k = event[q][p] /\ k # "none" /\ PostedOnce'
         /\ \A a, b \in Procs :
               event'[a][b] = IF a = q /\ b = p THEN "none" ELSE event[a][b]
         /\ k = "Request" => "request" \in UnderWay(q, p)
         /\ k = "Response" => "response" \in UnderWay(p, q)
         /\ k = "Request" => UnderWay(q, p) = {"request"} /\ p # q
         /\ k = "Response" => UnderWay(p, q) = {"response"} /\ p # q
         /\ \A a, b \in Procs : \A kind :
               Posted(a, b, kind)' <=> Posted(a, b, kind) \/ (a = p /\ b = q /\ kind = k)
  BY CbFxnEffect
<1>9. ASSUME NEW a \in Procs, NEW b \in Procs PROVE PairAccounted(a, b)'
  <2>0. \A c \in Clients : Waiting(c, a, b)' <=> Waiting(c, a, b)
    BY <1>0 DEF Waiting
  <2>1. CASE a = q /\ b = p /\ k = "Request"
    <3>1. UnderWay(a, b)' = {"posted"}
      <4>1. /\ event'[q][p] # "Request" /\ event'[p][q] # "Response"
            /\ Posted(p, q, "Request")' /\ ~ Posted(q, p, "Response")'
            /\ ~ (swiPc'[p] # "idle" /\ swiFor'[p] = q) /\ ~ (semRemoteWait'[q][p] > 0)
        <5>1. UnderWay(q, p) = {"request"} /\ p # q
          BY <1>k, <2>1
        <5>2. /\ ~ Posted(q, p, "Response") /\ event[p][q] # "Response"
              /\ ~ (swiPc[p] # "idle" /\ swiFor[p] = q) /\ ~ (semRemoteWait[q][p] > 0)
          BY <5>1, FormsOf
        <5>3. event'[q][p] = "none" /\ event'[p][q] = event[p][q]
          BY <1>k, <5>1
        <5>4. Posted(p, q, "Request")' /\ (Posted(q, p, "Response")' <=> Posted(q, p, "Response"))
          BY <1>k, <2>1, <5>1
        <5> QED BY <1>0, <5>2, <5>3, <5>4
      <4> QED BY <2>1, <4>1 DEF UnderWay
    <3>2. semRemoteWait'[a][b] <= 1
      BY <1>0, <1>t DEF OneAnswerPerQuery
    <3> QED BY <1>k, <1>t, <2>0, <2>1, <3>1, <3>2, PairMoved
  <2>2. CASE a = p /\ b = q /\ k = "Response"
    <3>1. UnderWay(a, b)' = {"back"}
      <4>1. /\ event'[p][q] # "Request" /\ event'[q][p] # "Response"
            /\ ~ Posted(q, p, "Request")' /\ Posted(p, q, "Response")'
            /\ ~ (swiPc'[q] # "idle" /\ swiFor'[q] = p) /\ ~ (semRemoteWait'[p][q] > 0)
        <5>1. UnderWay(p, q) = {"response"} /\ p # q
          BY <1>k, <2>2
        <5>2. /\ ~ Posted(q, p, "Request") /\ event[p][q] # "Request"
              /\ ~ (swiPc[q] # "idle" /\ swiFor[q] = p) /\ ~ (semRemoteWait[p][q] > 0)
          BY <5>1, FormsOf
        <5>3. event'[q][p] = "none" /\ event'[p][q] = event[p][q]
          BY <1>k, <5>1
        <5>4. Posted(p, q, "Response")' /\ (Posted(q, p, "Request")' <=> Posted(q, p, "Request"))
          BY <1>k, <2>2, <5>1
        <5> QED BY <1>0, <5>2, <5>3, <5>4
      <4> QED BY <2>2, <4>1 DEF UnderWay
    <3>2. semRemoteWait'[a][b] <= 1
      BY <1>0, <1>t DEF OneAnswerPerQuery
    <3> QED BY <1>k, <1>t, <2>0, <2>2, <3>1, <3>2, PairMoved
  <2>3. CASE ~ (a = q /\ b = p /\ k = "Request") /\ ~ (a = p /\ b = q /\ k = "Response")
    <3>1. /\ event'[a][b] = "Request" <=> event[a][b] = "Request"
          /\ event'[b][a] = "Response" <=> event[b][a] = "Response"
      BY <1>0, <1>k, <2>3 DEF Kinds
    <3>2. /\ Posted(b, a, "Request")' <=> Posted(b, a, "Request")
          /\ Posted(a, b, "Response")' <=> Posted(a, b, "Response")
      BY <1>k, <2>3
    <3>3. UnderWay(a, b)' = UnderWay(a, b)
      BY <1>0, <3>1, <3>2, FormsKept
    <3> QED BY <1>0, <1>t, <2>0, <3>3, PairKept
  <2> QED BY <2>1, <2>2, <2>3
<1>10. OneAnswerPerQuery'
  BY <1>9 DEF OneAnswerPerQuery, PairAccounted
<1>11. SlotsAsked'
  <2>1. \A c \in Clients : home[c] \in Procs /\ cproc[c] \in Procs
    BY <1>t DEF TypeOK
  <2>2. ASSUME NEW c \in Clients, Asks(c)' PROVE Asks(c)
    <3>1. CASE cpc[c] = "send"
      BY <3>1 DEF Asks
    <3>2. CASE cpc[c] = "wait" /\ event'[home[c]][cproc[c]] = "Request"
      BY <1>0, <1>k, <2>1, <3>2 DEF Asks
    <3>3. PICK a, b \in Procs : a = cproc[c] /\ a = cproc'[c] /\ b = home[c]
      BY <1>0, <2>1
    <3>4. CASE cpc[c] = "wait" /\ Posted(a, b, "Request")'
      <4>1. Posted(a, b, "Request") \/ (a = p /\ b = q /\ "Request" = k)
        BY <1>k, <3>4
      <4>2. a = p /\ b = q /\ "Request" = k => event[b][a] = "Request"
        BY <1>k
      <4> QED BY <3>3, <3>4, <4>1, <4>2 DEF Asks
    <3> QED BY <1>0, <2>2, <3>1, <3>2, <3>3, <3>4 DEF Asks, Posted
  <2> QED BY <1>0, <2>2 DEF SlotsAsked, QueryInv
<1>12. StatusClear'
  BY <1>0 DEF StatusClear, QueryInv
<1> QED BY <1>k, <1>10, <1>11, <1>12 DEF QueryInv

\* A Swi that starts was posted, and is posted no longer.
LEMMA StartSwiEffect ==
    ASSUME TypeOK, TypeOK', PostedOnce, NEW p \in Procs, NEW q \in Procs, NEW kind \in Kinds,
           StartSwi(p, q, kind)
    PROVE  /\ PostedOnce' /\ Posted(p, q, kind)
           /\ \A a, b \in Procs : \A kd : Posted(a, b, kd)' <=>
                                      Posted(a, b, kd) /\ ~ (a = p /\ b = q /\ kd = kind)
<1> DEFINE s == posted[p]
<1>1. /\ s \in Seq(Procs \X Kinds) /\ s # <<>> /\ Head(s) = <<q, kind>> /\ posted'[p] = Tail(s)
      /\ \A a \in Procs \ {p} : posted'[a] = posted[a]
  BY DEF StartSwi, TypeOK, Kinds
<1>2. \A i, j \in 1 .. Len(s) : s[i] = s[j] => i = j
  BY DEF PostedOnce
<1>3. Posted(p, q, kind)
  <2>1. 1 \in DOMAIN s /\ s[1] = <<q, kind>>
    BY <1>1, EmptySeq
  <2> QED BY <2>1 DEF Posted
<1> HIDE DEF s
<1>4. /\ \A x : In(x, Tail(s)) <=> In(x, s) /\ x # Head(s)
      /\ \A i, j \in 1 .. Len(Tail(s)) : Tail(s)[i] = Tail(s)[j] => i = j
  BY <1>1, <1>2, PostedTail
<1>5. PostedOnce'
  BY <1>1, <1>4 DEF PostedOnce
<1>6. ASSUME NEW a \in Procs, NEW b \in Procs, NEW kd
      PROVE  Posted(a, b, kd)' <=> Posted(a, b, kd) /\ ~ (a = p /\ b = q /\ kd = kind)
  <2>1. Posted(a, b, kd)' <=> In(<<b, kd>>, posted'[a])
    <3>1. DOMAIN posted'[a] = 1 .. Len(posted'[a])
      BY DEF TypeOK
    <3> QED BY <3>1 DEF Posted, In
  <2>2. CASE a = p
    <3>1. Posted(p, b, kd) <=> In(<<b, kd>>, s)
      BY PostedIsIn DEF s
    <3>2. <<b, kd>> # Head(s) <=> ~ (b = q /\ kd = kind)
      BY <1>1
    <3> QED BY <1>1, <1>4, <2>1, <2>2, <3>1, <3>2
  <2>3. CASE a # p
    BY <1>1, <2>1, <2>3, PostedIsIn
  <2> QED BY <2>2, <2>3
<1> QED BY <1>3, <1>5, <1>6

\* When no request appears, no client asks that did not ask before.
LEMMA AsksFewer ==
    ASSUME TypeOK, NEW c \in Clients, UNCHANGED <<cpc, cproc>>, Asks(c)',
           \A a, b \in Procs : event'[a][b] = "Request" => event[a][b] = "Request",
           \A a, b \in Procs : Posted(a, b, "Request")' => Posted(a, b, "Request")
    PROVE  Asks(c)
<1>1. PICK a, b \in Procs : a = cproc[c] /\ a = cproc'[c] /\ b = home[c]
  BY DEF TypeOK
<1>2. CASE cpc[c] = "send"
  BY <1>2 DEF Asks
<1>3. CASE cpc[c] = "wait" /\ event'[b][a] = "Request"
  BY <1>1, <1>3 DEF Asks
<1>4. CASE cpc[c] = "wait" /\ Posted(a, b, "Request")'
  <2>1. Posted(a, b, "Request")
    BY <1>4
  <2> QED BY <1>1, <1>4, <2>1 DEF Asks
<1> QED BY <1>1, <1>2, <1>3, <1>4 DEF Asks, Posted

\* The Swi of p looks up what q asks for: the query goes from posted to served.
LEMMA QueryLookup ==
    ASSUME TurnInv, QueryInv, NEW p \in Procs, NEW q \in Procs, SwiRequestLookup(p, q)
    PROVE  QueryInv'
<1>t. TypeOK /\ TypeOK' /\ OneAnswerPerQuery /\ PostedOnce
  BY TurnServer DEF TurnInv, QueryInv, Swi
<1>0. /\ StartSwi(p, q, "Request") /\ swiPc[p] = "idle" /\ swiPc' = [swiPc EXCEPT ![p] = "status"]
      /\ swiFor' = [swiFor EXCEPT ![p] = q]
      /\ UNCHANGED <<event, semRemoteWait, cpc, cproc, cname>>
  BY DEF SwiRequestLookup, StartSwi, serverFrame, sems, clients
<1>1. /\ PostedOnce' /\ Posted(p, q, "Request")
      /\ \A a, b \in Procs : \A kd : Posted(a, b, kd)' <=>
                                 Posted(a, b, kd) /\ ~ (a = p /\ b = q /\ kd = "Request")
  BY <1>0, <1>t, StartSwiEffect DEF Kinds
<1>2. "posted" \in UnderWay(q, p)
  BY <1>1, FormsOf
<1>3. p # q /\ UnderWay(q, p) = {"posted"} /\ \E c \in Clients : Waiting(c, q, p)
  BY <1>2, <1>t, UnderWayIsAsked
<1>p. \A a \in Procs : /\ swiPc'[a] = IF a = p THEN "status" ELSE swiPc[a]
                       /\ swiFor'[a] = IF a = p THEN q ELSE swiFor[a]
  BY <1>0, <1>t DEF TypeOK
<1>4. ASSUME NEW a \in Procs, NEW b \in Procs PROVE PairAccounted(a, b)'
  <2>0. \A c \in Clients : Waiting(c, a, b)' <=> Waiting(c, a, b)
    BY <1>0 DEF Waiting
  <2>1. CASE a = q /\ b = p
    <3>1. /\ event'[q][p] # "Request" /\ event'[p][q] # "Response"
          /\ ~ Posted(p, q, "Request")' /\ ~ Posted(q, p, "Response")'
          /\ swiPc'[p] # "idle" /\ swiFor'[p] = q /\ ~ (semRemoteWait'[q][p] > 0)
      BY <1>0, <1>1, <1>3, <1>p, FormsOf
    <3>2. UnderWay(a, b)' = {"served"}
      BY <2>1, <3>1 DEF UnderWay
    <3>3. semRemoteWait'[a][b] <= 1
      BY <1>0, <1>t DEF OneAnswerPerQuery
    <3> QED BY <1>2, <1>t, <2>0, <2>1, <3>2, <3>3, PairMoved
  <2>2. CASE ~ (a = q /\ b = p)
    <3>1. /\ Posted(b, a, "Request")' <=> Posted(b, a, "Request")
          /\ Posted(a, b, "Response")' <=> Posted(a, b, "Response")
      BY <1>1, <2>2
    <3>2. (swiPc'[b] # "idle" /\ swiFor'[b] = a) <=> (swiPc[b] # "idle" /\ swiFor[b] = a)
      BY <1>0, <1>p, <2>2
    <3>3. UnderWay(a, b)' = UnderWay(a, b)
      BY <1>0, <3>1, <3>2, FormsKept
    <3> QED BY <1>0, <1>t, <2>0, <3>3, PairKept
  <2> QED BY <2>1, <2>2
<1>5. OneAnswerPerQuery'
  BY <1>4 DEF OneAnswerPerQuery, PairAccounted
<1>m. \A a, b \in Procs : /\ msg'[a][b].name = msg[a][b].name
                          /\ msg'[a][b].requestStatus = msg[a][b].requestStatus
  <2> DEFINE r == GetLocal(p, msg[q][p].name)
             m == [msg[q][p] EXCEPT !.value = IF r = NotFound THEN @ ELSE r]
  <2>1. msg \in [Procs -> [Procs -> Slots]] /\ msg[q][p] \in Slots
    BY <1>t DEF TypeOK, Slots
  <2>2. msg' = [msg EXCEPT ![q][p] = m]
    BY DEF SwiRequestLookup
  <2>3. m.name = msg[q][p].name /\ m.requestStatus = msg[q][p].requestStatus
    <3> HIDE DEF r
    <3> QED BY <2>1 DEF Slots
  <2> HIDE DEF m
  <2> QED BY <2>1, <2>2, <2>3
<1>6. SlotsAsked'
  <2>1. ASSUME NEW c \in Clients, Asks(c)' PROVE Asks(c)
    BY <1>0, <1>1, <1>t, <2>1, AsksFewer
  <2>2. \A c \in Clients : home[c] \in Procs /\ cproc[c] \in Procs
    BY <1>t DEF TypeOK
  <2> QED BY <1>0, <1>m, <2>1, <2>2 DEF SlotsAsked, QueryInv
<1>7. StatusClear'
  <2>1. msg[q][p].requestStatus = FALSE
    <3>1. PICK c \in Clients : home[c] = q /\ cproc[c] = p /\ cpc[c] = "wait"
      BY <1>3 DEF Waiting
    <3>2. Asks(c)
      BY <1>1, <3>1 DEF Asks
    <3> QED BY <3>1, <3>2 DEF SlotsAsked, QueryInv
  <2>2. \A a \in Procs : swiFor[a] \in Procs
    BY <1>t DEF TypeOK
  <2>3. ASSUME NEW a \in Procs, swiPc'[a] = "status"
        PROVE  msg'[swiFor'[a]][a].requestStatus = FALSE
    <3>1. CASE a = p
      BY <1>m, <1>p, <2>1, <3>1
    <3>2. CASE a # p
      <4>1. swiPc[a] = "status" /\ swiFor'[a] = swiFor[a]
        BY <1>p, <2>3, <3>2
      <4>2. msg[swiFor[a]][a].requestStatus = FALSE
        BY <4>1 DEF StatusClear, QueryInv
      <4> QED BY <1>m, <2>2, <4>1, <4>2
    <3> QED BY <3>1, <3>2
  <2> QED BY <2>3 DEF StatusClear
<1> QED BY <1>1, <1>5, <1>6, <1>7 DEF QueryInv

\* The Swi of the response posts the semaphore.
LEMMA QueryResponse ==
    ASSUME TurnInv, QueryInv, NEW p \in Procs, NEW q \in Procs, SwiResponse(p, q)
    PROVE  QueryInv'
<1>t. TypeOK /\ TypeOK' /\ OneAnswerPerQuery /\ PostedOnce
  BY TurnServer DEF TurnInv, QueryInv, Swi
<1>0. /\ StartSwi(p, q, "Response") /\ semRemoteWait' = [semRemoteWait EXCEPT ![p][q] = @ + 1]
      /\ UNCHANGED <<msg, event, swiPc, swiFor, cpc, cproc, cname>>
  BY DEF SwiResponse, clients
<1>1. /\ PostedOnce' /\ Posted(p, q, "Response")
      /\ \A a, b \in Procs : \A kd : Posted(a, b, kd)' <=>
                                 Posted(a, b, kd) /\ ~ (a = p /\ b = q /\ kd = "Response")
  BY <1>0, <1>t, StartSwiEffect DEF Kinds
<1>2. "back" \in UnderWay(p, q)
  BY <1>1, FormsOf
<1>3. p # q /\ UnderWay(p, q) = {"back"}
  BY <1>2, <1>t, UnderWayIsAsked
<1>s. \A a, b \in Procs : semRemoteWait'[a][b] =
                          IF a = p /\ b = q THEN semRemoteWait[a][b] + 1 ELSE semRemoteWait[a][b]
  <2>1. semRemoteWait \in [Procs -> [Procs -> Nat]]
    BY <1>t DEF TypeOK
  <2> QED BY <1>0, <2>1
<1>4. ASSUME NEW a \in Procs, NEW b \in Procs PROVE PairAccounted(a, b)'
  <2>0. \A c \in Clients : Waiting(c, a, b)' <=> Waiting(c, a, b)
    BY <1>0 DEF Waiting
  <2>1. CASE a = p /\ b = q
    <3>1. semRemoteWait[p][q] = 0
      <4>1. ~ (semRemoteWait[p][q] > 0)
        BY <1>3, FormsOf
      <4>2. semRemoteWait[p][q] \in Nat
        BY <1>t DEF TypeOK
      <4> QED BY <4>1, <4>2
    <3>2. /\ event'[p][q] # "Request" /\ event'[q][p] # "Response"
          /\ ~ Posted(q, p, "Request")' /\ ~ Posted(p, q, "Response")'
          /\ ~ (swiPc'[q] # "idle" /\ swiFor'[q] = p) /\ semRemoteWait'[p][q] = 1
      BY <1>0, <1>1, <1>3, <1>s, <3>1, FormsOf
    <3>3. UnderWay(a, b)' = {"post"}
      BY <2>1, <3>2 DEF UnderWay
    <3>4. semRemoteWait'[a][b] <= 1
      BY <2>1, <3>2
    <3> QED BY <1>2, <1>t, <2>0, <2>1, <3>3, <3>4, PairMoved
  <2>2. CASE ~ (a = p /\ b = q)
    <3>1. /\ Posted(b, a, "Request")' <=> Posted(b, a, "Request")
          /\ Posted(a, b, "Response")' <=> Posted(a, b, "Response")
      BY <1>1, <2>2
    <3>2. semRemoteWait'[a][b] = semRemoteWait[a][b]
      BY <1>s, <2>2
    <3>3. UnderWay(a, b)' = UnderWay(a, b)
      BY <1>0, <3>1, <3>2, FormsKept
    <3> QED BY <1>0, <1>t, <2>0, <3>2, <3>3, PairKept
  <2> QED BY <2>1, <2>2
<1>5. OneAnswerPerQuery'
  BY <1>4 DEF OneAnswerPerQuery, PairAccounted
<1>6. SlotsAsked'
  <2>1. ASSUME NEW c \in Clients, Asks(c)' PROVE Asks(c)
    BY <1>0, <1>1, <1>t, <2>1, AsksFewer
  <2> QED BY <1>0, <2>1 DEF SlotsAsked, QueryInv
<1>7. StatusClear'
  BY <1>0 DEF StatusClear, QueryInv
<1> QED BY <1>1, <1>5, <1>6, <1>7 DEF QueryInv

\* The Swi of p sets the status in the slot of the one it serves.
LEMMA QueryStatus ==
    ASSUME TurnInv, QueryInv, NEW p \in Procs, SwiRequestStatus(p)
    PROVE  QueryInv'
<1> DEFINE q == swiFor[p]
<1>t. TypeOK /\ OneAnswerPerQuery /\ q \in Procs
  BY DEF TurnInv, QueryInv, TypeOK
<1>0. /\ swiPc[p] = "status" /\ swiPc' = [swiPc EXCEPT ![p] = "send"]
      /\ UNCHANGED <<event, posted, swiFor, semRemoteWait, cpc, cproc, cname>>
  BY DEF SwiRequestStatus, serverFrame, sems, clients
<1>p. \A a \in Procs : swiPc'[a] = IF a = p THEN "send" ELSE swiPc[a]
  BY <1>0, <1>t DEF TypeOK
<1>m. \A a, b \in Procs : ~ (a = q /\ b = p) => msg'[a][b] = msg[a][b]
  <2>1. PICK m : msg' = [msg EXCEPT ![q][p] = m]
    BY DEF SwiRequestStatus
  <2>2. msg \in [Procs -> [Procs -> Slots]]
    BY <1>t DEF TypeOK, Slots
  <2> HIDE DEF q
  <2> QED BY <2>1, <2>2
<1> HIDE DEF q
<1>1. ASSUME NEW a \in Procs, NEW b \in Procs PROVE PairAccounted(a, b)'
  <2>0. \A c \in Clients : Waiting(c, a, b)' <=> Waiting(c, a, b)
    BY <1>0 DEF Waiting
  <2>1. /\ Posted(b, a, "Request")' <=> Posted(b, a, "Request")
        /\ Posted(a, b, "Response")' <=> Posted(a, b, "Response")
    BY <1>0 DEF Posted
  <2>2. (swiPc'[b] # "idle" /\ swiFor'[b] = a) <=> (swiPc[b] # "idle" /\ swiFor[b] = a)
    BY <1>0, <1>p
  <2>3. UnderWay(a, b)' = UnderWay(a, b)
    BY <1>0, <2>1, <2>2, FormsKept
  <2> QED BY <1>0, <1>t, <2>0, <2>3, PairKept
<1>2. OneAnswerPerQuery'
  BY <1>1 DEF OneAnswerPerQuery, PairAccounted
<1>3. "served" \in UnderWay(q, p)
  BY <1>0, FormsOf DEF q
<1>4. UnderWay(q, p) = {"served"} /\ \E c \in Clients : Waiting(c, q, p)
  BY <1>t, <1>3, UnderWayIsAsked
<1>5. SlotsAsked'
  <2>1. ASSUME NEW c \in Clients, Asks(c)'
        PROVE  Asks(c) /\ ~ (home[c] = q /\ cproc[c] = p)
    <3>1. Asks(c)
      BY <1>0, <1>t, <2>1, AsksFewer DEF Posted
    <3>2. ASSUME home[c] = q, cproc[c] = p PROVE FALSE
      <4>1. CASE cpc[c] = "send"
        <5>1. PICK d \in Clients : home[d] = q /\ cproc[d] = p /\ cpc[d] = "wait"
          BY <1>4 DEF Waiting
        <5>2. c = d
          BY <3>2, <4>1, <5>1, OneInside DEF Inside, TurnInv
        <5> QED BY <4>1, <5>1, <5>2
      <4>2. CASE event[q][p] = "Request" \/ Posted(p, q, "Request")
        BY <1>4, <4>2, FormsOf
      <4> QED BY <3>1, <3>2, <4>1, <4>2 DEF Asks
    <3> QED BY <3>1, <3>2
  <2>2. \A c \in Clients : home[c] \in Procs /\ cproc[c] \in Procs
    BY <1>t DEF TypeOK
  <2>3. ASSUME NEW c \in Clients, Asks(c)'
        PROVE  /\ msg'[home[c]][cproc'[c]].name = cname'[c]
               /\ msg'[home[c]][cproc'[c]].requestStatus = FALSE
    <3>1. /\ msg[home[c]][cproc[c]].name = cname[c]
          /\ msg[home[c]][cproc[c]].requestStatus = FALSE
      BY <2>1, <2>3 DEF SlotsAsked, QueryInv
    <3>2. msg'[home[c]][cproc[c]] = msg[home[c]][cproc[c]]
      BY <1>m, <2>1, <2>2, <2>3
    <3> QED BY <1>0, <3>1, <3>2
  <2> QED BY <2>3 DEF SlotsAsked
<1>6. StatusClear'
  <2>1. ASSUME NEW a \in Procs, swiPc'[a] = "status"
        PROVE  msg'[swiFor'[a]][a].requestStatus = FALSE
    <3>1. a # p /\ swiPc[a] = "status" /\ swiFor'[a] = swiFor[a] /\ swiFor[a] \in Procs
      BY <1>0, <1>p, <1>t, <2>1 DEF TypeOK
    <3>2. msg'[swiFor[a]][a] = msg[swiFor[a]][a]
      BY <1>m, <3>1
    <3> QED BY <3>1, <3>2 DEF StatusClear, QueryInv
  <2> QED BY <2>1 DEF StatusClear
<1>7. PostedOnce'
  BY <1>0 DEF PostedOnce, QueryInv
<1> QED BY <1>2, <1>5, <1>6, <1>7 DEF QueryInv

\* The Swi of p sends the response: the query goes from served to response.
LEMMA QuerySend ==
    ASSUME TurnInv, QueryInv, NEW p \in Procs, SwiRequestSend(p)
    PROVE  QueryInv'
<1>t. TypeOK /\ OneAnswerPerQuery /\ swiFor[p] \in Procs
  BY DEF TurnInv, QueryInv, TypeOK
<1>s. PICK q \in Procs : swiFor[p] = q
  BY <1>t
<1>0. /\ swiPc[p] = "send" /\ swiPc' = [swiPc EXCEPT ![p] = "idle"]
      /\ event[p][q] = "none" /\ event' = [event EXCEPT ![p][q] = "Response"]
      /\ UNCHANGED <<msg, posted, swiFor, semRemoteWait, cpc, cproc, cname>>
  BY <1>s DEF SwiRequestSend, serverFrame, sems, clients
<1>p. \A a \in Procs : swiPc'[a] = IF a = p THEN "idle" ELSE swiPc[a]
  BY <1>0, <1>t DEF TypeOK
<1>1. "served" \in UnderWay(q, p)
  BY <1>0, <1>s, FormsOf
<1>e. \A a, b \in Procs : event'[a][b] = IF a = p /\ b = q THEN "Response" ELSE event[a][b]
  BY <1>0, <1>t DEF TypeOK
<1>2. p # q /\ UnderWay(q, p) = {"served"}
  BY <1>t, <1>1, UnderWayIsAsked
<1>3. \A a, b, kd : Posted(a, b, kd)' <=> Posted(a, b, kd)
  BY <1>0 DEF Posted
<1>4. ASSUME NEW a \in Procs, NEW b \in Procs PROVE PairAccounted(a, b)'
  <2>0. \A c \in Clients : Waiting(c, a, b)' <=> Waiting(c, a, b)
    BY <1>0 DEF Waiting
  <2>1. CASE a = q /\ b = p
    <3>1. /\ event'[q][p] # "Request" /\ event'[p][q] = "Response"
          /\ ~ Posted(p, q, "Request")' /\ ~ Posted(q, p, "Response")'
          /\ ~ (swiPc'[p] # "idle" /\ swiFor'[p] = q) /\ ~ (semRemoteWait'[q][p] > 0)
      <4>1. /\ event[q][p] # "Request" /\ ~ Posted(p, q, "Request")
            /\ ~ Posted(q, p, "Response") /\ ~ (semRemoteWait[q][p] > 0)
        BY <1>2, FormsOf
      <4>2. event'[q][p] = event[q][p] /\ event'[p][q] = "Response"
        BY <1>2, <1>e, <1>t
      <4>3. ~ Posted(p, q, "Request")' /\ ~ Posted(q, p, "Response")'
        BY <1>3, <4>1
      <4>4. swiPc'[p] = "idle" /\ semRemoteWait' = semRemoteWait
        BY <1>0, <1>p
      <4> QED BY <4>1, <4>2, <4>3, <4>4
    <3>2. UnderWay(a, b)' = {"response"}
      BY <2>1, <3>1 DEF UnderWay
    <3>3. semRemoteWait'[a][b] <= 1
      BY <1>0, <1>t DEF OneAnswerPerQuery
    <3> QED BY <1>1, <1>t, <2>0, <2>1, <3>2, <3>3, PairMoved
  <2>2. CASE ~ (a = q /\ b = p)
    <3>1. /\ event'[a][b] = "Request" <=> event[a][b] = "Request"
          /\ event'[b][a] = "Response" <=> event[b][a] = "Response"
      BY <1>0, <1>e, <2>2
    <3>2. (swiPc'[b] # "idle" /\ swiFor'[b] = a) <=> (swiPc[b] # "idle" /\ swiFor[b] = a)
      BY <1>0, <1>p, <1>s, <2>2
    <3>3. UnderWay(a, b)' = UnderWay(a, b)
      BY <1>0, <1>3, <3>1, <3>2, FormsKept
    <3> QED BY <1>0, <1>t, <2>0, <3>3, PairKept
  <2> QED BY <2>1, <2>2
<1>5. OneAnswerPerQuery'
  BY <1>4 DEF OneAnswerPerQuery, PairAccounted
<1>6. SlotsAsked'
  <2>1. ASSUME NEW c \in Clients, Asks(c)' PROVE Asks(c)
    <3>1. \A a, b \in Procs : event'[a][b] = "Request" => event[a][b] = "Request"
      BY <1>e
    <3>2. \A a, b \in Procs : Posted(a, b, "Request")' => Posted(a, b, "Request")
      BY <1>3
    <3> QED BY <1>0, <1>t, <2>1, <3>1, <3>2, AsksFewer
  <2> QED BY <1>0, <2>1 DEF SlotsAsked, QueryInv
<1>7. StatusClear'
  BY <1>0, <1>p DEF StatusClear, QueryInv
<1>8. PostedOnce'
  BY <1>0 DEF PostedOnce, QueryInv
<1> QED BY <1>5, <1>6, <1>7, <1>8 DEF QueryInv

\* No query is under way to the slot that a client is about to use, or has just used.
LEMMA NothingUnderWay ==
    ASSUME TurnInv, OneAnswerPerQuery, NEW c \in Clients, Inside(c), cpc[c] # "wait"
    PROVE  /\ UnderWay(home[c], cproc[c]) = {}
           /\ \A d \in Clients : ~ Waiting(d, home[c], cproc[c])
<1>1. home[c] \in Procs /\ cproc[c] \in Procs
  BY DEF TurnInv, TypeOK
<1>2. \A d \in Clients : ~ Waiting(d, home[c], cproc[c])
  BY OneInside DEF Waiting, Inside, TurnInv
<1> QED BY <1>1, <1>2 DEF OneAnswerPerQuery

\* A client that neither starts nor stops waiting leaves every query where it is.
LEMMA FormsUntouched ==
    ASSUME OneAnswerPerQuery, PostedOnce,
           UNCHANGED <<event, posted, swiPc, swiFor, semRemoteWait>>,
           \A c \in Clients : \A p, q \in Procs : Waiting(c, p, q)' <=> Waiting(c, p, q)
    PROVE  OneAnswerPerQuery' /\ PostedOnce'
<1>1. ASSUME NEW p \in Procs, NEW q \in Procs PROVE PairAccounted(p, q)'
  <2>1. UnderWay(p, q)' = UnderWay(p, q)
    BY DEF UnderWay, Posted
  <2> QED BY <2>1, PairKept
<1> QED BY <1>1 DEF OneAnswerPerQuery, PairAccounted, PostedOnce

\* The request is sent: the query gets its first form.
LEMMA QueryRequest ==
    ASSUME TurnInv, QueryInv, NEW c \in Clients, SendRequest(c)
    PROVE  QueryInv'
<1>1. PICK p, q \in Procs : p = home[c] /\ q = cproc[c]
  BY DEF TurnInv, TypeOK
<1>t. TypeOK /\ OneAnswerPerQuery /\ PostedOnce
  BY DEF TurnInv, QueryInv
<1>0. /\ cpc[c] = "send" /\ cpc' = [cpc EXCEPT ![c] = "wait"] /\ event[p][q] = "none"
      /\ event' = [event EXCEPT ![p][q] = "Request"]
      /\ UNCHANGED <<msg, posted, swiPc, swiFor, semRemoteWait, cproc, cname>>
  BY <1>1 DEF SendRequest, clientFrame, swis, sems, Goto
<1>e. \A a, b \in Procs : event'[a][b] = IF a = p /\ b = q THEN "Request" ELSE event[a][b]
  BY <1>0, <1>t DEF TypeOK
<1>c. \A d \in Clients : cpc'[d] = IF d = c THEN "wait" ELSE cpc[d]
  BY <1>0, <1>t DEF TypeOK
<1>2. UnderWay(p, q) = {} /\ p # q
  BY <1>0, <1>1, <1>t, NothingUnderWay DEF Inside, TurnInv, Turns
<1>3. \A a, b, kd : Posted(a, b, kd)' <=> Posted(a, b, kd)
  BY <1>0 DEF Posted
<1>4. ASSUME NEW a \in Procs, NEW b \in Procs PROVE PairAccounted(a, b)'
  <2>1. CASE a = p /\ b = q
    <3>1. /\ event'[p][q] = "Request" /\ event'[q][p] # "Response"
          /\ ~ Posted(q, p, "Request")' /\ ~ Posted(p, q, "Response")'
          /\ ~ (swiPc'[q] # "idle" /\ swiFor'[q] = p) /\ ~ (semRemoteWait'[p][q] > 0)
      <4>1. /\ event[q][p] # "Response" /\ ~ Posted(q, p, "Request") /\ ~ Posted(p, q, "Response")
            /\ ~ (swiPc[q] # "idle" /\ swiFor[q] = p) /\ ~ (semRemoteWait[p][q] > 0)
        BY <1>2, FormsOf
      <4>2. event'[q][p] = event[q][p] /\ event'[p][q] = "Request"
        BY <1>2, <1>e
      <4> QED BY <1>0, <1>3, <4>1, <4>2
    <3>2. UnderWay(a, b)' = {"request"}
      BY <2>1, <3>1 DEF UnderWay
    <3>3. \E d \in Clients : Waiting(d, a, b)'
      BY <1>0, <1>1, <1>c, <2>1 DEF Waiting
    <3>4. semRemoteWait'[a][b] <= 1
      BY <1>0, <1>t DEF OneAnswerPerQuery
    <3> QED BY <3>2, <3>3, <3>4 DEF PairAccounted
  <2>2. CASE ~ (a = p /\ b = q)
    <3>1. /\ event'[a][b] = "Request" <=> event[a][b] = "Request"
          /\ event'[b][a] = "Response" <=> event[b][a] = "Response"
      BY <1>0, <1>e, <2>2
    <3>2. \A d \in Clients : Waiting(d, a, b)' <=> Waiting(d, a, b)
      BY <1>0, <1>1, <1>c, <2>2 DEF Waiting
    <3>3. UnderWay(a, b)' = UnderWay(a, b)
      BY <1>0, <1>3, <3>1, FormsKept
    <3> QED BY <1>0, <1>t, <3>2, <3>3, PairKept
  <2> QED BY <2>1, <2>2
<1>5. OneAnswerPerQuery'
  BY <1>4 DEF OneAnswerPerQuery, PairAccounted
<1>6. SlotsAsked'
  <2>1. ASSUME NEW d \in Clients, Asks(d)' PROVE Asks(d)
    <3>1. CASE d = c
      BY <1>0, <3>1 DEF Asks
    <3>2. CASE d # c
      <4>1. PICK a, b \in Procs : a = home[d] /\ b = cproc[d] /\ b = cproc'[d]
        BY <1>0, <1>t DEF TypeOK
      <4>2. CASE a = p /\ b = q
        <5>1. ~ Inside(d)
          BY <1>0, <1>1, <3>2, <4>1, <4>2, OneInside DEF Inside, TurnInv
        <5> QED BY <1>c, <2>1, <3>2, <5>1 DEF Asks, Inside
      <4>3. CASE ~ (a = p /\ b = q)
        <5>1. event'[a][b] = event[a][b] /\ (Posted(b, a, "Request")' <=> Posted(b, a, "Request"))
          BY <1>3, <1>e, <4>3
        <5>2. cpc'[d] = "send" \/ (cpc'[d] = "wait" /\ (event'[a][b] = "Request"
                                                        \/ Posted(b, a, "Request")'))
          BY <2>1, <4>1 DEF Asks, Posted
        <5> QED BY <1>c, <3>2, <4>1, <5>1, <5>2 DEF Asks
      <4> QED BY <4>2, <4>3
    <3> QED BY <3>1, <3>2
  <2> QED BY <1>0, <2>1 DEF SlotsAsked, QueryInv
<1>7. StatusClear'
  BY <1>0 DEF StatusClear, QueryInv
<1>8. PostedOnce'
  BY <1>0, <1>t DEF PostedOnce
<1> QED BY <1>5, <1>6, <1>7, <1>8 DEF QueryInv

\* The answer is there: the query has no form any more.
LEMMA QueryWait ==
    ASSUME TurnInv, QueryInv, NEW c \in Clients, Wait(c)
    PROVE  QueryInv'
<1>1. PICK p, q \in Procs : p = home[c] /\ q = cproc[c]
  BY DEF TurnInv, TypeOK
<1>t. TypeOK /\ OneAnswerPerQuery /\ PostedOnce
  BY DEF TurnInv, QueryInv
<1>0. /\ cpc[c] = "wait" /\ cpc' = [cpc EXCEPT ![c] = "read"] /\ semRemoteWait[p][q] > 0
      /\ semRemoteWait' = [semRemoteWait EXCEPT ![p][q] = @ - 1]
      /\ UNCHANGED <<msg, event, posted, swiPc, swiFor, cproc, cname>>
  BY <1>1 DEF Wait, clientFrame, swis, Goto
<1>s. \A a, b \in Procs : semRemoteWait'[a][b] =
                          IF a = p /\ b = q THEN semRemoteWait[a][b] - 1 ELSE semRemoteWait[a][b]
  <2>1. semRemoteWait \in [Procs -> [Procs -> Nat]]
    BY <1>t DEF TypeOK
  <2> QED BY <1>0, <2>1
<1>c. \A d \in Clients : cpc'[d] = IF d = c THEN "read" ELSE cpc[d]
  BY <1>0, <1>t DEF TypeOK
<1>2. "post" \in UnderWay(p, q)
  BY <1>0, FormsOf
<1>3. UnderWay(p, q) = {"post"}
  BY <1>2, <1>t, UnderWayIsAsked
<1>4. ASSUME NEW a \in Procs, NEW b \in Procs PROVE PairAccounted(a, b)'
  <2>1. CASE a = p /\ b = q
    <3>1. semRemoteWait'[p][q] = 0
      <4>1. semRemoteWait[p][q] \in Nat /\ semRemoteWait[p][q] <= 1
        BY <1>t DEF TypeOK, OneAnswerPerQuery
      <4> QED BY <1>0, <1>s, <4>1
    <3>2. UnderWay(a, b)' = {}
      <4>1. /\ event[p][q] # "Request" /\ event[q][p] # "Response"
            /\ ~ Posted(q, p, "Request") /\ ~ Posted(p, q, "Response")
            /\ ~ (swiPc[q] # "idle" /\ swiFor[q] = p)
        <5>1. \A x \in {"request", "response", "posted", "back", "served"} : x \notin UnderWay(p, q)
          BY <1>3
        <5> QED BY <5>1, FormsOf
      <4> QED BY <1>0, <2>1, <3>1, <4>1 DEF UnderWay, Posted
    <3>3. \A d \in Clients : ~ Waiting(d, a, b)'
      <4> SUFFICES ASSUME NEW d \in Clients, Waiting(d, a, b)' PROVE FALSE
        OBVIOUS
      <4>1. d # c /\ Inside(d) /\ home[d] = p /\ cproc[d] = q
        BY <1>0, <1>c, <2>1 DEF Waiting, Inside
      <4> QED BY <1>0, <1>1, <4>1, OneInside DEF Inside, TurnInv
    <3> QED BY <2>1, <3>1, <3>2, <3>3 DEF PairAccounted
  <2>2. CASE ~ (a = p /\ b = q)
    <3>1. semRemoteWait'[a][b] = semRemoteWait[a][b]
      BY <1>s, <2>2
    <3>2. \A d \in Clients : Waiting(d, a, b)' <=> Waiting(d, a, b)
      BY <1>0, <1>1, <1>c, <2>2 DEF Waiting
    <3>3. UnderWay(a, b)' = UnderWay(a, b)
      BY <1>0, <3>1 DEF UnderWay, Posted
    <3> QED BY <1>t, <3>1, <3>2, <3>3, PairKept
  <2> QED BY <2>1, <2>2
<1>5. OneAnswerPerQuery'
  BY <1>4 DEF OneAnswerPerQuery, PairAccounted
<1>6. SlotsAsked'
  <2>1. ASSUME NEW d \in Clients, Asks(d)' PROVE Asks(d)
    BY <1>0, <1>c, <2>1 DEF Asks, Posted
  <2> QED BY <1>0, <2>1 DEF SlotsAsked, QueryInv
<1>7. StatusClear' /\ PostedOnce'
  BY <1>0, <1>t DEF StatusClear, QueryInv, PostedOnce
<1> QED BY <1>5, <1>6, <1>7 DEF QueryInv

\* The steps of a client before it sends and after it has its answer.
LEMMA QueryQuiet ==
    ASSUME TurnInv, QueryInv, NEW c \in Clients,
           (\E n \in Names : Get(c, n)) \/ Post(c) \/ Enter(c) \/ RefusedRequest(c) \/ ReadAnswer(c)
    PROVE  QueryInv'
<1>t. TypeOK /\ OneAnswerPerQuery /\ PostedOnce
  BY DEF TurnInv, QueryInv
<1>1. UNCHANGED <<msg, event, posted, swiPc, swiFor, semRemoteWait>>
  BY DEF Get, Post, Enter, RefusedRequest, ReadAnswer, clientFrame, swis, sems
<1>2. /\ cpc[c] # "wait" /\ cpc'[c] \in {"idle", "pend", "write", "post"}
      /\ \A d \in Clients \ {c} : cpc'[d] = cpc[d] /\ cproc'[d] = cproc[d] /\ cname'[d] = cname[d]
  <2>1. CASE Enter(c) \/ RefusedRequest(c) \/ ReadAnswer(c)
    BY <1>t, <2>1 DEF Enter, RefusedRequest, ReadAnswer, Goto, TypeOK
  <2>2. ASSUME NEW n, NEW i \in Nat, NEW sem,
               QueryFrom(c, n, i, sem) \/ Return(c), cpc[c] \in {"idle", "post"}
        PROVE  /\ cpc[c] # "wait" /\ cpc'[c] \in {"idle", "pend", "write", "post"}
               /\ \A d \in Clients \ {c} : /\ cpc'[d] = cpc[d] /\ cproc'[d] = cproc[d]
                                           /\ cname'[d] = cname[d]
    <3>1. CASE Return(c)
      BY <1>t, <2>2, <3>1 DEF Return, Goto, TypeOK
    <3>2. CASE \E q \in Procs : Pend(c, n, q, sem)
      BY <1>t, <2>2, <3>2 DEF Pend, Goto, TypeOK
    <3> QED BY <2>2, <3>1, <3>2, QueryFromEffect
  <2>3. CASE \E n \in Names : Get(c, n)
    BY <2>2, <2>3 DEF Get
  <2>4. CASE Post(c)
    <3>1. cproc[c] + 1 \in Nat
      <4>1. cproc[c] \in Procs
        BY <1>t DEF TypeOK
      <4> QED BY <4>1 DEF Procs
    <3> QED BY <2>2, <2>4, <3>1 DEF Post, Finish
  <2> QED BY <2>1, <2>3, <2>4
<1>3. \A d \in Clients : \A p, q \in Procs : Waiting(d, p, q)' <=> Waiting(d, p, q)
  BY <1>2 DEF Waiting
<1>4. OneAnswerPerQuery' /\ PostedOnce'
  BY <1>1, <1>3, <1>t, FormsUntouched
<1>5. SlotsAsked'
  <2>1. ASSUME NEW d \in Clients, Asks(d)' PROVE d # c /\ Asks(d)
    BY <1>1, <1>2, <2>1 DEF Asks, Posted
  <2> QED BY <1>1, <1>2, <2>1 DEF SlotsAsked, QueryInv
<1>6. StatusClear'
  BY <1>1 DEF StatusClear, QueryInv
<1> QED BY <1>4, <1>5, <1>6 DEF QueryInv

\* A client writes its name into the slot, and clears the status of the last query.
LEMMA QueryWrite ==
    ASSUME TurnInv, QueryInv, NEW c \in Clients, WriteRequest(c)
    PROVE  QueryInv'
<1>1. PICK p, q \in Procs : p = home[c] /\ q = cproc[c]
  BY DEF TurnInv, TypeOK
<1>t. TypeOK /\ OneAnswerPerQuery /\ PostedOnce
  BY DEF TurnInv, QueryInv
<1>0. /\ cpc[c] = "write" /\ cpc' = [cpc EXCEPT ![c] = "send"]
      /\ UNCHANGED <<event, posted, swiPc, swiFor, semRemoteWait, cproc, cname>>
  BY DEF WriteRequest, clientFrame, swis, sems, Goto
<1>c. \A d \in Clients : cpc'[d] = IF d = c THEN "send" ELSE cpc[d]
  BY <1>0, <1>t DEF TypeOK
<1>m. /\ msg'[p][q].name = cname[c] /\ msg'[p][q].requestStatus = FALSE
      /\ \A a, b \in Procs : ~ (a = p /\ b = q) => msg'[a][b] = msg[a][b]
  <2> DEFINE m == [msg[p][q] EXCEPT !.requestStatus = FALSE, !.name = cname[c]]
  <2>1. msg' = [msg EXCEPT ![p][q] = m]
    BY <1>1 DEF WriteRequest
  <2>2. msg \in [Procs -> [Procs -> Slots]] /\ msg[p][q] \in Slots
    BY <1>t DEF TypeOK, Slots
  <2>3. m.name = cname[c] /\ m.requestStatus = FALSE
    BY <2>2 DEF Slots
  <2> HIDE DEF m
  <2> QED BY <2>1, <2>2, <2>3
<1>2. \A d \in Clients : \A a, b \in Procs : Waiting(d, a, b)' <=> Waiting(d, a, b)
  BY <1>0, <1>c DEF Waiting
<1>3. OneAnswerPerQuery' /\ PostedOnce'
  BY <1>0, <1>2, <1>t, FormsUntouched
<1>4. SlotsAsked'
  <2>1. ASSUME NEW d \in Clients, Asks(d)'
        PROVE  /\ msg'[home[d]][cproc'[d]].name = cname'[d]
               /\ msg'[home[d]][cproc'[d]].requestStatus = FALSE
    <3>1. CASE d = c
      BY <1>0, <1>1, <1>m, <3>1
    <3>2. CASE d # c
      <4>1. Asks(d) /\ Inside(d) /\ home[d] \in Procs /\ cproc[d] \in Procs
        BY <1>0, <1>c, <1>t, <2>1, <3>2 DEF Asks, Posted, Inside, TypeOK
      <4>2. ~ (home[d] = p /\ cproc[d] = q)
        BY <1>0, <1>1, <3>2, <4>1, OneInside DEF Inside, TurnInv
      <4>3. msg'[home[d]][cproc[d]] = msg[home[d]][cproc[d]]
        BY <1>m, <4>1, <4>2
      <4> QED BY <1>0, <4>1, <4>3 DEF SlotsAsked, QueryInv
    <3> QED BY <3>1, <3>2
  <2> QED BY <2>1 DEF SlotsAsked
<1>5. StatusClear'
  <2>1. ASSUME NEW a \in Procs, swiPc'[a] = "status"
        PROVE  msg'[swiFor'[a]][a].requestStatus = FALSE
    <3>1. swiFor[a] \in Procs /\ msg[swiFor[a]][a].requestStatus = FALSE
      BY <1>0, <1>t, <2>1 DEF StatusClear, QueryInv, TypeOK
    <3>2. CASE swiFor[a] = p /\ a = q
      BY <1>0, <1>m, <3>2
    <3>3. CASE ~ (swiFor[a] = p /\ a = q)
      BY <1>0, <1>m, <3>1, <3>3
    <3> QED BY <3>2, <3>3
  <2> QED BY <2>1 DEF StatusClear
<1> QED BY <1>3, <1>4, <1>5 DEF QueryInv

\* A processor attaches to another one that it does not query yet.
LEMMA QueryAttach ==
    ASSUME TurnInv, QueryInv, NEW p \in Procs, NEW q \in Procs,
           AttachEvent(p, q) \/ AttachDriver(p, q)
    PROVE  QueryInv'
<1>t. TypeOK /\ OneAnswerPerQuery /\ PostedOnce
  BY DEF TurnInv, QueryInv
<1>0. UNCHANGED <<event, posted, swiPc, swiFor, semRemoteWait, cpc, cproc, cname>>
  BY DEF AttachEvent, AttachDriver, swis, sems, clients
<1>1. \/ msg' = msg
      \/ attached[p][q] = "no" /\ msg' = [msg EXCEPT ![p][q] = AnySlot]
  BY DEF AttachEvent, AttachDriver
<1>m. ASSUME NEW a \in Procs, NEW b \in Procs
      PROVE  msg'[a][b] = msg[a][b] \/ (a = p /\ b = q /\ attached[p][q] = "no"
                                        /\ msg'[a][b].requestStatus = FALSE)
  <2>1. msg \in [Procs -> [Procs -> Slots]]
    BY <1>t DEF TypeOK, Slots
  <2>2. AnySlot.requestStatus = FALSE
    BY DEF AnySlot
  <2> QED BY <1>1, <2>1, <2>2
<1>2. \A d \in Clients : \A a, b \in Procs : Waiting(d, a, b)' <=> Waiting(d, a, b)
  BY <1>0 DEF Waiting
<1>3. OneAnswerPerQuery' /\ PostedOnce'
  BY <1>0, <1>2, <1>t, FormsUntouched
<1>4. SlotsAsked'
  <2>1. ASSUME NEW d \in Clients, Asks(d)'
        PROVE  Asks(d) /\ msg'[home[d]][cproc[d]] = msg[home[d]][cproc[d]]
    <3>1. Asks(d) /\ home[d] \in Procs /\ cproc[d] \in Procs
      BY <1>0, <1>t, <2>1 DEF Asks, Posted, TypeOK
    <3>2. attached[home[d]][cproc[d]] = "driver"
      BY <3>1 DEF TurnInv, Turns, Asks
    <3> QED BY <1>m, <3>1, <3>2
  <2> QED BY <1>0, <2>1 DEF SlotsAsked, QueryInv
<1>5. StatusClear'
  <2>1. ASSUME NEW a \in Procs, swiPc'[a] = "status"
        PROVE  msg'[swiFor'[a]][a].requestStatus = FALSE
    <3>1. swiFor[a] \in Procs /\ msg[swiFor[a]][a].requestStatus = FALSE
      BY <1>0, <1>t, <2>1 DEF StatusClear, QueryInv, TypeOK
    <3> QED BY <1>0, <1>m, <3>1
  <2> QED BY <2>1 DEF StatusClear
<1> QED BY <1>3, <1>4, <1>5 DEF QueryInv

LEMMA QueryNext == TurnInv /\ QueryInv /\ [Next]_vars => QueryInv'
<1> SUFFICES ASSUME TurnInv, QueryInv, [Next]_vars PROVE QueryInv'
  OBVIOUS
<1>1. CASE UNCHANGED vars \/ TableNext
  <2>1. UNCHANGED <<msg, event, posted, swiPc, swiFor, semRemoteWait, cpc, cproc, cname>>
    BY <1>1 DEF vars, TableNext, swis, sems, clients
  <2>2. OneAnswerPerQuery' /\ PostedOnce'
    BY <2>1, FormsUntouched DEF QueryInv, Waiting
  <2>3. SlotsAsked' /\ StatusClear'
    BY <2>1 DEF QueryInv, SlotsAsked, Asks, Posted, StatusClear
  <2> QED BY <2>2, <2>3 DEF QueryInv
<1>2. CASE \E p, q \in Procs : AttachEvent(p, q) \/ AttachDriver(p, q) \/ CbFxn(p, q)
  BY <1>2, QueryAttach, QueryCbFxn
<1>3. CASE \E c \in Clients : (\E n \in Names : Get(c, n)) \/ Client(c)
  BY <1>3, QueryQuiet, QueryWrite, QueryRequest, QueryWait DEF Client
<1>4. CASE \E p \in Procs : Swi(p)
  BY <1>4, QueryLookup, QueryResponse, QueryStatus, QuerySend DEF Swi
<1> QED BY <1>1, <1>2, <1>3, <1>4 DEF Next

\* Who is answered has registered the event of the response, for it has sent a request.
LEMMA RepliesAreAccepted == TurnInv /\ QueryInv => ReplyIsAccepted
<1> SUFFICES ASSUME TurnInv, QueryInv, NEW p \in Procs, swiPc[p] = "send"
             PROVE  attached[swiFor[p]][p] # "no"
  BY DEF ReplyIsAccepted
<1>1. PICK q \in Procs : q = swiFor[p]
  BY DEF TurnInv, TypeOK
<1>2. "served" \in UnderWay(q, p)
  BY <1>1, FormsOf
<1>3. PICK c \in Clients : Waiting(c, q, p)
  BY <1>2, UnderWayIsAsked DEF QueryInv
<1> QED BY <1>1, <1>3 DEF TurnInv, Turns, Waiting

QueryIInv == TurnInv /\ QueryInv

\* The inductive invariant: clients take turns at a slot; who waits there has its query in
\* exactly one place; what the slot holds is the name asked for, and no answer, until the
\* Swi of the other processor has looked it up.
THEOREM QueryInvariant == Spec => []QueryIInv
<1>1. Init => QueryIInv
  BY TurnInit, QueryInit DEF QueryIInv
<1>2. QueryIInv /\ [Next]_vars => QueryIInv'
  BY TurnNext, QueryNext DEF QueryIInv, TimeoutNext
<1> QED BY <1>1, <1>2, PTL DEF Spec

\* Every query is accounted for, whatever threads, interrupts and Swis do in between: one
\* form of it while its client waits, nothing left over for the next one, and a processor
\* that takes the reply.
THEOREM QueriesAreAccounted == Spec => []QueriesAccounted
<1>1. QueryIInv => QueriesAccounted
  BY RepliesAreAccepted DEF QueryIInv, QueryInv, TurnInv, QueriesAccounted
<1> QED BY <1>1, QueryInvariant, PTL

-----------------------------------------------------------------------------
(* A query is an atomic look-up                                             *)

\* What the abstract look-up sees of the implementation.
TableOf   == [p \in Procs |-> [n \in Names |-> GetLocal(p, n)]]
Listening == {pq \in Procs \X Procs : attached[pq[1]][pq[2]] # "no"}
Asked(c)  == IF cpc[c] = "idle" THEN None
             ELSE [from |-> home[c], to |-> cproc[c], name |-> cname[c]]
Told(c)   == IF cpc[c] = "idle" \/ Unanswered(c) THEN None
             ELSE IF cpc[c] = "post" THEN cresult[c] ELSE InSlot(home[c], cproc[c])

QueryMap  == [c \in Clients |-> Asked(c)]
AnswerMap == [c \in Clients |-> Told(c)]

\* The steps of the abstract look-up, in these terms.
LEMMA LookupSteps ==
    /\ L!Change <=> /\ TableOf' \in L!Tables
                    /\ UNCHANGED <<Listening, QueryMap, AnswerMap>>
    /\ L!Listen <=> /\ Listening' \in SUBSET (Procs \X Procs) /\ Listening \subseteq Listening'
                    /\ UNCHANGED <<TableOf, QueryMap, AnswerMap>>
    /\ UNCHANGED L!lookupVars <=> UNCHANGED <<TableOf, Listening, QueryMap, AnswerMap>>
BY Zenon DEF L!Change, L!Listen, L!lookupVars, TableOf, Listening, QueryMap, AnswerMap, Asked, Told

LEMMA LookupClientSteps ==
    ASSUME NEW c \in Clients
    PROVE
    /\ L!Ask(c) <=> /\ QueryMap[c] = None \/ AnswerMap[c] = NotFound
                    /\ \E q \in L!Queries : QueryMap' = [QueryMap EXCEPT ![c] = q]
                    /\ AnswerMap' = [AnswerMap EXCEPT ![c] = None]
                    /\ UNCHANGED <<TableOf, Listening>>
    /\ L!Answer(c) <=> /\ QueryMap[c] # None /\ AnswerMap[c] = None
                       /\ AnswerMap' = [AnswerMap EXCEPT ![c] =
                                           TableOf[QueryMap[c].to][QueryMap[c].name]]
                       /\ UNCHANGED <<TableOf, Listening, QueryMap>>
    /\ L!Refuse(c) <=> /\ QueryMap[c] # None /\ AnswerMap[c] = None
                       /\ <<QueryMap[c].to, QueryMap[c].from>> \notin Listening
                       /\ AnswerMap' = [AnswerMap EXCEPT ![c] = NotFound]
                       /\ UNCHANGED <<TableOf, Listening, QueryMap>>
    /\ L!Return(c) <=> /\ AnswerMap[c] # None
                       /\ QueryMap' = [QueryMap EXCEPT ![c] = None]
                       /\ AnswerMap' = [AnswerMap EXCEPT ![c] = None]
                       /\ UNCHANGED <<TableOf, Listening>>
BY Zenon DEF L!Ask, L!Answer, L!Refuse, L!Return, TableOf, Listening, QueryMap, AnswerMap, Asked, Told

\* What the clients ask and are told, as functions.
LEMMA MapsKept ==
    ASSUME \A c \in Clients : Asked(c)' = Asked(c) /\ Told(c)' = Told(c)
    PROVE  UNCHANGED <<QueryMap, AnswerMap>>
BY DEF QueryMap, AnswerMap

LEMMA MapsMoved ==
    ASSUME NEW c \in Clients, NEW x, NEW y, Asked(c)' = x, Told(c)' = y,
           \A d \in Clients \ {c} : Asked(d)' = Asked(d) /\ Told(d)' = Told(d)
    PROVE  /\ QueryMap' = [QueryMap EXCEPT ![c] = x]
           /\ AnswerMap' = [AnswerMap EXCEPT ![c] = y]
BY DEF QueryMap, AnswerMap

\* A client that is not looked at has what it had.
LEMMA ToldKept ==
    ASSUME NEW c \in Clients,
           cpc'[c] = cpc[c], cproc'[c] = cproc[c], cname'[c] = cname[c], cresult'[c] = cresult[c],
           Unanswered(c)' <=> Unanswered(c),
           cpc[c] \in {"wait", "read"} /\ ~ Unanswered(c) =>
                  InSlot(home[c], cproc[c])' = InSlot(home[c], cproc[c]),
           TypeOK
    PROVE  Asked(c)' = Asked(c) /\ Told(c)' = Told(c)
<1>1. Asked(c)' = Asked(c)
  BY DEF Asked
<1>2. cpc[c] \in {"idle", "post", "wait", "read"} \/ Unanswered(c)
  BY DEF TypeOK, Labels, Unanswered
<1>3. cpc[c] = "post" => ~ Unanswered(c)
  BY DEF Unanswered
<1>4. Told(c)' = Told(c)
  BY <1>2, <1>3 DEF Told
<1> QED BY <1>1, <1>4

\* Requests that neither appear nor disappear leave a query unanswered or answered.
LEMMA UnansweredKept ==
    ASSUME TypeOK, NEW c \in Clients, NEW p \in Procs, NEW q \in Procs,
           p = home[c], q = cproc[c], cpc'[c] = cpc[c], cproc'[c] = cproc[c],
           cpc[c] = "wait" =>
              ((event'[p][q] = "Request" \/ Posted(q, p, "Request")')
                  <=> (event[p][q] = "Request" \/ Posted(q, p, "Request")))
    PROVE  Unanswered(c)' <=> Unanswered(c)
BY DEF Unanswered, Posted

LEMMA InSlotKept ==
    ASSUME NEW c \in Clients, NEW p, NEW q, p = home[c], q = cproc[c], cproc'[c] = cproc[c],
           InSlot(p, q)' = InSlot(p, q)
    PROVE  InSlot(home[c], cproc[c])' = InSlot(home[c], cproc[c])
BY DEF InSlot

\* The tables and the processors that listen.
LEMMA FrameKept ==
    /\ UNCHANGED nameList => TableOf' = TableOf
    /\ UNCHANGED attached => Listening' = Listening
<1>1. ASSUME UNCHANGED nameList PROVE TableOf' = TableOf
  BY <1>1 DEF TableOf, GetLocal, Places
<1>2. ASSUME UNCHANGED attached PROVE Listening' = Listening
  BY <1>2 DEF Listening
<1> QED BY <1>1, <1>2

LEMMA TablesTyped == TableTypeOK => TableOf \in L!Tables
BY GetLocalType DEF TableOf, L!Tables

\* Tables change, processors attach: no answer does.
LEMMA LookupTable == ASSUME QueryIInv, TableNext PROVE L!LookupNext
<1>1. UNCHANGED <<attached, msg, event, swis, sems, clients>>
  BY DEF TableNext
<1>2. \A c \in Clients : Asked(c)' = Asked(c) /\ Told(c)' = Told(c)
  BY <1>1 DEF Asked, Told, Unanswered, Posted, InSlot, swis, clients
<1>3. TableTypeOK'
  BY TurnTable DEF QueryIInv, TurnInv, TypeOK
<1>4. (TableTypeOK => TableOf \in L!Tables)'
  BY TablesTyped, PTL
<1>5. TableOf' \in L!Tables
  BY <1>3, <1>4 DEF L!Tables
<1>6. L!Change
  BY <1>1, <1>2, <1>5, FrameKept, MapsKept, LookupSteps
<1> QED BY <1>6 DEF L!LookupNext

LEMMA LookupAttach ==
    ASSUME QueryIInv, NEW p \in Procs, NEW q \in Procs, AttachEvent(p, q) \/ AttachDriver(p, q)
    PROVE  L!LookupNext
<1>t. TypeOK /\ Turns
  BY DEF QueryIInv, TurnInv
<1>1. UNCHANGED <<table, event, swis, sems, clients>>
  BY DEF AttachEvent, AttachDriver
<1>2. ASSUME NEW a \in Procs, NEW b \in Procs, attached[a][b] = "driver"
      PROVE  msg'[a][b] = msg[a][b]
  <2>1. msg \in [Procs -> [Procs -> Slots]]
    BY <1>t DEF TypeOK, Slots
  <2>2. msg' = msg \/ (msg' = [msg EXCEPT ![p][q] = AnySlot] /\ attached[p][q] = "no")
    BY DEF AttachEvent, AttachDriver
  <2>3. CASE msg' = msg
    BY <2>3
  <2>4. CASE msg' = [msg EXCEPT ![p][q] = AnySlot] /\ attached[p][q] = "no"
    <3>1. ~ (a = p /\ b = q)
      BY <1>2, <2>4
    <3> QED BY <2>1, <2>4, <3>1
  <2> QED BY <2>2, <2>3, <2>4
<1>3. ASSUME NEW c \in Clients PROVE Asked(c)' = Asked(c) /\ Told(c)' = Told(c)
  <2>1. PICK a, b \in Procs : a = home[c] /\ b = cproc[c]
    BY <1>t DEF TypeOK
  <2>2. Unanswered(c)' <=> Unanswered(c)
    BY <1>1 DEF Unanswered, Posted, swis, clients
  <2>3. ASSUME cpc[c] # "idle" PROVE InSlot(home[c], cproc[c])' = InSlot(home[c], cproc[c])
    <3>1. msg'[a][b] = msg[a][b]
      BY <1>t, <1>2, <2>1, <2>3 DEF Turns
    <3>2. InSlot(a, b)' = InSlot(a, b)
      BY <1>1, <3>1 DEF InSlot, swis
    <3> QED BY <1>1, <2>1, <3>2, InSlotKept DEF clients
  <2> QED BY <1>1, <1>t, <2>2, <2>3, ToldKept DEF clients
<1>4. Listening \subseteq Listening'
  <2>1. attached \in [Procs -> [Procs -> {"no", "event", "driver"}]]
    BY <1>t DEF TypeOK
  <2>2. PICK x \in {"event", "driver"} : attached' = [attached EXCEPT ![p][q] = x]
    BY DEF AttachEvent, AttachDriver
  <2>3. \A a, b \in Procs : attached[a][b] # "no" => attached'[a][b] # "no"
    BY <2>1, <2>2
  <2> QED BY <2>3 DEF Listening
<1>5. Listening' \in SUBSET (Procs \X Procs)
  BY DEF Listening
<1>6. L!Listen
  BY <1>1, <1>3, <1>4, <1>5, FrameKept, MapsKept, LookupSteps DEF table
<1> QED BY <1>6 DEF L!LookupNext

\* A step of a server that neither answers a query nor changes an answer is not seen.
LEMMA LookupQuiet ==
    ASSUME TypeOK, UNCHANGED <<table, attached, clients>>,
           \A a, b \in Procs :
              /\ InSlot(a, b)' = InSlot(a, b)
              /\ (event'[a][b] = "Request" \/ Posted(b, a, "Request")')
                    <=> (event[a][b] = "Request" \/ Posted(b, a, "Request"))
    PROVE  UNCHANGED L!lookupVars
<1>1. ASSUME NEW c \in Clients PROVE Asked(c)' = Asked(c) /\ Told(c)' = Told(c)
  <2>1. PICK a, b \in Procs : a = home[c] /\ b = cproc[c]
    BY DEF TypeOK
  <2>2. Unanswered(c)' <=> Unanswered(c)
    BY <2>1, UnansweredKept DEF clients
  <2>3. InSlot(home[c], cproc[c])' = InSlot(home[c], cproc[c])
    BY <2>1, InSlotKept DEF clients
  <2> QED BY <2>2, <2>3, ToldKept DEF clients
<1> QED BY <1>1, FrameKept, MapsKept, LookupSteps DEF table

LEMMA LookupCbFxn ==
    ASSUME QueryIInv, NEW p \in Procs, NEW q \in Procs, CbFxn(p, q)
    PROVE  UNCHANGED L!lookupVars
<1>t. TypeOK
  BY DEF QueryIInv, TurnInv
<1>1. UNCHANGED <<table, attached, clients, msg, swiPc, swiFor, swiFound>>
  BY DEF CbFxn, serverFrame
<1>k. PICK k \in Kinds :
         /\ k = event[q][p] /\ k # "none"
         /\ \A a, b \in Procs :
               event'[a][b] = IF a = q /\ b = p THEN "none" ELSE event[a][b]
         /\ \A a, b \in Procs : \A kind :
               Posted(a, b, kind)' <=> Posted(a, b, kind) \/ (a = p /\ b = q /\ kind = k)
  BY CbFxnEffect DEF QueryIInv
<1>2. ASSUME NEW a \in Procs, NEW b \in Procs
      PROVE  (event'[a][b] = "Request" \/ Posted(b, a, "Request")')
                <=> (event[a][b] = "Request" \/ Posted(b, a, "Request"))
  <2>1. CASE a = q /\ b = p
    <3>1. event'[q][p] = "none" /\ (Posted(p, q, "Request")' <=> Posted(p, q, "Request") \/ k = "Request")
      BY <1>k
    <3> QED BY <1>k, <2>1, <3>1
  <2>2. CASE ~ (a = q /\ b = p)
    <3>1. event'[a][b] = event[a][b] /\ (Posted(b, a, "Request")' <=> Posted(b, a, "Request"))
      BY <1>k, <2>2
    <3> QED BY <3>1
  <2> QED BY <2>1, <2>2
<1>3. \A a, b \in Procs : InSlot(a, b)' = InSlot(a, b)
  BY <1>1 DEF InSlot
<1> QED BY <1>1, <1>2, <1>3, <1>t, LookupQuiet

\* The Swi that has the value tells so in the status of the slot.
LEMMA LookupStatus ==
    ASSUME QueryIInv, NEW p \in Procs, SwiRequestStatus(p)
    PROVE  UNCHANGED L!lookupVars
<1>t. TypeOK /\ StatusClear
  BY DEF QueryIInv, TurnInv, QueryInv
<1>1. PICK q \in Procs : q = swiFor[p]
  BY <1>t DEF TypeOK
<1>2. /\ swiPc[p] = "status" /\ swiPc' = [swiPc EXCEPT ![p] = "send"]
      /\ UNCHANGED <<table, attached, clients, event, posted, swiFor, swiFound>>
  BY DEF SwiRequestStatus, serverFrame
<1>3. msg[q][p].requestStatus = FALSE /\ swiFound[p] \in BOOLEAN
  BY <1>1, <1>2, <1>t DEF StatusClear, TypeOK
<1>4. /\ msg'[q][p].requestStatus = swiFound[p] /\ msg'[q][p].value = msg[q][p].value
      /\ \A a, b \in Procs : ~ (a = q /\ b = p) => msg'[a][b] = msg[a][b]
  <2> DEFINE m == [msg[q][p] EXCEPT !.requestStatus = @ \/ swiFound[p]]
  <2>1. msg' = [msg EXCEPT ![q][p] = m]
    BY <1>1 DEF SwiRequestStatus
  <2>2. msg \in [Procs -> [Procs -> Slots]] /\ msg[q][p] \in Slots
    BY <1>t DEF TypeOK, Slots
  <2>3. m.requestStatus = swiFound[p] /\ m.value = msg[q][p].value
    BY <1>3, <2>2 DEF Slots
  <2> HIDE DEF m
  <2> QED BY <2>1, <2>2, <2>3
<1>5. \A a \in Procs : swiPc'[a] = IF a = p THEN "send" ELSE swiPc[a]
  BY <1>2, <1>t DEF TypeOK
<1>6. ASSUME NEW a \in Procs, NEW b \in Procs PROVE InSlot(a, b)' = InSlot(a, b)
  <2>1. CASE a = q /\ b = p
    BY <1>1, <1>2, <1>3, <1>4, <1>5, <2>1 DEF InSlot
  <2>2. CASE a # q /\ b = p
    BY <1>1, <1>2, <1>4, <1>5, <2>2 DEF InSlot
  <2>3. CASE b # p
    BY <1>2, <1>4, <1>5, <2>3 DEF InSlot
  <2> QED BY <2>1, <2>2, <2>3
<1>7. \A a, b \in Procs : (event'[a][b] = "Request" \/ Posted(b, a, "Request")')
                             <=> (event[a][b] = "Request" \/ Posted(b, a, "Request"))
  BY <1>2 DEF Posted
<1> QED BY <1>2, <1>6, <1>7, <1>t, LookupQuiet

\* The response travels back.
LEMMA LookupSend ==
    ASSUME QueryIInv, NEW p \in Procs, SwiRequestSend(p)
    PROVE  UNCHANGED L!lookupVars
<1>t. TypeOK
  BY DEF QueryIInv, TurnInv
<1>1. PICK q \in Procs : q = swiFor[p]
  BY <1>t DEF TypeOK
<1>2. /\ swiPc[p] = "send" /\ swiPc' = [swiPc EXCEPT ![p] = "idle"]
      /\ event[p][q] = "none" /\ event' = [event EXCEPT ![p][q] = "Response"]
      /\ UNCHANGED <<table, attached, clients, msg, posted, swiFor>>
      /\ \A a \in Procs \ {p} : swiFound'[a] = swiFound[a]
  BY <1>1, <1>t DEF SwiRequestSend, serverFrame, TypeOK
<1>3. ASSUME NEW a \in Procs, NEW b \in Procs PROVE InSlot(a, b)' = InSlot(a, b)
  <2>1. \A x \in Procs : swiPc'[x] = IF x = p THEN "idle" ELSE swiPc[x]
    BY <1>2, <1>t DEF TypeOK
  <2>2. CASE b = p
    BY <1>2, <2>1, <2>2 DEF InSlot
  <2>3. CASE b # p
    BY <1>2, <2>1, <2>3 DEF InSlot
  <2> QED BY <2>2, <2>3
<1>4. \A a, b \in Procs : (event'[a][b] = "Request" \/ Posted(b, a, "Request")')
                             <=> (event[a][b] = "Request" \/ Posted(b, a, "Request"))
  <2>1. \A a, b \in Procs : event'[a][b] = IF a = p /\ b = q THEN "Response" ELSE event[a][b]
    BY <1>2, <1>t DEF TypeOK
  <2> QED BY <1>2, <2>1 DEF Posted
<1> QED BY <1>2, <1>3, <1>4, <1>t, LookupQuiet

LEMMA LookupResponse ==
    ASSUME QueryIInv, NEW p \in Procs, NEW q \in Procs, SwiResponse(p, q)
    PROVE  UNCHANGED L!lookupVars
<1>t. TypeOK /\ TypeOK' /\ PostedOnce
  BY TurnServer DEF QueryIInv, TurnInv, QueryInv, Swi
<1>1. /\ StartSwi(p, q, "Response")
      /\ UNCHANGED <<table, attached, clients, msg, event, swiPc, swiFor, swiFound>>
  BY DEF SwiResponse
<1>2. \A a, b \in Procs : Posted(a, b, "Request")' <=> Posted(a, b, "Request")
  BY <1>1, <1>t, StartSwiEffect DEF Kinds
<1>3. \A a, b \in Procs : InSlot(a, b)' = InSlot(a, b)
  BY <1>1 DEF InSlot
<1> QED BY <1>1, <1>2, <1>3, <1>t, LookupQuiet

\* The Swi that looks the name up answers the query of the client that waits: with what
\* the table holds now.
LEMMA LookupAnswer ==
    ASSUME QueryIInv, NEW p \in Procs, NEW q \in Procs, SwiRequestLookup(p, q)
    PROVE  L!LookupNext
<1>t. TypeOK /\ TypeOK' /\ Turns /\ OneAnswerPerQuery /\ PostedOnce /\ SlotsAsked
  BY TurnServer DEF QueryIInv, TurnInv, QueryInv, Swi
<1>1. /\ StartSwi(p, q, "Request") /\ swiPc[p] = "idle" /\ swiPc' = [swiPc EXCEPT ![p] = "status"]
      /\ swiFor' = [swiFor EXCEPT ![p] = q]
      /\ UNCHANGED <<table, attached, clients, event>>
  BY DEF SwiRequestLookup, StartSwi, serverFrame
<1>2. /\ Posted(p, q, "Request")
      /\ \A a, b \in Procs : Posted(a, b, "Request")' <=>
                                 Posted(a, b, "Request") /\ ~ (a = p /\ b = q)
  BY <1>1, <1>t, StartSwiEffect DEF Kinds
<1>3. UnderWay(q, p) = {"posted"} /\ event[q][p] # "Request"
  <2>1. "posted" \in UnderWay(q, p)
    BY <1>2, FormsOf
  <2>2. UnderWay(q, p) = {"posted"}
    BY <1>t, <2>1, UnderWayIsAsked DEF QueryIInv
  <2> QED BY <2>2, FormsOf
<1>4. PICK c \in Clients : home[c] = q /\ cproc[c] = p /\ cpc[c] = "wait"
  BY <1>3, <1>t DEF OneAnswerPerQuery, Waiting
<1>5. msg[q][p].name = cname[c] /\ cname[c] \in Names
  <2>1. Asks(c)
    BY <1>2, <1>4 DEF Asks
  <2> QED BY <1>4, <1>t, <2>1 DEF SlotsAsked, TypeOK
<1>6. PICK r : r = GetLocal(p, cname[c]) /\ r \in Values \cup {NotFound}
  BY <1>5, <1>t, GetLocalType DEF TypeOK
<1>7. swiFound' = [swiFound EXCEPT ![p] = (r # NotFound)]
  BY <1>5, <1>6 DEF SwiRequestLookup
<1>8. /\ msg'[q][p].value = IF r = NotFound THEN msg[q][p].value ELSE r
      /\ \A a, b \in Procs : ~ (a = q /\ b = p) => msg'[a][b] = msg[a][b]
  <2> DEFINE m == [msg[q][p] EXCEPT !.value = IF r = NotFound THEN @ ELSE r]
  <2>1. msg' = [msg EXCEPT ![q][p] = m]
    BY <1>5, <1>6 DEF SwiRequestLookup
  <2>2. msg \in [Procs -> [Procs -> Slots]] /\ msg[q][p] \in Slots
    BY <1>t DEF TypeOK, Slots
  <2>3. m.value = IF r = NotFound THEN msg[q][p].value ELSE r
    BY <2>2 DEF Slots
  <2> HIDE DEF m
  <2> QED BY <2>1, <2>2, <2>3
<1>9. \A x \in Procs : /\ swiPc'[x] = IF x = p THEN "status" ELSE swiPc[x]
                       /\ swiFor'[x] = IF x = p THEN q ELSE swiFor[x]
                       /\ swiFound'[x] = IF x = p THEN r # NotFound ELSE swiFound[x]
  BY <1>1, <1>7, <1>t DEF TypeOK
<1>10. InSlot(q, p)' = r
  BY <1>8, <1>9 DEF InSlot
<1>11. ASSUME NEW a \in Procs, NEW b \in Procs, ~ (a = q /\ b = p)
       PROVE  InSlot(a, b)' = InSlot(a, b)
  <2>1. CASE b = p
    BY <1>1, <1>8, <1>9, <1>11, <2>1 DEF InSlot
  <2>2. CASE b # p
    BY <1>8, <1>9, <2>2 DEF InSlot
  <2> QED BY <2>1, <2>2
<1>12. ASSUME NEW d \in Clients \ {c} PROVE Asked(d)' = Asked(d) /\ Told(d)' = Told(d)
  <2>1. PICK a, b \in Procs : a = home[d] /\ b = cproc[d]
    BY <1>t DEF TypeOK
  <2>2. cpc[d] \in {"wait", "read"} => ~ (a = q /\ b = p)
    BY <1>4, <1>t, <2>1, OneInside DEF Inside
  <2>3. cpc[d] = "wait" => ((event'[a][b] = "Request" \/ Posted(b, a, "Request")')
                               <=> (event[a][b] = "Request" \/ Posted(b, a, "Request")))
    BY <1>1, <1>2, <2>2
  <2>4. Unanswered(d)' <=> Unanswered(d)
    BY <1>1, <1>t, <2>1, <2>3, UnansweredKept DEF clients
  <2>5. cpc[d] \in {"wait", "read"} => InSlot(home[d], cproc[d])' = InSlot(home[d], cproc[d])
    BY <1>1, <1>11, <2>1, <2>2, InSlotKept DEF clients
  <2> QED BY <1>1, <1>t, <2>4, <2>5, ToldKept DEF clients
<1>13. Told(c) = None /\ Asked(c)' = Asked(c) /\ Asked(c) = [from |-> q, to |-> p, name |-> cname[c]]
  BY <1>1, <1>2, <1>4 DEF Told, Asked, Unanswered, clients
<1>14. Told(c)' = r
  <2>1. PICK a, b \in Procs : a = home[c] /\ b = cproc[c] /\ b = cproc'[c] /\ a = q /\ b = p
    BY <1>1, <1>4 DEF clients
  <2>2. event'[a][b] # "Request" /\ ~ Posted(b, a, "Request")'
    BY <1>1, <1>2, <1>3, <2>1
  <2>3. ~ Unanswered(c)'
    BY <1>1, <1>4, <2>1, <2>2 DEF Unanswered, Posted, clients
  <2>4. InSlot(a, b)' = r
    BY <1>10, <2>1
  <2>5. InSlot(home[c], cproc[c])' = r
    BY <2>1, <2>4 DEF InSlot
  <2> QED BY <1>1, <1>4, <2>3, <2>5 DEF Told, clients
<1>15. /\ QueryMap' = [QueryMap EXCEPT ![c] = Asked(c)]
       /\ AnswerMap' = [AnswerMap EXCEPT ![c] = r]
  BY <1>12, <1>13, <1>14, MapsMoved
<1>16. /\ QueryMap[c] = [from |-> q, to |-> p, name |-> cname[c]] /\ AnswerMap[c] = None
       /\ TableOf[p][cname[c]] = r /\ QueryMap' = QueryMap
  BY <1>5, <1>6, <1>13, <1>15 DEF QueryMap, AnswerMap, TableOf
<1>17. QueryMap[c] # None
  BY <1>5, <1>16
<1>18. L!Answer(c)
  <2>1. QueryMap[c].to = p /\ QueryMap[c].name = cname[c]
    BY <1>16
  <2>2. AnswerMap' = [AnswerMap EXCEPT ![c] = TableOf[QueryMap[c].to][QueryMap[c].name]]
    BY <1>15, <1>16, <2>1
  <2>3. UNCHANGED <<TableOf, Listening, QueryMap>>
    BY <1>1, <1>16, FrameKept DEF table
  <2>4. AnswerMap[c] = None
    BY <1>16
  <2> QED BY <1>17, <2>2, <2>3, <2>4, LookupClientSteps, Zenon
<1> QED BY <1>18 DEF L!LookupNext

-----------------------------------------------------------------------------
(* The steps of a client                                                    *)

\* The other clients see nothing of the steps of one, but for the slot it is inside for.
LEMMA OthersKept ==
    ASSUME TypeOK, Turns, NEW c \in Clients, NEW p \in Procs, NEW q \in Procs,
           p = home[c], q = cproc[c],
           \A d \in Clients \ {c} : /\ cpc'[d] = cpc[d] /\ cproc'[d] = cproc[d]
                                    /\ cname'[d] = cname[d] /\ cresult'[d] = cresult[d],
           UNCHANGED <<posted, swiPc, swiFor, swiFound>>,
           \A a, b \in Procs : ~ (a = p /\ b = q /\ Inside(c)) =>
               event'[a][b] = event[a][b] /\ msg'[a][b] = msg[a][b],
           NEW d \in Clients \ {c}
    PROVE  Asked(d)' = Asked(d) /\ Told(d)' = Told(d)
<1>1. PICK a, b \in Procs : a = home[d] /\ b = cproc[d]
  BY DEF TypeOK
<1>2. cpc[d] \in {"wait", "read"} => ~ (a = p /\ b = q /\ Inside(c))
  BY <1>1, OneInside DEF Inside
<1>3. cpc[d] \in {"wait", "read"} => event'[a][b] = event[a][b] /\ msg'[a][b] = msg[a][b]
  BY <1>2
<1>4. Unanswered(d)' <=> Unanswered(d)
  <2>1. cpc[d] = "wait" => ((event'[a][b] = "Request" \/ Posted(b, a, "Request")')
                               <=> (event[a][b] = "Request" \/ Posted(b, a, "Request")))
    BY <1>3 DEF Posted
  <2> QED BY <1>1, <2>1, UnansweredKept
<1>5. cpc[d] \in {"wait", "read"} => InSlot(home[d], cproc[d])' = InSlot(home[d], cproc[d])
  <2>1. cpc[d] \in {"wait", "read"} => InSlot(a, b)' = InSlot(a, b)
    BY <1>3 DEF InSlot
  <2> QED BY <1>1, <2>1, InSlotKept
<1> QED BY <1>4, <1>5, ToldKept

\* What is told is decided by the label of a client that is not waiting.
LEMMA ToldBefore ==
    ASSUME NEW c
    PROVE  /\ cpc[c] \in {"idle", "pend", "write", "send"} => Told(c) = None
           /\ cpc[c] = "post" => Told(c) = cresult[c]
           /\ cpc[c] = "read" => Told(c) = InSlot(home[c], cproc[c])
BY DEF Told, Unanswered

LEMMA ToldAfter ==
    ASSUME NEW c
    PROVE  /\ cpc'[c] \in {"idle", "pend", "write", "send"} => Told(c)' = None
           /\ cpc'[c] = "post" => Told(c)' = cresult'[c]
           /\ cpc'[c] = "read" => Told(c)' = InSlot(home[c], cproc[c])'
BY DEF Told, Unanswered

\* The loop of NameServer_get asks the next processor, or returns.
LEMMA LookupLoop ==
    ASSUME QueryIInv, NEW c \in Clients, NEW n \in Names, NEW sem,
           UNCHANGED <<table, attached, posted, swiPc, swiFor, swiFound, event, msg>>,
           Asked(c) = None \/ Told(c) = NotFound,
           (\E q \in Procs : Pend(c, n, q, sem))
    PROVE  L!LookupNext
<1>t. TypeOK /\ Turns
  BY DEF QueryIInv, TurnInv
<1>1. PICK q \in Procs : Pend(c, n, q, sem)
  OBVIOUS
<1>2. /\ cpc'[c] = "pend" /\ cname'[c] = n /\ cproc'[c] = q
      /\ \A d \in Clients \ {c} : /\ cpc'[d] = cpc[d] /\ cproc'[d] = cproc[d]
                                  /\ cname'[d] = cname[d] /\ cresult'[d] = cresult[d]
  BY <1>1, <1>t DEF Pend, Goto, TypeOK
<1>3. PICK p, p2 \in Procs : p = home[c] /\ p2 = cproc[c]
  BY <1>t DEF TypeOK
<1>4. \A d \in Clients \ {c} : Asked(d)' = Asked(d) /\ Told(d)' = Told(d)
  BY <1>2, <1>3, <1>t, OthersKept
<1>5. Asked(c)' = [from |-> p, to |-> q, name |-> n] /\ Told(c)' = None
  BY <1>2, <1>3, ToldAfter DEF Asked
<1>6. /\ QueryMap' = [QueryMap EXCEPT ![c] = [from |-> p, to |-> q, name |-> n]]
      /\ AnswerMap' = [AnswerMap EXCEPT ![c] = None]
  BY <1>4, <1>5, MapsMoved
<1>7. [from |-> p, to |-> q, name |-> n] \in L!Queries
  BY DEF L!Queries
<1>8. QueryMap[c] = None \/ AnswerMap[c] = NotFound
  BY DEF QueryMap, AnswerMap
<1>9. L!Ask(c)
  BY <1>6, <1>7, <1>8, FrameKept, LookupClientSteps DEF table
<1> QED BY <1>9 DEF L!LookupNext

LEMMA LookupGet ==
    ASSUME QueryIInv, NEW c \in Clients, NEW n \in Names, Get(c, n)
    PROVE  L!LookupNext \/ UNCHANGED L!lookupVars
<1>t. TypeOK /\ Turns
  BY DEF QueryIInv, TurnInv
<1>1. /\ UNCHANGED <<table, attached, posted, swiPc, swiFor, swiFound, event, msg>>
      /\ cpc[c] = "idle" /\ Asked(c) = None
  BY DEF Get, clientFrame, swis, Asked
<1>2. CASE \E q \in Procs : Pend(c, n, q, semMultiBlock)
  BY <1>1, <1>2, LookupLoop
<1>3. CASE Return(c)
  <2>1. /\ cpc'[c] = "idle"
        /\ \A d \in Clients \ {c} : /\ cpc'[d] = cpc[d] /\ cproc'[d] = cproc[d]
                                    /\ cname'[d] = cname[d] /\ cresult'[d] = cresult[d]
    BY <1>3, <1>t DEF Return, Goto, TypeOK
  <2>2. PICK p, p2 \in Procs : p = home[c] /\ p2 = cproc[c]
    BY <1>t DEF TypeOK
  <2>3. \A d \in Clients \ {c} : Asked(d)' = Asked(d) /\ Told(d)' = Told(d)
    BY <1>1, <1>t, <2>1, <2>2, OthersKept
  <2>4. Asked(c)' = Asked(c) /\ Told(c)' = Told(c)
    BY <1>1, <2>1, ToldBefore, ToldAfter DEF Asked
  <2>5. \A d \in Clients : Asked(d)' = Asked(d) /\ Told(d)' = Told(d)
    BY <2>3, <2>4
  <2> QED BY <1>1, <2>5, FrameKept, MapsKept, LookupSteps DEF table
<1>4. QueryFrom(c, n, 0, semMultiBlock)
  BY DEF Get
<1> QED BY <1>2, <1>3, <1>4, QueryFromEffect

LEMMA LookupPost ==
    ASSUME QueryIInv, NEW c \in Clients, Post(c)
    PROVE  L!LookupNext
<1>t. TypeOK /\ Turns
  BY DEF QueryIInv, TurnInv
<1>1. /\ UNCHANGED <<table, attached, posted, swiPc, swiFor, swiFound, event, msg>>
      /\ cpc[c] = "post" /\ Told(c) = cresult[c]
  BY ToldBefore DEF Post, clientFrame, swis
<1>2. PICK p, q \in Procs : p = home[c] /\ q = cproc[c]
  BY <1>t DEF TypeOK
<1>3. PICK sem : \/ cresult[c] = NotFound /\ QueryFrom(c, cname[c], cproc[c] + 1, sem)
                 \/ Return(c)
  BY DEF Post, Finish
<1>4. CASE cresult[c] = NotFound /\ \E x \in Procs : Pend(c, cname[c], x, sem)
  <2>1. cname[c] \in Names
    BY <1>t DEF TypeOK
  <2> QED BY <1>1, <1>4, <2>1, LookupLoop
<1>5. CASE Return(c)
  <2>1. /\ cpc'[c] = "idle"
        /\ \A d \in Clients \ {c} : /\ cpc'[d] = cpc[d] /\ cproc'[d] = cproc[d]
                                    /\ cname'[d] = cname[d] /\ cresult'[d] = cresult[d]
    BY <1>5, <1>t DEF Return, Goto, TypeOK
  <2>2. \A d \in Clients \ {c} : Asked(d)' = Asked(d) /\ Told(d)' = Told(d)
    BY <1>1, <1>2, <1>t, <2>1, OthersKept
  <2>3. Asked(c)' = None /\ Told(c)' = None
    BY <2>1, ToldAfter DEF Asked
  <2>4. /\ QueryMap' = [QueryMap EXCEPT ![c] = None]
        /\ AnswerMap' = [AnswerMap EXCEPT ![c] = None]
    BY <2>2, <2>3, MapsMoved
  <2>5. AnswerMap[c] # None
    BY <1>1, <1>t DEF AnswerMap, TypeOK
  <2>6. L!Return(c)
    BY <1>1, <2>4, <2>5, FrameKept, LookupClientSteps DEF table
  <2> QED BY <2>6 DEF L!LookupNext
<1>6. cproc[c] + 1 \in Nat
  BY <1>2 DEF Procs
<1> QED BY <1>3, <1>4, <1>5, <1>6, QueryFromEffect

LEMMA LookupRefused ==
    ASSUME QueryIInv, NEW c \in Clients, RefusedRequest(c)
    PROVE  L!LookupNext
<1>t. TypeOK /\ Turns
  BY DEF QueryIInv, TurnInv
<1>1. /\ UNCHANGED <<table, attached, posted, swiPc, swiFor, swiFound, event, msg>>
      /\ cpc[c] = "send" /\ cpc' = [cpc EXCEPT ![c] = "post"]
      /\ cresult' = [cresult EXCEPT ![c] = NotFound] /\ UNCHANGED <<cname, cproc>>
  BY DEF RefusedRequest, clientFrame, swis, Goto
<1>2. PICK p, q \in Procs : p = home[c] /\ q = cproc[c]
  BY <1>t DEF TypeOK
<1>3. /\ cpc'[c] = "post" /\ cresult'[c] = NotFound
      /\ \A d \in Clients \ {c} : /\ cpc'[d] = cpc[d] /\ cproc'[d] = cproc[d]
                                  /\ cname'[d] = cname[d] /\ cresult'[d] = cresult[d]
  BY <1>1, <1>t DEF TypeOK
<1>4. \A d \in Clients \ {c} : Asked(d)' = Asked(d) /\ Told(d)' = Told(d)
  BY <1>1, <1>2, <1>3, <1>t, OthersKept
<1>5. /\ Asked(c)' = Asked(c) /\ Asked(c) = [from |-> p, to |-> q, name |-> cname[c]]
      /\ Told(c) = None /\ Told(c)' = NotFound
  BY <1>1, <1>2, <1>3, ToldBefore, ToldAfter DEF Asked
<1>6. /\ QueryMap' = [QueryMap EXCEPT ![c] = Asked(c)]
      /\ AnswerMap' = [AnswerMap EXCEPT ![c] = NotFound]
  BY <1>4, <1>5, MapsMoved
<1>7. /\ QueryMap[c] = [from |-> p, to |-> q, name |-> cname[c]] /\ AnswerMap[c] = None
      /\ QueryMap' = QueryMap /\ cname[c] \in Names
  BY <1>5, <1>6, <1>t DEF QueryMap, AnswerMap, TypeOK
<1>8. QueryMap[c] # None
  BY <1>7
<1>9. <<q, p>> \notin Listening
  BY <1>2 DEF RefusedRequest, Listening
<1>10. L!Refuse(c)
  <2>1. <<QueryMap[c].to, QueryMap[c].from>> \notin Listening
    BY <1>7, <1>9
  <2>2. UNCHANGED <<TableOf, Listening, QueryMap>>
    BY <1>1, <1>7, FrameKept DEF table
  <2>3. AnswerMap[c] = None /\ AnswerMap' = [AnswerMap EXCEPT ![c] = NotFound]
    BY <1>6, <1>7
  <2> QED BY <1>8, <2>1, <2>2, <2>3, LookupClientSteps, Zenon
<1> QED BY <1>10 DEF L!LookupNext

\* The steps between the call and the request, and between the answer and the return.
LEMMA LookupInside ==
    ASSUME QueryIInv, NEW c \in Clients,
           Enter(c) \/ WriteRequest(c) \/ SendRequest(c) \/ Wait(c) \/ ReadAnswer(c)
    PROVE  UNCHANGED L!lookupVars
<1>t. TypeOK /\ Turns /\ OneAnswerPerQuery
  BY DEF QueryIInv, TurnInv, QueryInv
<1>1. UNCHANGED <<table, attached, posted, swiPc, swiFor, swiFound, cname, cproc>>
  BY DEF Enter, WriteRequest, SendRequest, Wait, ReadAnswer, clientFrame, swis
<1>2. PICK p, q \in Procs : p = home[c] /\ q = cproc[c] /\ q = cproc'[c]
  BY <1>1, <1>t DEF TypeOK
<1>3. \A d \in Clients \ {c} : cpc'[d] = cpc[d] /\ cresult'[d] = cresult[d]
  <2>1. PICK x, y : /\ cpc' = [cpc EXCEPT ![c] = x]
                    /\ cresult' = cresult \/ cresult' = [cresult EXCEPT ![c] = y]
    BY DEF Enter, WriteRequest, SendRequest, Wait, ReadAnswer, Goto
  <2>2. cpc \in [Clients -> Labels] /\ cresult \in [Clients -> Results]
    BY <1>t DEF TypeOK
  <2> QED BY <2>1, <2>2
<1>4. \A a, b \in Procs : ~ (a = p /\ b = q /\ Inside(c)) =>
          event'[a][b] = event[a][b] /\ msg'[a][b] = msg[a][b]
  <2>1. msg \in [Procs -> [Procs -> Slots]] /\ event \in [Procs -> [Procs -> {"none", "Request", "Response"}]]
    BY <1>t DEF TypeOK, Slots
  <2>2. CASE WriteRequest(c)
    <3>1. PICK m : msg' = [msg EXCEPT ![p][q] = m]
      BY <1>2, <2>2 DEF WriteRequest
    <3>2. Inside(c) /\ event' = event
      BY <2>2 DEF WriteRequest, Inside
    <3> QED BY <2>1, <3>1, <3>2
  <2>3. CASE SendRequest(c)
    <3>1. Inside(c) /\ event' = [event EXCEPT ![p][q] = "Request"] /\ msg' = msg
      BY <1>2, <2>3 DEF SendRequest, Inside
    <3> QED BY <2>1, <3>1
  <2>4. CASE Enter(c) \/ Wait(c) \/ ReadAnswer(c)
    BY <2>4 DEF Enter, Wait, ReadAnswer
  <2> QED BY <2>2, <2>3, <2>4
<1>5. ASSUME NEW d \in Clients \ {c} PROVE Asked(d)' = Asked(d) /\ Told(d)' = Told(d)
  <2>1. \A e \in Clients \ {c} : /\ cpc'[e] = cpc[e] /\ cproc'[e] = cproc[e]
                                 /\ cname'[e] = cname[e] /\ cresult'[e] = cresult[e]
    BY <1>1, <1>3
  <2>2. UNCHANGED <<posted, swiPc, swiFor, swiFound>>
    BY <1>1
  <2>3. p = home[c] /\ q = cproc[c]
    BY <1>2
  <2> QED BY <1>4, <1>t, <2>1, <2>2, <2>3, OthersKept, SMTT(60)
<1>6. Told(c)' = Told(c) /\ cpc[c] # "idle" /\ cpc'[c] # "idle"
  <2>c. cpc \in [Clients -> Labels] /\ cresult \in [Clients -> Results]
    BY <1>t DEF TypeOK
  <2>1. CASE Enter(c) \/ WriteRequest(c)
    BY <2>c, <2>1, ToldBefore, ToldAfter DEF Enter, WriteRequest, Goto
  <2>2. CASE SendRequest(c)
    <3>1. cpc[c] = "send" /\ cpc'[c] = "wait" /\ event' = [event EXCEPT ![p][q] = "Request"]
      BY <1>2, <2>c, <2>2 DEF SendRequest, Goto
    <3>2. event'[p][q] = "Request"
      BY <1>t, <3>1 DEF TypeOK
    <3>3. Unanswered(c)'
      BY <1>2, <3>1, <3>2 DEF Unanswered
    <3> QED BY <3>1, <3>3, ToldBefore DEF Told
  <2>3. CASE Wait(c)
    <3>1. /\ cpc[c] = "wait" /\ cpc'[c] = "read" /\ semRemoteWait[p][q] > 0
          /\ UNCHANGED msg
      BY <1>2, <2>c, <2>3 DEF Wait, Goto
    <3>2. "post" \in UnderWay(p, q)
      BY <3>1, FormsOf
    <3>3. UnderWay(p, q) = {"post"}
      BY <1>t, <3>2 DEF OneAnswerPerQuery
    <3>4. event[p][q] # "Request" /\ ~ Posted(q, p, "Request")
      BY <3>3, FormsOf
    <3>5. ~ Unanswered(c)
      BY <1>2, <3>1, <3>4 DEF Unanswered
    <3>6. Told(c) = InSlot(home[c], cproc[c])
      BY <3>1, <3>5 DEF Told
    <3>7. InSlot(p, q)' = InSlot(p, q)
      BY <1>1, <3>1 DEF InSlot
    <3>8. InSlot(home[c], cproc[c])' = InSlot(home[c], cproc[c])
      BY <1>2, <3>7, InSlotKept
    <3> QED BY <3>1, <3>6, <3>8, ToldAfter
  <2>4. CASE ReadAnswer(c)
    <3>1. /\ cpc[c] = "read" /\ cpc'[c] = "post"
          /\ cresult'[c] = IF msg[p][q].requestStatus THEN msg[p][q].value ELSE NotFound
      BY <1>2, <2>c, <2>4 DEF ReadAnswer, Goto
    <3>2. UnderWay(p, q) = {}
      BY <1>2, <1>t, <3>1, NothingUnderWay DEF Inside, QueryIInv
    <3>3. ~ (swiPc[q] # "idle" /\ swiFor[q] = p)
      BY <3>2, FormsOf
    <3>4. InSlot(p, q) = cresult'[c]
      BY <3>1, <3>3 DEF InSlot
    <3> QED BY <1>2, <3>1, <3>4, ToldBefore, ToldAfter
  <2> QED BY <2>1, <2>2, <2>3, <2>4
<1>7. Asked(c)' = Asked(c)
  BY <1>1, <1>6 DEF Asked
<1>8. \A d \in Clients : Asked(d)' = Asked(d) /\ Told(d)' = Told(d)
  BY <1>5, <1>6, <1>7
<1> QED BY <1>1, <1>8, FrameKept, MapsKept, LookupSteps DEF table

-----------------------------------------------------------------------------
(* The refinement                                                           *)

LEMMA LookupStart == Init => L!LookupInit
<1> SUFFICES ASSUME Init PROVE L!LookupInit
  OBVIOUS
<1>1. TableTypeOK
  BY TableInitIsSound DEF Init, TableInv
<1>2. TableOf \in L!Tables
  BY <1>1, TablesTyped
<1>3. \A c \in Clients : Asked(c) = None /\ Told(c) = None
  BY DEF Init, Asked, Told
<1>4. /\ QueryMap = [c \in Clients |-> None] /\ AnswerMap = [c \in Clients |-> None]
      /\ Listening \in SUBSET (Procs \X Procs)
  BY <1>3 DEF QueryMap, AnswerMap, Listening
<1> QED BY <1>2, <1>4, Zenon
        DEF L!LookupInit, TableOf, Listening, QueryMap, AnswerMap, Asked, Told

LEMMA LookupStep == QueryIInv /\ [Next]_vars => [L!LookupNext]_L!lookupVars
<1> SUFFICES ASSUME QueryIInv, [Next]_vars PROVE L!LookupNext \/ UNCHANGED L!lookupVars
  OBVIOUS
<1>1. CASE TableNext
  BY <1>1, LookupTable
<1>2. ASSUME NEW p \in Procs, NEW q \in Procs,
             AttachEvent(p, q) \/ AttachDriver(p, q) \/ CbFxn(p, q)
      PROVE  L!LookupNext \/ UNCHANGED L!lookupVars
  BY <1>2, LookupAttach, LookupCbFxn
<1>3. ASSUME NEW c \in Clients, (\E n \in Names : Get(c, n)) \/ Client(c)
      PROVE  L!LookupNext \/ UNCHANGED L!lookupVars
  BY <1>3, LookupGet, LookupPost, LookupRefused, LookupInside DEF Client
<1>4. ASSUME NEW p \in Procs, Swi(p)
      PROVE  L!LookupNext \/ UNCHANGED L!lookupVars
  BY <1>4, LookupAnswer, LookupResponse, LookupStatus, LookupSend DEF Swi
<1>5. CASE UNCHANGED vars
  <2>1. UNCHANGED <<nameList, attached>> /\ \A c \in Clients : Asked(c)' = Asked(c) /\ Told(c)' = Told(c)
    BY <1>5 DEF vars, table, swis, sems, clients, Asked, Told, Unanswered, Posted, InSlot
  <2> QED BY <2>1, FrameKept, MapsKept, LookupSteps
<1> QED BY <1>1, <1>2, <1>3, <1>4, <1>5 DEF Next

\* A remote query is an atomic look-up: whoever asks whom, the answer a client returns is
\* what the table of the asked processor held for the name at one moment of the call, or
\* "not found" because that processor was not attached.
THEOREM LookupIsAtomic == Spec => ImplementsLookup
<1>1. Init => L!LookupInit
  BY LookupStart
<1>2. QueryIInv /\ [Next]_vars => [L!LookupNext]_L!lookupVars
  BY LookupStep
<1> QED BY <1>1, <1>2, QueryInvariant, PTL DEF Spec, ImplementsLookup, L!LookupSpec
=============================================================================
