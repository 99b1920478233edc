---------------------------- MODULE IpcLad_proofs ----------------------------
(***************************************************************************)
(* Proofs about Ipc, for any number of processors, instances, sessions and *)
(* failures, when the processor with the lowest id owns region 0, and      *)
(* about LAD, the daemon of a Linux host, for any number of clients,       *)
(* slots, commands and deaths.  Both need the least handle or processor    *)
(* with some property (LeastFound).                                        *)
(*                                                                         *)
(* Ipc.  The keys of a pair say how far both sides are, in every session   *)
(* again: (start, detach), (start, start), (finish, start),                *)
(* (finish, finish), (finish, detach), (detach, detach), the slave's       *)
(* first.  The slave has its instances from the second to the fifth of     *)
(* these, the master in the third and the fourth.  And since region 0 is   *)
(* attached first and detached last, nobody uses anything while its owner  *)
(* is stopped.                                                             *)
(*                                                                         *)
(* LAD.  A command names its client by handle and an answer names nobody:  *)
(* they reach the right one because a client that is alive has at most one *)
(* command on its way, waits for it, and has the slot, the pipe and the    *)
(* queues that the command is about.                                       *)
(***************************************************************************)
EXTENDS Ipc, Lad, WellFoundedInduction, TLAPS

\* "usually the processor with id = 0" (Ipc.xdc:135): the owner is the slave of its pairs.
LowestOwns == Owner = 0

-----------------------------------------------------------------------------
(* The invariant                                                           *)

Attaching == {"attach", "starting", "sync", "open", "stage", "user", "spin"}
Detaching == {"unuser", "unstage", "close", "key"}
Outside   == {"stopped", "create", "down"}
With(p, q, labels) == remote[p] = q /\ pc[p] \in labels

\* The key of a processor that is not attached.
IdleKeys == {"none", "detach"}
Bare(p, q) == \A k \in Kinds : instance[p][q][k] = Null

\* Where a processor is, and whom it is attached to.
ControlInv(p) ==
    /\ pc[p] \in Attaching \cup Detaching \cup {"detach"} => remote[p] \in Peers(p)
    /\ pc[p] \in Attaching => attached[p][remote[p]] = 0
    /\ pc[p] \in Detaching => attached[p][remote[p]] = 1
    /\ pc[p] = "up" => \A q \in Peers(p) : attached[p][q] > 0
    /\ pc[p] \in Outside => \A q \in Peers(p) : attached[p][q] = 0
    /\ pc[p] \in Outside \cup Detaching \cup {"detach"} =>
          \A q \in Peers(p) : attached[p][q] > 0 \/ Key(p, q) \in IdleKeys
    /\ pc[p] = "create" => p = 0 /\ sessions[p] < Sessions
    /\ pc[p] = "starting" => remote[p] < p
    /\ pc[p] = "spin" => p < remote[p]
    /\ attached[p][p] = 0 /\ Bare(p, p)

\* The owner of region 0 is the first to be attached and the last to be detached.
OwnerFirst(p) ==
    /\ pc[p] \in Attaching \ {"attach"} /\ remote[p] # 0 => attached[p][0] > 0
    /\ With(p, 0, Detaching) => \A q \in Peers(p) \ {0} : attached[p][q] = 0
    /\ \A q \in Peers(p) \ {0} : Key(p, q) \notin IdleKeys => attached[p][0] > 0

\* How far the instances of the pair are set up or taken down.
StageInv(p) ==
    /\ pc[p] \in {"stage", "unstage"} => stage[p] \in 1 .. Len(Stages)
    /\ pc[p] = "stage" =>
          \A i \in 1 .. Len(Stages) : i < stage[p] => instance[p][remote[p]][Stages[i]] # Null
    /\ pc[p] = "user" => Ready(p, remote[p])
    /\ pc[p] = "unstage" =>
          \A i \in 1 .. Len(Stages) : i > stage[p] => instance[p][remote[p]][Stages[i]] = Null
    /\ pc[p] \in {"close", "key"} => Bare(p, remote[p])

\* The keys of a pair of slave p and master q.
KeysInv(p, q) ==
    /\ Key(p, q) = "finish" <=> (attached[p][q] > 0 \/ With(p, q, {"spin"}))
    /\ Key(q, p) = "finish" <=> attached[q][p] > 0
    /\ With(p, q, {"sync", "open", "stage", "user"}) => Key(p, q) = "start"
    /\ With(p, q, {"open", "stage", "user"}) => Key(q, p) = "start"
    /\ With(q, p, {"starting"}) => "start" \in {Key(p, q), Key(q, p)}
    /\ With(q, p, {"sync", "open", "stage", "user"}) => Key(q, p) = "start"
    /\ With(q, p, {"open", "stage", "user"}) => Key(p, q) = "finish"
    /\ Key(q, p) = "start" =>
          Key(p, q) = "start" \/ (Key(p, q) = "finish" /\ attached[p][q] = 0)
    /\ Key(q, p) = "finish" => Key(p, q) = "finish"
    /\ Key(p, q) = "finish" => Key(q, p) # "none"
    /\ With(p, q, Detaching) => Key(q, p) = "detach"

\* Its instances.
InstancesInv(p, q) ==
    /\ Key(p, q) \in IdleKeys \/ (Key(p, q) = "start" /\ Key(q, p) # "start") => Bare(p, q)
    /\ Key(p, q) = "finish" /\ Key(q, p) # "detach" => Ready(p, q)
    /\ Bare(q, p) \/ (Key(p, q) = "finish" /\ Key(q, p) \in {"start", "finish"})
    /\ \A k \in Kinds : instance[q][p][k] \in {Null, instance[p][q][k]}
    /\ attached[q][p] > 0 => Ready(q, p) \/ Leaving(q, p)

\* The memory of the slave's instances.
MemoryInv ==
    /\ \A p, q \in Procs, k \in Kinds : p < q /\ instance[p][q][k] # Null =>
          instance[p][q][k] = srPtr[p][Slot(p, q)][k] /\ instance[p][q][k] \notin free
    /\ \A p, q, r, s \in Procs, k, l \in Kinds :
          p < q /\ r < s /\ instance[p][q][k] # Null /\ instance[p][q][k] = instance[r][s][l]
             => p = r /\ q = s /\ k = l

\* The heap and the default gate of region 0.
HeapInv ==
    /\ heapCreated <=> pc[0] \notin {"stopped", "create"}
    /\ heapOpen[0] => heapCreated
    /\ \A p \in Peers(0) : /\ heapOpen[p] => Key(0, p) = "finish" /\ Key(p, 0) \notin IdleKeys
                           /\ With(p, 0, {"key"}) => ~ heapOpen[p]

ProcsInv == \A p \in Procs : ControlInv(p) /\ StageInv(p) /\ (p # 0 => OwnerFirst(p))
PairsInv == \A p, q \in Procs : p < q => KeysInv(p, q) /\ InstancesInv(p, q)
IpcInv == TypeOK /\ ProcsInv /\ PairsInv /\ MemoryInv /\ HeapInv

-----------------------------------------------------------------------------
(* Going round the processors                                              *)

LEMMA LeastFound ==
    ASSUME NEW f, NEW S, S # {}, \A x \in S : f[x] \in Nat
    PROVE  \E r \in S : \A t \in S : f[r] <= f[t]
<1>1. PICK T : T = {f[x] : x \in S}
  OBVIOUS
<1>2. T \subseteq Nat /\ T # {}
  BY <1>1
<1>3. PICK n \in T : \A m \in T : ~ (<<m, n>> \in OpToRel(<, Nat))
  BY <1>2, NatLessThanWellFounded, WFMin, Zenon
<1>4. ASSUME NEW m \in T PROVE n <= m
  <2>1. m \in Nat /\ n \in Nat
    BY <1>2
  <2>2. OpToRel(<, Nat) = {ss \in Nat \X Nat : ss[1] < ss[2]}
    BY Zenon DEF OpToRel
  <2>3. m < n => <<m, n>> \in {ss \in Nat \X Nat : ss[1] < ss[2]}
    BY <2>1
  <2>4. ~ (m < n)
    BY <1>3, <2>2, <2>3, Zenon
  <2> QED BY <2>1, <2>4
<1> QED BY <1>1, <1>4

LEMMA NextInMember ==
    ASSUME NEW S \in SUBSET Procs, S # {}, NEW q \in Procs
    PROVE  NextIn(S, q) \in S
<1>1. PICK f : f = [r \in S |-> (r - q - 1) % NumProcs]
  OBVIOUS
<1>2. \A r \in S : f[r] \in Nat
  BY <1>1, IpcAssumption DEF Procs
<1>3. \E r \in S : \A t \in S : f[r] <= f[t]
  BY <1>2, LeastFound
<1> QED BY <1>1, <1>3 DEF NextIn

LEMMA LowestMember == ASSUME NEW S \in SUBSET Nat, S # {} PROVE Lowest(S) \in S
<1>1. PICK f : f = [b \in S |-> b]
  OBVIOUS
<1>2. \A b \in S : f[b] \in Nat
  BY <1>1
<1>3. \E b \in S : \A c \in S : f[b] <= f[c]
  BY <1>2, LeastFound
<1> QED BY <1>1, <1>3 DEF Lowest

\* Processor p goes to label l with processor r.
Moved(p, l, r) == pc' = [pc EXCEPT ![p] = l] /\ remote' = [remote EXCEPT ![p] = r]

LEMMA AttachToMoves ==
    ASSUME TypeOK, NEW p \in Procs, NEW S \in SUBSET Peers(p), AttachTo(p, S)
    PROVE  \/ S = {} /\ Moved(p, "up", remote[p])
           \/ \E r \in S : Moved(p, "attach", r)
<1>1. remote \in [Procs -> Procs \cup {Null}] /\ S \in SUBSET Procs
  BY DEF TypeOK, Peers
<1>2. CASE S = {}
  <2>1. remote' = remote /\ pc' = [pc EXCEPT ![p] = "up"]
    BY <1>2 DEF AttachTo, Goto
  <2>2. [remote EXCEPT ![p] = remote[p]] = remote
    BY <1>1
  <2> QED BY <1>2, <2>1, <2>2 DEF Moved
<1>3. CASE S # {}
  <2>1. NumProcs - 1 \in Procs
    BY IpcAssumption DEF Procs
  <2>2. FirstIn(S) \in S
    BY <1>1, <1>3, <2>1, NextInMember DEF FirstIn
  <2>3. PICK q : q = IF remote[p] = Null THEN p ELSE remote[p]
    OBVIOUS
  <2>4. q \in Procs
    BY <1>1, <2>3
  <2>5. NextIn(S, q) \in S
    BY <1>1, <1>3, <2>4, NextInMember
  <2>6. PICK r : r = IF procSync = "ALL" THEN FirstIn(S) ELSE NextIn(S, q)
    OBVIOUS
  <2>7. pc' = [pc EXCEPT ![p] = "attach"] /\ remote' = [remote EXCEPT ![p] = r]
    BY <1>3, <2>3, <2>6 DEF AttachTo, Goto
  <2> QED BY <2>2, <2>5, <2>6, <2>7 DEF Moved
<1> QED BY <1>2, <1>3

LEMMA DetachFromMoves ==
    ASSUME NEW p \in Procs, NEW S \in SUBSET Peers(p), NEW q \in Procs, DetachFrom(p, S, q)
    PROVE  \/ S = {} /\ Moved(p, "down", Null)
           \/ \E r \in S : Moved(p, "detach", r)
<1>1. CASE S = {}
  BY <1>1 DEF DetachFrom, Goto, Moved
<1>2. CASE S # {}
  <2>1. NextIn(S, q) \in S
    BY <1>2, NextInMember DEF Peers
  <2> QED BY <1>2, <2>1 DEF DetachFrom, Goto, Moved
<1> QED BY <1>1, <1>2

-----------------------------------------------------------------------------
(* Keys                                                                    *)

LEMMA SlotSound ==
    ASSUME NEW p \in Procs, NEW q \in Peers(p)
    PROVE  /\ Slot(p, q) \in 0 .. NumProcs - 2
           /\ \A r \in Peers(p) : Slot(p, r) = Slot(p, q) => r = q
BY IpcAssumption DEF Slot, Peers, Procs

LEMMA SetKeySound ==
    ASSUME TypeOK, NEW p \in Procs, NEW q \in Peers(p), NEW k, SetKey(p, q, k)
    PROVE  /\ Key(p, q)' = k
           /\ \A y \in Peers(p) \ {q} : Key(p, y)' = Key(p, y)
           /\ \A x \in Procs \ {p}, y \in Procs : Key(x, y)' = Key(x, y)
<1>1. startedKey \in [Procs -> [0 .. NumProcs - 2 -> Keys]]
  BY DEF TypeOK
<1>2. startedKey' = [startedKey EXCEPT ![p][Slot(p, q)] = k]
  BY DEF SetKey
<1>3. \A x, y : Key(x, y)' = startedKey'[x][Slot(x, y)]
  BY DEF Key, Slot
<1>4. \A y \in Peers(p) \ {q} : Slot(p, y) # Slot(p, q)
  BY SlotSound
<1>5. Slot(p, q) \in 0 .. NumProcs - 2
  BY SlotSound
<1>6. \A i : i # Slot(p, q) => startedKey'[p][i] = startedKey[p][i]
  BY <1>1, <1>2
<1>7. startedKey'[p][Slot(p, q)] = k
  BY <1>1, <1>2, <1>5
<1>8. \A x \in Procs \ {p} : startedKey'[x] = startedKey[x]
  BY <1>1, <1>2
<1> QED BY <1>3, <1>4, <1>6, <1>7, <1>8 DEF Key

LEMMA KeysTyped == ASSUME TypeOK, NEW p \in Procs, NEW q \in Peers(p) PROVE Key(p, q) \in Keys
<1>1. startedKey[p] \in [0 .. NumProcs - 2 -> Keys] /\ Slot(p, q) \in 0 .. NumProcs - 2
  BY SlotSound DEF TypeOK
<1> QED BY <1>1 DEF Key

LEMMA KeysCleared ==
    ASSUME startedKey' = Cleared("none"), NEW p \in Procs, NEW q \in Peers(p)
    PROVE  Key(p, q)' = "none"
BY SlotSound DEF Cleared, Key, Slot

\* A master finds the memory at the word of the slave.
LEMMA SharedAtSlave ==
    ASSUME NEW p \in Procs, NEW q \in Procs, q < p, NEW k
    PROVE  SharedAt(p, q, k) = srPtr[q][Slot(q, p)][k]
<1>1. p \in Int /\ q \in Int
  BY IpcAssumption DEF Procs
<1>2. Slave(p, q) = q
  BY <1>1 DEF Slave
<1>3. p + q - q = p
  BY <1>1
<1> QED BY <1>2, <1>3 DEF SharedAt


LEMMA SharedAtTyped ==
    ASSUME TypeOK, NEW p \in Procs, NEW q \in Peers(p), q < p, NEW k \in Kinds
    PROVE  SharedAt(p, q, k) \in Blocks \cup {Null}
<1>1. p \in Peers(q) /\ q \in Procs
  BY DEF Peers
<1>2. Slot(q, p) \in 0 .. NumProcs - 2
  BY <1>1, SlotSound
<1>3. PICK t : t = srPtr[q][Slot(q, p)]
  OBVIOUS
<1>4. t \in [Kinds -> Blocks \cup {Null}]
  <2>1. srPtr[q] \in [0 .. NumProcs - 2 -> [Kinds -> Blocks \cup {Null}]]
    BY <1>1 DEF TypeOK
  <2> QED BY <1>2, <1>3, <2>1
<1> QED BY <1>1, <1>3, <1>4, SharedAtSlave

-----------------------------------------------------------------------------
(* What a step leaves alone                                                *)

\* Processor x does nothing.
RowKept(x) ==
    /\ pc'[x] = pc[x] /\ remote'[x] = remote[x] /\ stage'[x] = stage[x]
    /\ attached'[x] = attached[x] /\ instance'[x] = instance[x] /\ heapOpen'[x] = heapOpen[x]
    /\ sessions'[x] = sessions[x]
    /\ \A y \in Procs : Key(x, y)' = Key(x, y)

\* Processor p does nothing about its pair with q.
Linked(p, q) == With(p, q, {"starting", "sync", "open", "stage", "user", "spin"} \cup Detaching)
Leavers == {"detach"} \cup Detaching
SideKept(p, q) ==
    /\ Key(p, q)' = Key(p, q) /\ (attached'[p][q] > 0 <=> attached[p][q] > 0)
    /\ instance'[p][q] = instance[p][q]
    /\ \/ pc'[p] = pc[p] /\ remote'[p] = remote[p]
       \/ /\ ~ Linked(p, q) /\ ~ Linked(p, q)'
          /\ pc[p] \in Leavers => pc'[p] \in Leavers \/ attached[p][q] = 0

\* Only processor p does something, and nothing but about its pair with q.
StepOf(p, q) ==
    /\ \A x \in Procs \ {p} : RowKept(x)
    /\ \A y \in Peers(p) \ {q} : SideKept(p, y)
    /\ failures' \in Nat /\ failures' >= failures

\* The same pair, seen from either side.
PairInv(p, q) == /\ p < q => KeysInv(p, q) /\ InstancesInv(p, q)
                 /\ q < p => KeysInv(q, p) /\ InstancesInv(q, p)
ProcInv(p) == ControlInv(p) /\ StageInv(p) /\ (p # 0 => OwnerFirst(p))

LEMMA AttachedTyped ==
    ASSUME TypeOK, NEW p \in Procs, NEW q \in Procs
    PROVE  attached[p][q] \in Nat
BY IpcAssumption DEF TypeOK

LEMMA RowKeptSide == ASSUME NEW x \in Procs, NEW y \in Procs, RowKept(x) PROVE SideKept(x, y)
BY DEF RowKept, SideKept

LEMMA PairKept ==
    ASSUME TypeOK, NEW p \in Procs, NEW q \in Procs, p < q, KeysInv(p, q), InstancesInv(p, q),
           TypeOK', SideKept(p, q), SideKept(q, p), failures' >= failures
    PROVE  KeysInv(p, q)' /\ InstancesInv(p, q)'
<1>1. /\ Key(p, q)' = Key(p, q) /\ Key(q, p)' = Key(q, p)
      /\ instance'[p][q] = instance[p][q] /\ instance'[q][p] = instance[q][p]
      /\ attached'[p][q] > 0 <=> attached[p][q] > 0
      /\ attached'[q][p] > 0 <=> attached[q][p] > 0
      /\ attached'[p][q] = 0 <=> attached[p][q] = 0
  <2>1. attached'[p][q] \in Nat
    BY IpcAssumption DEF TypeOK
  <2> QED BY <2>1, AttachedTyped DEF SideKept
<1>2. \A l \in SUBSET {"starting", "sync", "open", "stage", "user", "spin"} :
          (With(p, q, l)' <=> With(p, q, l)) /\ (With(q, p, l)' <=> With(q, p, l))
  BY DEF SideKept, Linked, With
<1>3. With(p, q, Detaching)' <=> With(p, q, Detaching)
  BY DEF SideKept, Linked, With
<1>4. KeysInv(p, q)'
  BY <1>1, <1>2, <1>3 DEF KeysInv
<1>5. attached[q][p] > 0 /\ Leaving(q, p) => Leaving(q, p)'
  <2>1. failures > 0 => failures' > 0
    BY IpcAssumption DEF TypeOK
  <2>2. CASE pc'[q] = pc[q] /\ remote'[q] = remote[q]
    BY <2>1, <2>2 DEF Leaving
  <2>3. CASE ~ Linked(q, p) /\ (pc[q] \in Leavers => pc'[q] \in Leavers \/ attached[q][p] = 0)
    BY <2>1, <2>3 DEF Linked, Leaving, Leavers, With, Detaching
  <2> QED BY <2>2, <2>3 DEF SideKept
<1>6. InstancesInv(p, q)'
  BY <1>1, <1>5 DEF InstancesInv, Bare, Ready
<1> QED BY <1>4, <1>6

LEMMA ProcKept ==
    ASSUME NEW x \in Procs, ProcInv(x), RowKept(x)
    PROVE  ProcInv(x)'
<1>1. 0 \in Procs
  BY IpcAssumption DEF Procs
<1>2. \A y : Ready(x, y)' <=> Ready(x, y)
  BY DEF RowKept, Ready
<1>3. \A y : Bare(x, y)' <=> Bare(x, y)
  BY DEF RowKept, Bare
<1>4. ControlInv(x)'
  BY <1>3 DEF RowKept, ProcInv, ControlInv, Peers
<1>5. StageInv(x)'
  BY <1>2, <1>3 DEF RowKept, ProcInv, StageInv
<1>6. x # 0 => OwnerFirst(x)'
  BY <1>1 DEF RowKept, ProcInv, OwnerFirst, Peers, With
<1> QED BY <1>4, <1>5, <1>6 DEF ProcInv

LEMMA OnlyOnePair ==
    ASSUME TypeOK, TypeOK', ProcsInv, PairsInv, NEW p \in Procs, NEW q \in Peers(p),
           StepOf(p, q), ProcInv(p)', PairInv(p, q)'
    PROVE  ProcsInv' /\ PairsInv'
<1>1. ProcsInv'
  <2>1. ASSUME NEW x \in Procs PROVE ProcInv(x)'
    <3>1. CASE x = p
      BY <3>1
    <3>2. CASE x # p
      BY <3>2, ProcKept DEF ProcsInv, ProcInv, StepOf
    <3> QED BY <3>1, <3>2
  <2> QED BY <2>1 DEF ProcsInv, ProcInv
<1>2. ASSUME NEW a \in Procs, NEW b \in Procs, a < b
      PROVE  KeysInv(a, b)' /\ InstancesInv(a, b)'
  <2>1. CASE (a = p /\ b = q) \/ (a = q /\ b = p)
    BY <1>2, <2>1 DEF PairInv
  <2>2. CASE ~ ((a = p /\ b = q) \/ (a = q /\ b = p))
    <3>0. a # b
      BY <1>2, IpcAssumption DEF Procs
    <3>1. SideKept(a, b)
      BY <2>2, <3>0, RowKeptSide DEF StepOf, Peers
    <3>2. SideKept(b, a)
      BY <2>2, <3>0, RowKeptSide DEF StepOf, Peers
    <3> QED BY <1>2, <3>1, <3>2, PairKept DEF PairsInv, StepOf
  <2> QED BY <2>1, <2>2
<1> QED BY <1>1, <1>2 DEF PairsInv

-----------------------------------------------------------------------------
(* Types                                                                   *)

LEMMA Update2 ==
    ASSUME NEW A, NEW B, NEW V, NEW f \in [A -> [B -> V]], NEW a \in A, NEW b \in B, NEW v \in V,
           NEW g, g = [f EXCEPT ![a][b] = v]
    PROVE  /\ g \in [A -> [B -> V]] /\ g[a][b] = v
           /\ \A x \in A \ {a} : g[x] = f[x]
           /\ \A y \in B \ {b} : g[a][y] = f[a][y]
<1>1. PICK h : h = [f[a] EXCEPT ![b] = v]
  OBVIOUS
<1>2. h \in [B -> V] /\ h[b] = v /\ \A y \in B \ {b} : h[y] = f[a][y]
  BY <1>1
<1>3. g = [f EXCEPT ![a] = h]
  BY <1>1
<1> QED BY <1>2, <1>3

LEMMA Update3 ==
    ASSUME NEW A, NEW B, NEW C, NEW V, NEW f \in [A -> [B -> [C -> V]]],
           NEW a \in A, NEW b \in B, NEW c \in C, NEW v \in V,
           NEW g, g = [f EXCEPT ![a][b][c] = v]
    PROVE  /\ g \in [A -> [B -> [C -> V]]] /\ g[a][b][c] = v
           /\ \A x \in A \ {a} : g[x] = f[x]
           /\ \A y \in B \ {b} : g[a][y] = f[a][y]
           /\ \A z \in C \ {c} : g[a][b][z] = f[a][b][z]
<1>1. PICK h : h = [f[a][b] EXCEPT ![c] = v]
  OBVIOUS
<1>2. h \in [C -> V] /\ h[c] = v /\ \A z \in C \ {c} : h[z] = f[a][b][z]
  BY <1>1
<1>3. g = [f EXCEPT ![a][b] = h]
  BY <1>1
<1>4. PICK W : W = [C -> V]
  OBVIOUS
<1>5. f \in [A -> [B -> W]] /\ h \in W
  BY <1>2, <1>4
<1>6. /\ g \in [A -> [B -> W]] /\ g[a][b] = h
      /\ \A x \in A \ {a} : g[x] = f[x]
      /\ \A y \in B \ {b} : g[a][y] = f[a][y]
  BY ONLY <1>3, <1>5, a \in A, b \in B, Update2
<1> QED BY <1>2, <1>4, <1>6

\* After an error the call is made again, for the same processor or the next, or never.
Retreats(p) ==
    \E l \in {"attach", "gaveUp"}, r \in Peers(p) : attached[p][r] = 0 /\ Moved(p, l, r)

LEMMA NotReadyRetreats ==
    ASSUME TypeOK, NEW p \in Procs, ControlInv(p), pc[p] \in Attaching, AttachNotReady(p)
    PROVE  Retreats(p)
<1>1. remote[p] \in Peers(p) /\ attached[p][remote[p]] = 0
  BY DEF ControlInv
<1>2. CASE procSync = "ALL"
  <2>1. [remote EXCEPT ![p] = remote[p]] = remote
    BY DEF TypeOK
  <2> QED BY <1>1, <1>2, <2>1 DEF AttachNotReady, Goto, Retreats, Moved
<1>3. CASE procSync # "ALL"
  <2>1. PICK S : S = {q \in Peers(p) : attached[p][q] = 0}
    OBVIOUS
  <2>2. S \in SUBSET Peers(p) /\ S # {} /\ AttachTo(p, S)
    BY <1>1, <1>3, <2>1 DEF AttachNotReady
  <2>3. \E r \in S : Moved(p, "attach", r)
    BY <2>2, AttachToMoves
  <2> QED BY <2>1, <2>3 DEF Retreats
<1> QED BY <1>2, <1>3

LEMMA FailureRetreats ==
    ASSUME TypeOK, NEW p \in Procs, ControlInv(p), pc[p] \in Attaching, AttachFails(p)
    PROVE  Retreats(p)
<1>1. remote[p] \in Peers(p) /\ attached[p][remote[p]] = 0
  BY DEF ControlInv
<1>2. CASE procSync = "ALL"
  <2>1. [remote EXCEPT ![p] = remote[p]] = remote
    BY DEF TypeOK
  <2> QED BY <1>1, <1>2, <2>1 DEF AttachFails, Goto, Retreats, Moved
<1>3. CASE procSync # "ALL"
  BY <1>3, NotReadyRetreats DEF AttachFails
<1> QED BY <1>2, <1>3

\* A call for one processor has succeeded, those for the others are next.
Attaches(p) == \/ /\ \A r \in Peers(p) : r # remote[p] => attached[p][r] # 0
                  /\ Moved(p, "up", remote[p])
               \/ \E r \in Peers(p) : r # remote[p] /\ attached[p][r] = 0 /\ Moved(p, "attach", r)

LEMMA AttachedMoves ==
    ASSUME TypeOK, NEW p \in Procs, Attached(p, remote[p])
    PROVE  Attaches(p)
<1>1. PICK S : S = {r \in Peers(p) \ {remote[p]} : attached[p][r] = 0}
  OBVIOUS
<1>2. S \in SUBSET Peers(p) /\ AttachTo(p, S)
  BY <1>1 DEF Attached
<1>3. (S = {} /\ Moved(p, "up", remote[p])) \/ \E r \in S : Moved(p, "attach", r)
  BY <1>2, AttachToMoves
<1> QED BY <1>1, <1>3 DEF Attaches

\* A processor that leaves goes on with one of those of S, or with nobody.
Detaches(p, S) == (S = {} /\ Moved(p, "down", Null)) \/ \E r \in S : Moved(p, "detach", r)

LEMMA MovedTyped ==
    ASSUME TypeOK, NEW p \in Procs, NEW l \in {"up", "down", "attach", "detach", "gaveUp"},
           NEW r \in Procs \cup {Null}, Moved(p, l, r)
    PROVE  /\ pc' \in [Procs -> {"stopped", "create", "up", "down", "gaveUp", "attach", "starting",
                         "sync", "open", "stage", "user", "spin", "detach", "unuser",
                         "unstage", "close", "key"}]
           /\ remote' \in [Procs -> Procs \cup {Null}]
BY DEF TypeOK, Moved

Labels == {"stopped", "create", "up", "down", "gaveUp", "attach", "starting", "sync", "open",
           "stage", "user", "spin", "detach", "unuser", "unstage", "close", "key"}

\* One of the instances of p, or one of the pointers that p keeps, changes.
LEMMA InstanceUpdate ==
    ASSUME TypeOK, NEW p \in Procs, NEW q \in Procs, NEW k \in Kinds, NEW c \in Blocks \cup {Null},
           NEW g, g = [instance EXCEPT ![p][q][k] = c]
    PROVE  /\ g \in [Procs -> [Procs -> [Kinds -> Blocks \cup {Null}]]] /\ g[p][q][k] = c
           /\ \A x \in Procs \ {p} : g[x] = instance[x]
           /\ \A y \in Procs \ {q} : g[p][y] = instance[p][y]
           /\ \A z \in Kinds \ {k} : g[p][q][z] = instance[p][q][z]
<1>1. PICK V, f : V = Blocks \cup {Null} /\ f = instance
  OBVIOUS
<1>2. f \in [Procs -> [Procs -> [Kinds -> V]]] /\ c \in V
  BY <1>1 DEF TypeOK
<1>3. g = [f EXCEPT ![p][q][k] = c]
  BY <1>1
<1>4. /\ g \in [Procs -> [Procs -> [Kinds -> V]]] /\ g[p][q][k] = c
      /\ \A x \in Procs \ {p} : g[x] = f[x]
      /\ \A y \in Procs \ {q} : g[p][y] = f[p][y]
      /\ \A z \in Kinds \ {k} : g[p][q][z] = f[p][q][z]
  BY ONLY <1>2, <1>3, p \in Procs, q \in Procs, k \in Kinds, Update3
<1> QED BY <1>1, <1>4

LEMMA PointerUpdate ==
    ASSUME TypeOK, NEW p \in Procs, NEW q \in Peers(p), NEW k \in Kinds,
           NEW c \in Blocks \cup {Null}, NEW g, g = [srPtr EXCEPT ![p][Slot(p, q)][k] = c]
    PROVE  /\ g \in [Procs -> [0 .. NumProcs - 2 -> [Kinds -> Blocks \cup {Null}]]]
           /\ g[p][Slot(p, q)][k] = c
           /\ \A x \in Procs \ {p} : g[x] = srPtr[x]
           /\ \A y \in Peers(p) \ {q} : g[p][Slot(p, y)] = srPtr[p][Slot(p, y)]
           /\ \A z \in Kinds \ {k} : g[p][Slot(p, q)][z] = srPtr[p][Slot(p, q)][z]
<1>1. PICK V, B, f, s : /\ V = Blocks \cup {Null} /\ B = 0 .. NumProcs - 2
                        /\ f = srPtr /\ s = Slot(p, q)
  OBVIOUS
<1>2. f \in [Procs -> [B -> [Kinds -> V]]] /\ c \in V
  BY <1>1 DEF TypeOK
<1>3. s \in B /\ \A y \in Peers(p) \ {q} : Slot(p, y) \in B \ {s}
  BY <1>1, SlotSound
<1>4. g = [f EXCEPT ![p][s][k] = c]
  BY <1>1
<1>5. /\ g \in [Procs -> [B -> [Kinds -> V]]] /\ g[p][s][k] = c
      /\ \A x \in Procs \ {p} : g[x] = f[x]
      /\ \A y \in B \ {s} : g[p][y] = f[p][y]
      /\ \A z \in Kinds \ {k} : g[p][s][z] = f[p][s][z]
  BY ONLY <1>2, <1>3, <1>4, p \in Procs, k \in Kinds, Update3
<1> QED BY <1>1, <1>3, <1>5

LEMMA TypeStep ==
    ASSUME TypeOK, ProcsInv, MemoryInv, NEW p \in Procs, Step(p)
    PROVE  TypeOK'
<1> USE DEF bounds, shared
<1>0. /\ ControlInv(p) /\ StageInv(p)
      /\ startedKey \in [Procs -> [0 .. NumProcs - 2 -> Keys]]
      /\ srPtr \in [Procs -> [0 .. NumProcs - 2 -> [Kinds -> Blocks \cup {Null}]]]
      /\ pc \in [Procs -> Labels] /\ remote \in [Procs -> Procs \cup {Null}]
      /\ stage \in [Procs -> 0 .. Len(Stages) + 1] /\ Len(Stages) \in Nat
      /\ attached \in [Procs -> [Procs -> 0 .. MaxAttached]]
      /\ instance \in [Procs -> [Procs -> [Kinds -> Blocks \cup {Null}]]]
      /\ MaxAttached \in Nat \ {0} /\ MaxFailures \in Nat /\ Sessions \in Nat
  <2>1. Len(Stages) \in Nat /\ MaxAttached \in Nat \ {0} /\ MaxFailures \in Nat /\ Sessions \in Nat
    BY IpcAssumption
  <2>2. ControlInv(p) /\ StageInv(p)
    BY DEF ProcsInv
  <2> QED BY <2>1, <2>2 DEF TypeOK, Labels
<1>1. Peers(p) \subseteq Procs
  BY DEF Peers
<1>2. ASSUME NEW l \in Labels, NEW r \in Procs \cup {Null}, Moved(p, l, r)
      PROVE  pc' \in [Procs -> Labels] /\ remote' \in [Procs -> Procs \cup {Null}]
  BY <1>0, <1>2 DEF Moved
<1>3. ASSUME NEW l \in Labels, Goto(p, l) PROVE pc' \in [Procs -> Labels]
  BY <1>0, <1>3 DEF Goto
<1>4. Retreats(p) => pc' \in [Procs -> Labels] /\ remote' \in [Procs -> Procs \cup {Null}]
  BY <1>1, <1>2 DEF Retreats, Labels
<1>5. Attaches(p) => pc' \in [Procs -> Labels] /\ remote' \in [Procs -> Procs \cup {Null}]
  BY <1>0, <1>1, <1>2 DEF Attaches, Labels
<1>6. ASSUME NEW S \in SUBSET Peers(p), NEW q \in Procs, DetachFrom(p, S, q)
      PROVE  pc' \in [Procs -> Labels] /\ remote' \in [Procs -> Procs \cup {Null}]
  <2>1. (S = {} /\ Moved(p, "down", Null)) \/ \E r \in S : Moved(p, "detach", r)
    BY <1>6, DetachFromMoves
  <2> QED BY <1>1, <1>2, <2>1 DEF Labels
<1>7. ASSUME NEW S \in SUBSET Peers(p), AttachTo(p, S)
      PROVE  pc' \in [Procs -> Labels] /\ remote' \in [Procs -> Procs \cup {Null}]
  <2>1. (S = {} /\ Moved(p, "up", remote[p])) \/ \E r \in S : Moved(p, "attach", r)
    BY <1>7, AttachToMoves
  <2> QED BY <1>0, <1>1, <1>2, <2>1 DEF Labels
<1>8. ASSUME NEW q \in Peers(p), NEW k \in Keys, SetKey(p, q, k)
      PROVE  startedKey' \in [Procs -> [0 .. NumProcs - 2 -> Keys]]
  <2>1. Slot(p, q) \in 0 .. NumProcs - 2
    BY SlotSound
  <2>2. PICK g : g = startedKey'
    OBVIOUS
  <2>3. PICK s : s = Slot(p, q)
    OBVIOUS
  <2>4. g = [startedKey EXCEPT ![p][s] = k]
    BY <1>8, <2>2, <2>3 DEF SetKey
  <2>5. g \in [Procs -> [0 .. NumProcs - 2 -> Keys]]
    BY <1>0, <2>1, <2>3, <2>4, Update2
  <2> QED BY <2>2, <2>5
\* The variables that most actions leave alone.
<1>9. ASSUME pc' \in [Procs -> Labels], remote' \in [Procs -> Procs \cup {Null}],
             startedKey' \in [Procs -> [0 .. NumProcs - 2 -> Keys]],
             attached' \in [Procs -> [Procs -> 0 .. MaxAttached]],
             stage' \in [Procs -> 0 .. Len(Stages) + 1],
             heapCreated' \in BOOLEAN, heapOpen' \in [Procs -> BOOLEAN],
             sessions' \in [Procs -> 0 .. Sessions],
             failures' \in 0 .. MaxFailures, free' \in SUBSET Blocks,
             procSync' = procSync,
             srPtr' \in [Procs -> [0 .. NumProcs - 2 -> [Kinds -> Blocks \cup {Null}]]],
             instance' \in [Procs -> [Procs -> [Kinds -> Blocks \cup {Null}]]]
      PROVE  TypeOK'
  BY <1>9 DEF TypeOK, Labels
<1>10. /\ procSync \in Modes /\ heapCreated \in BOOLEAN /\ free \in SUBSET Blocks
       /\ heapOpen \in [Procs -> BOOLEAN] /\ sessions \in [Procs -> 0 .. Sessions]
       /\ failures \in 0 .. MaxFailures
  BY DEF TypeOK
<1>11. Fail => failures' \in 0 .. MaxFailures
  BY <1>0, <1>10 DEF Fail
<1>12. \A k \in {"none", "start", "finish", "detach"} : k \in Keys
  BY DEF Keys
<1>13. ASSUME NEW q \in Procs, NEW n \in 0 .. MaxAttached, attached' = [attached EXCEPT ![p][q] = n]
       PROVE  attached' \in [Procs -> [Procs -> 0 .. MaxAttached]]
  <2>1. PICK g : g = attached'
    OBVIOUS
  <2>2. g \in [Procs -> [Procs -> 0 .. MaxAttached]]
    BY <1>0, <1>13, <2>1, Update2
  <2> QED BY <2>1, <2>2
<1>14. pc[p] \in Attaching \cup Detaching \cup {"detach"} => remote[p] \in Peers(p)
  BY <1>0 DEF ControlInv
<1>15. Known(p) \in SUBSET Peers(p)
  BY DEF Known
<1>16. CASE Start(p)
  <2>1. Cleared("none") \in [Procs -> [0 .. NumProcs - 2 -> Keys]]
    BY <1>12 DEF Cleared
  <2>2. Cleared(NoBlocks) \in [Procs -> [0 .. NumProcs - 2 -> [Kinds -> Blocks \cup {Null}]]]
    BY DEF Cleared, NoBlocks
  <2>3. pc' \in [Procs -> Labels] /\ remote' \in [Procs -> Procs \cup {Null}]
    BY <1>0, <1>3, <1>7, <1>16 DEF Start, Labels
  <2>4. sessions' \in [Procs -> 0 .. Sessions]
    BY <1>0, <1>10, <1>16 DEF Start
  <2> QED BY <1>0, <1>9, <1>10, <1>16, <2>1, <2>2, <2>3, <2>4 DEF Start
<1>17. CASE Create(p)
  <2>1. pc' \in [Procs -> Labels] /\ remote' \in [Procs -> Procs \cup {Null}]
    BY <1>7, <1>17 DEF Create
  <2>2. sessions' \in [Procs -> 0 .. Sessions]
    BY <1>0, <1>10, <1>17 DEF Create, ControlInv
  <2> QED BY <1>0, <1>9, <1>10, <1>17, <2>1, <2>2 DEF Create
<1>18. CASE Again(p)
  <2>1. pc' \in [Procs -> Labels] /\ remote' \in [Procs -> Procs \cup {Null}]
    BY <1>7, <1>18 DEF Again
  <2>2. sessions' \in [Procs -> 0 .. Sessions]
    BY <1>0, <1>10, <1>18 DEF Again
  <2> QED BY <1>0, <1>9, <1>10, <1>18, <2>1, <2>2 DEF Again
<1>19. CASE Stop(p)
  <2>1. pc' \in [Procs -> Labels]
    BY <1>3, <1>19 DEF Stop, Labels
  <2>2. heapCreated' \in BOOLEAN /\ heapOpen' \in [Procs -> BOOLEAN]
    BY <1>10, <1>19 DEF Stop
  <2> QED BY <1>0, <1>9, <1>10, <1>19, <2>1, <2>2 DEF Stop
<1>20. CASE AttachCall(p)
  <2>1. pc[p] = "attach" /\ remote[p] \in Peers(p)
    BY <1>14, <1>20 DEF AttachCall, Attaching
  <2>2. /\ pc' \in [Procs -> Labels] /\ remote' \in [Procs -> Procs \cup {Null}]
        /\ startedKey' \in [Procs -> [0 .. NumProcs - 2 -> Keys]]
    <3>1. AttachFails(p) \/ AttachNotReady(p) => Retreats(p)
      BY <1>0, <2>1, NotReadyRetreats, FailureRetreats DEF Attaching
    <3>2. SetKey(p, remote[p], "start") => startedKey' \in [Procs -> [0 .. NumProcs - 2 -> Keys]]
      BY <1>8, <1>12, <2>1
    <3> QED BY <1>0, <1>3, <1>4, <1>20, <3>1, <3>2 DEF AttachCall, Labels
  <2> QED BY <1>0, <1>9, <1>10, <1>20, <2>2 DEF AttachCall
<1>21. CASE MasterStarts(p)
  <2>1. remote[p] \in Peers(p)
    BY <1>14, <1>21 DEF MasterStarts, Attaching
  <2>2. startedKey' \in [Procs -> [0 .. NumProcs - 2 -> Keys]] /\ pc' \in [Procs -> Labels]
    BY <1>3, <1>8, <1>12, <1>21, <2>1 DEF MasterStarts, Labels
  <2> QED BY <1>0, <1>9, <1>10, <1>21, <2>2 DEF MasterStarts
<1>22. CASE SyncStart(p)
  <2>1. AttachNotReady(p) => Retreats(p)
    BY <1>0, <1>22, NotReadyRetreats DEF Attaching, SyncStart
  <2>2. pc' \in [Procs -> Labels] /\ remote' \in [Procs -> Procs \cup {Null}]
    BY <1>0, <1>3, <1>4, <1>22, <2>1 DEF SyncStart, Labels
  <2> QED BY <1>0, <1>9, <1>10, <1>22, <2>2 DEF SyncStart
<1>23. CASE Open(p)
  <2>1. pc' \in [Procs -> Labels] /\ stage' \in [Procs -> 0 .. Len(Stages) + 1]
    BY <1>0, <1>3, <1>23 DEF Open, Labels
  <2> QED BY <1>0, <1>9, <1>10, <1>23, <2>1 DEF Open
<1>24. CASE AttachStage(p)
  <2>1. /\ pc[p] = "stage" /\ remote[p] \in Peers(p) /\ stage[p] \in 1 .. Len(Stages)
        /\ Stages[stage[p]] \in Kinds
    BY <1>0, <1>14, <1>24, IpcAssumption DEF AttachStage, Attaching, StageInv, Kinds
  <2>2. AttachFails(p) => Retreats(p)
    BY <1>0, <2>1, FailureRetreats DEF Attaching
  <2>3. /\ pc' \in [Procs -> Labels] /\ remote' \in [Procs -> Procs \cup {Null}]
        /\ stage' \in [Procs -> 0 .. Len(Stages) + 1] /\ failures' \in 0 .. MaxFailures
    <3>1. NextStage(p) => /\ stage' \in [Procs -> 0 .. Len(Stages) + 1]
                          /\ pc' \in [Procs -> Labels] /\ remote' = remote
      BY <1>0, <1>3, <2>1 DEF NextStage, Labels
    <3>2. \/ NextStage(p) /\ UNCHANGED failures
          \/ Fail /\ AttachFails(p) /\ UNCHANGED stage
      BY <1>24 DEF AttachStage
    <3> QED BY <1>0, <1>4, <1>10, <1>11, <2>2, <3>1, <3>2
  <2>4. free # {} => Lowest(free) \in free /\ Lowest(free) \in Blocks
    <3>1. free \subseteq Blocks /\ free \in SUBSET Nat
      BY <1>10 DEF Blocks
    <3> QED BY <3>1, LowestMember
  <2>5. PICK f, g, q, s, k, b : /\ f = srPtr' /\ g = instance' /\ q = remote[p] /\ s = Slot(p, q)
                                /\ k = Stages[stage[p]] /\ b = Lowest(free)
    OBVIOUS
  <2>6. s \in 0 .. NumProcs - 2 /\ q \in Procs /\ k \in Kinds
    BY <1>1, <2>1, <2>5, SlotSound
  <2>7. f \in [Procs -> [0 .. NumProcs - 2 -> [Kinds -> Blocks \cup {Null}]]]
    <3>1. f = srPtr \/ (free # {} /\ f = [srPtr EXCEPT ![p][s][k] = b])
      BY <1>24, <2>5 DEF AttachStage
    <3>2. CASE f = [srPtr EXCEPT ![p][s][k] = b] /\ b \in Blocks \cup {Null}
      <4>1. q \in Peers(p) /\ f = [srPtr EXCEPT ![p][Slot(p, q)][k] = b]
        BY <2>1, <2>5, <3>2
      <4>2. b \in Blocks \cup {Null}
        BY <3>2
      <4> QED BY <2>6, <4>1, <4>2, PointerUpdate
    <3> QED BY <1>0, <2>4, <2>5, <3>1, <3>2
  <2>8. g \in [Procs -> [Procs -> [Kinds -> Blocks \cup {Null}]]]
    <3>1. q < p => SharedAt(p, q, k) \in Blocks \cup {Null}
      BY <2>1, <2>5, <2>6, SharedAtTyped
    <3>2. \/ g = instance
          \/ free # {} /\ g = [instance EXCEPT ![p][q][k] = b]
          \/ q < p /\ g = [instance EXCEPT ![p][q][k] = SharedAt(p, q, k)]
      BY <1>24, <2>5 DEF AttachStage
    <3>3. ASSUME NEW c \in Blocks \cup {Null}, g = [instance EXCEPT ![p][q][k] = c]
          PROVE  g \in [Procs -> [Procs -> [Kinds -> Blocks \cup {Null}]]]
      BY <2>6, <3>3, InstanceUpdate
    <3> QED BY <1>0, <2>4, <2>5, <3>1, <3>2, <3>3
  <2>9. free' \in SUBSET Blocks
    BY <1>10, <1>24 DEF AttachStage
  <2> QED BY <1>0, <1>9, <1>10, <1>24, <2>3, <2>5, <2>7, <2>8, <2>9 DEF AttachStage
<1>25. CASE AttachUser(p)
  <2>1. pc[p] = "user" /\ remote[p] \in Peers(p) /\ attached[p][remote[p]] = 0
    BY <1>0, <1>14, <1>25 DEF AttachUser, Attaching, ControlInv
  <2>2. (AttachFails(p) => Retreats(p)) /\ (Attached(p, remote[p]) => Attaches(p))
    BY <1>0, <2>1, FailureRetreats, AttachedMoves DEF Attaching
  <2>3. Attached(p, remote[p]) => attached' \in [Procs -> [Procs -> 0 .. MaxAttached]]
    BY <1>0, <1>1, <1>13, <2>1 DEF Attached
  <2>4. /\ pc' \in [Procs -> Labels] /\ remote' \in [Procs -> Procs \cup {Null}]
        /\ attached' \in [Procs -> [Procs -> 0 .. MaxAttached]]
        /\ startedKey' \in [Procs -> [0 .. NumProcs - 2 -> Keys]]
        /\ failures' \in 0 .. MaxFailures
    BY <1>0, <1>3, <1>4, <1>5, <1>8, <1>10, <1>11, <1>12, <1>25, <2>1, <2>2, <2>3
       DEF AttachUser, Labels
  <2> QED BY <1>0, <1>9, <1>10, <1>25, <2>4 DEF AttachUser
<1>26. CASE SyncFinish(p)
  <2>1. /\ pc[p] = "spin" /\ remote[p] \in Peers(p) /\ attached[p][remote[p]] = 0
        /\ Attached(p, remote[p])
    BY <1>0, <1>14, <1>26 DEF SyncFinish, Attaching, ControlInv
  <2>2. Attaches(p)
    BY <2>1, AttachedMoves
  <2>3. attached' \in [Procs -> [Procs -> 0 .. MaxAttached]]
    BY <1>0, <1>1, <1>13, <2>1 DEF Attached
  <2> QED BY <1>0, <1>5, <1>9, <1>10, <1>26, <2>2, <2>3 DEF SyncFinish
<1>27. CASE AttachMore(p)
  <2>1. attached' \in [Procs -> [Procs -> 0 .. MaxAttached]]
    <3>1. PICK q \in Peers(p) : /\ attached[p][q] < MaxAttached
                                /\ attached' = [attached EXCEPT ![p][q] = attached[p][q] + 1]
      BY <1>27 DEF AttachMore
    <3>2. attached[p][q] + 1 \in 0 .. MaxAttached
      BY <1>0, <1>1, <3>1
    <3> QED BY <1>1, <1>13, <3>1, <3>2
  <2> QED BY <1>0, <1>9, <1>10, <1>27, <2>1 DEF AttachMore
<1>28. CASE Leave(p)
  <2>1. pc' \in [Procs -> Labels] /\ remote' \in [Procs -> Procs \cup {Null}]
    BY <1>6, <1>15, <1>28 DEF Leave
  <2> QED BY <1>0, <1>9, <1>10, <1>28, <2>1 DEF Leave
<1>29. CASE DetachCall(p)
  <2>1. pc[p] = "detach" /\ remote[p] \in Procs
    BY <1>1, <1>14, <1>29 DEF DetachCall
  <2>2. attached' \in [Procs -> [Procs -> 0 .. MaxAttached]]
    <3>1. \/ attached' = attached
          \/ /\ attached[p][remote[p]] > 1
             /\ attached' = [attached EXCEPT ![p][remote[p]] = attached[p][remote[p]] - 1]
      BY <1>29 DEF DetachCall
    <3>2. attached[p][remote[p]] > 1 => attached[p][remote[p]] - 1 \in 0 .. MaxAttached
      BY <1>0, <2>1
    <3> QED BY <1>0, <1>13, <2>1, <3>1, <3>2
  <2>3. pc' \in [Procs -> Labels] /\ remote' \in [Procs -> Procs \cup {Null}]
    BY <1>0, <1>3, <1>6, <1>15, <1>29, <2>1 DEF DetachCall, Labels
  <2> QED BY <1>0, <1>9, <1>10, <1>29, <2>2, <2>3 DEF DetachCall
<1>30. CASE DetachUser(p)
  <2>1. pc[p] = "unuser" /\ remote[p] \in Procs
    BY <1>1, <1>14, <1>30 DEF DetachUser, Detaching
  <2>2. /\ pc' \in [Procs -> Labels] /\ remote' \in [Procs -> Procs \cup {Null}]
        /\ stage' \in [Procs -> 0 .. Len(Stages) + 1] /\ failures' \in 0 .. MaxFailures
    <3>1. \/ /\ Goto(p, "unstage") /\ remote' = remote /\ failures' = failures
             /\ stage' = [stage EXCEPT ![p] = Len(Stages)]
          \/ Fail /\ DetachFrom(p, Known(p), remote[p]) /\ stage' = stage
      BY <1>30 DEF DetachUser
    <3>2. CASE Goto(p, "unstage") /\ remote' = remote /\ failures' = failures
               /\ stage' = [stage EXCEPT ![p] = Len(Stages)]
      BY <1>0, <1>3, <1>10, <3>2 DEF Labels
    <3>3. CASE Fail /\ DetachFrom(p, Known(p), remote[p]) /\ stage' = stage
      BY <1>0, <1>6, <1>11, <1>15, <2>1, <3>3
    <3> QED BY <3>1, <3>2, <3>3
  <2> QED BY <1>0, <1>9, <1>10, <1>30, <2>2 DEF DetachUser
<1>31. CASE DetachStage(p)
  <2>1. /\ pc[p] = "unstage" /\ remote[p] \in Peers(p) /\ stage[p] \in 1 .. Len(Stages)
        /\ Stages[stage[p]] \in Kinds
    BY <1>0, <1>14, <1>31, IpcAssumption DEF DetachStage, Detaching, StageInv, Kinds
  <2>2. /\ pc' \in [Procs -> Labels] /\ remote' \in [Procs -> Procs \cup {Null}]
        /\ stage' \in [Procs -> 0 .. Len(Stages) + 1] /\ failures' \in 0 .. MaxFailures
    <3>1. \/ /\ Goto(p, "close") \/ Goto(p, "unstage")
             /\ remote' = remote /\ failures' = failures
             /\ stage' = [stage EXCEPT ![p] = stage[p] - 1]
          \/ Fail /\ DetachFrom(p, Known(p), remote[p]) /\ stage' = stage
      BY <1>31 DEF DetachStage
    <3>2. CASE /\ Goto(p, "close") \/ Goto(p, "unstage")
               /\ remote' = remote /\ failures' = failures
               /\ stage' = [stage EXCEPT ![p] = stage[p] - 1]
      BY <1>0, <1>3, <1>10, <2>1, <3>2 DEF Labels
    <3>3. CASE Fail /\ DetachFrom(p, Known(p), remote[p]) /\ stage' = stage
      BY <1>0, <1>1, <1>6, <1>11, <1>15, <2>1, <3>3
    <3> QED BY <3>1, <3>2, <3>3
  <2>3. PICK f, g, q, s, k, n : /\ f = srPtr' /\ g = instance' /\ q = remote[p] /\ s = Slot(p, q)
                                /\ k = Stages[stage[p]] /\ n = Null
    OBVIOUS
  <2>4. s \in 0 .. NumProcs - 2 /\ q \in Procs /\ k \in Kinds /\ n \in Blocks \cup {Null}
    BY <1>1, <2>1, <2>3, SlotSound
  <2>5. f \in [Procs -> [0 .. NumProcs - 2 -> [Kinds -> Blocks \cup {Null}]]]
    <3>1. f = srPtr \/ f = [srPtr EXCEPT ![p][s][k] = n]
      BY <1>31, <2>3 DEF DetachStage
    <3>2. CASE f = [srPtr EXCEPT ![p][s][k] = n]
      <4>1. q \in Peers(p) /\ f = [srPtr EXCEPT ![p][Slot(p, q)][k] = n]
        BY <2>1, <2>3, <3>2
      <4> QED BY <2>4, <4>1, PointerUpdate
    <3> QED BY <1>0, <3>1, <3>2
  <2>6. g \in [Procs -> [Procs -> [Kinds -> Blocks \cup {Null}]]]
    <3>1. g = instance \/ g = [instance EXCEPT ![p][q][k] = n]
      BY <1>31, <2>3 DEF DetachStage
    <3>2. CASE g = [instance EXCEPT ![p][q][k] = n]
      BY <2>4, <3>2, InstanceUpdate
    <3> QED BY <1>0, <3>1, <3>2
  <2>7. free' \in SUBSET Blocks
    <3>1. \/ free' = free
          \/ /\ p < q /\ instance[p][q][k] # Null
             /\ free' = free \cup {srPtr[p][s][k]}
      BY <1>31, <2>3 DEF DetachStage
    <3>2. p < q /\ instance[p][q][k] # Null => srPtr[p][s][k] \in Blocks
      <4>1. instance[p][q][k] \in Blocks \cup {Null}
        BY <1>0, <2>4
      <4>2. p < q /\ instance[p][q][k] # Null => instance[p][q][k] = srPtr[p][s][k]
        BY <2>3, <2>4 DEF MemoryInv
      <4> QED BY <4>1, <4>2
    <3> QED BY <1>10, <3>1, <3>2
  <2> QED BY <1>0, <1>9, <1>10, <1>31, <2>2, <2>3, <2>5, <2>6, <2>7 DEF DetachStage
<1>32. CASE Close(p)
  <2>1. pc' \in [Procs -> Labels] /\ heapOpen' \in [Procs -> BOOLEAN]
    BY <1>3, <1>10, <1>32 DEF Close, Labels
  <2> QED BY <1>0, <1>9, <1>10, <1>32, <2>1 DEF Close
<1>33. CASE Detached(p)
  <2>1. pc[p] = "key" /\ remote[p] \in Peers(p) /\ attached[p][remote[p]] = 1
    BY <1>0, <1>14, <1>33 DEF Detached, Detaching, ControlInv
  <2>2. attached' \in [Procs -> [Procs -> 0 .. MaxAttached]]
    BY <1>0, <1>1, <1>13, <1>33, <2>1 DEF Detached
  <2>3. /\ pc' \in [Procs -> Labels] /\ remote' \in [Procs -> Procs \cup {Null}]
        /\ startedKey' \in [Procs -> [0 .. NumProcs - 2 -> Keys]]
    BY <1>1, <1>6, <1>8, <1>12, <1>15, <1>33, <2>1 DEF Detached
  <2> QED BY <1>0, <1>9, <1>10, <1>33, <2>2, <2>3 DEF Detached
<1> QED BY <1>16, <1>17, <1>18, <1>19, <1>20, <1>21, <1>22, <1>23, <1>24, <1>25, <1>26, <1>27,
          <1>28, <1>29, <1>30, <1>31, <1>32, <1>33 DEF Step

-----------------------------------------------------------------------------
(* The processor that does the step                                        *)

\* All that processor p does is about its pair with q.
Only(p) ==
    \A x \in Procs \ {p} : /\ pc'[x] = pc[x] /\ remote'[x] = remote[x] /\ stage'[x] = stage[x]
                           /\ heapOpen'[x] = heapOpen[x] /\ sessions'[x] = sessions[x]
Acts(p, q) ==
    /\ \A x \in Procs \ {p} : RowKept(x)
    /\ \A y \in Procs \ {q} : attached'[p][y] = attached[p][y] /\ instance'[p][y] = instance[p][y]
    /\ \A y \in Peers(p) \ {q} : Key(p, y)' = Key(p, y)
    /\ failures' \in Nat /\ failures' >= failures

LEMMA OnlyWhen ==
    ASSUME TypeOK, NEW p \in Procs,
           pc' = pc \/ \E l : pc' = [pc EXCEPT ![p] = l],
           remote' = remote \/ \E r : remote' = [remote EXCEPT ![p] = r],
           stage' = stage \/ \E n : stage' = [stage EXCEPT ![p] = n],
           heapOpen' = heapOpen \/ \E h : heapOpen' = [heapOpen EXCEPT ![p] = h],
           sessions' = sessions \/ \E n : sessions' = [sessions EXCEPT ![p] = n]
    PROVE  Only(p)
BY DEF TypeOK, Only

LEMMA AttachToChanges ==
    ASSUME NEW p, NEW S, AttachTo(p, S)
    PROVE  /\ \E l : pc' = [pc EXCEPT ![p] = l]
           /\ remote' = remote \/ \E r : remote' = [remote EXCEPT ![p] = r]
BY DEF AttachTo, Goto

LEMMA AttachFailsChanges ==
    ASSUME NEW p, AttachNotReady(p) \/ AttachFails(p)
    PROVE  /\ \E l : pc' = [pc EXCEPT ![p] = l]
           /\ remote' = remote \/ \E r : remote' = [remote EXCEPT ![p] = r]
BY AttachToChanges DEF AttachNotReady, AttachFails, Goto

LEMMA AttachedChanges ==
    ASSUME NEW p, NEW q, Attached(p, q)
    PROVE  /\ \E l : pc' = [pc EXCEPT ![p] = l]
           /\ remote' = remote \/ \E r : remote' = [remote EXCEPT ![p] = r]
BY AttachToChanges DEF Attached

LEMMA DetachFromChanges ==
    ASSUME NEW p, NEW S, NEW q, DetachFrom(p, S, q)
    PROVE  /\ \E l : pc' = [pc EXCEPT ![p] = l]
           /\ \E r : remote' = [remote EXCEPT ![p] = r]
BY DEF DetachFrom, Goto

LEMMA StepOnly == ASSUME TypeOK, NEW p \in Procs, Step(p) PROVE Only(p)
<1> USE DEF bounds, shared
<1>1. CASE Start(p)
  BY <1>1, OnlyWhen, AttachToChanges DEF Start, Goto
<1>2. CASE Create(p)
  BY <1>2, OnlyWhen, AttachToChanges DEF Create
<1>3. CASE Again(p)
  BY <1>3, OnlyWhen, AttachToChanges DEF Again
<1>4. CASE Stop(p)
  BY <1>4, OnlyWhen DEF Stop, Goto
<1>5. CASE AttachCall(p)
  BY <1>5, OnlyWhen, AttachFailsChanges DEF AttachCall, Goto
<1>6. CASE MasterStarts(p)
  BY <1>6, OnlyWhen DEF MasterStarts, Goto
<1>7. CASE SyncStart(p)
  BY <1>7, OnlyWhen, AttachFailsChanges DEF SyncStart, Goto
<1>8. CASE Open(p)
  BY <1>8, OnlyWhen DEF Open, Goto
<1>9. CASE AttachStage(p)
  BY <1>9, OnlyWhen, AttachFailsChanges DEF AttachStage, NextStage, Goto
<1>10. CASE AttachUser(p)
  BY <1>10, OnlyWhen, AttachFailsChanges, AttachedChanges DEF AttachUser, Goto
<1>11. CASE SyncFinish(p)
  BY <1>11, OnlyWhen, AttachedChanges DEF SyncFinish
<1>12. CASE AttachMore(p)
  BY <1>12, OnlyWhen DEF AttachMore
<1>13. CASE Leave(p)
  BY <1>13, OnlyWhen, DetachFromChanges DEF Leave
<1>14. CASE DetachCall(p)
  BY <1>14, OnlyWhen, DetachFromChanges DEF DetachCall, Goto
<1>15. CASE DetachUser(p)
  BY <1>15, OnlyWhen, DetachFromChanges DEF DetachUser, Goto
<1>16. CASE DetachStage(p)
  BY <1>16, OnlyWhen, DetachFromChanges DEF DetachStage, Goto
<1>17. CASE Close(p)
  BY <1>17, OnlyWhen DEF Close, Goto
<1>18. CASE Detached(p)
  BY <1>18, OnlyWhen, DetachFromChanges DEF Detached
<1> QED BY <1>1, <1>2, <1>3, <1>4, <1>5, <1>6, <1>7, <1>8, <1>9, <1>10, <1>11, <1>12, <1>13,
           <1>14, <1>15, <1>16, <1>17, <1>18 DEF Step

LEMMA FailuresCount == ASSUME TypeOK, UNCHANGED failures \/ Fail
                       PROVE  failures' \in Nat /\ failures' >= failures
<1>1. failures \in Nat
  BY IpcAssumption DEF TypeOK
<1> QED BY <1>1 DEF Fail

LEMMA ActsWhen ==
    ASSUME TypeOK, NEW p \in Procs, NEW q \in Peers(p), Only(p),
           UNCHANGED failures \/ Fail,
           UNCHANGED startedKey \/ \E k : SetKey(p, q, k),
           attached' = attached \/ \E n \in Nat : attached' = [attached EXCEPT ![p][q] = n],
           \/ instance' = instance
           \/ \E k \in Kinds, c \in Blocks \cup {Null} :
                 instance' = [instance EXCEPT ![p][q][k] = c]
    PROVE  Acts(p, q)
<1>1. q \in Procs /\ p # q
  BY DEF Peers
<1>2. /\ \A y \in Peers(p) \ {q} : Key(p, y)' = Key(p, y)
      /\ \A x \in Procs \ {p}, y \in Procs : Key(x, y)' = Key(x, y)
  <2>1. CASE UNCHANGED startedKey
    BY <2>1 DEF Key, Slot
  <2>2. CASE \E k : SetKey(p, q, k)
    BY <2>2, SetKeySound
  <2> QED BY <2>1, <2>2
<1>3. /\ \A x \in Procs \ {p} : attached'[x] = attached[x]
      /\ \A y \in Procs \ {q} : attached'[p][y] = attached[p][y]
  <2>1. CASE attached' = attached
    BY <2>1
  <2>2. ASSUME NEW n \in Nat, attached' = [attached EXCEPT ![p][q] = n]
        PROVE  /\ \A x \in Procs \ {p} : attached'[x] = attached[x]
               /\ \A y \in Procs \ {q} : attached'[p][y] = attached[p][y]
    <3>1. PICK h : h = [attached[p] EXCEPT ![q] = n]
      OBVIOUS
    <3>2. attached[p] \in [Procs -> 0 .. MaxAttached]
      BY DEF TypeOK
    <3>3. \A y \in Procs \ {q} : h[y] = attached[p][y]
      BY <3>1, <3>2
    <3>4. attached' = [attached EXCEPT ![p] = h]
      BY <2>2, <3>1
    <3> QED BY <3>3, <3>4 DEF TypeOK
  <2> QED BY <2>1, <2>2
<1>4. /\ \A x \in Procs \ {p} : instance'[x] = instance[x]
      /\ \A y \in Procs \ {q} : instance'[p][y] = instance[p][y]
  <2>1. CASE instance' = instance
    BY <2>1
  <2>2. CASE instance' # instance
    <3>1. PICK k \in Kinds, c \in Blocks \cup {Null} : instance' = [instance EXCEPT ![p][q][k] = c]
      BY <2>2
    <3>2. PICK g : g = instance'
      OBVIOUS
    <3>3. g = [instance EXCEPT ![p][q][k] = c]
      BY <3>1, <3>2
    <3>4. /\ \A x \in Procs \ {p} : g[x] = instance[x]
          /\ \A y \in Procs \ {q} : g[p][y] = instance[p][y]
      BY <1>1, <3>3, InstanceUpdate
    <3> QED BY <3>2, <3>4
  <2> QED BY <2>1, <2>2
<1>5. failures' \in Nat /\ failures' >= failures
  BY FailuresCount
<1> QED BY <1>2, <1>3, <1>4, <1>5 DEF Acts, Only, RowKept

\* It is linked to no other processor before or after.
LEMMA ActsStep ==
    ASSUME TypeOK, NEW p \in Procs, NEW q \in Peers(p), Acts(p, q), remote[p] = q,
           remote'[p] = q \/ pc'[p] \in {"attach", "gaveUp", "up", "down", "detach"},
           \/ pc[p] \notin Leavers \/ pc'[p] \in Leavers
           \/ \A y \in Peers(p) \ {q} : attached[p][y] = 0
    PROVE  StepOf(p, q)
<1>1. ASSUME NEW y \in Peers(p) \ {q} PROVE SideKept(p, y)
  <2>1. y \in Procs
    BY DEF Peers
  <2>2. ~ Linked(p, y)
    BY DEF Linked, With
  <2>3. ~ Linked(p, y)'
    BY DEF Linked, With, Detaching
  <2> QED BY <2>1, <2>2, <2>3 DEF Acts, SideKept
<1> QED BY <1>1 DEF Acts, StepOf

LEMMA LinkedActs ==
    ASSUME TypeOK, ProcsInv, NEW p \in Procs,
           \/ AttachCall(p) \/ MasterStarts(p) \/ SyncStart(p) \/ Open(p) \/ AttachStage(p)
           \/ AttachUser(p) \/ SyncFinish(p) \/ DetachCall(p) \/ DetachUser(p) \/ DetachStage(p)
           \/ Close(p) \/ Detached(p)
    PROVE  remote[p] \in Peers(p) /\ Acts(p, remote[p])
<1> USE DEF bounds, shared
<1>1. remote[p] \in Peers(p)
  <2>1. pc[p] \in Attaching \cup Detaching \cup {"detach"}
    BY DEF AttachCall, MasterStarts, SyncStart, Open, AttachStage, AttachUser, SyncFinish,
           DetachCall, DetachUser, DetachStage, Close, Detached, Attaching, Detaching
  <2> QED BY <2>1 DEF ProcsInv, ControlInv
<1>2. Only(p)
  BY StepOnly DEF Step
<1>3. PICK q : q = remote[p]
  OBVIOUS
<1>4. q \in Peers(p) /\ attached[p][q] \in Nat
  BY <1>1, <1>3, AttachedTyped DEF Peers
<1>5. CASE AttachCall(p)
  <2>1. /\ UNCHANGED failures /\ attached' = attached /\ instance' = instance
        /\ UNCHANGED startedKey \/ SetKey(p, q, "start")
    BY <1>3, <1>5 DEF AttachCall
  <2> QED BY <1>1, <1>2, <1>3, <1>4, <2>1, ActsWhen
<1>6. CASE MasterStarts(p)
  <2>1. /\ UNCHANGED failures /\ attached' = attached /\ instance' = instance
        /\ SetKey(p, q, "start")
    BY <1>3, <1>6 DEF MasterStarts
  <2> QED BY <1>1, <1>2, <1>3, <1>4, <2>1, ActsWhen
<1>7. CASE SyncStart(p) \/ Open(p) \/ DetachUser(p) \/ Close(p)
  <2>1. /\ UNCHANGED failures \/ Fail
        /\ attached' = attached /\ instance' = instance /\ UNCHANGED startedKey
    BY <1>7 DEF SyncStart, Open, DetachUser, Close
  <2> QED BY <1>1, <1>2, <1>3, <1>4, <2>1, ActsWhen
<1>8. CASE AttachStage(p)
  <2>1. UNCHANGED failures \/ Fail
    BY <1>8 DEF AttachStage
  <2>2. attached' = attached /\ UNCHANGED startedKey
    BY <1>8 DEF AttachStage
  <2>3. \/ instance' = instance
        \/ \E k \in Kinds, c \in Blocks \cup {Null} : instance' = [instance EXCEPT ![p][q][k] = c]
    <3>1. PICK k : k = Stages[stage[p]]
      OBVIOUS
    <3>2. k \in Kinds
      <4>1. stage[p] \in DOMAIN Stages
        BY <1>8, IpcAssumption DEF ProcsInv, StageInv, AttachStage
      <4> QED BY <3>1, <4>1 DEF Kinds
    <3>3. \/ instance' = instance
          \/ free # {} /\ instance' = [instance EXCEPT ![p][q][k] = Lowest(free)]
          \/ q < p /\ instance' = [instance EXCEPT ![p][q][k] = SharedAt(p, q, k)]
      BY <1>3, <1>8, <3>1 DEF AttachStage
    <3>4. free # {} => Lowest(free) \in Blocks \cup {Null}
      <4>1. free \subseteq Blocks /\ free \in SUBSET Nat
        BY DEF TypeOK, Blocks
      <4> QED BY <4>1, LowestMember
    <3>5. q < p => SharedAt(p, q, k) \in Blocks \cup {Null}
      BY <1>4, <3>2, SharedAtTyped
    <3> QED BY <3>2, <3>3, <3>4, <3>5
  <2> QED BY <1>1, <1>2, <1>3, <1>4, <2>1, <2>2, <2>3, ActsWhen
<1>9. CASE AttachUser(p)
  <2>1. /\ UNCHANGED failures \/ Fail
        /\ attached' = attached \/ attached' = [attached EXCEPT ![p][q] = attached[p][q] + 1]
        /\ instance' = instance
        /\ UNCHANGED startedKey \/ SetKey(p, q, "finish")
    BY <1>3, <1>9 DEF AttachUser, Attached
  <2> QED BY <1>1, <1>2, <1>3, <1>4, <2>1, ActsWhen
<1>10. CASE SyncFinish(p)
  <2>1. /\ UNCHANGED failures /\ attached' = [attached EXCEPT ![p][q] = attached[p][q] + 1]
        /\ instance' = instance /\ UNCHANGED startedKey
    BY <1>3, <1>10 DEF SyncFinish, Attached
  <2>2. attached[p][q] + 1 \in Nat
    BY <1>4
  <2> QED BY <1>1, <1>2, <1>3, <1>4, <2>1, <2>2, ActsWhen
<1>11. CASE DetachCall(p)
  <2>1. /\ UNCHANGED failures /\ instance' = instance /\ UNCHANGED startedKey
        /\ \/ attached' = attached
           \/ /\ attached[p][q] > 1
              /\ attached' = [attached EXCEPT ![p][q] = attached[p][q] - 1]
    BY <1>3, <1>11 DEF DetachCall
  <2>2. attached[p][q] > 1 => attached[p][q] - 1 \in Nat
    BY <1>4
  <2> QED BY <1>1, <1>2, <1>3, <1>4, <2>1, <2>2, ActsWhen
<1>12. CASE DetachStage(p)
  <2>1. UNCHANGED failures \/ Fail
    BY <1>12 DEF DetachStage
  <2>2. attached' = attached /\ UNCHANGED startedKey
    BY <1>12 DEF DetachStage
  <2>3. \/ instance' = instance
        \/ \E k \in Kinds, c \in Blocks \cup {Null} : instance' = [instance EXCEPT ![p][q][k] = c]
    <3>1. PICK k : k = Stages[stage[p]]
      OBVIOUS
    <3>2. k \in Kinds
      <4>1. stage[p] \in DOMAIN Stages
        BY <1>12, IpcAssumption DEF ProcsInv, StageInv, DetachStage
      <4> QED BY <3>1, <4>1 DEF Kinds
    <3>3. instance' = instance \/ instance' = [instance EXCEPT ![p][q][k] = Null]
      BY <1>3, <1>12, <3>1 DEF DetachStage
    <3> QED BY <3>2, <3>3
  <2> QED BY <1>1, <1>2, <1>3, <1>4, <2>1, <2>2, <2>3, ActsWhen
<1>13. CASE Detached(p)
  <2>1. attached[p][q] - 1 \in Nat
    <3>1. attached[p][q] = 1
      BY <1>3, <1>13 DEF Detached, ProcsInv, ControlInv, Detaching
    <3> QED BY <3>1
  <2>2. /\ UNCHANGED failures /\ attached' = [attached EXCEPT ![p][q] = attached[p][q] - 1]
        /\ instance' = instance /\ SetKey(p, q, "detach")
    BY <1>3, <1>13 DEF Detached
  <2> QED BY <1>1, <1>2, <1>3, <1>4, <2>1, <2>2, ActsWhen
<1> QED BY <1>5, <1>6, <1>7, <1>8, <1>9, <1>10, <1>11, <1>12, <1>13

\* What the processor finds of the other side stays.
LEMMA OtherSide ==
    ASSUME TypeOK, NEW p \in Procs, NEW q \in Peers(p), Acts(p, q)
    PROVE  /\ Key(q, p)' = Key(q, p) /\ pc'[q] = pc[q] /\ remote'[q] = remote[q]
           /\ attached'[q][p] = attached[q][p] /\ instance'[q] = instance[q]
           /\ Bare(q, p)' <=> Bare(q, p)
           /\ Ready(q, p)' <=> Ready(q, p)
           /\ Leaving(q, p) => Leaving(q, p)'
<1>1. q \in Procs /\ q \in Procs \ {p} /\ RowKept(q)
  BY DEF Peers, Acts
<1>2. failures > 0 => failures' > 0
  BY IpcAssumption DEF TypeOK, Acts
<1> QED BY <1>1, <1>2 DEF RowKept, Bare, Ready, Leaving

LEMMA PairOf ==
    ASSUME ProcsInv, PairsInv, NEW p \in Procs, NEW q \in Peers(p)
    PROVE  PairInv(p, q) /\ ProcInv(p)
BY DEF ProcsInv, PairsInv, PairInv, ProcInv, Peers

-----------------------------------------------------------------------------
(* The invariant of the processors and their pairs                         *)

LEMMA RetreatStep ==
    ASSUME TypeOK, TypeOK', ProcsInv, PairsInv, NEW p \in Procs, remote[p] \in Peers(p),
           Acts(p, remote[p]), pc[p] \in Attaching \ {"spin"}, Retreats(p),
           UNCHANGED <<startedKey, attached, instance>>
    PROVE  ProcsInv' /\ PairsInv'
<1>1. PICK q : q = remote[p]
  OBVIOUS
<1>2. q \in Peers(p) /\ q \in Procs /\ p # q /\ Acts(p, q) /\ remote[p] = q
  BY <1>1 DEF Peers
<1>3. PICK l \in {"attach", "gaveUp"}, r \in Peers(p) :
         attached[p][r] = 0 /\ pc'[p] = l /\ remote'[p] = r
  BY DEF Retreats, Moved, TypeOK
<1>4. \A y \in Procs : Key(p, y)' = Key(p, y)
  BY DEF Key, Slot
<1>5. pc'[p] \in {"attach", "gaveUp"} /\ remote'[p] \in Peers(p) /\ attached[p][remote'[p]] = 0
  BY <1>3
<1>6. /\ \A y : Bare(p, y)' <=> Bare(p, y)
      /\ \A y : Ready(p, y)' <=> Ready(p, y)
  BY DEF Bare, Ready
<1>7. PairInv(p, q) /\ ProcInv(p)
  BY <1>2, PairOf
<1>8. StepOf(p, q)
  <2>1. pc[p] \notin Leavers
    BY DEF Leavers, Attaching, Detaching
  <2> QED BY <1>2, <1>5, <2>1, ActsStep
<1>9. ProcInv(p)'
  <2>1. ControlInv(p)'
    BY <1>5, <1>6, <1>7 DEF ProcInv, ControlInv, Attaching, Detaching, Outside
  <2>2. StageInv(p)'
    BY <1>5 DEF StageInv
  <2>3. p # 0 => OwnerFirst(p)'
    BY <1>4, <1>5, <1>7 DEF ProcInv, OwnerFirst, Attaching, Detaching, With, Peers
  <2> QED BY <2>1, <2>2, <2>3 DEF ProcInv
<1>10. PairInv(p, q)'
  <2>1. attached[p][q] = 0
    BY <1>2, <1>7 DEF ProcInv, ControlInv
  <2>2. CASE p < q
    <3>1. KeysInv(p, q)'
      BY <1>2, <1>4, <1>5, <1>7, <2>1, <2>2, OtherSide
         DEF PairInv, KeysInv, With, Detaching, Attaching
    <3>2. InstancesInv(p, q)'
      BY <1>2, <1>4, <1>5, <1>6, <1>7, <2>1, <2>2, OtherSide DEF PairInv, InstancesInv
    <3> QED BY <1>2, <2>2, <3>1, <3>2, IpcAssumption DEF PairInv, Procs
  <2>3. CASE q < p
    <3>1. KeysInv(q, p)'
      BY <1>2, <1>4, <1>5, <1>7, <2>1, <2>3, OtherSide
         DEF PairInv, KeysInv, With, Detaching, Attaching
    <3>2. InstancesInv(q, p)'
      BY <1>2, <1>4, <1>5, <1>6, <1>7, <2>1, <2>3, OtherSide DEF PairInv, InstancesInv
    <3> QED BY <1>2, <2>3, <3>1, <3>2, IpcAssumption DEF PairInv, Procs
  <2> QED BY <1>2, <2>2, <2>3, IpcAssumption DEF Procs
<1> QED BY <1>2, <1>8, <1>9, <1>10, OnlyOnePair

\* The slave announces that it starts.
LEMMA SlaveCallStep ==
    ASSUME TypeOK, TypeOK', ProcsInv, PairsInv, NEW p \in Procs, remote[p] \in Peers(p),
           Acts(p, remote[p]), p < remote[p], pc[p] = "attach", Goto(p, "sync"),
           0 \in {p, remote[p]} \/ attached[p][0] > 0,
           SetKey(p, remote[p], "start"), UNCHANGED <<remote, attached, instance>>
    PROVE  ProcsInv' /\ PairsInv'
<1>1. PICK q : q = remote[p]
  OBVIOUS
<1>2. /\ q \in Peers(p) /\ q \in Procs /\ p # q /\ p < q /\ Acts(p, q) /\ remote[p] = q
      /\ ~ (q < p)
  BY <1>1, IpcAssumption DEF Peers, Procs
<1>3. PairInv(p, q) /\ ProcInv(p)
  BY <1>2, PairOf
<1>4. pc'[p] = "sync" /\ remote'[p] = q /\ attached[p][q] = 0
  BY <1>2, <1>3 DEF Goto, TypeOK, ProcInv, ControlInv, Attaching
<1>5. /\ Key(p, q)' = "start" /\ Key(p, q) # "finish"
      /\ \A y \in Peers(p) \ {q} : Key(p, y)' = Key(p, y)
  <2>1. SetKey(p, q, "start")
    BY <1>1
  <2>2. Key(p, q) # "finish"
    BY <1>2, <1>3, <1>4 DEF PairInv, KeysInv, With
  <2> QED BY <1>2, <2>1, <2>2, SetKeySound
<1>6. /\ \A y : Bare(p, y)' <=> Bare(p, y)
      /\ \A y : Ready(p, y)' <=> Ready(p, y)
  BY DEF Bare, Ready
<1>7. StepOf(p, q)
  BY <1>2, <1>4, ActsStep DEF Leavers, Detaching
<1>8. ProcInv(p)'
  <2>1. ControlInv(p)'
    BY <1>2, <1>3, <1>4, <1>6 DEF ProcInv, ControlInv, Attaching, Detaching, Outside
  <2>2. StageInv(p)'
    BY <1>4 DEF StageInv
  <2>3. p # 0 => OwnerFirst(p)'
    BY <1>2, <1>3, <1>4, <1>5 DEF ProcInv, OwnerFirst, Attaching, Detaching, With, Peers
  <2> QED BY <2>1, <2>2, <2>3 DEF ProcInv
<1>9. PairInv(p, q)'
  <2>1. KeysInv(p, q)'
    BY <1>2, <1>3, <1>4, <1>5, OtherSide DEF PairInv, KeysInv, With, Detaching
  <2>2. InstancesInv(p, q)'
    <3>1. Key(p, q) \in {"none", "start", "detach"}
      BY <1>2, <1>5, KeysTyped DEF Keys
    <3> QED BY <1>2, <1>3, <1>4, <1>5, <1>6, <3>1, OtherSide DEF PairInv, InstancesInv, IdleKeys
  <2> QED BY <1>2, <2>1, <2>2 DEF PairInv
<1> QED BY <1>2, <1>7, <1>8, <1>9, OnlyOnePair

\* The master has seen that one side starts.
LEMMA MasterCallStep ==
    ASSUME TypeOK, TypeOK', ProcsInv, PairsInv, NEW p \in Procs, remote[p] \in Peers(p),
           Acts(p, remote[p]), remote[p] < p, pc[p] = "attach", Goto(p, "starting"),
           0 \in {p, remote[p]} \/ attached[p][0] > 0,
           "start" \in {Key(p, remote[p]), Key(remote[p], p)},
           UNCHANGED <<startedKey, remote, attached, instance>>
    PROVE  ProcsInv' /\ PairsInv'
<1>1. PICK q : q = remote[p]
  OBVIOUS
<1>2. /\ q \in Peers(p) /\ q \in Procs /\ p # q /\ q < p /\ Acts(p, q) /\ remote[p] = q
      /\ ~ (p < q) /\ "start" \in {Key(p, q), Key(q, p)}
  BY <1>1, IpcAssumption DEF Peers, Procs
<1>3. PairInv(p, q) /\ ProcInv(p)
  BY <1>2, PairOf
<1>4. pc'[p] = "starting" /\ remote'[p] = q /\ attached[p][q] = 0
  BY <1>2, <1>3 DEF Goto, TypeOK, ProcInv, ControlInv, Attaching
<1>5. \A y \in Procs : Key(p, y)' = Key(p, y)
  BY DEF Key, Slot
<1>6. /\ \A y : Bare(p, y)' <=> Bare(p, y)
      /\ \A y : Ready(p, y)' <=> Ready(p, y)
  BY DEF Bare, Ready
<1>7. StepOf(p, q)
  BY <1>2, <1>4, ActsStep DEF Leavers, Detaching
<1>8. ProcInv(p)'
  <2>1. ControlInv(p)'
    BY <1>2, <1>3, <1>4, <1>6 DEF ProcInv, ControlInv, Attaching, Detaching, Outside
  <2>2. StageInv(p)'
    BY <1>4 DEF StageInv
  <2>3. p # 0 => OwnerFirst(p)'
    BY <1>2, <1>3, <1>4, <1>5 DEF ProcInv, OwnerFirst, Attaching, Detaching, With, Peers
  <2> QED BY <2>1, <2>2, <2>3 DEF ProcInv
<1>9. PairInv(p, q)'
  <2>1. KeysInv(q, p)'
    BY <1>2, <1>3, <1>4, <1>5, OtherSide DEF PairInv, KeysInv, With, Detaching
  <2>2. InstancesInv(q, p)'
    BY <1>2, <1>3, <1>4, <1>5, <1>6, OtherSide DEF PairInv, InstancesInv, IdleKeys
  <2> QED BY <1>2, <2>1, <2>2 DEF PairInv
<1> QED BY <1>2, <1>7, <1>8, <1>9, OnlyOnePair

LEMMA MasterStartsStep ==
    ASSUME TypeOK, TypeOK', ProcsInv, PairsInv, NEW p \in Procs, MasterStarts(p)
    PROVE  ProcsInv' /\ PairsInv'
<1>1. PICK q : q = remote[p]
  OBVIOUS
<1>2. q \in Peers(p) /\ q \in Procs /\ p # q /\ Acts(p, q) /\ remote[p] = q
  BY <1>1, LinkedActs DEF Peers
<1>3. PairInv(p, q) /\ ProcInv(p) /\ ProcInv(q)
  BY <1>2, PairOf DEF ProcsInv, ProcInv
<1>4. /\ pc[p] = "starting" /\ pc'[p] = "sync" /\ remote'[p] = q /\ attached[p][q] = 0
      /\ attached' = attached /\ instance' = instance /\ q < p /\ ~ (p < q)
  <2>1. q < p
    BY <1>2, <1>3 DEF MasterStarts, ProcInv, ControlInv
  <2> QED BY <1>2, <1>3, <2>1, IpcAssumption
          DEF MasterStarts, Goto, TypeOK, ProcInv, ControlInv, Attaching, Procs
<1>5. /\ Key(p, q)' = "start" /\ Key(p, q) # "finish" /\ "start" \in {Key(p, q), Key(q, p)}
      /\ \A y \in Peers(p) \ {q} : Key(p, y)' = Key(p, y)
  <2>1. SetKey(p, q, "start")
    BY <1>1 DEF MasterStarts
  <2>2. Key(p, q) # "finish" /\ "start" \in {Key(p, q), Key(q, p)}
    BY <1>2, <1>3, <1>4 DEF PairInv, KeysInv, With
  <2> QED BY <1>2, <2>1, <2>2, SetKeySound
<1>6. /\ \A y : Bare(p, y)' <=> Bare(p, y)
      /\ \A y : Ready(p, y)' <=> Ready(p, y)
  BY <1>4 DEF Bare, Ready
<1>7. StepOf(p, q)
  BY <1>2, <1>4, ActsStep DEF Leavers, Detaching
<1>8. ProcInv(p)'
  <2>1. ControlInv(p)'
    BY <1>2, <1>3, <1>4, <1>6 DEF ProcInv, ControlInv, Attaching, Detaching, Outside
  <2>2. StageInv(p)'
    BY <1>4 DEF StageInv
  <2>3. p # 0 => OwnerFirst(p)'
    BY <1>2, <1>3, <1>4, <1>5 DEF ProcInv, OwnerFirst, Attaching, Detaching, With, Peers
  <2> QED BY <2>1, <2>2, <2>3 DEF ProcInv
<1>9. PairInv(p, q)'
  <2>1. With(q, p, Detaching) => Key(p, q) = "detach" /\ Key(q, p) = "finish"
    BY <1>2, <1>3, <1>4 DEF PairInv, KeysInv, With, ProcInv, ControlInv
  <2>2. KeysInv(q, p)'
    BY <1>2, <1>3, <1>4, <1>5, <2>1, OtherSide DEF PairInv, KeysInv, With, Detaching
  <2>3. InstancesInv(q, p)'
    BY <1>2, <1>3, <1>4, <1>5, <1>6, OtherSide DEF PairInv, KeysInv, InstancesInv, IdleKeys
  <2> QED BY <1>2, <1>4, <2>2, <2>3 DEF PairInv
<1> QED BY <1>2, <1>7, <1>8, <1>9, OnlyOnePair

LEMMA AttachCallStep ==
    ASSUME TypeOK, TypeOK', ProcsInv, PairsInv, LowestOwns, NEW p \in Procs, AttachCall(p)
    PROVE  ProcsInv' /\ PairsInv'
<1>1. remote[p] \in Peers(p) /\ Acts(p, remote[p]) /\ pc[p] = "attach" /\ ControlInv(p)
  BY LinkedActs DEF AttachCall, ProcsInv
<1>2. UNCHANGED <<attached, instance>>
  BY DEF AttachCall
<1>3. \/ AttachFails(p) /\ UNCHANGED startedKey
      \/ AttachNotReady(p) /\ UNCHANGED startedKey
      \/ /\ 0 \in {p, remote[p]} \/ attached[p][0] > 0
         /\ \/ /\ p < remote[p] /\ SetKey(p, remote[p], "start")
               /\ Goto(p, "sync") /\ UNCHANGED remote
            \/ /\ remote[p] < p /\ "start" \in {Key(p, remote[p]), Key(remote[p], p)}
               /\ Goto(p, "starting") /\ UNCHANGED <<startedKey, remote>>
  BY DEF AttachCall, LowestOwns
<1>4. CASE (AttachFails(p) \/ AttachNotReady(p)) /\ UNCHANGED startedKey
  <2>1. Retreats(p)
    BY <1>1, <1>4, NotReadyRetreats, FailureRetreats DEF Attaching
  <2> QED BY <1>1, <1>2, <1>4, <2>1, RetreatStep DEF Attaching
<1>5. CASE /\ 0 \in {p, remote[p]} \/ attached[p][0] > 0
           /\ p < remote[p] /\ SetKey(p, remote[p], "start")
           /\ Goto(p, "sync") /\ UNCHANGED remote
  BY <1>1, <1>2, <1>5, SlaveCallStep
<1>6. CASE /\ 0 \in {p, remote[p]} \/ attached[p][0] > 0
           /\ remote[p] < p /\ "start" \in {Key(p, remote[p]), Key(remote[p], p)}
           /\ Goto(p, "starting") /\ UNCHANGED <<startedKey, remote>>
  BY <1>1, <1>2, <1>6, MasterCallStep
<1> QED BY <1>3, <1>4, <1>5, <1>6

\* What Ipc_attach does without a key: it goes on with the same processor.
LEMMA StaysStep ==
    ASSUME TypeOK, TypeOK', ProcsInv, PairsInv, NEW p \in Procs, remote[p] \in Peers(p),
           Acts(p, remote[p]), NEW l \in {"open", "stage", "user"}, Goto(p, l),
           pc[p] \in {"sync", "open", "stage"}, UNCHANGED <<startedKey, remote, attached>>,
           Key(remote[p], p) = (IF p < remote[p] THEN "start" ELSE "finish"),
           StageInv(p)', Bare(p, p)', InstancesInv(p, remote[p])' \/ remote[p] < p,
           InstancesInv(remote[p], p)' \/ p < remote[p]
    PROVE  ProcsInv' /\ PairsInv'
<1>1. PICK q : q = remote[p]
  OBVIOUS
<1>2. /\ q \in Peers(p) /\ q \in Procs /\ p # q /\ Acts(p, q) /\ remote[p] = q
      /\ p < q => ~ (q < p)
      /\ p < q \/ q < p
  BY <1>1, IpcAssumption DEF Peers, Procs
<1>3. PairInv(p, q) /\ ProcInv(p)
  BY <1>2, PairOf
<1>4. /\ pc'[p] \in {"open", "stage", "user"} /\ remote'[p] = q /\ attached[p][q] = 0
      /\ Key(q, p) = IF p < q THEN "start" ELSE "finish"
  BY <1>2, <1>3 DEF Goto, TypeOK, ProcInv, ControlInv, Attaching
<1>5. \A y \in Procs : Key(p, y)' = Key(p, y)
  BY DEF Key, Slot
<1>6. StepOf(p, q)
  BY <1>2, <1>4, ActsStep DEF Leavers, Detaching
<1>7. ProcInv(p)'
  <2>1. ControlInv(p)'
    BY <1>2, <1>3, <1>4 DEF ProcInv, ControlInv, Attaching, Detaching, Outside
  <2>2. p # 0 => OwnerFirst(p)'
    BY <1>2, <1>3, <1>4, <1>5 DEF ProcInv, OwnerFirst, Attaching, Detaching, With, Peers
  <2> QED BY <2>1, <2>2 DEF ProcInv
<1>8. PairInv(p, q)'
  <2>1. CASE p < q
    <3>1. KeysInv(p, q)'
      BY <1>2, <1>3, <1>4, <1>5, <2>1, OtherSide DEF PairInv, KeysInv, With, Detaching
    <3> QED BY <1>1, <1>2, <2>1, <3>1 DEF PairInv
  <2>2. CASE q < p
    <3>1. KeysInv(q, p)'
      BY <1>2, <1>3, <1>4, <1>5, <2>2, OtherSide DEF PairInv, KeysInv, With, Detaching
    <3> QED BY <1>1, <1>2, <2>2, <3>1 DEF PairInv
  <2> QED BY <1>2, <2>1, <2>2
<1> QED BY <1>2, <1>6, <1>7, <1>8, OnlyOnePair

\* Nothing about the instances changes while the keys and the instances stay.
LEMMA InstancesStay ==
    ASSUME TypeOK, ProcsInv, PairsInv, NEW p \in Procs, NEW q \in Peers(p), Acts(p, q),
           UNCHANGED <<startedKey, instance>>, attached'[p][q] = attached[p][q],
           attached[p][q] > 0 /\ Leaving(p, q) => Leaving(p, q)'
    PROVE  /\ p < q => InstancesInv(p, q)'
           /\ q < p => InstancesInv(q, p)'
<1>1. q \in Procs /\ PairInv(p, q)
  BY PairOf DEF Peers
<1>2. Key(p, q)' = Key(p, q)
  BY DEF Key, Slot
<1>3. (Bare(p, q)' <=> Bare(p, q)) /\ (Ready(p, q)' <=> Ready(p, q))
  BY DEF Bare, Ready
<1> QED BY <1>1, <1>2, <1>3, OtherSide DEF PairInv, InstancesInv

LEMMA SyncStartStep ==
    ASSUME TypeOK, TypeOK', ProcsInv, PairsInv, NEW p \in Procs, SyncStart(p)
    PROVE  ProcsInv' /\ PairsInv'
<1>1. /\ remote[p] \in Peers(p) /\ Acts(p, remote[p]) /\ pc[p] = "sync" /\ ControlInv(p)
      /\ UNCHANGED <<startedKey, attached, instance>>
  BY LinkedActs DEF SyncStart, ProcsInv, shared
<1>2. CASE AttachNotReady(p)
  <2>1. Retreats(p)
    BY <1>1, <1>2, NotReadyRetreats DEF Attaching
  <2> QED BY <1>1, <2>1, RetreatStep DEF Attaching
<1>3. CASE ~ AttachNotReady(p)
  <2>1. /\ Goto(p, "open") /\ UNCHANGED remote
        /\ Key(remote[p], p) = (IF p < remote[p] THEN "start" ELSE "finish")
    BY <1>3 DEF SyncStart
  <2>2. pc'[p] = "open"
    BY <2>1 DEF Goto, TypeOK
  <2>3. StageInv(p)' /\ Bare(p, p)'
    BY <1>1, <2>2 DEF StageInv, ControlInv, Bare
  <2>4. attached[p][remote[p]] = 0
    BY <1>1 DEF ControlInv, Attaching
  <2>5. InstancesInv(p, remote[p])' \/ remote[p] < p
    BY <1>1, <2>1, <2>4, InstancesStay, IpcAssumption DEF Peers, Procs
  <2>6. InstancesInv(remote[p], p)' \/ p < remote[p]
    BY <1>1, <2>1, <2>4, InstancesStay, IpcAssumption DEF Peers, Procs
  <2> QED BY <1>1, <2>1, <2>3, <2>5, <2>6, StaysStep
<1> QED BY <1>2, <1>3

LEMMA OpenStep ==
    ASSUME TypeOK, TypeOK', ProcsInv, PairsInv, NEW p \in Procs, Open(p)
    PROVE  ProcsInv' /\ PairsInv'
<1>1. /\ remote[p] \in Peers(p) /\ Acts(p, remote[p]) /\ pc[p] = "open" /\ ControlInv(p)
      /\ UNCHANGED <<startedKey, remote, attached, instance>> /\ Goto(p, "stage")
  BY LinkedActs DEF Open, ProcsInv, shared
<1>2. pc'[p] = "stage" /\ stage'[p] = 1
  BY DEF Open, Goto, TypeOK
<1>3. StageInv(p)' /\ Bare(p, p)'
  <2>1. Len(Stages) \in Nat /\ Len(Stages) >= 1
    BY IpcAssumption
  <2> QED BY <1>1, <1>2, <2>1 DEF StageInv, ControlInv, Bare
<1>4. attached[p][remote[p]] = 0
  BY <1>1 DEF ControlInv, Attaching
<1>5. Key(remote[p], p) = (IF p < remote[p] THEN "start" ELSE "finish")
  <2>1. PairInv(p, remote[p])
    BY <1>1, PairOf
  <2> QED BY <1>1, <2>1, IpcAssumption DEF PairInv, KeysInv, With, Peers, Procs
<1>6. InstancesInv(p, remote[p])' \/ remote[p] < p
  BY <1>1, <1>4, InstancesStay, IpcAssumption DEF Peers, Procs
<1>7. InstancesInv(remote[p], p)' \/ p < remote[p]
  BY <1>1, <1>4, InstancesStay, IpcAssumption DEF Peers, Procs
<1> QED BY <1>1, <1>3, <1>5, <1>6, <1>7, StaysStep

\* One more instance: whatever the side, it is the one at stage[p].
LEMMA AttachStageStep ==
    ASSUME TypeOK, TypeOK', ProcsInv, PairsInv, MemoryInv, NEW p \in Procs, AttachStage(p)
    PROVE  ProcsInv' /\ PairsInv'
<1>1. /\ remote[p] \in Peers(p) /\ Acts(p, remote[p]) /\ pc[p] = "stage" /\ ControlInv(p)
      /\ StageInv(p) /\ UNCHANGED <<startedKey, attached>>
  BY LinkedActs DEF AttachStage, ProcsInv, bounds
<1>2. CASE AttachFails(p) /\ UNCHANGED instance
  <2>1. Retreats(p)
    BY <1>1, <1>2, FailureRetreats DEF Attaching
  <2> QED BY <1>1, <1>2, <2>1, RetreatStep DEF Attaching
<1>3. CASE NextStage(p)
  <2>1. PICK q, k, n, c : /\ q = remote[p] /\ n = stage[p] /\ k = Stages[n]
                          /\ c = instance'[p][q][k]
    OBVIOUS
  <2>2. /\ q \in Peers(p) /\ q \in Procs /\ p # q /\ remote'[p] = q
        /\ n \in 1 .. Len(Stages) /\ k \in Kinds /\ Len(Stages) \in Nat
        /\ p < q \/ q < p
        /\ p < q => ~ (q < p)
    BY <1>1, <1>3, <2>1, IpcAssumption DEF Peers, Procs, StageInv, NextStage, Kinds
  <2>3. PairInv(p, q)
    BY <2>2, PairOf
  <2>4. /\ c \in Blocks /\ \A j \in Kinds \ {k} : instance'[p][q][j] = instance[p][q][j]
        /\ q < p => c = instance[q][p][k]
    <3>1. PICK g : g = instance'
      OBVIOUS
    <3>2. CASE instance[p][q][k] # Null /\ instance' = instance
      <4>1. instance[p][q][k] \in Blocks
        <5>1. instance[p][q] \in [Kinds -> Blocks \cup {Null}]
          BY <2>2 DEF TypeOK
        <5> QED BY <2>2, <3>2, <5>1
      <4>2. q < p => instance[p][q][k] = instance[q][p][k]
        BY <2>2, <2>3, <3>2 DEF PairInv, InstancesInv
      <4> QED BY <2>1, <3>2, <4>1, <4>2
    <3>3. CASE /\ instance[p][q][k] = Null /\ p < q /\ free # {}
               /\ g = [instance EXCEPT ![p][q][k] = Lowest(free)]
      <4>1. Lowest(free) \in Blocks
        <5>1. free \subseteq Blocks /\ free \in SUBSET Nat
          BY DEF TypeOK, Blocks
        <5> QED BY <3>3, <5>1, LowestMember
      <4>2. PICK b : b = Lowest(free)
        OBVIOUS
      <4>3. b \in Blocks \cup {Null} /\ g = [instance EXCEPT ![p][q][k] = b]
        BY <3>3, <4>1, <4>2
      <4>4. g[p][q][k] = b /\ \A j \in Kinds \ {k} : g[p][q][j] = instance[p][q][j]
        BY <2>2, <4>3, InstanceUpdate
      <4> QED BY <2>1, <2>2, <3>1, <3>3, <4>1, <4>2, <4>4
    <3>4. CASE /\ instance[p][q][k] = Null /\ q < p
               /\ g = [instance EXCEPT ![p][q][k] = SharedAt(p, q, k)]
      <4>1. PICK b : b = SharedAt(p, q, k)
        OBVIOUS
      <4>2. b \in Blocks \cup {Null} /\ g = [instance EXCEPT ![p][q][k] = b]
        BY <2>2, <3>4, <4>1, SharedAtTyped
      <4>3. g[p][q][k] = b /\ \A j \in Kinds \ {k} : g[p][q][j] = instance[p][q][j]
        BY <2>2, <4>2, InstanceUpdate
      <4>4. instance[q][p][k] # Null
        <5>1. Ready(q, p)
          BY <1>1, <2>1, <2>2, <2>3, <3>4 DEF PairInv, KeysInv, InstancesInv, With
        <5> QED BY <2>2, <5>1 DEF Ready
      <4>5. b = instance[q][p][k] /\ b \in Blocks
        <5>1. instance[q][p][k] = srPtr[q][Slot(q, p)][k]
          BY <2>2, <3>4, <4>4 DEF MemoryInv
        <5>2. SharedAt(p, q, k) = srPtr[q][Slot(q, p)][k]
          BY <2>2, <3>4, SharedAtSlave
        <5> QED BY <4>1, <4>2, <4>4, <5>1, <5>2
      <4> QED BY <2>1, <3>1, <4>3, <4>5
    <3>5. \/ instance[p][q][k] # Null /\ instance' = instance
          \/ /\ instance[p][q][k] = Null /\ p < q /\ free # {}
             /\ g = [instance EXCEPT ![p][q][k] = Lowest(free)]
          \/ /\ instance[p][q][k] = Null /\ q < p
             /\ g = [instance EXCEPT ![p][q][k] = SharedAt(p, q, k)]
          \/ AttachFails(p)
      BY <2>1, <3>1 DEF AttachStage
    <3>6. ~ AttachFails(p)
      <4>1. AttachFails(p) => Retreats(p)
        BY <1>1, FailureRetreats DEF Attaching
      <4>2. NextStage(p) => pc'[p] \in {"user", "stage"}
        BY DEF NextStage, Goto, TypeOK
      <4>3. Retreats(p) => pc'[p] \in {"attach", "gaveUp"}
        BY DEF Retreats, Moved, TypeOK
      <4> QED BY <1>3, <4>1, <4>2, <4>3
    <3> QED BY <3>2, <3>3, <3>4, <3>5, <3>6
  <2>5. /\ Goto(p, IF n = Len(Stages) THEN "user" ELSE "stage")
        /\ pc'[p] = IF n = Len(Stages) THEN "user" ELSE "stage"
        /\ stage'[p] = n + 1 /\ c # Null
    BY <1>3, <2>1, <2>4, IpcAssumption DEF NextStage, Goto, TypeOK
  <2>6. StageInv(p)'
    <3>1. \A i \in 1 .. Len(Stages) : i < n + 1 => instance'[p][q][Stages[i]] # Null
      <4>1. ASSUME NEW i \in 1 .. Len(Stages), i < n + 1 PROVE instance'[p][q][Stages[i]] # Null
        <5>1. CASE Stages[i] = k
          BY <2>1, <2>5, <5>1
        <5>2. CASE Stages[i] # k
          <6>1. i < n
            BY <2>1, <2>2, <4>1, <5>2
          <6>2. instance[p][q][Stages[i]] # Null
            BY <1>1, <2>1, <6>1 DEF StageInv
          <6>3. Stages[i] \in Kinds
            BY IpcAssumption DEF Kinds
          <6> QED BY <2>4, <5>2, <6>2, <6>3
        <5> QED BY <5>1, <5>2
      <4> QED BY <4>1
    <3>2. CASE n = Len(Stages)
      <4>1. ASSUME NEW j \in Kinds PROVE instance'[p][q][j] # Null
        <5>1. PICK i \in 1 .. Len(Stages) : j = Stages[i]
          BY IpcAssumption DEF Kinds
        <5> QED BY <2>2, <3>1, <3>2, <5>1
      <4> QED BY <2>2, <2>5, <3>2, <4>1 DEF StageInv, Ready
    <3>3. CASE n # Len(Stages)
      BY <2>2, <2>5, <3>1, <3>3 DEF StageInv
    <3> QED BY <3>2, <3>3
  <2>7. Bare(p, p)'
    BY <1>1, <2>1, <2>2 DEF Acts, ControlInv, Bare
  <2>8. /\ Key(q, p) = IF p < q THEN "start" ELSE "finish"
        /\ Key(p, q) = "start" /\ attached[p][q] = 0
    BY <1>1, <2>1, <2>2, <2>3 DEF PairInv, KeysInv, With, ControlInv, Attaching
  <2>9. Key(p, q)' = "start" /\ Key(q, p)' = Key(q, p)
    BY <1>1, <2>8 DEF Key, Slot
  <2>10. p < q => InstancesInv(p, q)'
    <3>1. ASSUME p < q PROVE Bare(q, p) /\ attached[q][p] = 0
      <4>1. attached[q][p] \in Nat
        BY <2>2, AttachedTyped
      <4> QED BY <2>2, <2>3, <2>8, <3>1, <4>1 DEF PairInv, KeysInv, InstancesInv
    <3>2. p < q => Bare(q, p)' /\ attached'[q][p] = 0
      BY <1>1, <2>1, <2>2, <3>1, OtherSide
    <3> QED BY <2>8, <2>9, <3>2 DEF InstancesInv, IdleKeys, Bare
  <2>11. q < p => InstancesInv(q, p)'
    <3>1. q < p => Ready(q, p)'
      BY <1>1, <2>1, <2>2, <2>3, <2>8, OtherSide DEF PairInv, InstancesInv
    <3>2. attached'[p][q] = 0
      BY <1>1, <2>8
    <3>3. instance'[q] = instance[q]
      BY <1>1, <2>1, OtherSide
    <3>4. q < p => \A j \in Kinds : instance'[p][q][j] \in {Null, instance'[q][p][j]}
      BY <2>1, <2>2, <2>3, <2>4, <3>3 DEF PairInv, InstancesInv
    <3> QED BY <2>2, <2>8, <2>9, <3>1, <3>2, <3>4 DEF InstancesInv, IdleKeys
  <2>12. /\ pc[p] \in {"sync", "open", "stage"} /\ UNCHANGED <<startedKey, remote, attached>>
         /\ Key(remote[p], p) = (IF p < remote[p] THEN "start" ELSE "finish")
    BY <1>1, <1>3, <2>1, <2>8 DEF NextStage
  <2>13. /\ InstancesInv(p, remote[p])' \/ remote[p] < p
         /\ InstancesInv(remote[p], p)' \/ p < remote[p]
    BY <2>1, <2>2, <2>10, <2>11, <2>12
  <2> QED BY <1>1, <2>5, <2>6, <2>7, <2>12, <2>13, StaysStep
<1> QED BY <1>1, <1>2, <1>3 DEF AttachStage

\* Ipc_attach returns with success.
LEMMA AttachedProc ==
    ASSUME TypeOK, NEW p \in Procs, NEW q \in Peers(p), ProcInv(p), Acts(p, q), remote[p] = q,
           pc[p] \in {"user", "spin"}, Attached(p, q), Key(p, q)' = "finish"
    PROVE  /\ ProcInv(p)' /\ pc'[p] \in {"up", "attach"} /\ attached'[p][q] > 0
<1>1. Attaches(p)
  BY AttachedMoves
<1>2. /\ q \in Procs /\ p # q /\ attached[p][q] = 0
      /\ \A y \in Procs : attached[p][y] \in Nat
  BY AttachedTyped DEF Peers, ProcInv, ControlInv, Attaching
<1>3. attached'[p][q] = 1 /\ \A y \in Procs \ {q} : attached'[p][y] = attached[p][y]
  <2>1. attached' = [attached EXCEPT ![p][q] = attached[p][q] + 1]
    BY DEF Attached
  <2> QED BY <1>2, <2>1 DEF TypeOK, Acts
<1>4. /\ \A y \in Peers(p) \ {q} : Key(p, y)' = Key(p, y)
      /\ instance'[p][p] = instance[p][p]
  BY <1>2 DEF Acts
<1>5. \/ pc'[p] = "up" /\ \A r \in Peers(p) : r # q => attached[p][r] # 0
      \/ pc'[p] = "attach" /\ remote'[p] \in Peers(p) \ {q} /\ attached[p][remote'[p]] = 0
  BY <1>1 DEF Attaches, Moved, TypeOK
<1>6. ControlInv(p)'
  BY <1>2, <1>3, <1>4, <1>5
     DEF ProcInv, ControlInv, Attaching, Detaching, Outside, Peers, Bare
<1>7. StageInv(p)'
  BY <1>5 DEF StageInv
<1>8. ASSUME p # 0 PROVE OwnerFirst(p)'
  <2>1. 0 \in Procs
    BY IpcAssumption DEF Procs
  <2> QED BY <1>2, <1>3, <1>4, <1>5, <1>8, <2>1
          DEF ProcInv, OwnerFirst, Attaching, Detaching, With, Peers
<1> QED BY <1>3, <1>5, <1>6, <1>7, <1>8 DEF ProcInv

LEMMA AttachUserStep ==
    ASSUME TypeOK, TypeOK', ProcsInv, PairsInv, NEW p \in Procs, AttachUser(p)
    PROVE  ProcsInv' /\ PairsInv'
<1>1. PICK q : q = remote[p]
  OBVIOUS
<1>2. /\ q \in Peers(p) /\ q \in Procs /\ p # q /\ Acts(p, q) /\ remote[p] = q
      /\ p < q => ~ (q < p)
      /\ p < q \/ q < p
  BY <1>1, LinkedActs, IpcAssumption DEF Peers, Procs
<1>3. PairInv(p, q) /\ ProcInv(p) /\ pc[p] = "user" /\ instance' = instance
  BY <1>2, PairOf DEF AttachUser
<1>4. /\ attached[p][q] = 0 /\ Ready(p, q)
      /\ Key(p, q) = "start" /\ Key(q, p) = IF p < q THEN "start" ELSE "finish"
  BY <1>2, <1>3 DEF ProcInv, ControlInv, StageInv, PairInv, KeysInv, With, Attaching
<1>5. CASE AttachFails(p) /\ UNCHANGED <<startedKey, attached>>
  <2>1. Retreats(p)
    BY <1>3, <1>5, FailureRetreats DEF Attaching, ProcInv
  <2> QED BY <1>1, <1>2, <1>3, <1>5, <2>1, RetreatStep DEF Attaching
<1>6. CASE SetKey(p, q, "finish")
  <2>1. Key(p, q)' = "finish" /\ \A y \in Peers(p) \ {q} : Key(p, y)' = Key(p, y)
    BY <1>2, <1>6, SetKeySound
  <2>2. (Ready(p, q)' <=> Ready(p, q)) /\ \A y : Bare(p, y)' <=> Bare(p, y)
    BY <1>3 DEF Ready, Bare
  <2>3. CASE p < q /\ Goto(p, "spin") /\ UNCHANGED <<attached, remote>>
    <3>1. pc'[p] = "spin" /\ remote'[p] = q /\ attached' = attached
      BY <1>2, <2>3 DEF Goto, TypeOK
    <3>2. StepOf(p, q)
      BY <1>2, <1>3, <3>1, ActsStep DEF Leavers, Detaching
    <3>3. ControlInv(p)'
      BY <1>2, <1>3, <2>2, <2>3, <3>1 DEF ProcInv, ControlInv, Attaching, Detaching, Outside
    <3>4. StageInv(p)'
      BY <3>1 DEF StageInv
    <3>5. p # 0 => OwnerFirst(p)'
      BY <1>2, <1>3, <2>1, <3>1 DEF ProcInv, OwnerFirst, Attaching, Detaching, With, Peers
    <3>6. KeysInv(p, q)'
      BY <1>2, <1>3, <1>4, <2>1, <2>3, <3>1, OtherSide DEF PairInv, KeysInv, With, Detaching
    <3>7. InstancesInv(p, q)'
      BY <1>2, <1>3, <1>4, <2>1, <2>2, <2>3, <3>1, OtherSide DEF PairInv, InstancesInv, IdleKeys
    <3>8. PairInv(p, q)' /\ ProcInv(p)'
      BY <1>2, <2>3, <3>3, <3>4, <3>5, <3>6, <3>7 DEF PairInv, ProcInv
    <3> QED BY <1>2, <3>2, <3>8, OnlyOnePair
  <2>4. CASE q < p /\ Attached(p, q)
    <3>1. ProcInv(p)' /\ pc'[p] \in {"up", "attach"} /\ attached'[p][q] > 0
      BY <1>2, <1>3, <2>1, <2>4, AttachedProc
    <3>2. StepOf(p, q)
      BY <1>2, <1>3, <3>1, ActsStep DEF Leavers, Detaching
    <3>3. KeysInv(q, p)'
      BY <1>2, <1>3, <1>4, <2>1, <2>4, <3>1, OtherSide DEF PairInv, KeysInv, With, Detaching
    <3>4. InstancesInv(q, p)'
      BY <1>2, <1>3, <1>4, <2>1, <2>2, <2>4, <3>1, OtherSide DEF PairInv, InstancesInv, IdleKeys
    <3>5. PairInv(p, q)'
      BY <1>2, <2>4, <3>3, <3>4 DEF PairInv
    <3> QED BY <1>2, <3>1, <3>2, <3>5, OnlyOnePair
  <2>5. \/ p < q /\ Goto(p, "spin") /\ UNCHANGED <<attached, remote>>
        \/ q < p /\ Attached(p, q)
        \/ AttachFails(p) /\ UNCHANGED <<startedKey, attached>>
    BY <1>1 DEF AttachUser
  <2> QED BY <1>5, <2>3, <2>4, <2>5
<1> QED BY <1>1, <1>5, <1>6 DEF AttachUser

LEMMA SyncFinishStep ==
    ASSUME TypeOK, TypeOK', ProcsInv, PairsInv, NEW p \in Procs, SyncFinish(p)
    PROVE  ProcsInv' /\ PairsInv'
<1>1. PICK q : q = remote[p]
  OBVIOUS
<1>2. /\ q \in Peers(p) /\ q \in Procs /\ p # q /\ Acts(p, q) /\ remote[p] = q
      /\ p < q => ~ (q < p)
  BY <1>1, LinkedActs, IpcAssumption DEF Peers, Procs
<1>3. /\ PairInv(p, q) /\ ProcInv(p) /\ pc[p] = "spin" /\ instance' = instance /\ Attached(p, q)
      /\ startedKey' = startedKey /\ Key(q, p) \in {"finish", "detach"}
  BY <1>1, <1>2, PairOf DEF SyncFinish, shared
<1>4. p < q /\ Key(p, q) = "finish"
  BY <1>2, <1>3 DEF ProcInv, ControlInv, PairInv, KeysInv, With
<1>5. Key(p, q)' = "finish"
  BY <1>3, <1>4 DEF Key, Slot
<1>6. (Ready(p, q)' <=> Ready(p, q)) /\ (Bare(p, q)' <=> Bare(p, q))
  BY <1>3 DEF Ready, Bare
<1>7. ProcInv(p)' /\ pc'[p] \in {"up", "attach"} /\ attached'[p][q] > 0
  BY <1>2, <1>3, <1>5, AttachedProc
<1>8. StepOf(p, q)
  BY <1>2, <1>3, <1>7, ActsStep DEF Leavers, Detaching
<1>9. KeysInv(p, q)'
  BY <1>2, <1>3, <1>4, <1>5, <1>7, OtherSide DEF PairInv, KeysInv, With, Detaching
<1>10. InstancesInv(p, q)'
  BY <1>2, <1>3, <1>4, <1>5, <1>6, <1>7, OtherSide DEF PairInv, InstancesInv, IdleKeys
<1>11. PairInv(p, q)'
  BY <1>2, <1>4, <1>9, <1>10 DEF PairInv
<1> QED BY <1>2, <1>7, <1>8, <1>11, OnlyOnePair

\* A call of Ipc_detach that is not made, or returns too early.
LEMMA BackOffStep ==
    ASSUME TypeOK, TypeOK', ProcsInv, PairsInv, NEW p \in Procs, NEW q \in Peers(p), Acts(p, q),
           remote[p] = q, pc[p] \in Leavers, pc'[p] = "detach", remote'[p] \in Peers(p),
           UNCHANGED <<startedKey, instance>>, attached'[p][q] > 0, attached[p][q] > 0,
           pc[p] # "detach" => failures' > 0
    PROVE  ProcsInv' /\ PairsInv'
<1>1. q \in Procs /\ p # q /\ 0 \in Procs /\ (p < q => ~ (q < p)) /\ (p < q \/ q < p)
  BY IpcAssumption DEF Peers, Procs
<1>2. PairInv(p, q) /\ ProcInv(p)
  BY PairOf
<1>3. \A y \in Procs : Key(p, y)' = Key(p, y)
  BY DEF Key, Slot
<1>4. /\ \A y : Bare(p, y)' <=> Bare(p, y)
      /\ \A y : Ready(p, y)' <=> Ready(p, y)
  BY DEF Bare, Ready
<1>5. /\ \A y \in Procs : attached'[p][y] > 0 <=> attached[p][y] > 0
      /\ attached'[p][p] = attached[p][p]
  BY <1>1 DEF Acts
<1>6. StepOf(p, q)
  BY ActsStep DEF Leavers
<1>7. ProcInv(p)'
  <2>1. ControlInv(p)'
    BY <1>2, <1>3, <1>4, <1>5
       DEF ProcInv, ControlInv, Attaching, Detaching, Outside, Peers, Leavers
  <2>2. StageInv(p)'
    BY DEF StageInv
  <2>3. p # 0 => OwnerFirst(p)'
    BY <1>1, <1>2, <1>3, <1>5 DEF ProcInv, OwnerFirst, Attaching, Detaching, With, Peers
  <2> QED BY <2>1, <2>2, <2>3 DEF ProcInv
<1>8. Leaving(p, q) => Leaving(p, q)'
  <2>1. failures > 0 => failures' > 0
    BY IpcAssumption DEF Acts, TypeOK
  <2> QED BY <2>1 DEF Leaving
<1>9. ~ With(p, q, {"starting", "sync", "open", "stage", "user", "spin"})
  BY DEF With, Leavers, Detaching
<1>10. PairInv(p, q)'
  <2>1. CASE p < q
    <3>1. KeysInv(p, q)'
      BY <1>1, <1>2, <1>3, <1>5, <1>9, <2>1, OtherSide DEF PairInv, KeysInv, With, Detaching
    <3>2. InstancesInv(p, q)'
      BY <1>1, <1>2, <1>3, <1>4, <2>1, OtherSide DEF PairInv, InstancesInv, IdleKeys
    <3> QED BY <1>1, <2>1, <3>1, <3>2 DEF PairInv
  <2>2. CASE q < p
    <3>1. KeysInv(q, p)'
      BY <1>1, <1>2, <1>3, <1>5, <1>9, <2>2, OtherSide DEF PairInv, KeysInv, With, Detaching
    <3>2. InstancesInv(q, p)'
      <4>1. Ready(p, q)' \/ Leaving(p, q)'
        BY <1>1, <1>2, <1>4, <1>8, <2>2 DEF PairInv, InstancesInv
      <4> QED BY <1>1, <1>2, <1>3, <1>4, <2>2, <4>1, OtherSide DEF PairInv, InstancesInv, IdleKeys
    <3> QED BY <1>1, <2>2, <3>1, <3>2 DEF PairInv
  <2> QED BY <1>1, <2>1, <2>2
<1> QED BY <1>6, <1>7, <1>10, OnlyOnePair

\* Where the processor is that gives up a call of Ipc_detach.
LEMMA BackOffMoves ==
    ASSUME TypeOK, NEW p \in Procs, NEW q \in Peers(p), attached[p][q] > 0,
           DetachFrom(p, Known(p), q)
    PROVE  pc'[p] = "detach" /\ remote'[p] \in Peers(p)
<1>1. Known(p) \in SUBSET Peers(p) /\ q \in Known(p) /\ q \in Procs
  BY DEF Known, Peers
<1>2. \E r \in Known(p) : Moved(p, "detach", r)
  BY <1>1, DetachFromMoves
<1> QED BY <1>1, <1>2 DEF Moved, TypeOK

\* What Ipc_detach does without a key: it goes on with the same processor.
LEMMA GoesOnStep ==
    ASSUME TypeOK, TypeOK', ProcsInv, PairsInv, NEW p \in Procs, NEW q \in Peers(p), Acts(p, q),
           remote[p] = q, pc[p] \in Leavers, NEW l \in Detaching, Goto(p, l),
           UNCHANGED <<startedKey, remote, attached>>, attached[p][q] = 1,
           pc[p] = "detach" => /\ p < q => Key(q, p) = "detach"
                               /\ q = 0 => \A y \in Peers(p) \ {0} : attached[p][y] = 0,
           StageInv(p)', p < q => InstancesInv(p, q)', q < p => InstancesInv(q, p)'
    PROVE  ProcsInv' /\ PairsInv'
<1>1. q \in Procs /\ p # q /\ 0 \in Procs /\ (p < q => ~ (q < p)) /\ (p < q \/ q < p)
  BY IpcAssumption DEF Peers, Procs
<1>2. PairInv(p, q) /\ ProcInv(p) /\ pc'[p] = l /\ remote'[p] = q
  BY PairOf DEF Goto, TypeOK
<1>3. \A y \in Procs : Key(p, y)' = Key(p, y)
  BY DEF Key, Slot
<1>4. instance'[p][p] = instance[p][p]
  BY <1>1 DEF Acts
<1>5. StepOf(p, q)
  BY <1>2, ActsStep DEF Leavers
<1>6. ProcInv(p)'
  <2>1. ControlInv(p)'
    BY <1>1, <1>2, <1>3, <1>4
       DEF ProcInv, ControlInv, Attaching, Detaching, Outside, Peers, Leavers, Bare
  <2>2. ASSUME p # 0 PROVE OwnerFirst(p)'
    <3>1. q = 0 => \A y \in Peers(p) \ {0} : attached[p][y] = 0
      BY <1>2, <2>2 DEF ProcInv, OwnerFirst, With, Leavers
    <3> QED BY <1>1, <1>2, <1>3, <2>2, <3>1
            DEF ProcInv, OwnerFirst, Attaching, Detaching, With, Peers
  <2> QED BY <2>1, <2>2 DEF ProcInv
<1>7. ~ With(p, q, {"starting", "sync", "open", "stage", "user", "spin"})
  BY DEF With, Leavers, Detaching
<1>8. p < q => Key(q, p) = "detach"
  BY <1>2 DEF PairInv, KeysInv, With, Leavers
<1>9. PairInv(p, q)'
  <2>1. CASE p < q
    <3>1. KeysInv(p, q)'
      BY <1>1, <1>2, <1>3, <1>7, <1>8, <2>1, OtherSide DEF PairInv, KeysInv, With, Detaching
    <3> QED BY <1>1, <2>1, <3>1 DEF PairInv
  <2>2. CASE q < p
    <3>1. KeysInv(q, p)'
      BY <1>1, <1>2, <1>3, <1>7, <2>2, OtherSide DEF PairInv, KeysInv, With, Detaching
    <3> QED BY <1>1, <2>2, <3>1 DEF PairInv
  <2> QED BY <1>1, <2>1, <2>2
<1> QED BY <1>5, <1>6, <1>9, OnlyOnePair

LEMMA DetachCallStep ==
    ASSUME TypeOK, TypeOK', ProcsInv, PairsInv, LowestOwns, NEW p \in Procs, DetachCall(p)
    PROVE  ProcsInv' /\ PairsInv'
<1>1. PICK q : q = remote[p]
  OBVIOUS
<1>2. /\ q \in Peers(p) /\ q \in Procs /\ p # q /\ Acts(p, q) /\ remote[p] = q
      /\ pc[p] = "detach" /\ pc[p] \in Leavers
  BY <1>1, LinkedActs DEF Peers, DetachCall, Leavers
<1>3. UNCHANGED <<startedKey, instance, stage>> /\ attached[p][q] \in Nat
  BY <1>2, AttachedTyped DEF DetachCall, shared
<1>4. CASE attached[p][q] > 1 /\ attached' = [attached EXCEPT ![p][q] = attached[p][q] - 1]
           /\ UNCHANGED <<pc, remote>>
  <2>1. attached'[p][q] = attached[p][q] - 1
    BY <1>2, <1>4 DEF TypeOK
  <2> QED BY <1>2, <1>3, <1>4, <2>1, BackOffStep
<1>5. CASE attached[p][q] = 1 /\ attached' = attached /\ DetachFrom(p, Known(p), q)
  <2>1. pc'[p] = "detach" /\ remote'[p] \in Peers(p)
    BY <1>2, <1>5, BackOffMoves
  <2> QED BY <1>2, <1>3, <1>5, <2>1, BackOffStep
<1>6. CASE /\ attached[p][q] = 1 /\ attached' = attached
           /\ (q = Owner => Known(p) = {q}) /\ DetachReady(p, q)
           /\ Goto(p, "unuser") /\ UNCHANGED remote
  <2>1. pc'[p] = "unuser"
    BY <1>6 DEF Goto, TypeOK
  <2>2. StageInv(p)'
    BY <2>1 DEF StageInv
  <2>3. ASSUME q = 0, NEW y \in Peers(p) \ {0} PROVE attached[p][y] = 0
    <3>1. attached[p][y] \in Nat
      BY AttachedTyped DEF Peers
    <3> QED BY <1>6, <2>3, <3>1 DEF LowestOwns, Known
  <2>4. p < q => Key(q, p) = "detach"
    BY <1>6 DEF DetachReady
  <2>5. Leaving(p, q) => Leaving(p, q)'
    BY <1>2, <2>1 DEF Leaving, DetachCall
  <2>6. (p < q => InstancesInv(p, q)') /\ (q < p => InstancesInv(q, p)')
    BY <1>2, <1>3, <1>6, <2>5, InstancesStay
  <2> QED BY <1>2, <1>3, <1>6, <2>2, <2>3, <2>4, <2>6, GoesOnStep DEF Detaching
<1> QED BY <1>1, <1>4, <1>5, <1>6 DEF DetachCall

LEMMA DetachUserStep ==
    ASSUME TypeOK, TypeOK', ProcsInv, PairsInv, NEW p \in Procs, DetachUser(p)
    PROVE  ProcsInv' /\ PairsInv'
<1>1. PICK q : q = remote[p]
  OBVIOUS
<1>2. /\ q \in Peers(p) /\ q \in Procs /\ p # q /\ Acts(p, q) /\ remote[p] = q
      /\ pc[p] = "unuser" /\ pc[p] \in Leavers
      /\ UNCHANGED <<startedKey, attached, instance>>
  BY <1>1, LinkedActs DEF Peers, DetachUser, Leavers, Detaching, shared
<1>3. attached[p][q] = 1
  BY <1>2 DEF ProcsInv, ControlInv, Detaching
<1>4. CASE Fail /\ DetachFrom(p, Known(p), q)
  <2>1. pc'[p] = "detach" /\ remote'[p] \in Peers(p)
    BY <1>2, <1>3, <1>4, BackOffMoves
  <2>2. failures' > 0
    BY <1>4, IpcAssumption DEF Fail, TypeOK
  <2> QED BY <1>2, <1>3, <2>1, <2>2, BackOffStep
<1>5. CASE Goto(p, "unstage") /\ stage' = [stage EXCEPT ![p] = Len(Stages)] /\ UNCHANGED remote
  <2>1. pc'[p] = "unstage" /\ stage'[p] = Len(Stages) /\ remote'[p] = q
    BY <1>2, <1>5 DEF Goto, TypeOK
  <2>2. StageInv(p)'
    <3>1. Len(Stages) \in Nat /\ Len(Stages) >= 1
      BY IpcAssumption
    <3> QED BY <2>1, <3>1 DEF StageInv
  <2>3. Leaving(p, q)'
    BY <2>1 DEF Leaving
  <2>4. (p < q => InstancesInv(p, q)') /\ (q < p => InstancesInv(q, p)')
    BY <1>2, <2>3, InstancesStay
  <2> QED BY <1>2, <1>3, <1>5, <2>2, <2>4, GoesOnStep DEF Detaching
<1> QED BY <1>1, <1>4, <1>5 DEF DetachUser

LEMMA CloseStep ==
    ASSUME TypeOK, TypeOK', ProcsInv, PairsInv, NEW p \in Procs, Close(p)
    PROVE  ProcsInv' /\ PairsInv'
<1>1. PICK q : q = remote[p]
  OBVIOUS
<1>2. /\ q \in Peers(p) /\ q \in Procs /\ p # q /\ Acts(p, q) /\ remote[p] = q
      /\ pc[p] = "close" /\ pc[p] \in Leavers
      /\ UNCHANGED <<startedKey, remote, attached, instance>> /\ Goto(p, "key")
  BY <1>1, LinkedActs DEF Peers, Close, Leavers, Detaching, shared
<1>3. attached[p][q] = 1 /\ pc'[p] = "key" /\ remote'[p] = q
  BY <1>2 DEF ProcsInv, ControlInv, Detaching, Goto, TypeOK
<1>4. StageInv(p)'
  <2>1. Bare(p, q)
    BY <1>2 DEF ProcsInv, StageInv
  <2> QED BY <1>2, <1>3, <2>1 DEF StageInv, Bare
<1>5. Leaving(p, q)'
  BY <1>3 DEF Leaving
<1>6. (p < q => InstancesInv(p, q)') /\ (q < p => InstancesInv(q, p)')
  BY <1>2, <1>5, InstancesStay
<1> QED BY <1>2, <1>3, <1>4, <1>6, GoesOnStep DEF Detaching

LEMMA DetachStageStep ==
    ASSUME TypeOK, TypeOK', ProcsInv, PairsInv, NEW p \in Procs, DetachStage(p)
    PROVE  ProcsInv' /\ PairsInv'
<1>1. PICK q, k, n : q = remote[p] /\ n = stage[p] /\ k = Stages[n]
  OBVIOUS
<1>2. /\ q \in Peers(p) /\ q \in Procs /\ p # q /\ Acts(p, q) /\ remote[p] = q
      /\ pc[p] = "unstage" /\ pc[p] \in Leavers /\ UNCHANGED <<startedKey, attached>>
      /\ p < q => ~ (q < p)
  <2>1. q \in Peers(p) /\ Acts(p, q)
    BY <1>1, LinkedActs
  <2>2. q \in Procs /\ p # q /\ (p < q => ~ (q < p))
    BY <2>1, IpcAssumption DEF Peers, Procs
  <2>3. pc[p] = "unstage" /\ pc[p] \in Leavers /\ UNCHANGED <<startedKey, attached>>
    BY DEF DetachStage, Leavers, Detaching
  <2> QED BY <1>1, <2>1, <2>2, <2>3
<1>3. PairInv(p, q) /\ ProcInv(p) /\ attached[p][q] = 1
  BY <1>2, PairOf DEF ProcInv, ControlInv, Detaching
<1>4. n \in 1 .. Len(Stages) /\ k \in Kinds /\ Len(Stages) \in Nat
  BY <1>1, <1>2, <1>3, IpcAssumption DEF ProcInv, StageInv, Kinds
<1>5. CASE Fail /\ DetachFrom(p, Known(p), q) /\ UNCHANGED instance
  <2>1. pc'[p] = "detach" /\ remote'[p] \in Peers(p)
    BY <1>2, <1>3, <1>5, BackOffMoves
  <2>2. failures' > 0
    BY <1>5, IpcAssumption DEF Fail, TypeOK
  <2> QED BY <1>2, <1>3, <1>5, <2>1, <2>2, BackOffStep
<1>6. CASE /\ instance' = [instance EXCEPT ![p][q][k] = Null]
           /\ stage' = [stage EXCEPT ![p] = n - 1]
           /\ Goto(p, IF n = 1 THEN "close" ELSE "unstage") /\ UNCHANGED remote
  <2>1. /\ pc'[p] = IF n = 1 THEN "close" ELSE "unstage"
        /\ stage'[p] = n - 1 /\ remote'[p] = q
    BY <1>2, <1>6 DEF Goto, TypeOK
  <2>2. /\ instance'[p][q][k] = Null
        /\ \A j \in Kinds \ {k} : instance'[p][q][j] = instance[p][q][j]
    <3>1. PICK g, c : g = instance' /\ c = Null
      OBVIOUS
    <3>2. c \in Blocks \cup {Null} /\ g = [instance EXCEPT ![p][q][k] = c]
      BY <1>6, <3>1
    <3>3. g[p][q][k] = c /\ \A j \in Kinds \ {k} : g[p][q][j] = instance[p][q][j]
      BY <1>2, <1>4, <3>2, InstanceUpdate
    <3> QED BY <3>1, <3>3
  <2>3. StageInv(p)'
    <3>1. \A i \in 1 .. Len(Stages) : i > n - 1 => instance'[p][q][Stages[i]] = Null
      <4>1. ASSUME NEW i \in 1 .. Len(Stages), i > n - 1 PROVE instance'[p][q][Stages[i]] = Null
        <5>1. CASE Stages[i] = k
          BY <2>2, <5>1
        <5>2. CASE Stages[i] # k
          <6>1. i > n
            BY <1>1, <1>4, <4>1, <5>2
          <6>2. instance[p][q][Stages[i]] = Null
            BY <1>1, <1>2, <1>3, <6>1 DEF StageInv, ProcInv
          <6>3. Stages[i] \in Kinds
            BY IpcAssumption DEF Kinds
          <6> QED BY <2>2, <5>2, <6>2, <6>3
        <5> QED BY <5>1, <5>2
      <4> QED BY <4>1
    <3>2. CASE n = 1
      <4>1. ASSUME NEW j \in Kinds PROVE instance'[p][q][j] = Null
        <5>1. PICK i \in 1 .. Len(Stages) : j = Stages[i]
          BY IpcAssumption DEF Kinds
        <5> QED BY <1>4, <3>1, <3>2, <5>1
      <4> QED BY <2>1, <3>2, <4>1 DEF StageInv, Bare
    <3>3. CASE n # 1
      BY <1>4, <2>1, <3>1, <3>3 DEF StageInv
    <3> QED BY <3>2, <3>3
  <2>4. Key(p, q)' = Key(p, q) /\ Key(q, p)' = Key(q, p)
    BY <1>2 DEF Key, Slot
  <2>5. Key(p, q) = "finish"
    BY <1>2, <1>3, IpcAssumption DEF PairInv, KeysInv, Peers, Procs
  <2>6. p < q => InstancesInv(p, q)'
    <3>1. p < q => Key(q, p) = "detach"
      BY <1>2, <1>3 DEF PairInv, KeysInv, With, Detaching
    <3>2. p < q => Bare(q, p) /\ ~ (attached[q][p] > 0)
      BY <1>3, <3>1 DEF PairInv, KeysInv, InstancesInv
    <3>3. p < q => Bare(q, p)' /\ ~ (attached'[q][p] > 0)
      BY <1>2, <3>2, OtherSide
    <3> QED BY <2>4, <2>5, <3>1, <3>3 DEF InstancesInv, IdleKeys, Bare
  <2>7. q < p => InstancesInv(q, p)'
    <3>1. q < p => Key(q, p) = "finish" /\ Ready(q, p)
      BY <1>3, <2>5 DEF PairInv, KeysInv, InstancesInv
    <3>2. (Ready(q, p)' <=> Ready(q, p)) /\ instance'[q] = instance[q]
      BY <1>2, OtherSide
    <3>3. Leaving(p, q)'
      BY <2>1 DEF Leaving
    <3>4. q < p => \A j \in Kinds : instance'[p][q][j] \in {Null, instance'[q][p][j]}
      BY <1>3, <1>4, <2>2, <3>2 DEF PairInv, InstancesInv
    <3> QED BY <2>4, <2>5, <3>1, <3>2, <3>3, <3>4 DEF InstancesInv, IdleKeys
  <2>8. (IF n = 1 THEN "close" ELSE "unstage") \in Detaching
    BY DEF Detaching
  <2> QED BY <1>2, <1>3, <1>6, <2>3, <2>6, <2>7, <2>8, GoesOnStep
<1> QED BY <1>1, <1>5, <1>6 DEF DetachStage

\* Ipc_detach returns with success.
LEMMA DetachedStep ==
    ASSUME TypeOK, TypeOK', ProcsInv, PairsInv, NEW p \in Procs, Detached(p)
    PROVE  ProcsInv' /\ PairsInv'
<1>1. PICK q : q = remote[p]
  OBVIOUS
<1>2. /\ q \in Peers(p) /\ q \in Procs /\ p # q /\ Acts(p, q) /\ remote[p] = q
      /\ pc[p] = "key" /\ instance' = instance
      /\ p < q => ~ (q < p)
      /\ p < q \/ q < p
  <2>1. q \in Peers(p) /\ Acts(p, q)
    BY <1>1, LinkedActs
  <2>2. q \in Procs /\ p # q /\ (p < q => ~ (q < p)) /\ (p < q \/ q < p)
    BY <2>1, IpcAssumption DEF Peers, Procs
  <2> QED BY <1>1, <2>1, <2>2 DEF Detached
<1>3. PairInv(p, q) /\ ProcInv(p) /\ attached[p][q] = 1 /\ Bare(p, q)
  BY <1>2, PairOf DEF ProcInv, ControlInv, StageInv, Detaching
<1>4. Key(p, q)' = "detach" /\ \A y \in Peers(p) \ {q} : Key(p, y)' = Key(p, y)
  <2>1. SetKey(p, q, "detach")
    BY <1>1 DEF Detached
  <2> QED BY <1>2, <2>1, SetKeySound
<1>5. attached'[p][q] = 0 /\ \A y \in Procs \ {q} : attached'[p][y] = attached[p][y]
  <2>1. attached' = [attached EXCEPT ![p][q] = attached[p][q] - 1]
    BY <1>1 DEF Detached
  <2>2. attached'[p][q] = attached[p][q] - 1
    BY <1>2, <2>1 DEF TypeOK
  <2> QED BY <1>2, <1>3, <2>2 DEF Acts
<1>6. \/ pc'[p] = "down" /\ \A y \in Peers(p) \ {q} : attached[p][y] = 0
      \/ pc'[p] = "detach" /\ remote'[p] \in Peers(p)
  <2>1. PICK S : S = Known(p) \ {q}
    OBVIOUS
  <2>2. S \in SUBSET Peers(p) /\ DetachFrom(p, S, q)
    BY <1>1, <2>1 DEF Detached, Known
  <2>3. (S = {} /\ Moved(p, "down", Null)) \/ \E r \in S : Moved(p, "detach", r)
    BY <1>2, <2>2, DetachFromMoves
  <2>4. ASSUME S = {}, NEW y \in Peers(p) \ {q} PROVE attached[p][y] = 0
    <3>1. attached[p][y] \in Nat
      BY AttachedTyped DEF Peers
    <3> QED BY <2>1, <2>4, <3>1 DEF Known
  <2> QED BY <2>2, <2>3, <2>4 DEF Moved, TypeOK
<1>7. (Bare(p, q)' <=> Bare(p, q)) /\ (Bare(p, p)' <=> Bare(p, p))
  BY <1>2 DEF Bare
<1>8. StepOf(p, q)
  BY <1>2, <1>6, ActsStep DEF Leavers
<1>9. ProcInv(p)'
  <2>1. ControlInv(p)'
    BY <1>2, <1>3, <1>4, <1>5, <1>6, <1>7
       DEF ProcInv, ControlInv, Attaching, Detaching, Outside, Peers, IdleKeys
  <2>2. StageInv(p)'
    BY <1>6 DEF StageInv
  <2>3. ASSUME p # 0 PROVE OwnerFirst(p)'
    <3>1. 0 \in Procs
      BY IpcAssumption DEF Procs
    <3>2. \A y \in Peers(p) \ {0} : Key(p, y)' \notin IdleKeys => attached'[p][0] > 0
      <4>1. CASE q # 0
        BY <1>3, <1>4, <1>5, <2>3, <3>1, <4>1 DEF ProcInv, OwnerFirst, IdleKeys, Peers
      <4>2. CASE q = 0
        <5>1. \A y \in Peers(p) \ {0} : Key(p, y) \in IdleKeys
          <6>1. \A y \in Peers(p) \ {0} : attached[p][y] = 0
            BY <1>2, <1>3, <2>3, <4>2 DEF ProcInv, OwnerFirst, With, Detaching
          <6>2. \A y \in Peers(p) : attached[p][y] > 0 \/ Key(p, y) \in IdleKeys
            BY <1>2, <1>3 DEF ProcInv, ControlInv, Detaching
          <6> QED BY <6>1, <6>2
        <5> QED BY <1>4, <4>2, <5>1
      <4> QED BY <4>1, <4>2
    <3> QED BY <1>6, <3>2 DEF OwnerFirst, Attaching, Detaching, With
  <2> QED BY <2>1, <2>2, <2>3 DEF ProcInv
<1>10. PairInv(p, q)'
  <2>1. CASE p < q
    <3>1. KeysInv(p, q)'
      BY <1>2, <1>3, <1>4, <1>5, <1>6, <2>1, OtherSide DEF PairInv, KeysInv, With, Detaching
    <3>2. InstancesInv(p, q)'
      BY <1>2, <1>3, <1>4, <1>5, <1>7, <2>1, OtherSide
         DEF PairInv, KeysInv, InstancesInv, IdleKeys, With, Detaching
    <3> QED BY <1>2, <2>1, <3>1, <3>2 DEF PairInv
  <2>2. CASE q < p
    <3>1. KeysInv(q, p)'
      BY <1>2, <1>3, <1>4, <1>5, <1>6, <2>2, OtherSide DEF PairInv, KeysInv, With, Detaching
    <3>2. InstancesInv(q, p)'
      BY <1>2, <1>3, <1>4, <1>5, <1>7, <2>2, OtherSide DEF PairInv, KeysInv, InstancesInv, IdleKeys
    <3> QED BY <1>2, <2>2, <3>1, <3>2 DEF PairInv
  <2> QED BY <1>2, <2>1, <2>2
<1> QED BY <1>2, <1>8, <1>9, <1>10, OnlyOnePair

-----------------------------------------------------------------------------
(* Starting, stopping and the calls that only count                        *)

LEMMA QuietStep ==
    ASSUME TypeOK, TypeOK', ProcsInv, PairsInv, NEW p \in Procs, Only(p),
           UNCHANGED <<startedKey, instance, failures>>,
           \A x \in Procs \ {p} : attached'[x] = attached[x],
           \A y \in Procs : attached'[p][y] > 0 <=> attached[p][y] > 0,
           pc[p] \in Outside \cup {"up"},
           pc'[p] \in Outside \cup {"up", "attach", "detach"}, ControlInv(p)'
    PROVE  ProcsInv' /\ PairsInv'
<1>1. PICK q \in Peers(p) : TRUE
  <2>1. (IF p = 0 THEN 1 ELSE 0) \in Peers(p)
    BY IpcAssumption DEF Peers, Procs
  <2> QED BY <2>1
<1>2. q \in Procs /\ p # q /\ (p < q => ~ (q < p)) /\ (p < q \/ q < p) /\ 0 \in Procs
  BY IpcAssumption DEF Peers, Procs
<1>3. \A x, y \in Procs : Key(x, y)' = Key(x, y)
  BY DEF Key, Slot
<1>4. \A x \in Procs \ {p} : RowKept(x)
  BY <1>3 DEF Only, RowKept
<1>5. \A y \in Peers(p) : SideKept(p, y)
  BY <1>3 DEF SideKept, Linked, With, Detaching, Leavers, Outside, Peers
<1>6. failures' \in Nat /\ failures' >= failures
  BY FailuresCount
<1>7. StepOf(p, q)
  BY <1>4, <1>5, <1>6 DEF StepOf
<1>8. ProcInv(p)'
  <2>1. ProcInv(p)
    BY DEF ProcsInv, ProcInv
  <2>2. StageInv(p)'
    BY DEF StageInv, Outside
  <2>3. p # 0 => OwnerFirst(p)'
    BY <1>2, <1>3, <2>1 DEF ProcInv, OwnerFirst, Attaching, Detaching, With, Outside, Peers
  <2> QED BY <2>2, <2>3 DEF ProcInv
<1>9. PairInv(p, q)'
  <2>1. SideKept(p, q) /\ SideKept(q, p)
    BY <1>2, <1>4, <1>5, RowKeptSide
  <2>2. PairInv(p, q)
    BY PairOf
  <2>3. p < q => KeysInv(p, q)' /\ InstancesInv(p, q)'
    BY <1>2, <1>6, <2>1, <2>2, PairKept DEF PairInv
  <2>4. q < p => KeysInv(q, p)' /\ InstancesInv(q, p)'
    BY <1>2, <1>6, <2>1, <2>2, PairKept DEF PairInv
  <2> QED BY <2>3, <2>4 DEF PairInv
<1> QED BY <1>7, <1>8, <1>9, OnlyOnePair

\* A processor that is attached to nobody begins with one of the others.
LEMMA BeginStep ==
    ASSUME TypeOK, TypeOK', ProcsInv, PairsInv, NEW p \in Procs, Only(p), pc[p] \in Outside,
           AttachTo(p, Peers(p)), UNCHANGED <<startedKey, attached, instance, failures>>
    PROVE  ProcsInv' /\ PairsInv'
<1>1. \/ Peers(p) = {} /\ pc'[p] = "up"
      \/ pc'[p] = "attach" /\ remote'[p] \in Peers(p)
  <2>1. \/ Peers(p) = {} /\ Moved(p, "up", remote[p])
        \/ \E r \in Peers(p) : Moved(p, "attach", r)
    BY AttachToMoves
  <2> QED BY <2>1 DEF Moved, TypeOK
<1>2. ControlInv(p)'
  BY <1>1 DEF ProcsInv, ControlInv, Attaching, Detaching, Outside, Bare
<1>3. pc'[p] \in Outside \cup {"up", "attach", "detach"}
  BY <1>1
<1> QED BY <1>2, <1>3, QuietStep

LEMMA StopStep ==
    ASSUME TypeOK, TypeOK', ProcsInv, PairsInv, NEW p \in Procs, Stop(p)
    PROVE  ProcsInv' /\ PairsInv'
<1>1. Only(p)
  BY StepOnly DEF Step
<1>2. /\ pc[p] = "down" /\ pc'[p] = "stopped"
      /\ UNCHANGED <<startedKey, attached, instance, failures>>
  BY DEF Stop, Goto, TypeOK
<1>3. \A y : Key(p, y)' = Key(p, y)
  BY <1>2 DEF Key, Slot
<1>4. ControlInv(p)'
  BY <1>2, <1>3 DEF ProcsInv, ControlInv, Attaching, Detaching, Outside, Bare
<1> QED BY <1>1, <1>2, <1>4, QuietStep DEF Outside

LEMMA AttachMoreStep ==
    ASSUME TypeOK, TypeOK', ProcsInv, PairsInv, NEW p \in Procs, AttachMore(p)
    PROVE  ProcsInv' /\ PairsInv'
<1>1. Only(p)
  BY StepOnly DEF Step
<1>2. /\ pc[p] = "up" /\ pc' = pc
      /\ UNCHANGED <<startedKey, instance, failures>>
  BY DEF AttachMore, shared
<1>3. PICK q \in Peers(p) : attached' = [attached EXCEPT ![p][q] = attached[p][q] + 1]
  BY DEF AttachMore
<1>4. q \in Procs /\ q # p /\ attached[p][q] > 0
  BY <1>2 DEF Peers, ProcsInv, ControlInv
<1>5. \A x \in Procs \ {p} : attached'[x] = attached[x]
  BY <1>3 DEF TypeOK
<1>6. /\ attached'[p][q] = attached[p][q] + 1
      /\ \A y \in Procs \ {q} : attached'[p][y] = attached[p][y]
  <2>1. PICK h : h = [attached[p] EXCEPT ![q] = attached[p][q] + 1]
    OBVIOUS
  <2>2. attached[p] \in [Procs -> 0 .. MaxAttached]
    BY DEF TypeOK
  <2>3. attached'[p] = h
    BY <1>3, <2>1 DEF TypeOK
  <2> QED BY <1>4, <2>1, <2>2, <2>3
<1>7. \A y \in Procs : attached'[p][y] > 0 <=> attached[p][y] > 0
  <2>1. attached[p][q] \in Nat
    BY <1>4, AttachedTyped
  <2> QED BY <1>4, <1>6, <2>1
<1>8. ControlInv(p)'
  BY <1>2, <1>4, <1>6, <1>7
     DEF ProcsInv, ControlInv, Attaching, Detaching, Outside, Bare, Peers
<1> QED BY <1>1, <1>2, <1>5, <1>7, <1>8, QuietStep

LEMMA LeaveStep ==
    ASSUME TypeOK, TypeOK', ProcsInv, PairsInv, NEW p \in Procs, Leave(p)
    PROVE  ProcsInv' /\ PairsInv'
<1>1. Only(p)
  BY StepOnly DEF Step
<1>2. pc[p] = "up" /\ UNCHANGED <<startedKey, attached, instance, failures>>
  BY DEF Leave, shared
<1>3. \A y \in Peers(p) : attached[p][y] > 0 /\ attached[p][y] \in Nat
  BY <1>2, AttachedTyped DEF ProcsInv, ControlInv, Peers
<1>4. \/ pc'[p] = "down" /\ Known(p) = {}
      \/ pc'[p] = "detach" /\ remote'[p] \in Peers(p)
  <2>1. Known(p) \in SUBSET Peers(p) /\ DetachFrom(p, Known(p), p)
    BY DEF Leave, Known
  <2>2. \/ Known(p) = {} /\ Moved(p, "down", Null)
        \/ \E r \in Known(p) : Moved(p, "detach", r)
    BY <2>1, DetachFromMoves
  <2> QED BY <2>1, <2>2 DEF Moved, TypeOK
<1>5. Known(p) = {} => Peers(p) = {}
  BY <1>3 DEF Known
<1>6. \A y : Key(p, y)' = Key(p, y)
  BY <1>2 DEF Key, Slot
<1>7. ControlInv(p)'
  BY <1>2, <1>3, <1>4, <1>5, <1>6
     DEF ProcsInv, ControlInv, Attaching, Detaching, Outside, Bare
<1>8. pc'[p] \in Outside \cup {"up", "attach", "detach"}
  BY <1>4 DEF Outside
<1> QED BY <1>1, <1>2, <1>7, <1>8, QuietStep

-----------------------------------------------------------------------------
(* The owner of region 0 stops                                             *)

\* While the owner is attached to nobody, nobody is attached to anybody.
LEMMA NobodyLeft ==
    ASSUME TypeOK, ProcsInv, PairsInv, pc[0] \in Outside, NEW p \in Procs, NEW q \in Peers(p)
    PROVE  Key(p, q) \in IdleKeys /\ attached[p][q] = 0 /\ Bare(p, q) /\ ~ Linked(p, q)
<1>1. 0 \in Procs /\ \A x \in Peers(0) : 0 < x /\ x \in Procs /\ ~ (x < 0)
  BY IpcAssumption DEF Peers, Procs
<1>2. ASSUME NEW x \in Peers(0) PROVE attached[0][x] = 0 /\ Key(0, x) \in IdleKeys
  <2>1. attached[0][x] = 0
    BY <1>1 DEF ProcsInv, ControlInv
  <2> QED BY <1>1, <2>1 DEF ProcsInv, ControlInv
<1>3. ASSUME NEW x \in Peers(0)
      PROVE  attached[x][0] = 0 /\ Key(x, 0) \in IdleKeys /\ Key(0, x) \in IdleKeys
  <2>1. KeysInv(0, x) /\ Key(0, x) \in IdleKeys
    BY <1>1, <1>2 DEF PairsInv
  <2>2. Key(x, 0) \notin {"start", "finish"}
    BY <2>1 DEF KeysInv, IdleKeys
  <2>3. Key(x, 0) \in Keys
    BY <1>1, KeysTyped DEF Peers
  <2>4. attached[x][0] \in Nat /\ ~ (attached[x][0] > 0)
    BY <1>1, <2>1, <2>2, AttachedTyped DEF KeysInv
  <2> QED BY <2>1, <2>2, <2>3, <2>4 DEF Keys, IdleKeys
<1>4. ASSUME NEW x \in Peers(0), NEW y \in Peers(x) \ {0} PROVE Key(x, y) \in IdleKeys
  <2>1. OwnerFirst(x)
    BY <1>1 DEF ProcsInv, Peers
  <2> QED BY <1>3, <2>1 DEF OwnerFirst
<1>5. \A x \in Procs : \A y \in Peers(x) : Key(x, y) \in IdleKeys
  BY <1>2, <1>3, <1>4 DEF Peers
<1>6. q \in Procs /\ p # q /\ p \in Peers(q) /\ (p < q \/ q < p) /\ (p < q => ~ (q < p))
  BY IpcAssumption DEF Peers, Procs
<1>7. Key(p, q) \in IdleKeys /\ Key(q, p) \in IdleKeys /\ PairInv(p, q) /\ ProcInv(p)
  BY <1>5, <1>6, PairOf
<1>8. attached[p][q] = 0 /\ Bare(p, q)
  <2>1. attached[p][q] \in Nat
    BY <1>6, AttachedTyped
  <2> QED BY <1>6, <1>7, <2>1 DEF PairInv, KeysInv, InstancesInv, IdleKeys
<1>9. ~ Linked(p, q)
  <2>1. ~ With(p, q, Detaching)
    BY <1>8, <1>7 DEF ProcInv, ControlInv, With
  <2>2. ~ With(p, q, {"starting", "sync", "open", "stage", "user"})
    BY <1>6, <1>7 DEF PairInv, KeysInv, With, IdleKeys, ProcInv, ControlInv
  <2>3. ~ With(p, q, {"spin"})
    BY <1>6, <1>7 DEF PairInv, KeysInv, With, IdleKeys, ProcInv, ControlInv
  <2> QED BY <2>1, <2>2, <2>3 DEF Linked, With
<1> QED BY <1>7, <1>8, <1>9

LEMMA OwnerStartStep ==
    ASSUME TypeOK, TypeOK', ProcsInv, PairsInv, LowestOwns, Start(0)
    PROVE  ProcsInv' /\ PairsInv'
<1>1. 0 \in Procs
  BY IpcAssumption DEF Procs
<1>2. /\ pc[0] = "stopped" /\ pc[0] \in Outside /\ pc' = [pc EXCEPT ![0] = "create"]
      /\ startedKey' = Cleared("none") /\ sessions[0] < Sessions
      /\ UNCHANGED <<remote, stage, attached, instance, sessions, failures>>
  BY DEF Start, LowestOwns, Outside, Goto
<1>3. pc'[0] = "create" /\ \A x \in Procs \ {0} : pc'[x] = pc[x]
  BY <1>1, <1>2 DEF TypeOK
<1>4. \A x \in Procs : \A y \in Peers(x) : Key(x, y)' = "none"
  BY <1>2, KeysCleared
<1>5. \A x \in Procs : \A y \in Peers(x) :
         attached[x][y] = 0 /\ Bare(x, y) /\ ~ Linked(x, y)
  BY <1>2, NobodyLeft
<1>6. ASSUME NEW x \in Procs PROVE ProcInv(x)'
  <2>1. ProcInv(x)
    BY DEF ProcsInv, ProcInv
  <2>2. Bare(x, x)'
    BY <1>2, <2>1 DEF ProcInv, ControlInv, Bare
  <2>3. CASE x = 0
    <3>1. ControlInv(x)'
      BY <1>2, <1>3, <1>4, <1>5, <2>1, <2>2, <2>3
         DEF ProcInv, ControlInv, Attaching, Detaching, Outside, IdleKeys
    <3>2. StageInv(x)'
      BY <1>3, <2>3 DEF StageInv
    <3> QED BY <2>3, <3>1, <3>2 DEF ProcInv
  <2>4. CASE x # 0
    <3>1. pc'[x] = pc[x] /\ remote'[x] = remote[x] /\ attached' = attached
      BY <1>2, <1>3, <2>4
    <3>2. ControlInv(x)'
      BY <1>4, <2>1, <2>2, <3>1, <1>2 DEF ProcInv, ControlInv, IdleKeys
    <3>3. StageInv(x)'
      BY <1>2, <2>1, <3>1 DEF ProcInv, StageInv, Ready, Bare
    <3>4. OwnerFirst(x)'
      BY <1>4, <2>1, <2>4, <3>1 DEF ProcInv, OwnerFirst, IdleKeys, With, Peers
    <3> QED BY <3>2, <3>3, <3>4 DEF ProcInv
  <2> QED BY <2>3, <2>4
<1>7. ASSUME NEW x \in Procs, NEW y \in Procs, x < y
      PROVE  KeysInv(x, y)' /\ InstancesInv(x, y)'
  <2>1. y \in Peers(x) /\ x \in Peers(y)
    BY <1>7, IpcAssumption DEF Peers, Procs
  <2>2. Key(x, y)' = "none" /\ Key(y, x)' = "none"
    BY <1>4, <2>1
  <2>3. attached'[x][y] = 0 /\ attached'[y][x] = 0 /\ Bare(x, y)' /\ Bare(y, x)'
    BY <1>2, <1>5, <2>1 DEF Bare
  <2>4. /\ ~ With(x, y, {"starting", "sync", "open", "stage", "user", "spin"})'
        /\ ~ With(y, x, {"starting", "sync", "open", "stage", "user", "spin"})'
        /\ ~ With(x, y, Detaching)'
    BY <1>2, <1>3, <1>5, <2>1 DEF Linked, With, Detaching
  <2>5. KeysInv(x, y)'
    BY <2>2, <2>3, <2>4 DEF KeysInv, With
  <2>6. InstancesInv(x, y)'
    BY <2>2, <2>3 DEF InstancesInv, IdleKeys, Bare
  <2> QED BY <2>5, <2>6
<1> QED BY <1>6, <1>7 DEF ProcsInv, ProcInv, PairsInv

LEMMA PairsStep ==
    ASSUME TypeOK, TypeOK', ProcsInv, PairsInv, MemoryInv, LowestOwns, NEW p \in Procs, Step(p)
    PROVE  ProcsInv' /\ PairsInv'
<1>1. CASE Start(p)
  <2>1. CASE p = 0
    BY <1>1, <2>1, OwnerStartStep
  <2>2. CASE p # 0
    BY <1>1, <2>2, StepOnly, BeginStep DEF Step, Start, LowestOwns, Outside
  <2> QED BY <2>1, <2>2
<1>2. CASE Create(p)
  BY <1>2, StepOnly, BeginStep DEF Step, Create, Outside
<1>3. CASE Again(p)
  BY <1>3, StepOnly, BeginStep DEF Step, Again, Outside, shared
<1> QED BY <1>1, <1>2, <1>3, StopStep, AttachCallStep, MasterStartsStep, SyncStartStep, OpenStep,
           AttachStageStep, AttachUserStep, SyncFinishStep, AttachMoreStep, LeaveStep,
           DetachCallStep, DetachUserStep, DetachStageStep, CloseStep, DetachedStep DEF Step

-----------------------------------------------------------------------------
(* The memory of the instances                                             *)

LEMMA MemoryKept == ASSUME MemoryInv, UNCHANGED <<instance, srPtr, free>> PROVE MemoryInv'
BY DEF MemoryInv, Slot

\* One instance of a pair of slave p and what belongs to it changes.
LEMMA MemoryMoves ==
    ASSUME TypeOK, MemoryInv, NEW p \in Procs, NEW q \in Peers(p), NEW k \in Kinds, p < q,
           NEW b \in Blocks \cup {Null}, NEW c \in Blocks \cup {Null},
           instance' = [instance EXCEPT ![p][q][k] = b],
           srPtr' = [srPtr EXCEPT ![p][Slot(p, q)][k] = c],
           b # Null => b = c /\ b \notin free' /\ b \in free,
           \A d \in free' \ free : d = instance[p][q][k]
    PROVE  MemoryInv'
<1>1. PICK g, h : g = instance' /\ h = srPtr'
  OBVIOUS
<1>2. q \in Procs /\ p # q
  BY DEF Peers
<1>3. /\ g[p][q][k] = b
      /\ \A x \in Procs \ {p} : g[x] = instance[x]
      /\ \A y \in Procs \ {q} : g[p][y] = instance[p][y]
      /\ \A z \in Kinds \ {k} : g[p][q][z] = instance[p][q][z]
  <2>1. g = [instance EXCEPT ![p][q][k] = b]
    BY <1>1
  <2> QED BY <1>2, <2>1, InstanceUpdate
<1>4. /\ h[p][Slot(p, q)][k] = c
      /\ \A x \in Procs \ {p} : h[x] = srPtr[x]
      /\ \A y \in Peers(p) \ {q} : h[p][Slot(p, y)] = srPtr[p][Slot(p, y)]
      /\ \A z \in Kinds \ {k} : h[p][Slot(p, q)][z] = srPtr[p][Slot(p, q)][z]
  <2>1. h = [srPtr EXCEPT ![p][Slot(p, q)][k] = c]
    BY <1>1
  <2>2. h \in [Procs -> [0 .. NumProcs - 2 -> [Kinds -> Blocks \cup {Null}]]]
    BY <2>1, PointerUpdate
  <2>3. h[p][Slot(p, q)][k] = c
    <3>1. PICK u : u = [srPtr[p][Slot(p, q)] EXCEPT ![k] = c]
      OBVIOUS
    <3>2. Slot(p, q) \in 0 .. NumProcs - 2
      BY SlotSound
    <3>3. h[p][Slot(p, q)] = u
      BY <2>1, <3>1, <3>2 DEF TypeOK
    <3>4. srPtr[p][Slot(p, q)] \in [Kinds -> Blocks \cup {Null}]
      <4>1. srPtr[p] \in [0 .. NumProcs - 2 -> [Kinds -> Blocks \cup {Null}]]
        BY DEF TypeOK
      <4> QED BY <3>2, <4>1
    <3> QED BY <3>1, <3>3, <3>4
  <2>4. \A x \in Procs \ {p} : h[x] = srPtr[x]
    BY <2>1 DEF TypeOK
  <2>5. \A y \in Peers(p) \ {q} : h[p][Slot(p, y)] = srPtr[p][Slot(p, y)]
    BY <2>1, PointerUpdate
  <2>6. \A z \in Kinds \ {k} : h[p][Slot(p, q)][z] = srPtr[p][Slot(p, q)][z]
    BY <2>1, PointerUpdate
  <2> QED BY <2>3, <2>4, <2>5, <2>6
<1>5. ASSUME NEW x \in Procs, NEW y \in Procs, NEW j \in Kinds, x < y,
             ~ (x = p /\ y = q /\ j = k)
      PROVE  /\ g[x][y][j] = instance[x][y][j]
             /\ h[x][Slot(x, y)][j] = srPtr[x][Slot(x, y)][j]
  <2>1. y \in Peers(x)
    BY <1>5, IpcAssumption DEF Peers, Procs
  <2> QED BY <1>3, <1>4, <1>5, <2>1
<1>6. ASSUME NEW x \in Procs, NEW y \in Procs, NEW j \in Kinds, x < y, g[x][y][j] # Null
      PROVE  g[x][y][j] = h[x][Slot(x, y)][j] /\ g[x][y][j] \notin free'
  <2>1. CASE x = p /\ y = q /\ j = k
    BY <1>3, <1>4, <1>6, <2>1
  <2>2. CASE ~ (x = p /\ y = q /\ j = k)
    <3>1. PICK v : v = instance[x][y][j]
      OBVIOUS
    <3>2. g[x][y][j] = v /\ h[x][Slot(x, y)][j] = srPtr[x][Slot(x, y)][j] /\ v # Null
      BY <1>5, <1>6, <2>2, <3>1
    <3>3. v = srPtr[x][Slot(x, y)][j] /\ v \notin free
      BY <1>6, <3>1, <3>2 DEF MemoryInv
    <3>4. v # instance[p][q][k]
      BY <1>2, <1>6, <2>2, <3>1, <3>2 DEF MemoryInv
    <3> QED BY <3>2, <3>3, <3>4
  <2> QED BY <2>1, <2>2
<1>7. ASSUME NEW x \in Procs, NEW y \in Procs, NEW r \in Procs, NEW s \in Procs,
             NEW j \in Kinds, NEW l \in Kinds,
             x < y, r < s, g[x][y][j] # Null, g[x][y][j] = g[r][s][l]
      PROVE  x = r /\ y = s /\ j = l
  <2>1. \A x2, y2 \in Procs, j2 \in Kinds :
           x2 < y2 /\ ~ (x2 = p /\ y2 = q /\ j2 = k) =>
              g[x2][y2][j2] = instance[x2][y2][j2]
    BY <1>5
  <2>2. \A x2, y2 \in Procs, j2 \in Kinds :
           x2 < y2 /\ ~ (x2 = p /\ y2 = q /\ j2 = k) /\ g[x2][y2][j2] # Null =>
              g[x2][y2][j2] # b
    <3>1. ASSUME NEW x2 \in Procs, NEW y2 \in Procs, NEW j2 \in Kinds, x2 < y2,
                 ~ (x2 = p /\ y2 = q /\ j2 = k), g[x2][y2][j2] # Null
          PROVE  g[x2][y2][j2] # b
      <4>1. instance[x2][y2][j2] \notin free /\ instance[x2][y2][j2] # Null
        BY <2>1, <3>1 DEF MemoryInv
      <4>2. g[x2][y2][j2] = instance[x2][y2][j2]
        BY <2>1, <3>1
      <4> QED BY <4>1, <4>2
    <3> QED BY <3>1
  <2>3. CASE x = p /\ y = q /\ j = k
    BY <1>3, <1>7, <2>2, <2>3
  <2>4. CASE r = p /\ s = q /\ l = k
    BY <1>3, <1>7, <2>2, <2>4
  <2>5. CASE ~ (x = p /\ y = q /\ j = k) /\ ~ (r = p /\ s = q /\ l = k)
    <3>1. g[x][y][j] = instance[x][y][j] /\ g[r][s][l] = instance[r][s][l]
      BY <1>7, <2>1, <2>5
    <3>2. instance[x][y][j] # Null /\ instance[x][y][j] = instance[r][s][l]
      BY <1>7, <3>1
    <3> QED BY ONLY MemoryInv, x \in Procs, y \in Procs, r \in Procs, s \in Procs,
                     j \in Kinds, l \in Kinds, <1>7, <3>2, SMTT(30) DEF MemoryInv
  <2> QED BY <2>3, <2>4, <2>5
<1>8. \A x, y \in Procs, j \in Kinds : x < y /\ instance'[x][y][j] # Null =>
         instance'[x][y][j] = srPtr'[x][Slot(x, y)][j] /\ instance'[x][y][j] \notin free'
  BY <1>1, <1>6
<1>9. \A x, y, r, s \in Procs, j, l \in Kinds :
         x < y /\ r < s /\ instance'[x][y][j] # Null /\ instance'[x][y][j] = instance'[r][s][l]
            => x = r /\ y = s /\ j = l
  BY <1>1, <1>7
<1> QED BY <1>8, <1>9 DEF MemoryInv, Slot

\* The instances of the masters are none of its business.
LEMMA MemoryOfMasters ==
    ASSUME TypeOK, MemoryInv, NEW p \in Procs, NEW q \in Peers(p), NEW k \in Kinds, q < p,
           NEW b \in Blocks \cup {Null}, instance' = [instance EXCEPT ![p][q][k] = b],
           UNCHANGED <<srPtr, free>>
    PROVE  MemoryInv'
<1>1. PICK g : g = instance'
  OBVIOUS
<1>2. q \in Procs /\ g = [instance EXCEPT ![p][q][k] = b]
  BY <1>1 DEF Peers
<1>3. /\ \A x \in Procs \ {p} : g[x] = instance[x]
      /\ \A y \in Procs \ {q} : g[p][y] = instance[p][y]
  BY <1>2, InstanceUpdate
<1>4. \A x, y \in Procs : x < y => instance'[x][y] = instance[x][y]
  BY <1>1, <1>2, <1>3, IpcAssumption DEF Procs
<1>5. \A x, y \in Procs, j \in Kinds : x < y /\ instance'[x][y][j] # Null =>
         instance'[x][y][j] = srPtr'[x][Slot(x, y)][j] /\ instance'[x][y][j] \notin free'
  BY <1>4 DEF MemoryInv
<1>6. \A x, y, r, s \in Procs, j, l \in Kinds :
         x < y /\ r < s /\ instance'[x][y][j] # Null /\ instance'[x][y][j] = instance'[r][s][l]
            => x = r /\ y = s /\ j = l
  BY <1>4 DEF MemoryInv
<1> QED BY <1>5, <1>6 DEF MemoryInv, Slot

LEMMA NothingAllocated ==
    ASSUME TypeOK, ProcsInv, PairsInv, pc[0] \in Outside, UNCHANGED instance
    PROVE  MemoryInv'
<1>1. \A x, y \in Procs : x < y => y \in Peers(x)
  BY IpcAssumption DEF Peers, Procs
<1>2. \A x, y \in Procs, j \in Kinds : x < y => instance'[x][y][j] = Null
  BY <1>1, NobodyLeft DEF Bare
<1> QED BY <1>2 DEF MemoryInv

LEMMA MemoryStep ==
    ASSUME TypeOK, TypeOK', ProcsInv, PairsInv, MemoryInv, LowestOwns, NEW p \in Procs, Step(p)
    PROVE  MemoryInv'
<1> USE DEF bounds, shared
<1>1. CASE Start(p)
  <2>1. CASE p = 0
    BY <1>1, <2>1, NothingAllocated DEF Start, Outside
  <2>2. CASE p # 0
    BY <1>1, <2>2, MemoryKept DEF Start, LowestOwns
  <2> QED BY <2>1, <2>2
<1>2. CASE Create(p)
  <2>1. p = 0
    BY <1>2 DEF Create, ProcsInv, ControlInv
  <2> QED BY <1>2, <2>1, NothingAllocated DEF Create, Outside
<1>3. CASE AttachStage(p)
  <2>1. PICK q, k, b : q = remote[p] /\ k = Stages[stage[p]] /\ b = Lowest(free)
    OBVIOUS
  <2>2. q \in Peers(p)
    BY <1>3, <2>1, LinkedActs
  <2>3. k \in Kinds
    BY <1>3, <2>1, IpcAssumption DEF AttachStage, ProcsInv, StageInv, Kinds
  <2>4. free # {} => b \in free /\ b \in Blocks
    <3>1. free \subseteq Blocks /\ free \in SUBSET Nat
      BY DEF TypeOK, Blocks
    <3> QED BY <2>1, <3>1, LowestMember
  <2>5. instance[p][q][k] \in Blocks \cup {Null}
    <3>1. instance[p][q] \in [Kinds -> Blocks \cup {Null}]
      BY <2>2 DEF TypeOK, Peers
    <3> QED BY <2>3, <3>1
  <2>6. CASE UNCHANGED <<instance, srPtr, free>>
    BY <2>6, MemoryKept
  <2>7. CASE /\ instance[p][q][k] = Null /\ p < q /\ free # {}
             /\ srPtr' = [srPtr EXCEPT ![p][Slot(p, q)][k] = b]
             /\ instance' = [instance EXCEPT ![p][q][k] = b] /\ free' = free \ {b}
    <3>1. /\ b \in Blocks \cup {Null} /\ (b # Null => b = b /\ b \notin free' /\ b \in free)
          /\ \A d \in free' \ free : d = instance[p][q][k]
      BY <2>4, <2>7
    <3> QED BY <2>2, <2>3, <2>7, <3>1, MemoryMoves
  <2>8. CASE /\ instance[p][q][k] = Null /\ p < q /\ free # {}
             /\ srPtr' = [srPtr EXCEPT ![p][Slot(p, q)][k] = b]
             /\ UNCHANGED <<instance, free>>
    <3>1. PICK n : n = Null
      OBVIOUS
    <3>2. n \in Blocks \cup {Null} /\ b \in Blocks \cup {Null} /\ \A d \in free' \ free : FALSE
      BY <2>4, <2>8, <3>1
    <3>3. instance' = [instance EXCEPT ![p][q][k] = n]
      <4>1. q \in Procs
        BY <2>2 DEF Peers
      <4>2. [instance[p][q] EXCEPT ![k] = n] = instance[p][q]
        <5>1. instance[p][q] \in [Kinds -> Blocks \cup {Null}]
          BY <4>1 DEF TypeOK
        <5> QED BY <2>8, <3>1, <5>1
      <4>3. [instance[p] EXCEPT ![q] = instance[p][q]] = instance[p]
        <5>1. instance[p] \in [Procs -> [Kinds -> Blocks \cup {Null}]]
          BY DEF TypeOK
        <5> QED BY <5>1
      <4>4. [instance EXCEPT ![p] = instance[p]] = instance
        BY DEF TypeOK
      <4> QED BY <2>8, <4>2, <4>3, <4>4
    <3> QED BY <2>2, <2>3, <2>8, <3>1, <3>2, <3>3, MemoryMoves
  <2>9. CASE /\ q < p /\ instance' = [instance EXCEPT ![p][q][k] = SharedAt(p, q, k)]
             /\ UNCHANGED <<srPtr, free>>
    <3>1. PICK v : v = SharedAt(p, q, k)
      OBVIOUS
    <3>2. v \in Blocks \cup {Null}
      BY <2>2, <2>3, <2>9, <3>1, SharedAtTyped
    <3> QED BY <2>2, <2>3, <2>9, <3>1, <3>2, MemoryOfMasters
  <2>10. \/ UNCHANGED <<instance, srPtr, free>>
         \/ /\ instance[p][q][k] = Null /\ p < q /\ free # {}
            /\ srPtr' = [srPtr EXCEPT ![p][Slot(p, q)][k] = b]
            /\ \/ instance' = [instance EXCEPT ![p][q][k] = b] /\ free' = free \ {b}
               \/ UNCHANGED <<instance, free>>
         \/ /\ q < p /\ instance' = [instance EXCEPT ![p][q][k] = SharedAt(p, q, k)]
            /\ UNCHANGED <<srPtr, free>>
    BY <1>3, <2>1 DEF AttachStage
  <2> QED BY <2>6, <2>7, <2>8, <2>9, <2>10
<1>4. CASE DetachStage(p)
  <2>1. PICK q, k, n : q = remote[p] /\ k = Stages[stage[p]] /\ n = Null
    OBVIOUS
  <2>2. q \in Peers(p) /\ n \in Blocks \cup {Null}
    BY <1>4, <2>1, LinkedActs
  <2>3. k \in Kinds
    BY <1>4, <2>1, IpcAssumption DEF DetachStage, ProcsInv, StageInv, Kinds
  <2>4. CASE UNCHANGED <<instance, srPtr, free>>
    BY <2>4, MemoryKept
  <2>5. CASE /\ p < q /\ instance[p][q][k] # Null
             /\ instance' = [instance EXCEPT ![p][q][k] = n]
             /\ free' = free \cup {srPtr[p][Slot(p, q)][k]}
             /\ srPtr' = [srPtr EXCEPT ![p][Slot(p, q)][k] = n]
    <3>1. instance[p][q][k] = srPtr[p][Slot(p, q)][k]
      BY <2>2, <2>3, <2>5 DEF MemoryInv, Peers
    <3>2. \A d \in free' \ free : d = instance[p][q][k]
      BY <2>5, <3>1
    <3> QED BY <2>1, <2>2, <2>3, <2>5, <3>2, MemoryMoves
  <2>6. CASE q < p /\ instance' = [instance EXCEPT ![p][q][k] = n] /\ UNCHANGED <<srPtr, free>>
    BY <2>2, <2>3, <2>6, MemoryOfMasters
  <2>7. CASE /\ instance[p][q][k] = Null /\ UNCHANGED <<srPtr, free>>
             /\ instance' = [instance EXCEPT ![p][q][k] = n]
    <3>1. instance' = instance
      <4>1. q \in Procs
        BY <2>2 DEF Peers
      <4>2. [instance[p][q] EXCEPT ![k] = n] = instance[p][q]
        <5>1. instance[p][q] \in [Kinds -> Blocks \cup {Null}]
          BY <4>1 DEF TypeOK
        <5> QED BY <2>1, <2>7, <5>1
      <4>3. [instance[p] EXCEPT ![q] = instance[p][q]] = instance[p]
        <5>1. instance[p] \in [Procs -> [Kinds -> Blocks \cup {Null}]]
          BY DEF TypeOK
        <5> QED BY <5>1
      <4>4. [instance EXCEPT ![p] = instance[p]] = instance
        BY DEF TypeOK
      <4> QED BY <2>7, <4>2, <4>3, <4>4
    <3> QED BY <2>7, <3>1, MemoryKept
  <2>8. p < q \/ q < p
    BY <2>2, IpcAssumption DEF Peers, Procs
  <2>9. \/ UNCHANGED <<instance, srPtr, free>>
        \/ /\ instance' = [instance EXCEPT ![p][q][k] = n]
           /\ IF p < q /\ instance[p][q][k] # Null
              THEN /\ free' = free \cup {srPtr[p][Slot(p, q)][k]}
                   /\ srPtr' = [srPtr EXCEPT ![p][Slot(p, q)][k] = n]
              ELSE UNCHANGED <<free, srPtr>>
    BY <1>4, <2>1 DEF DetachStage
  <2> QED BY <2>4, <2>5, <2>6, <2>7, <2>8, <2>9
<1>5. CASE Again(p) \/ Stop(p) \/ AttachCall(p) \/ MasterStarts(p) \/ SyncStart(p) \/ Open(p)
           \/ AttachUser(p) \/ SyncFinish(p) \/ AttachMore(p) \/ Leave(p) \/ DetachCall(p)
           \/ DetachUser(p) \/ Close(p) \/ Detached(p)
  <2>1. UNCHANGED <<instance, srPtr, free>>
    BY <1>5 DEF Again, Stop, AttachCall, MasterStarts, SyncStart, Open, AttachUser, SyncFinish,
                AttachMore, Leave, DetachCall, DetachUser, Close, Detached
  <2> QED BY <2>1, MemoryKept
<1> QED BY <1>1, <1>2, <1>3, <1>4, <1>5 DEF Step

-----------------------------------------------------------------------------
(* The heap and the default gate of region 0                               *)

\* Which calls change what the heap depends on.
LEMMA NextLabel ==
    ASSUME TypeOK, NEW p \in Procs, Step(p)
    PROVE  /\ pc'[p] = "stopped" => Stop(p)
           /\ pc'[p] = "create" => Start(p) /\ p = Owner
           /\ pc'[p] = "key" => Close(p)
<1>1. pc \in [Procs -> Labels]
  BY DEF TypeOK, Labels
<1>2. \A S : AttachTo(p, S) => pc'[p] \in {"up", "attach"}
  BY <1>1 DEF AttachTo, Goto
<1>3. \A S, q : DetachFrom(p, S, q) => pc'[p] \in {"down", "detach"}
  BY <1>1 DEF DetachFrom, Goto
<1>4. AttachNotReady(p) \/ AttachFails(p) => pc'[p] \in {"up", "attach", "gaveUp"}
  BY <1>1, <1>2 DEF AttachNotReady, AttachFails, Goto
<1>5. \A l : Goto(p, l) => pc'[p] = l
  BY <1>1 DEF Goto
<1>6. CASE Start(p) \/ Create(p) \/ Again(p) \/ Stop(p)
  BY <1>2, <1>5, <1>6 DEF Start, Create, Again, Stop
<1>7. CASE AttachCall(p) \/ MasterStarts(p) \/ SyncStart(p) \/ Open(p)
  BY <1>4, <1>5, <1>7 DEF AttachCall, MasterStarts, SyncStart, Open
<1>8. CASE AttachStage(p)
  BY <1>4, <1>5, <1>8 DEF AttachStage, NextStage
<1>9. CASE AttachUser(p) \/ SyncFinish(p)
  BY <1>2, <1>4, <1>5, <1>9 DEF AttachUser, SyncFinish, Attached
<1>10. CASE AttachMore(p) \/ Leave(p)
  BY <1>3, <1>10 DEF AttachMore, Leave
<1>11. CASE DetachCall(p)
  BY <1>3, <1>5, <1>11 DEF DetachCall
<1>12. CASE DetachUser(p) \/ Close(p) \/ Detached(p)
  BY <1>3, <1>5, <1>12 DEF DetachUser, Close, Detached
<1>13. CASE DetachStage(p)
  BY <1>3, <1>5, <1>13 DEF DetachStage
<1> QED BY <1>6, <1>7, <1>8, <1>9, <1>10, <1>11, <1>12, <1>13 DEF Step

LEMMA HeapChanges ==
    ASSUME TypeOK, NEW p \in Procs, Step(p)
    PROVE  /\ heapCreated' = heapCreated \/ Create(p) \/ (Stop(p) /\ p = Owner)
           /\ \/ heapOpen' = heapOpen
              \/ Create(p) \/ (Stop(p) /\ p = Owner) \/ Open(p) \/ Close(p)
BY DEF Step, Start, Create, Again, Stop, AttachCall, MasterStarts, SyncStart, Open, AttachStage,
       AttachUser, SyncFinish, AttachMore, Leave, DetachCall, DetachUser, DetachStage, Close,
       Detached, shared, bounds

LEMMA OthersKeys ==
    ASSUME TypeOK, ProcsInv, NEW p \in Procs, Step(p), ~ (Start(p) /\ p = Owner),
           NEW x \in Procs \ {p}, NEW y \in Procs
    PROVE  Key(x, y)' = Key(x, y)
<1>1. CASE startedKey' = startedKey
  BY <1>1 DEF Key, Slot
<1>2. CASE startedKey' # startedKey
  <2>1. AttachCall(p) \/ MasterStarts(p) \/ AttachUser(p) \/ Detached(p)
    BY <1>2 DEF Step, Start, Create, Again, Stop, SyncStart, Open, AttachStage, SyncFinish,
                AttachMore, Leave, DetachCall, DetachUser, DetachStage, Close, shared
  <2>2. Acts(p, remote[p])
    BY <2>1, LinkedActs
  <2> QED BY <2>2 DEF Acts, RowKept
<1> QED BY <1>1, <1>2

LEMMA KeyChanges ==
    ASSUME TypeOK, ProcsInv, NEW p \in Procs, Step(p), NEW y \in Peers(p)
    PROVE  \/ Key(p, y)' = Key(p, y)
           \/ Start(p) /\ p = Owner
           \/ /\ remote[p] = y
              /\ \/ AttachCall(p) /\ p < y
                 \/ (MasterStarts(p) \/ AttachUser(p)) /\ Key(p, y)' \in {"start", "finish"}
                 \/ Detached(p)
<1> USE DEF shared, bounds
<1>1. CASE startedKey' = startedKey
  BY <1>1 DEF Key, Slot
<1>2. CASE startedKey' # startedKey
  <2>1. \/ Start(p) /\ p = Owner
        \/ AttachCall(p) /\ p < remote[p] /\ SetKey(p, remote[p], "start")
        \/ MasterStarts(p) /\ SetKey(p, remote[p], "start")
        \/ AttachUser(p) /\ SetKey(p, remote[p], "finish")
        \/ Detached(p)
    BY <1>2 DEF Step, Start, Create, Again, Stop, AttachCall, MasterStarts, SyncStart, Open,
                AttachStage, AttachUser, SyncFinish, AttachMore, Leave, DetachCall, DetachUser,
                DetachStage, Close, Detached
  <2>2. CASE ~ (Start(p) /\ p = Owner)
    <3>1. remote[p] \in Peers(p) /\ Acts(p, remote[p])
      BY <2>1, <2>2, LinkedActs
    <3>2. CASE y = remote[p]
      <4>1. SetKey(p, y, "start") => Key(p, y)' = "start"
        BY SetKeySound
      <4>2. SetKey(p, y, "finish") => Key(p, y)' = "finish"
        BY SetKeySound
      <4> QED BY <2>1, <2>2, <3>2, <4>1, <4>2
    <3>3. CASE y # remote[p]
      BY <3>1, <3>3 DEF Acts
    <3> QED BY <3>2, <3>3
  <2> QED BY <2>1, <2>2
<1> QED BY <1>1, <1>2

LEMMA HeapStep ==
    ASSUME TypeOK, TypeOK', ProcsInv, PairsInv, HeapInv, LowestOwns, NEW p \in Procs, Step(p)
    PROVE  HeapInv'
<1>1. /\ 0 \in Procs
      /\ \A x \in Peers(0) : /\ 0 < x /\ ~ (x < 0)
                            /\ x \in Procs /\ x # 0 /\ 0 \in Peers(x)
  BY IpcAssumption DEF Peers, Procs
<1>2. Only(p)
  BY StepOnly
<1>3. Create(p) => p = 0 /\ pc[p] = "create"
  BY DEF Create, ProcsInv, ControlInv
<1>4. /\ (heapCreated' <=> pc'[0] \notin {"stopped", "create"})
      /\ heapOpen'[0] => heapCreated'
  <2>1. CASE p # 0
    <3>1. pc'[0] = pc[0] /\ heapOpen'[0] = heapOpen[0] /\ heapCreated' = heapCreated
      BY <1>1, <1>2, <1>3, <2>1, HeapChanges DEF Only, LowestOwns
    <3> QED BY <3>1 DEF HeapInv
  <2>2. CASE p = 0 /\ Start(0)
    <3>1. pc[0] = "stopped" /\ pc'[0] = "create" /\ UNCHANGED <<heapCreated, heapOpen>>
      BY <1>1, <2>2 DEF Start, LowestOwns, Goto, TypeOK
    <3> QED BY <3>1 DEF HeapInv
  <2>3. CASE p = 0 /\ Create(0)
    <3>1. pc'[0] \notin {"stopped", "create"}
      <4>1. pc'[0] # "create" \/ Start(0)
        BY <2>3, NextLabel
      <4>2. pc'[0] # "stopped" \/ Stop(0)
        BY <2>3, NextLabel
      <4> QED BY <2>3, <4>1, <4>2 DEF Create, Start, Stop
    <3> QED BY <2>3, <3>1 DEF Create
  <2>4. CASE p = 0 /\ Stop(0)
    <3>1. pc'[0] = "stopped" /\ heapCreated' = FALSE /\ heapOpen'[0] = FALSE
      BY <1>1, <2>4 DEF Stop, LowestOwns, Goto, TypeOK
    <3> QED BY <3>1
  <2>5. CASE p = 0 /\ ~ Start(0) /\ ~ Create(0) /\ ~ Stop(0)
    <3>1. pc'[0] \notin {"stopped", "create"} /\ heapCreated' = heapCreated
      BY <2>5, NextLabel, HeapChanges
    <3>2. pc[0] \notin {"stopped", "create"}
      BY <2>5 DEF Step, Again, AttachCall, MasterStarts, SyncStart, Open, AttachStage, AttachUser,
                  SyncFinish, AttachMore, Leave, DetachCall, DetachUser, DetachStage, Close,
                  Detached
    <3> QED BY <3>1, <3>2 DEF HeapInv
  <2> QED BY <2>1, <2>2, <2>3, <2>4, <2>5
<1>5. ASSUME NEW x \in Peers(0), p = x
      PROVE  /\ heapOpen'[x] => Key(0, x)' = "finish" /\ Key(x, 0)' \notin IdleKeys
             /\ With(x, 0, {"key"})' => ~ heapOpen'[x]
  <2>1. x # Owner /\ 0 \in Peers(x) /\ x \in Procs /\ ~ (x < 0)
    BY <1>1 DEF LowestOwns
  <2>2. Key(0, x)' = Key(0, x)
    BY <1>1, <1>5, <2>1, OthersKeys
  <2>3. KeysInv(0, x) /\ ProcInv(x)
    BY <1>1 DEF PairsInv, ProcsInv, ProcInv
  <2>4. CASE Open(x)
    <3>1. pc[x] = "open" /\ pc'[x] = "stage" /\ Key(x, 0)' = Key(x, 0)
      BY <2>1, <2>4 DEF Open, Goto, TypeOK, Key, Slot, shared
    <3>2. Key(0, x) = "finish" /\ Key(x, 0) \in {"start", "finish"}
      <4>1. CASE remote[x] = 0
        BY <2>3, <3>1, <4>1 DEF KeysInv, With
      <4>2. CASE remote[x] # 0
        BY <1>1, <2>3, <3>1, <4>2 DEF KeysInv, ProcInv, OwnerFirst, Attaching
      <4> QED BY <4>1, <4>2
    <3> QED BY <2>2, <3>1, <3>2 DEF With, IdleKeys
  <2>5. CASE Close(x)
    <3>1. /\ Key(x, 0)' = Key(x, 0) /\ remote' = remote
          /\ heapOpen'[x] = (heapOpen[x] /\ remote[x] # 0)
      BY <2>1, <2>5 DEF Close, TypeOK, Key, Slot, shared, LowestOwns
    <3> QED BY <2>2, <3>1 DEF HeapInv, With
  <2>6. CASE ~ Open(x) /\ ~ Close(x)
    <3>1. heapOpen' = heapOpen
      BY <1>1, <1>3, <1>5, <2>1, <2>6, HeapChanges
    <3>2. pc'[x] # "key"
      BY <1>5, <2>6, NextLabel
    <3>3. heapOpen[x] => Key(x, 0)' \notin IdleKeys
      <4>1. \/ Key(x, 0)' = Key(x, 0)
            \/ Key(x, 0)' \in {"start", "finish"}
            \/ Detached(x) /\ remote[x] = 0
        BY <1>5, <2>1, KeyChanges
      <4>2. Detached(x) /\ remote[x] = 0 => ~ heapOpen[x]
        BY DEF Detached, HeapInv, With
      <4> QED BY <4>1, <4>2 DEF HeapInv, IdleKeys
    <3> QED BY <2>2, <3>1, <3>2, <3>3 DEF HeapInv, With
  <2> QED BY <2>4, <2>5, <2>6
<1>6. ASSUME NEW x \in Peers(0), p = 0
      PROVE  /\ heapOpen'[x] => Key(0, x)' = "finish" /\ Key(x, 0)' \notin IdleKeys
             /\ With(x, 0, {"key"})' => ~ heapOpen'[x]
  <2>1. heapOpen'[x] = heapOpen[x] /\ (With(x, 0, {"key"})' <=> With(x, 0, {"key"}))
    BY <1>1, <1>2, <1>6 DEF Only, With
  <2>2. CASE Start(0)
    <3>1. Key(0, x) \in IdleKeys
      BY <1>1, <2>2, NobodyLeft DEF Start, Outside
    <3> QED BY <2>1, <3>1 DEF HeapInv, IdleKeys
  <2>3. CASE ~ Start(0)
    <3>1. Key(x, 0)' = Key(x, 0)
      BY <1>1, <1>6, <2>3, OthersKeys
    <3>2. KeysInv(0, x) /\ ControlInv(0)
      BY <1>1 DEF PairsInv, ProcsInv
    <3>3. \/ Key(0, x)' = Key(0, x)
          \/ remote[0] = x /\ AttachCall(0)
          \/ remote[0] = x /\ MasterStarts(0)
          \/ remote[0] = x /\ AttachUser(0) /\ Key(0, x)' \in {"start", "finish"}
          \/ remote[0] = x /\ Detached(0)
      BY <1>6, <2>3, KeyChanges
    <3>4. remote[0] = x /\ AttachCall(0) => Key(0, x) # "finish"
      BY <3>2 DEF AttachCall, KeysInv, ControlInv, With, Attaching
    <3>5. ~ (remote[0] = x /\ MasterStarts(0))
      BY <1>1, <3>2, IpcAssumption DEF MasterStarts, ControlInv, Procs
    <3>6. remote[0] = x /\ AttachUser(0) => Key(0, x)' = Key(0, x) \/ Key(0, x)' = "finish"
      <4>1. ASSUME remote[0] = x, AttachUser(0)
            PROVE  startedKey' = startedKey \/ SetKey(0, x, "finish")
        BY <4>1 DEF AttachUser
      <4>2. startedKey' = startedKey => Key(0, x)' = Key(0, x)
        BY DEF Key, Slot
      <4>3. SetKey(0, x, "finish") => Key(0, x)' = "finish"
        BY <1>1, SetKeySound
      <4> QED BY <4>1, <4>2, <4>3
    <3>7. remote[0] = x /\ Detached(0) => Key(x, 0) \in IdleKeys
      BY <3>2 DEF Detached, KeysInv, With, Detaching, IdleKeys
    <3> QED BY <2>1, <3>1, <3>3, <3>4, <3>5, <3>6, <3>7 DEF HeapInv
  <2> QED BY <2>2, <2>3
<1>7. ASSUME NEW x \in Peers(0), p # x, p # 0
      PROVE  /\ heapOpen'[x] => Key(0, x)' = "finish" /\ Key(x, 0)' \notin IdleKeys
             /\ With(x, 0, {"key"})' => ~ heapOpen'[x]
  <2>1. heapOpen'[x] = heapOpen[x] /\ (With(x, 0, {"key"})' <=> With(x, 0, {"key"}))
    BY <1>1, <1>2, <1>7 DEF Only, With
  <2>2. Key(0, x)' = Key(0, x) /\ Key(x, 0)' = Key(x, 0)
    BY <1>1, <1>7, OthersKeys DEF LowestOwns
  <2> QED BY <2>1, <2>2 DEF HeapInv
<1>8. \A x \in Peers(0) : /\ heapOpen'[x] => Key(0, x)' = "finish" /\ Key(x, 0)' \notin IdleKeys
                          /\ With(x, 0, {"key"})' => ~ heapOpen'[x]
  BY <1>5, <1>6, <1>7
<1> QED BY <1>4, <1>8 DEF HeapInv, Peers

-----------------------------------------------------------------------------
(* Theorems                                                                *)

LEMMA InitIpc == ASSUME LowestOwns, Init PROVE IpcInv
<1>1. 0 \in Procs /\ Null \in Blocks \cup {Null}
  BY IpcAssumption DEF Procs
<1>2. \A x \in Procs : \A y \in Procs : attached[x][y] = 0 /\ Bare(x, y)
  BY DEF Init, Bare, NoBlocks
<1>3. \A x \in Procs : pc[x] = "stopped"
  BY DEF Init
<1>4. \A x \in Procs : \A y \in Peers(x) : Key(x, y) = "none"
  BY SlotSound DEF Init, Cleared, Key
<1>5. TypeOK
  <2>1. startedKey \in [Procs -> [0 .. NumProcs - 2 -> Keys]]
    BY DEF Init, Cleared, Keys
  <2>2. srPtr \in [Procs -> [0 .. NumProcs - 2 -> [Kinds -> Blocks \cup {Null}]]]
    BY DEF Init, Cleared, NoBlocks
  <2>3. instance \in [Procs -> [Procs -> [Kinds -> Blocks \cup {Null}]]]
    BY DEF Init, NoBlocks
  <2>4. attached \in [Procs -> [Procs -> 0 .. MaxAttached]]
    BY IpcAssumption DEF Init
  <2>5. /\ stage \in [Procs -> 0 .. Len(Stages) + 1]
        /\ sessions \in [Procs -> 0 .. Sessions] /\ failures \in 0 .. MaxFailures
    BY IpcAssumption DEF Init
  <2> QED BY <2>1, <2>2, <2>3, <2>4, <2>5 DEF Init, TypeOK
<1>6. ProcsInv
  <2>1. ASSUME NEW x \in Procs PROVE ControlInv(x) /\ StageInv(x) /\ OwnerFirst(x)
    BY <1>2, <1>3, <1>4
       DEF ControlInv, StageInv, OwnerFirst, Attaching, Detaching, Outside, With, IdleKeys, Peers
  <2> QED BY <2>1 DEF ProcsInv
<1>7. PairsInv
  <2>1. ASSUME NEW x \in Procs, NEW y \in Procs, x < y PROVE KeysInv(x, y) /\ InstancesInv(x, y)
    <3>1. Key(x, y) = "none" /\ Key(y, x) = "none"
      BY <1>4, <2>1, IpcAssumption DEF Peers, Procs
    <3> QED BY <1>2, <1>3, <2>1, <3>1 DEF KeysInv, InstancesInv, With, Detaching, IdleKeys, Bare
  <2> QED BY <2>1 DEF PairsInv
<1>8. MemoryInv
  BY <1>2 DEF MemoryInv, Bare
<1>9. HeapInv
  BY <1>1, <1>3 DEF Init, HeapInv, With, Peers
<1> QED BY <1>5, <1>6, <1>7, <1>8, <1>9 DEF IpcInv

LEMMA NextIpc == ASSUME LowestOwns, IpcInv, [Next]_vars PROVE IpcInv'
<1>1. CASE Next
  <2>1. PICK p \in Procs : Step(p)
    BY <1>1 DEF Next
  <2>2. TypeOK'
    BY <2>1, TypeStep DEF IpcInv
  <2> QED BY <2>1, <2>2, PairsStep, MemoryStep, HeapStep DEF IpcInv
<1>2. CASE UNCHANGED vars
  <2> USE <1>2 DEF vars
  <2>1. TypeOK'
    BY DEF IpcInv, TypeOK
  <2>2. \A x, y : Key(x, y)' = Key(x, y)
    BY DEF Key, Slot
  <2>3. \A x, y : /\ Bare(x, y)' <=> Bare(x, y)
                  /\ Ready(x, y)' <=> Ready(x, y)
                  /\ Leaving(x, y)' <=> Leaving(x, y)
    BY DEF Bare, Ready, Leaving
  <2>4. ProcsInv'
    BY <2>2, <2>3 DEF IpcInv, ProcsInv, ControlInv, StageInv, OwnerFirst, With
  <2>5. PairsInv'
    BY <2>2, <2>3 DEF IpcInv, PairsInv, KeysInv, InstancesInv, With
  <2>6. MemoryInv'
    BY MemoryKept DEF IpcInv
  <2>7. HeapInv'
    BY <2>2 DEF IpcInv, HeapInv, With
  <2> QED BY <2>1, <2>4, <2>5, <2>6, <2>7 DEF IpcInv
<1> QED BY <1>1, <1>2

\* Who has an instance is the slave of the pair or has the slave's.
LEMMA InstanceOfSlave ==
    ASSUME IpcInv, NEW p \in Procs, NEW q \in Procs, NEW k \in Kinds, instance[p][q][k] # Null
    PROVE  \E a, b \in Procs : /\ a < b /\ {a, b} = {p, q} /\ a = Slave(p, q) /\ b = p + q - a
                               /\ instance[a][b][k] = instance[p][q][k]
<1>1. p \in Int /\ q \in Int
  BY IpcAssumption DEF Procs
<1>2. p # q
  BY DEF IpcInv, ProcsInv, ControlInv, Bare
<1>3. CASE p < q
  <2>1. Slave(p, q) = p /\ q = p + q - p
    BY <1>1, <1>3 DEF Slave
  <2> QED BY <1>3, <2>1
<1>4. CASE q < p
  <2>1. Slave(p, q) = q /\ p = p + q - q
    BY <1>1, <1>4 DEF Slave
  <2>2. instance[p][q][k] = instance[q][p][k]
    BY <1>4 DEF IpcInv, PairsInv, InstancesInv
  <2> QED BY <1>4, <2>1, <2>2
<1> QED BY <1>1, <1>2, <1>3, <1>4

\* The same without naming the slave: either side has what the other one has.
LEMMA InstanceInOrder ==
    ASSUME IpcInv, NEW r \in Procs, NEW s \in Procs, NEW l \in Kinds, instance[r][s][l] # Null
    PROVE  r < s \/ (s < r /\ instance[s][r][l] = instance[r][s][l])
<1>1. r \in Int /\ s \in Int
  BY IpcAssumption DEF Procs
<1>2. r # s
  BY DEF IpcInv, ProcsInv, ControlInv, Bare
<1>3. s < r => instance[r][s][l] = instance[s][r][l]
  BY DEF IpcInv, PairsInv, InstancesInv
<1> QED BY <1>1, <1>2, <1>3

LEMMA MemoryShared == IpcInv => SharesLiveMemory
<1> SUFFICES ASSUME IpcInv, NEW p \in Procs, NEW q \in Procs, NEW k \in Kinds,
                    instance[p][q][k] # Null
             PROVE  /\ instance[p][q][k] \notin free
                    /\ instance[Slave(p, q)][p + q - Slave(p, q)][k] = instance[p][q][k]
                    /\ \A r, s \in Procs, l \in Kinds :
                         instance[r][s][l] = instance[p][q][k] => {r, s} = {p, q} /\ l = k
  BY DEF SharesLiveMemory
<1>1. PICK a \in Procs, b \in Procs :
         /\ a < b /\ {a, b} = {p, q} /\ a = Slave(p, q) /\ b = p + q - a
         /\ instance[a][b][k] = instance[p][q][k]
  BY InstanceOfSlave
<1>2. instance[p][q][k] \notin free
  BY <1>1 DEF IpcInv, MemoryInv
<1>3. ASSUME NEW r \in Procs, NEW s \in Procs, NEW l \in Kinds,
             instance[r][s][l] = instance[p][q][k]
      PROVE  {r, s} = {p, q} /\ l = k
  <2>0. instance[r][s][l] # Null
    BY <1>3
  <2>1. PICK c \in Procs, d \in Procs :
           /\ c < d /\ {c, d} = {r, s} /\ instance[c][d][l] = instance[r][s][l]
    <3>1. r < s \/ (s < r /\ instance[s][r][l] = instance[r][s][l])
      BY <2>0, InstanceInOrder
    <3>2. CASE r < s
      <4> WITNESS r \in Procs, s \in Procs
      <4> QED BY <3>2
    <3>3. CASE s < r /\ instance[s][r][l] = instance[r][s][l]
      <4> WITNESS s \in Procs, r \in Procs
      <4> QED BY <3>3
    <3> QED BY <3>1, <3>2, <3>3
  <2>2. instance[a][b][k] = instance[c][d][l] /\ instance[a][b][k] # Null
    BY <1>1, <1>3, <2>1
  <2>3. a = c /\ b = d /\ k = l
    BY ONLY IpcInv, <1>1, <2>1, <2>2, SMTT(30) DEF IpcInv, MemoryInv
  <2> QED BY <1>1, <2>1, <2>3
<1> QED BY <1>1, <1>2, <1>3

LEMMA HeapLives == IpcInv => HeapOutlivesUsers
<1> SUFFICES ASSUME IpcInv, NEW p \in Procs, heapOpen[p] \/ pc[p] = "open" PROVE heapCreated
  BY DEF HeapOutlivesUsers
<1>1. CASE p = 0
  BY <1>1 DEF IpcInv, HeapInv
<1>2. CASE p # 0
  <2>1. p \in Peers(0) /\ 0 \in Procs /\ 0 < p /\ 0 \in Peers(p)
    BY <1>2, IpcAssumption DEF Peers, Procs
  <2>2. KeysInv(0, p) /\ OwnerFirst(p) /\ ControlInv(0)
    BY <1>2, <2>1 DEF IpcInv, PairsInv, ProcsInv
  <2>3. Key(0, p) = "finish"
    <3>1. CASE heapOpen[p]
      BY <2>1, <3>1 DEF IpcInv, HeapInv
    <3>2. CASE pc[p] = "open" /\ remote[p] = 0
      BY <2>2, <3>2 DEF KeysInv, With
    <3>3. CASE pc[p] = "open" /\ remote[p] # 0
      BY <2>2, <3>3 DEF KeysInv, OwnerFirst, Attaching
    <3> QED BY <3>1, <3>2, <3>3
  <2>4. pc[0] \notin {"stopped", "create"}
    <3>1. pc[0] \in Outside => Key(0, p) \in IdleKeys
      BY <2>1, NobodyLeft DEF IpcInv
    <3> QED BY <2>3, <3>1 DEF Outside, IdleKeys
  <2> QED BY <2>4 DEF IpcInv, HeapInv
<1> QED BY <1>1, <1>2

LEMMA PeersReady == IpcInv => PeerIsReady
<1> SUFFICES ASSUME IpcInv, NEW p \in Procs, NEW q \in Procs, attached[p][q] > 0
             PROVE  Ready(q, p) \/ (p < q /\ (Key(q, p) = "detach" \/ Leaving(q, p)))
  BY DEF PeerIsReady
<1>1. p # q
  BY DEF IpcInv, ProcsInv, ControlInv
<1>2. q \in Peers(p) /\ p \in Peers(q)
  BY <1>1 DEF Peers
<1>3. CASE p < q
  <2>1. KeysInv(p, q) /\ InstancesInv(p, q)
    BY <1>3 DEF IpcInv, PairsInv
  <2>2. Key(q, p) \in Keys
    BY <1>2, KeysTyped DEF IpcInv
  <2>3. Key(q, p) \in {"finish", "detach"}
    <3>1. Key(p, q) = "finish" /\ Key(q, p) # "none"
      BY <2>1 DEF KeysInv
    <3>2. Key(q, p) # "start"
      BY <2>1, <3>1 DEF KeysInv
    <3> QED BY <2>2, <3>1, <3>2 DEF Keys
  <2>4. Key(q, p) = "finish" => Ready(q, p) \/ Leaving(q, p)
    BY <2>1 DEF KeysInv, InstancesInv
  <2> QED BY <1>3, <2>3, <2>4
<1>4. CASE q < p
  <2>1. KeysInv(q, p) /\ InstancesInv(q, p)
    BY <1>4 DEF IpcInv, PairsInv
  <2>2. Key(p, q) = "finish" /\ Key(q, p) = "finish"
    BY <2>1 DEF KeysInv
  <2> QED BY <2>1, <2>2 DEF InstancesInv
<1> QED BY <1>1, <1>3, <1>4, IpcAssumption DEF Procs

\* The invariant that ties the keys of every pair to its instances, on both sides, and to the
\* memory and the heap behind them (Ipc_attach, Ipc_detach).
THEOREM KeysTellTheInstances == ASSUME LowestOwns PROVE Spec => []IpcInv
<1>1. Init => IpcInv
  BY InitIpc
<1>2. IpcInv /\ [Next]_vars => IpcInv'
  BY NextIpc
<1> QED BY <1>1, <1>2, PTL DEF Spec

\* However the calls of Ipc_start, Ipc_attach, Ipc_detach and Ipc_stop of any number of processors
\* meet and whichever of them fail: the memory of an instance is allocated, and to one instance of
\* one pair, as long as one of its sides uses it, and the owner of region 0 does not delete the
\* heap before the last user has closed it.
THEOREM MemoryStaysSound == ASSUME LowestOwns PROVE Spec => []MemoryIsSound
<1>1. IpcInv => MemoryIsSound
  BY MemoryShared, HeapLives DEF IpcInv, MemoryIsSound
<1> QED BY <1>1, KeysTellTheInstances, PTL

\* A processor that Ipc_attach has told of another finds the other's instances there, until the
\* other detaches.
THEOREM PeersStayReady == ASSUME LowestOwns PROVE Spec => []PeerIsReady
<1>1. IpcInv => PeerIsReady
  BY PeersReady
<1> QED BY <1>1, KeysTellTheInstances, PTL

-----------------------------------------------------------------------------
(* The daemon of Linux: the invariant of its types                         *)

Mode(p) == client[p].state
Pipe(p)  == responseFIFO[p]
Data(p)  == responseFIFO[p].data

\* A handle whose slot has been some client's.
Taken(i) == i \in Handles /\ slots[i].pid \in Clients
Named(c) == c \in Command /\ (c.cmd # "CONNECT" => Taken(c.clientId))

LadInv ==
    /\ lad.pc \in {"process", "open", "connect", "respond"} => lad.cmd \in Command
    /\ lad.pc \in {"process", "respond"} => Named(lad.cmd)
    /\ lad.pc = "respond" => lad.cmd.cmd \in {"CREATE", "DELETE"} /\ lad.value \in 0 .. MaxCommands
    /\ lad.pc \in {"open", "connect"} =>
          /\ lad = [pc |-> lad.pc, cmd |-> lad.cmd, id |-> lad.id]
          /\ lad.cmd.cmd = "CONNECT" /\ Pipe(lad.cmd.pid).made
          /\ lad.id \in Free \cup {NoHandle} /\ Data(lad.cmd.pid) = <<>>
    /\ lad.pc = "connect" =>
          /\ Pipe(lad.cmd.pid).writer
          /\ \/ Mode(lad.cmd.pid) = "opened" /\ Pipe(lad.cmd.pid).reader
             \/ Mode(lad.cmd.pid) = "dead"

FifoInv == \A i \in DOMAIN commandFIFO : Named(commandFIFO[i])

\* LAD waits for ever, or is no more.
Stuck == Blocked \/ ~ Alive

\* As long as LAD is not stuck, a client that is alive has one CONNECT on its way, and none
\* unless it waits to be connected.
Asks(c) == c.cmd = "CONNECT" /\ Mode(c.pid) # "dead"
Looking == lad.pc \in {"process", "open"} /\ Asks(lad.cmd)
OneConnect ==
    /\ \A i \in DOMAIN commandFIFO :
          Asks(commandFIFO[i]) => /\ Mode(commandFIFO[i].pid) = "connecting"
                                  /\ Looking => lad.cmd.pid # commandFIFO[i].pid
    /\ Looking => Mode(lad.cmd.pid) = "connecting"
    /\ \A i, j \in DOMAIN commandFIFO :
          i # j /\ Asks(commandFIFO[i]) /\ Asks(commandFIFO[j])
             => commandFIFO[i].pid # commandFIFO[j].pid

\* The answers of p from the k-th on give a queue or none.
Small(p, k) == \A j \in k .. Len(Data(p)) : Data(p)[j].value \in 0 .. MaxCommands

\* The first answer that a client reads is the one to its CONNECT.
ClientInv(p) ==
    /\ Mode(p) \in {"connected", "waiting"} => Taken(client[p].handle) /\ Small(p, 1)
    /\ Mode(p) = "opened" =>
          \/ lad.pc = "connect" /\ lad.cmd.pid = p
          \/ /\ Data(p) # <<>> /\ Small(p, 2)
             /\ Data(p)[1].status = "SUCCESS" => Taken(Data(p)[1].value)

LadTyped ==
    /\ LadTypeOK /\ LadInv /\ FifoInv /\ (Stuck \/ OneConnect)
    /\ \A p \in Clients : ClientInv(p)

LEMMA LadTypes ==
    ASSUME LadTyped, NEW p \in Clients
    PROVE  /\ client[p] = [state |-> client[p].state, started |-> client[p].started,
                           handle |-> client[p].handle, queue |-> client[p].queue,
                           sent |-> client[p].sent, got |-> client[p].got]
           /\ client[p].handle \in Handles \cup {NoHandle}
           /\ client[p].queue \in 0 .. MaxCommands /\ client[p].sent \in 0 .. MaxCommands
           /\ client[p].got \in 0 .. MaxCommands /\ client[p].started \in BOOLEAN
           /\ Data(p) \in Seq(Response)
           /\ Pipe(p).made \in BOOLEAN /\ Pipe(p).reader \in BOOLEAN /\ Pipe(p).writer \in BOOLEAN
           /\ MaxCommands \in Nat /\ commands \in Nat /\ MaxDeaths \in Nat
BY LadAssumption DEF LadTyped, LadTypeOK, Data, Pipe

\* Steps that only client p takes: commands, slots and queues stay, and LAD but for its first open.
Alone(p) ==
    /\ UNCHANGED <<slots, queues, commandFIFO>>
    /\ lad' = lad \/ (lad.pc = "closed" /\ lad' = [pc |-> "ready"])
    /\ \A x \in Clients \ {p} : client'[x] = client[x] /\ responseFIFO'[x] = responseFIFO[x]
    /\ Pipe(p)'.made = Pipe(p).made /\ Pipe(p)'.writer = Pipe(p).writer

\* The types, apart.
ClientSet == [state : {"off", "connecting", "opened", "connected", "waiting", "leaving",
                       "failed", "dead"},
              started : BOOLEAN, handle : Handles \cup {NoHandle},
              queue : 0 .. MaxCommands, sent : 0 .. MaxCommands, got : 0 .. MaxCommands]
PipeSet == [made : BOOLEAN, reader : BOOLEAN, writer : BOOLEAN, data : Seq(Response)]
SlotSet == [connected : BOOLEAN, pid : Clients \cup {NoClient}, open : BOOLEAN]
CountsTyped ==
    /\ orphaned \in BOOLEAN /\ abandoned \subseteq Clients
    /\ commands \in 0 .. MaxCommands /\ deaths \in 0 .. MaxDeaths
LadLabels == {"closed", "ready", "eof", "process", "open", "connect", "respond", "killed"}

LEMMA LadTypesApart ==
    LadTypeOK <=> /\ lad.pc \in LadLabels /\ slots \in [Handles -> SlotSet]
                   /\ queues \subseteq [id : 1 .. MaxCommands, owner : Clients]
                   /\ commandFIFO \in Seq(Command)
                   /\ responseFIFO \in [Clients -> PipeSet] /\ client \in [Clients -> ClientSet]
                   /\ CountsTyped
BY DEF LadTypeOK, LadLabels, SlotSet, PipeSet, ClientSet, CountsTyped

LEMMA LadRetyped ==
    ASSUME lad'.pc \in LadLabels, slots' \in [Handles -> SlotSet],
           queues' \subseteq [id : 1 .. MaxCommands, owner : Clients],
           commandFIFO' \in Seq(Command), responseFIFO' \in [Clients -> PipeSet],
           client' \in [Clients -> ClientSet], CountsTyped'
    PROVE  LadTypeOK'
BY DEF LadTypeOK, LadLabels, SlotSet, PipeSet, ClientSet, CountsTyped

\* What a step of client p does to its own record and pipe.
Becomes(p, c, r) ==
    /\ c \in ClientSet /\ r \in PipeSet /\ c.started \in BOOLEAN
    /\ client' = [client EXCEPT ![p] = c] /\ responseFIFO' = [responseFIFO EXCEPT ![p] = r]

LEMMA LadClientRetyped ==
    ASSUME LadTyped, NEW p \in Clients, NEW c, NEW r, Becomes(p, c, r), Alone(p), CountsTyped'
    PROVE  LadTypeOK'
<1>1. LadTypeOK
  BY DEF LadTyped
<1>2. client' \in [Clients -> ClientSet] /\ responseFIFO' \in [Clients -> PipeSet]
  BY <1>1, LadTypesApart DEF Becomes
<1>3. lad'.pc \in LadLabels
  BY <1>1, LadTypesApart DEF Alone, LadLabels
<1> QED BY <1>1, <1>2, <1>3, LadTypesApart, LadRetyped DEF Alone


\* What a step of client p may do while LAD minds its own business.
Minds(p, c, r) ==
    /\ Mode(p) # "dead" /\ c.state # "opened"
    /\ IF Mode(p) = "connecting" THEN c.state = "dead" \/ Stuck ELSE c.state # "connecting"
    /\ c.state \in {"connected", "waiting"} =>
          Taken(c.handle) /\ \A j \in 1 .. Len(r.data) : r.data[j].value \in 0 .. MaxCommands
    /\ \/ c.state = "dead" /\ r.data = Data(p)
       \/ ~ (lad.pc = "connect" /\ lad.cmd.pid = p)
    /\ lad.pc = "open" /\ lad.cmd.pid = p => r.data = Data(p)

LEMMA LadTypedAlone ==
    ASSUME LadTyped, NEW p \in Clients, NEW c, NEW r, Becomes(p, c, r), Alone(p), CountsTyped',
           Minds(p, c, r)
    PROVE  LadTyped'
<1>1. LadTypeOK /\ LadTypeOK'
  BY LadClientRetyped DEF LadTyped
<1>2. /\ Mode(p)' = c.state /\ Data(p)' = r.data /\ client'[p] = c /\ responseFIFO'[p] = r
      /\ \A x \in Clients \ {p} : /\ Mode(x)' = Mode(x) /\ Data(x)' = Data(x)
                                  /\ client'[x] = client[x] /\ Pipe(x)' = Pipe(x)
      /\ Pipe(p)' = r
  BY <1>1, LadTypesApart DEF Becomes, Alone, Mode, Data, Pipe
<1>3. /\ \A i : Taken(i)' <=> Taken(i)
      /\ \A d : Named(d)' <=> Named(d)
      /\ Free' = Free
  BY DEF Alone, Taken, Named, Free
<1>4. lad' # lad => /\ lad.pc \notin {"process", "open", "connect", "respond"}
                    /\ lad'.pc \notin {"process", "open", "connect", "respond"}
  BY DEF Alone
<1>5. LadInv'
  <2>1. CASE lad' = lad
    <3>1. lad.pc \in {"open", "connect"} => Pipe(lad.cmd.pid).made' /\ lad.cmd.pid \in Clients
      BY <1>2, <2>1 DEF LadTyped, LadInv, Alone, Command
    <3>2. lad.pc \in {"open", "connect"} => Data(lad.cmd.pid)' = <<>>
      BY <1>2, <2>1, <3>1 DEF LadTyped, LadInv, Minds
    <3>4. lad.pc = "connect" => /\ Pipe(lad.cmd.pid).writer'
                                /\ \/ Mode(lad.cmd.pid)' = "opened" /\ Pipe(lad.cmd.pid).reader'
                                   \/ Mode(lad.cmd.pid)' = "dead"
      <4>1. CASE lad.pc = "connect" /\ lad.cmd.pid # p
        BY <1>2, <2>1, <3>1, <4>1 DEF LadTyped, LadInv
      <4>2. CASE lad.pc = "connect" /\ lad.cmd.pid = p
        BY <1>2, <2>1, <3>1, <4>2 DEF LadTyped, LadInv, Minds, Alone
      <4> QED BY <4>1, <4>2
    <3> QED BY <1>3, <2>1, <3>1, <3>2, <3>4 DEF LadTyped, LadInv
  <2>2. CASE lad' = [pc |-> "ready"]
    BY <2>2 DEF LadInv
  <2> QED BY <2>1, <2>2 DEF Alone
<1>6. FifoInv'
  BY <1>3 DEF LadTyped, FifoInv, Alone
<1>7. (Stuck \/ OneConnect)'
  <2>1. ASSUME Stuck PROVE Stuck'
    <3>1. CASE ~ Alive
      BY <3>1 DEF Stuck, Alone, Alive
    <3>2. CASE Blocked
      <4>1. /\ lad.pc = "open" /\ lad' = lad
            /\ lad.cmd.pid \in Clients /\ Mode(lad.cmd.pid) # "connecting"
        BY <3>2 DEF Blocked, Mode, Alone, LadTyped, LadInv, Command
      <4>2. Mode(lad.cmd.pid)' # "connecting"
        BY <1>2, <4>1 DEF Minds
      <4> QED BY <4>1, <4>2 DEF Stuck, Blocked, Mode
    <3> QED BY <2>1, <3>1, <3>2 DEF Stuck
  <2>2. ASSUME ~ Stuck, OneConnect PROVE OneConnect'
    <3>1. \A d \in Command :
             /\ Asks(d)' => Asks(d)
             /\ Asks(d)' /\ Mode(d.pid) = "connecting" => Mode(d.pid)' = "connecting"
      BY <1>2, <2>2 DEF Asks, Minds, Command
    <3>2. \A i \in DOMAIN commandFIFO : commandFIFO[i] \in Command
      BY DEF LadTyped, FifoInv, Named
    <3>3. commandFIFO' = commandFIFO
      BY DEF Alone
    <3>4. Looking' => Looking /\ lad' = lad /\ lad.cmd \in Command
      BY <1>4, <3>1 DEF Looking, LadTyped, LadInv, Alone
    <3> QED BY <2>2, <3>1, <3>2, <3>3, <3>4 DEF OneConnect, Looking
  <2> QED BY <2>1, <2>2 DEF LadTyped
<1>8. ASSUME NEW x \in Clients PROVE ClientInv(x)'
  <2>1. CASE x = p
    BY <1>2, <1>3, <2>1 DEF Minds, ClientInv, Small
  <2>2. CASE x # p
    BY <1>2, <1>3, <1>4, <2>2 DEF LadTyped, ClientInv, Small
  <2> QED BY <2>1, <2>2
<1> QED BY <1>1, <1>5, <1>6, <1>7, <1>8 DEF LadTyped

\* A step of client p, and what is left to show of it.
ClientStep(p) ==
    /\ Becomes(p, client'[p], responseFIFO'[p]) /\ Alone(p)
    /\ CountsTyped' /\ abandoned \subseteq abandoned'
    /\ Minds(p, client'[p], responseFIFO'[p])

\* Why it is one: the record and the pipe it leaves.
LEMMA LadClientStep ==
    ASSUME LadTyped, NEW p \in Clients, NEW c, NEW r,
           client' = [client EXCEPT ![p] = c], responseFIFO' = [responseFIFO EXCEPT ![p] = r],
           c \in ClientSet, r \in PipeSet, r.made = Pipe(p).made, r.writer = Pipe(p).writer,
           UNCHANGED <<slots, queues, commandFIFO>>,
           lad' = lad \/ (lad.pc = "closed" /\ lad' = [pc |-> "ready"]),
           CountsTyped', abandoned \subseteq abandoned', Minds(p, c, r)
    PROVE  ClientStep(p) /\ client'[p] = c /\ responseFIFO'[p] = r
<1>1. LadTypeOK
  BY DEF LadTyped
<1>2. client'[p] = c /\ responseFIFO'[p] = r
  BY <1>1, LadTypesApart
<1>3. Becomes(p, c, r)
  BY DEF Becomes, ClientSet
<1>4. Alone(p)
  BY <1>1, <1>2, LadTypesApart DEF Alone, Pipe
<1> QED BY <1>2, <1>3, <1>4 DEF ClientStep

LEMMA LadKeepsRecords ==
    ASSUME LadTyped, NEW p \in Clients
    PROVE  /\ client' = client => client' = [client EXCEPT ![p] = client[p]]
           /\ responseFIFO' = responseFIFO => responseFIFO' = [responseFIFO EXCEPT ![p] = Pipe(p)]
           /\ client[p] \in ClientSet /\ Pipe(p) \in PipeSet /\ Data(p) \in Seq(Response)
           /\ CountsTyped
BY LadTypesApart DEF LadTyped, Pipe, Data, PipeSet

LEMMA LadOpenCommandFIFO ==
    ASSUME LadTyped, NEW p \in Clients, OpenCommandFIFO(p)
    PROVE  ClientStep(p) /\ responseFIFO'[p] = Pipe(p)
           /\ client'[p] = [client[p] EXCEPT !.started = TRUE]
<1> USE DEF OpenCommandFIFO
<1>1. PICK c : c = [client[p] EXCEPT !.started = TRUE]
  OBVIOUS
<1>2. c \in ClientSet /\ c.state = "off" /\ Mode(p) = "off"
  BY <1>1, LadKeepsRecords DEF ClientSet, Mode
<1>3. client' = [client EXCEPT ![p] = c]
  BY <1>1, LadTypesApart DEF LadTyped
<1>4. CountsTyped' /\ abandoned \subseteq abandoned'
  BY LadKeepsRecords DEF CountsTyped
<1>5. Minds(p, c, Pipe(p))
  BY <1>2, LadKeepsRecords DEF Minds, LadTyped, LadInv, Pipe, Data
<1>6. lad' = lad \/ (lad.pc = "closed" /\ lad' = [pc |-> "ready"])
  OBVIOUS
<1>7. /\ responseFIFO' = [responseFIFO EXCEPT ![p] = Pipe(p)]
      /\ UNCHANGED <<slots, queues, commandFIFO>>
  BY LadKeepsRecords
<1> HIDE DEF OpenCommandFIFO
<1> QED BY <1>1, <1>2, <1>3, <1>4, <1>5, <1>6, <1>7, LadKeepsRecords, LadClientStep

LEMMA LadFirstAnswer ==
    ASSUME LadTyped, NEW p \in Clients, Data(p) # <<>>
    PROVE  /\ Data(p)[1] \in Response /\ Answer(p) = Data(p)[1]
           /\ Tail(Data(p)) \in Seq(Response) /\ Len(Tail(Data(p))) = Len(Data(p)) - 1
           /\ \A j \in 1 .. Len(Tail(Data(p))) : Tail(Data(p))[j] = Data(p)[j + 1]
           /\ Len(Data(p)) \in Nat /\ Len(Data(p)) >= 1
BY LadKeepsRecords DEF Answer, Data

\* What LAD_connect makes of the answer a.
Connected(p, a) ==
    [client[p] EXCEPT !.state = IF a.status = "SUCCESS" THEN "connected" ELSE "off", !.got = a.n,
                      !.handle = IF a.status = "SUCCESS" THEN a.value ELSE @]
Shorter(p, stays) == [Pipe(p) EXCEPT !.data = Tail(@), !.reader = stays]

LEMMA LadReadConnect ==
    ASSUME LadTyped, NEW p \in Clients, ReadConnect(p)
    PROVE  /\ ClientStep(p) /\ Mode(p) = "opened" /\ Data(p) # <<>>
           /\ ~ (lad.pc = "connect" /\ lad.cmd.pid = p)
           /\ client'[p] = Connected(p, Data(p)[1])
           /\ responseFIFO'[p] = Shorter(p, Data(p)[1].status = "SUCCESS")
<1>1. PICK a : a = Data(p)[1]
  OBVIOUS
<1>2. PICK c : c = Connected(p, a)
  OBVIOUS
<1> DEFINE r == Shorter(p, a.status = "SUCCESS")
<1>3. Mode(p) = "opened" /\ Data(p) # <<>>
  BY DEF ReadConnect, Mode, Data
<1>4. /\ ~ (lad.pc \in {"open", "connect"} /\ lad.cmd.pid = p)
      /\ Small(p, 2) /\ (a.status = "SUCCESS" => Taken(a.value))
  BY <1>1, <1>3 DEF LadTyped, LadInv, ClientInv
<1>5. a \in Response /\ Answer(p) = a
  BY <1>1, <1>3, LadFirstAnswer
<1>6. client' = [client EXCEPT ![p] = c]
  BY <1>2, <1>5, LadTypesApart DEF ReadConnect, LadTyped, ClientSet, Connected
<1>7. responseFIFO' = [responseFIFO EXCEPT ![p] = r]
  BY <1>5, LadTypesApart DEF ReadConnect, TakeAnswer, LadTyped, Pipe, PipeSet, Shorter
<1>8. /\ c \in ClientSet /\ c.state \in {"connected", "off"}
      /\ c.state = "connected" => Taken(c.handle)
  <2>1. a.n \in 0 .. MaxCommands /\ (a.status = "SUCCESS" => a.value \in Handles)
    BY <1>4, <1>5, LadTypes DEF Response, Taken
  <2>2. CASE a.status = "SUCCESS"
    BY <1>2, <1>4, <2>1, <2>2, LadKeepsRecords DEF ClientSet, Connected
  <2>3. CASE a.status # "SUCCESS"
    BY <1>2, <1>4, <2>1, <2>3, LadKeepsRecords DEF ClientSet, Connected
  <2> QED BY <2>2, <2>3
<1>9. r \in PipeSet /\ r.data = Tail(Data(p)) /\ r.made = Pipe(p).made /\ r.writer = Pipe(p).writer
  BY <1>3, LadFirstAnswer, LadKeepsRecords DEF PipeSet, Data, Pipe, Shorter
<1> HIDE DEF r
<1>10. Minds(p, c, r)
  <2>1. \A j \in 1 .. Len(r.data) : r.data[j].value \in 0 .. MaxCommands
    BY <1>3, <1>4, <1>9, LadFirstAnswer DEF Small
  <2> QED BY <1>3, <1>4, <1>8, <1>9, <2>1 DEF Minds
<1>11. UNCHANGED <<slots, queues, commandFIFO, lad, abandoned>> /\ CountsTyped'
  BY LadKeepsRecords DEF ReadConnect, ladVars, CountsTyped
<1>12. ClientStep(p) /\ client'[p] = c /\ responseFIFO'[p] = r
  BY <1>6, <1>7, <1>8, <1>9, <1>10, <1>11, LadClientStep
<1> QED BY <1>1, <1>2, <1>3, <1>4, <1>12 DEF r

\* The record of p in another state.
In(p, s) == [client[p] EXCEPT !.state = s]
States == {"off", "connecting", "opened", "connected", "waiting", "leaving", "failed", "dead"}

LEMMA LadStateOnly ==
    ASSUME LadTyped, NEW p \in Clients, NEW s \in States, State(p, s)
    PROVE  client' = [client EXCEPT ![p] = In(p, s)] /\ In(p, s) \in ClientSet /\ In(p, s).state = s
<1>1. client[p] \in ClientSet
  BY LadKeepsRecords
<1>2. In(p, s) \in ClientSet /\ In(p, s).state = s
  BY <1>1 DEF In, ClientSet, States
<1>3. client' = [client EXCEPT ![p] = In(p, s)]
  BY LadTypesApart DEF LadTyped, State, In, ClientSet
<1> QED BY <1>2, <1>3

\* What LAD_getResponse makes of the answer a.
AfterAnswer(p, a) == [client[p] EXCEPT !.state = "connected", !.got = a.n, !.queue = a.value]

LEMMA LadReadResponse ==
    ASSUME LadTyped, NEW p \in Clients, ReadResponse(p)
    PROVE  /\ ClientStep(p) /\ Mode(p) = "waiting" /\ Data(p) # <<>>
           /\ client'[p] = AfterAnswer(p, Data(p)[1]) /\ responseFIFO'[p] = Shorter(p, TRUE)
<1>1. PICK a : a = Data(p)[1]
  OBVIOUS
<1>2. PICK c : c = AfterAnswer(p, a)
  OBVIOUS
<1>3. PICK r : r = Shorter(p, TRUE)
  OBVIOUS
<1>4. Mode(p) = "waiting" /\ Data(p) # <<>>
  BY DEF ReadResponse, Mode, Data
<1>5. /\ ~ (lad.pc \in {"open", "connect"} /\ lad.cmd.pid = p)
      /\ Small(p, 1) /\ Taken(client[p].handle)
  BY <1>4 DEF LadTyped, LadInv, ClientInv
<1>6. a \in Response /\ Answer(p) = a
  BY <1>1, <1>4, LadFirstAnswer
<1>7. client' = [client EXCEPT ![p] = c]
  BY <1>2, <1>6, LadTypesApart DEF ReadResponse, LadTyped, ClientSet, AfterAnswer
<1>8. responseFIFO' = [responseFIFO EXCEPT ![p] = r]
  BY <1>3, <1>6, LadTypesApart
  DEF ReadResponse, TakeAnswer, LadTyped, Pipe, PipeSet, Shorter
<1>9. c \in ClientSet /\ c.state = "connected" /\ c.handle = client[p].handle
  <2>1. a.n \in 0 .. MaxCommands /\ a.value \in 0 .. MaxCommands
    BY <1>1, <1>4, <1>5, <1>6, LadTypes, LadFirstAnswer DEF Response, Small
  <2> QED BY <1>2, <2>1, LadKeepsRecords DEF ClientSet, AfterAnswer
<1>10. r \in PipeSet /\ r.data = Tail(Data(p)) /\ r.made = Pipe(p).made /\ r.writer = Pipe(p).writer
  BY <1>3, <1>4, LadFirstAnswer, LadKeepsRecords DEF PipeSet, Data, Pipe, Shorter
<1>11. Minds(p, c, r)
  <2>1. \A j \in 1 .. Len(r.data) : r.data[j].value \in 0 .. MaxCommands
    BY <1>4, <1>5, <1>10, LadFirstAnswer DEF Small
  <2> QED BY <1>4, <1>5, <1>9, <1>10, <2>1 DEF Minds
<1>12. UNCHANGED <<slots, queues, commandFIFO, lad, abandoned>> /\ CountsTyped'
  BY LadKeepsRecords DEF ReadResponse, ladVars, CountsTyped
<1>13. ClientStep(p) /\ client'[p] = c /\ responseFIFO'[p] = r
  BY <1>7, <1>8, <1>9, <1>10, <1>11, <1>12, LadClientStep
<1> QED BY <1>1, <1>2, <1>3, <1>4, <1>13

\* The steps that change the state of p and nothing of its pipe.
LEMMA LadStateStep ==
    ASSUME LadTyped, NEW p \in Clients, NEW s \in States, State(p, s),
           UNCHANGED <<ladVars, commandFIFO, responseFIFO, commands, deaths, abandoned>>,
           orphaned' \in BOOLEAN,
           Minds(p, In(p, s), Pipe(p))
    PROVE  ClientStep(p) /\ client'[p] = In(p, s) /\ responseFIFO'[p] = Pipe(p)
<1>1. client' = [client EXCEPT ![p] = In(p, s)] /\ In(p, s) \in ClientSet
  BY LadStateOnly
<1>2. UNCHANGED <<slots, queues, commandFIFO, lad, abandoned>> /\ CountsTyped'
  BY LadKeepsRecords DEF ladVars, CountsTyped
<1>3. responseFIFO' = [responseFIFO EXCEPT ![p] = Pipe(p)] /\ Pipe(p) \in PipeSet
  BY LadKeepsRecords
<1> QED BY <1>1, <1>2, <1>3, LadClientStep

LEMMA LadEndOfFile ==
    ASSUME LadTyped, NEW p \in Clients, EndOfFile(p)
    PROVE  /\ ClientStep(p) /\ client'[p] = In(p, "failed") /\ responseFIFO'[p] = Pipe(p)
           /\ Mode(p) \in {"opened", "waiting"} /\ Data(p) = <<>> /\ ~ Pipe(p).writer
<1>1. Mode(p) \in {"opened", "waiting"} /\ Data(p) = <<>> /\ ~ Pipe(p).writer
  BY DEF EndOfFile, Mode, Data, Pipe
<1>2. ~ (lad.pc = "connect" /\ lad.cmd.pid = p)
  BY <1>1 DEF LadTyped, LadInv
<1>3. In(p, "failed").state = "failed"
  BY LadStateOnly, LadKeepsRecords DEF In, ClientSet
<1>4. Minds(p, In(p, "failed"), Pipe(p))
  BY <1>1, <1>2, <1>3 DEF Minds, Pipe, Data
<1>5. orphaned' \in BOOLEAN /\ State(p, "failed")
  BY LadKeepsRecords DEF EndOfFile, CountsTyped
<1>6. UNCHANGED <<ladVars, commandFIFO, responseFIFO, commands, deaths, abandoned>>
  BY DEF EndOfFile
<1> QED BY <1>1, <1>4, <1>5, <1>6, LadStateStep DEF States

LEMMA LadConnectTimeout ==
    ASSUME LadTyped, NEW p \in Clients, ConnectTimeout(p)
    PROVE  ClientStep(p) /\ orphaned'
<1>1. Mode(p) = "connecting" /\ Stuck
  BY DEF ConnectTimeout, Mode, Stuck, TimesOut
<1>2. ~ (lad.pc = "connect" /\ lad.cmd.pid = p)
  BY <1>1 DEF LadTyped, LadInv
<1>3. In(p, "off").state = "off"
  BY LadStateOnly, LadKeepsRecords DEF In, ClientSet
<1>4. Minds(p, In(p, "off"), Pipe(p))
  BY <1>1, <1>2, <1>3 DEF Minds, Pipe, Data
<1>5. orphaned' = TRUE /\ State(p, "off")
  BY DEF ConnectTimeout
<1>6. UNCHANGED <<ladVars, commandFIFO, responseFIFO, commands, deaths, abandoned>>
  BY DEF ConnectTimeout
<1> QED BY <1>4, <1>5, <1>6, LadStateStep DEF States

LEMMA LadDisconnectTimeout ==
    ASSUME LadTyped, NEW p \in Clients, DisconnectTimeout(p)
    PROVE  ClientStep(p) /\ Stuck
<1>1. Mode(p) = "leaving" /\ Stuck
  BY DEF DisconnectTimeout, Mode, Stuck, TimesOut
<1>2. ~ (lad.pc = "connect" /\ lad.cmd.pid = p)
  BY <1>1 DEF LadTyped, LadInv
<1>3. In(p, "failed").state = "failed"
  BY LadStateOnly, LadKeepsRecords DEF In, ClientSet
<1>4. Minds(p, In(p, "failed"), Pipe(p))
  BY <1>1, <1>2, <1>3 DEF Minds, Pipe, Data
<1>5. orphaned' \in BOOLEAN /\ State(p, "failed")
  BY LadKeepsRecords DEF DisconnectTimeout, CountsTyped
<1>6. UNCHANGED <<ladVars, commandFIFO, responseFIFO, commands, deaths, abandoned>>
  BY DEF DisconnectTimeout
<1> QED BY <1>1, <1>4, <1>5, <1>6, LadStateStep DEF States

LEMMA LadDisconnected ==
    ASSUME LadTyped, NEW p \in Clients, Disconnected(p)
    PROVE  /\ ClientStep(p) /\ responseFIFO'[p] = Pipe(p) /\ Mode(p) = "leaving" /\ ~ Pipe(p).made
           /\ client'[p] = [client[p] EXCEPT !.state = "off", !.handle = NoHandle]
<1>1. PICK c : c = [client[p] EXCEPT !.state = "off", !.handle = NoHandle]
  OBVIOUS
<1>2. Mode(p) = "leaving" /\ ~ Pipe(p).made
  BY DEF Disconnected, Mode, Pipe
<1>3. ~ (lad.pc = "connect" /\ lad.cmd.pid = p)
  BY <1>2 DEF LadTyped, LadInv
<1>4. c \in ClientSet /\ c.state = "off"
  BY <1>1, LadKeepsRecords DEF ClientSet
<1>5. client' = [client EXCEPT ![p] = c]
  BY <1>1, LadTypesApart DEF Disconnected, LadTyped, ClientSet
<1>6. Minds(p, c, Pipe(p))
  BY <1>2, <1>3, <1>4 DEF Minds, Pipe, Data
<1>7. UNCHANGED <<slots, queues, commandFIFO, lad, responseFIFO, abandoned>> /\ CountsTyped'
  BY LadKeepsRecords DEF Disconnected, ladVars, CountsTyped
<1>8. responseFIFO' = [responseFIFO EXCEPT ![p] = Pipe(p)] /\ Pipe(p) \in PipeSet
  BY <1>7, LadKeepsRecords
<1> QED BY <1>1, <1>2, <1>4, <1>5, <1>6, <1>7, <1>8, LadClientStep

\* A process that ends closes its end of the pipe.
Unread(p) == [Pipe(p) EXCEPT !.reader = FALSE]

LEMMA LadDies ==
    ASSUME LadTyped, NEW p \in Clients, Mode(p) # "dead", State(p, "dead"),
           responseFIFO' = [responseFIFO EXCEPT ![p].reader = FALSE],
           UNCHANGED <<lad, slots, queues, commandFIFO>>, CountsTyped',
           abandoned \subseteq abandoned'
    PROVE  ClientStep(p) /\ client'[p] = In(p, "dead") /\ responseFIFO'[p] = Unread(p)
<1>1. /\ client' = [client EXCEPT ![p] = In(p, "dead")] /\ In(p, "dead") \in ClientSet
      /\ In(p, "dead").state = "dead"
  BY LadStateOnly DEF States
<1>2. /\ Unread(p) \in PipeSet /\ Unread(p).made = Pipe(p).made /\ Unread(p).writer = Pipe(p).writer
      /\ Unread(p).data = Data(p)
  BY LadKeepsRecords DEF Unread, PipeSet, Pipe, Data
<1>3. responseFIFO' = [responseFIFO EXCEPT ![p] = Unread(p)]
  BY LadTypesApart DEF LadTyped, Unread, Pipe, PipeSet
<1>4. Minds(p, In(p, "dead"), Unread(p))
  BY <1>1, <1>2 DEF Minds
<1> QED BY <1>1, <1>2, <1>3, <1>4, LadClientStep

LEMMA LadCounts ==
    ASSUME LadTyped
    PROVE  /\ MaxCommands \in Nat /\ MaxDeaths \in Nat /\ commands \in 0 .. MaxCommands
           /\ deaths \in 0 .. MaxDeaths /\ orphaned \in BOOLEAN /\ abandoned \subseteq Clients
BY LadAssumption DEF LadTyped, LadTypeOK

LEMMA LadDie ==
    ASSUME LadTyped, NEW p \in Clients, Die(p)
    PROVE  /\ ClientStep(p) /\ client'[p] = In(p, "dead") /\ responseFIFO'[p] = Unread(p)
           /\ Mode(p) # "dead" /\ (orphaned' <=> orphaned \/ Pending(p))
<1>1. Mode(p) # "dead" /\ State(p, "dead") /\ UNCHANGED <<lad, slots, queues, commandFIFO>>
  BY DEF Die, Gone, Mode, ladVars
<1>2. CountsTyped' /\ abandoned \subseteq abandoned'
  <2>1. orphaned' \in BOOLEAN
    BY Zenon DEF Die
  <2>2. deaths' \in 0 .. MaxDeaths /\ commands' = commands /\ abandoned' = abandoned
    BY LadCounts DEF Die
  <2> QED BY <2>1, <2>2, LadCounts DEF CountsTyped
<1>3. /\ responseFIFO' = [responseFIFO EXCEPT ![p].reader = FALSE]
      /\ orphaned' = (orphaned \/ Pending(p))
  BY DEF Die
<1> QED BY <1>1, <1>2, <1>3, LadDies

-----------------------------------------------------------------------------
(* Commands that are put                                                   *)

PutCommand(p, cmd, queue) ==
    [cmd |-> cmd, pid |-> p, clientId |-> client[p].handle, queue |-> queue, n |-> commands']
Asking(p, s) == [client[p] EXCEPT !.state = s, !.sent = commands']
Leaver(p, cmd) == [Pipe(p) EXCEPT !.reader = @ /\ cmd # "DISCONNECT"]

\* The states in which p puts a command, and the ones it is in when the command is on its way.
Puts(p, s, cmd, queue) ==
    \/ Mode(p) = "off" /\ s = "connecting" /\ cmd = "CONNECT" /\ queue = 0 /\ ~ Pipe(p).made
    \/ Mode(p) = "connected" /\ s = "waiting" /\ cmd = "CREATE" /\ queue = 0 /\ client[p].queue = 0
    \/ /\ Mode(p) = "connected" /\ s = "waiting" /\ cmd = "DELETE"
       /\ queue = client[p].queue /\ queue # 0
    \/ /\ Mode(p) = "connected" /\ s = "leaving" /\ cmd = "DISCONNECT" /\ queue = 0
       /\ client[p].queue = 0 \/ p \in abandoned'

\* What became of the clients that left a queue behind when one puts a command.
Abandons == abandoned \subseteq abandoned' /\ abandoned' \subseteq Clients

\* The command is in the pipe.
Sent(p, s, cmd, queue) ==
    /\ client' = [client EXCEPT ![p] = Asking(p, s)]
    /\ responseFIFO' = [responseFIFO EXCEPT ![p] = Leaver(p, cmd)]
    /\ commandFIFO' = Append(commandFIFO, PutCommand(p, cmd, queue))
    /\ Asking(p, s) \in ClientSet /\ Leaver(p, cmd) \in PipeSet
    /\ PutCommand(p, cmd, queue) \in Command
    /\ Alive
    /\ UNCHANGED <<lad, slots, queues, orphaned>> /\ CountsTyped' /\ abandoned \subseteq abandoned'
    /\ commands' = commands + 1 /\ commands' \in 1 .. MaxCommands

LEMMA LadPut ==
    ASSUME LadTyped, NEW p \in Clients, NEW s, NEW cmd, NEW queue, Puts(p, s, cmd, queue),
           Put(p, s, cmd, queue), Abandons
    PROVE  /\ s \in States
           /\ \/ /\ ClientStep(p) /\ client'[p] = In(p, "dead") /\ responseFIFO'[p] = Unread(p)
                 /\ UNCHANGED orphaned /\ commands' = commands + 1
              \/ Sent(p, s, cmd, queue)
<1>1. /\ commands < MaxCommands /\ commands' = commands + 1
      /\ UNCHANGED <<lad, slots, queues, orphaned, deaths>>
  BY DEF Put
<1>2. commands' \in 1 .. MaxCommands /\ CountsTyped' /\ abandoned \subseteq abandoned'
  <2>1. commands' \in 1 .. MaxCommands /\ orphaned' \in BOOLEAN /\ deaths' \in 0 .. MaxDeaths
    BY <1>1, LadCounts
  <2> QED BY <2>1, LadCounts DEF CountsTyped, Abandons
<1>3. Mode(p) # "dead" /\ s \in States /\ cmd \in {"CONNECT", "CREATE", "DELETE", "DISCONNECT"}
      /\ queue \in 0 .. MaxCommands
  <2>1. client[p].queue \in 0 .. MaxCommands /\ 0 \in 0 .. MaxCommands
    BY LadKeepsRecords, LadCounts DEF ClientSet
  <2> QED BY <2>1 DEF Puts, States
<1>4. CASE lad.pc \in {"closed", "killed"}
  <2>1. /\ State(p, "dead") /\ UNCHANGED commandFIFO
        /\ responseFIFO' = [responseFIFO EXCEPT ![p].reader = FALSE]
    BY <1>4 DEF Put, State
  <2> QED BY <1>1, <1>2, <1>3, <2>1, LadDies
<1>5. CASE lad.pc \notin {"closed", "killed"}
  <2>1. client' = [client EXCEPT ![p] = Asking(p, s)]
    BY <1>5, LadTypesApart DEF Put, Asking, LadTyped, ClientSet
  <2>2. Asking(p, s) \in ClientSet
    <3>1. client[p] \in ClientSet /\ commands' \in 0 .. MaxCommands
      BY <1>2, LadKeepsRecords
    <3> QED BY <1>3, <3>1 DEF Asking, ClientSet, States
  <2>3. responseFIFO' = [responseFIFO EXCEPT ![p] = Leaver(p, cmd)]
    BY <1>5, LadTypesApart DEF Put, Leaver, Pipe, LadTyped, PipeSet
  <2>4. Leaver(p, cmd) \in PipeSet
    BY LadKeepsRecords DEF Leaver, PipeSet
  <2>5. commandFIFO' = Append(commandFIFO, PutCommand(p, cmd, queue))
    BY <1>5 DEF Put, PutCommand
  <2>6. PutCommand(p, cmd, queue) \in Command
    BY <1>2, <1>3, LadTypes DEF PutCommand, Command
  <2> QED BY <1>1, <1>2, <1>3, <1>5, <2>1, <2>2, <2>3, <2>4, <2>5, <2>6 DEF Sent, Alive
<1> QED BY <1>3, <1>4, <1>5

\* What is seen of it.
SentSeen(p, s, d) ==
    /\ Mode(p)' = s /\ client'[p] = Asking(p, s) /\ Data(p)' = Data(p)
    /\ Pipe(p)'.made = Pipe(p).made /\ Pipe(p)'.writer = Pipe(p).writer
    /\ client'[p].handle = client[p].handle /\ client'[p].queue = client[p].queue
    /\ client'[p].sent = commands' /\ client'[p].got = client[p].got
    /\ \A x \in Clients \ {p} : /\ Mode(x)' = Mode(x) /\ Data(x)' = Data(x)
                                /\ client'[x] = client[x] /\ Pipe(x)' = Pipe(x)
    /\ DOMAIN commandFIFO' = DOMAIN commandFIFO \cup {Len(commandFIFO) + 1}
    /\ Len(commandFIFO) + 1 \notin DOMAIN commandFIFO
    /\ \A i \in DOMAIN commandFIFO : commandFIFO'[i] = commandFIFO[i]
    /\ commandFIFO'[Len(commandFIFO) + 1] = d

LEMMA LadSentSeen ==
    ASSUME LadTyped, NEW p \in Clients, NEW s \in States, NEW cmd, NEW queue, Sent(p, s, cmd, queue)
    PROVE  SentSeen(p, s, PutCommand(p, cmd, queue))
<1>1. LadTypeOK
  BY DEF LadTyped
<1>2. client[p] \in ClientSet /\ Pipe(p) \in PipeSet
  BY LadKeepsRecords
<1>3. /\ client'[p] = Asking(p, s) /\ responseFIFO'[p] = Leaver(p, cmd)
      /\ \A x \in Clients \ {p} : client'[x] = client[x] /\ responseFIFO'[x] = responseFIFO[x]
  BY <1>1, LadTypesApart DEF Sent
<1>4. /\ Asking(p, s).state = s /\ Asking(p, s).handle = client[p].handle
      /\ Asking(p, s).queue = client[p].queue /\ Asking(p, s).sent = commands'
      /\ Asking(p, s).got = client[p].got
  BY <1>2 DEF Asking, ClientSet
<1>5. /\ Leaver(p, cmd).data = Data(p) /\ Leaver(p, cmd).made = Pipe(p).made
      /\ Leaver(p, cmd).writer = Pipe(p).writer
  BY <1>2 DEF Leaver, PipeSet, Data, Pipe
<1>6. commandFIFO \in Seq(Command)
  BY <1>1, LadTypesApart
<1>7. /\ DOMAIN commandFIFO' = DOMAIN commandFIFO \cup {Len(commandFIFO) + 1}
      /\ Len(commandFIFO) + 1 \notin DOMAIN commandFIFO
      /\ \A i \in DOMAIN commandFIFO : commandFIFO'[i] = commandFIFO[i]
      /\ commandFIFO'[Len(commandFIFO) + 1] = PutCommand(p, cmd, queue)
  <2>1. DOMAIN commandFIFO = 1 .. Len(commandFIFO) /\ Len(commandFIFO) \in Nat
    BY <1>6
  <2>2. DOMAIN commandFIFO' = 1 .. Len(commandFIFO) + 1
    BY <1>6 DEF Sent
  <2>3. /\ \A i \in DOMAIN commandFIFO : commandFIFO'[i] = commandFIFO[i]
        /\ commandFIFO'[Len(commandFIFO) + 1] = PutCommand(p, cmd, queue)
    BY <1>6, <2>1 DEF Sent
  <2> QED BY <2>1, <2>2, <2>3
<1> QED BY <1>3, <1>4, <1>5, <1>7 DEF SentSeen, Mode, Data, Pipe

NowAsks(i) == Asks(commandFIFO[i])

LEMMA LadTypedSent ==
    ASSUME LadTyped, NEW p \in Clients, NEW s \in States, NEW cmd, NEW queue,
           Puts(p, s, cmd, queue), Sent(p, s, cmd, queue)
    PROVE  LadTyped'
<1> DEFINE d == PutCommand(p, cmd, queue)
<1>0. PICK n : n = Len(commandFIFO) + 1
  OBVIOUS
<1>1. LadTypeOK'
  <2>1. LadTypeOK
    BY DEF LadTyped
  <2>2. client' \in [Clients -> ClientSet] /\ responseFIFO' \in [Clients -> PipeSet]
    BY <2>1, LadTypesApart DEF Sent
  <2>3. commandFIFO' \in Seq(Command)
    BY <2>1, LadTypesApart DEF Sent
  <2> QED BY <2>1, <2>2, <2>3, LadTypesApart, LadRetyped DEF Sent
<1>2. SentSeen(p, s, d)
  BY LadSentSeen
<1>3. /\ d \in Command /\ d.pid = p /\ d.cmd = cmd /\ d.clientId = client[p].handle
      /\ lad' = lad /\ slots' = slots
  BY DEF Sent, PutCommand
<1> HIDE DEF d
<1>4. /\ \A i : Taken(i)' <=> Taken(i)
      /\ \A c : Named(c)' <=> Named(c)
      /\ Free' = Free
  BY <1>3 DEF Taken, Named, Free
<1>5. /\ Mode(p) \in {"off", "connected"} /\ s \in {"connecting", "waiting", "leaving"}
      /\ s = "connecting" => Mode(p) = "off" /\ ~ Pipe(p).made /\ cmd = "CONNECT"
      /\ s # "connecting" => Mode(p) = "connected" /\ cmd # "CONNECT"
  BY DEF Puts
<1>6. Mode(p) = "connected" => Taken(client[p].handle) /\ Small(p, 1)
  BY DEF LadTyped, ClientInv
<1>7. LadInv'
  <2>1. lad.pc \in {"open", "connect"} => lad.cmd.pid \in Clients /\ responseFIFO'[lad.cmd.pid].made
    BY <1>2 DEF LadTyped, LadInv, Command, SentSeen, Pipe
  <2>2. lad.pc = "connect" => lad.cmd.pid \in Clients \ {p}
    BY <1>5, <2>1 DEF LadTyped, LadInv
  <2>3. lad.pc = "connect" => /\ responseFIFO'[lad.cmd.pid] = responseFIFO[lad.cmd.pid]
                              /\ client'[lad.cmd.pid] = client[lad.cmd.pid]
    BY <1>2, <2>2 DEF SentSeen, Pipe
  <2>4. lad.pc = "open" => responseFIFO'[lad.cmd.pid].data = <<>>
    BY <1>2, <2>1 DEF SentSeen, Data, LadTyped, LadInv
  <2> QED BY <1>3, <1>4, <2>1, <2>3, <2>4 DEF LadTyped, LadInv, Pipe, Data, Mode
<1>8. FifoInv'
  <2>1. Named(d)
    BY <1>3, <1>5, <1>6 DEF Named
  <2> QED BY <1>2, <1>4, <2>1 DEF LadTyped, FifoInv, SentSeen
<1>9. (Stuck \/ OneConnect)'
  <2>1. ASSUME Stuck PROVE Stuck'
    <3>1. lad.pc = "open" /\ Mode(lad.cmd.pid) # "connecting" /\ lad.cmd.pid \in Clients
          /\ Pipe(lad.cmd.pid).made
      BY <2>1 DEF Stuck, Sent, Blocked, Mode, LadTyped, LadInv, Command
    <3>2. client'[lad.cmd.pid].state # "connecting"
      BY <1>2, <1>5, <3>1 DEF SentSeen, Mode
    <3> QED BY <1>3, <3>1, <3>2 DEF Stuck, Blocked, Mode
  <2>2. ASSUME OneConnect PROVE OneConnect'
    <3>1. \A i \in DOMAIN commandFIFO : commandFIFO[i].pid \in Clients
      BY DEF LadTyped, FifoInv, Named, Command
    <3>2. ASSUME NEW i \in DOMAIN commandFIFO, NowAsks(i)'
          PROVE  /\ NowAsks(i) /\ commandFIFO[i].pid # p
                 /\ client'[commandFIFO'[i].pid].state = "connecting"
      <4>1. commandFIFO'[i] = commandFIFO[i]
        BY <1>2 DEF SentSeen
      <4>2. PICK x \in Clients : x = commandFIFO[i].pid
        BY <3>1
      <4>3. NowAsks(i)
        BY <1>2, <1>5, <3>2, <4>1, <4>2 DEF NowAsks, Asks, SentSeen, Mode
      <4>4. Mode(x) = "connecting"
        BY <2>2, <4>2, <4>3 DEF OneConnect, NowAsks
      <4> QED BY <1>2, <1>5, <4>1, <4>2, <4>3, <4>4 DEF SentSeen, Mode
    <3>3. NowAsks(n)' => s = "connecting"
      <4>1. commandFIFO'[n].cmd = cmd
        BY <1>0, <1>2, <1>3 DEF SentSeen
      <4> QED BY <1>5, <4>1 DEF NowAsks, Asks
    <3>4. commandFIFO'[n].pid = p /\ client'[p].state = s
      BY <1>0, <1>2, <1>3 DEF SentSeen, Mode
    <3>5. ASSUME Looking'
          PROVE  /\ Looking /\ lad.cmd.pid # p /\ client'[lad.cmd.pid].state = "connecting"
      <4>1. PICK x \in Clients : x = lad.cmd.pid
        BY <1>3, <3>5 DEF Looking, LadTyped, LadInv, Command
      <4>2. Looking
        BY <1>2, <1>3, <1>5, <3>5, <4>1 DEF Looking, Asks, SentSeen, Mode
      <4>3. Mode(x) = "connecting"
        BY <2>2, <4>1, <4>2 DEF OneConnect
      <4> QED BY <1>2, <1>5, <4>1, <4>2, <4>3 DEF SentSeen, Mode
    <3>6. DOMAIN commandFIFO' = DOMAIN commandFIFO \cup {n}
          /\ \A i \in DOMAIN commandFIFO : commandFIFO'[i] = commandFIFO[i]
      BY <1>0, <1>2 DEF SentSeen
    <3>7. ASSUME NEW i \in DOMAIN commandFIFO', NowAsks(i)'
          PROVE  /\ client'[commandFIFO'[i].pid].state = "connecting"
                 /\ Looking' => lad.cmd.pid # commandFIFO'[i].pid
      <4>1. CASE i = n
        BY <3>3, <3>4, <3>5, <3>7, <4>1
      <4>2. CASE i \in DOMAIN commandFIFO
        BY <2>2, <3>2, <3>5, <3>6, <3>7, <4>2 DEF OneConnect, NowAsks
      <4> QED BY <3>6, <4>1, <4>2
    <3>8. ASSUME NEW i \in DOMAIN commandFIFO', NEW j \in DOMAIN commandFIFO', i # j,
                 NowAsks(i)', NowAsks(j)'
          PROVE  commandFIFO'[i].pid # commandFIFO'[j].pid
      <4>1. CASE i = n \/ j = n
        BY <3>2, <3>4, <3>6, <3>8, <4>1
      <4>2. CASE i # n /\ j # n
        BY <2>2, <3>2, <3>6, <3>8, <4>2 DEF OneConnect, NowAsks
      <4> QED BY <4>1, <4>2
    <3> QED BY <1>3, <3>5, <3>7, <3>8 DEF OneConnect, NowAsks, Mode
  <2> QED BY <2>1, <2>2 DEF LadTyped
<1>10. ASSUME NEW x \in Clients PROVE ClientInv(x)'
  <2>1. CASE x = p
    BY <1>2, <1>4, <1>5, <1>6, <2>1 DEF SentSeen, ClientInv, Small
  <2>2. CASE x # p
    BY <1>2, <1>3, <1>4, <2>2 DEF SentSeen, LadTyped, ClientInv, Small
  <2> QED BY <2>1, <2>2
<1> QED BY <1>1, <1>7, <1>8, <1>9, <1>10 DEF LadTyped

-----------------------------------------------------------------------------
(* The steps of the daemon keep the types                                   *)

TakenStays == \A i \in Handles : Taken(i) => Taken(i)'

LEMMA LadHandlesRange ==
    ASSUME LadTyped
    PROVE  /\ Handles \subseteq Int /\ NoHandle \in Int /\ NoHandle \notin Handles
           /\ \A i : Taken(i) => i \in Handles
BY LadAssumption DEF LadTyped, Handles, NoHandle, Taken

\* A slot is only ever given to another client.
LEMMA LadTakenStays ==
    ASSUME LadTyped,
           \A i \in Handles : slots'[i].pid = slots[i].pid \/ slots'[i].pid \in Clients
    PROVE  TakenStays
BY DEF TakenStays, Taken, Handles

\* Steps after which LAD is not about to take up a CONNECT.
Onward ==
    /\ UNCHANGED <<client, commandFIFO>> /\ TakenStays
    /\ lad.pc \notin {"open", "killed"}
    /\ lad'.pc \in {"closed", "ready", "eof", "killed", "respond"}

LEMMA LadTypedOnward ==
    ASSUME LadTyped, Onward, LadTypeOK', LadInv',
           \A x \in Clients : Mode(x) \in {"opened", "connected", "waiting"} => ClientInv(x)'
    PROVE  LadTyped'
<1>1. FifoInv'
  BY LadHandlesRange DEF LadTyped, FifoInv, Named, Onward, TakenStays
<1>2. (Stuck \/ OneConnect)'
  <2>1. CASE Alive'
    <3>1. OneConnect
      BY <2>1 DEF Onward, LadTyped, LadInv, Stuck, Blocked, Alive
    <3>2. ~ Looking'
      BY DEF Onward, Looking
    <3> QED BY <3>1, <3>2 DEF Onward, OneConnect, Asks, Mode
  <2>2. CASE ~ Alive'
    BY <2>2 DEF Stuck
  <2> QED BY <2>1, <2>2
<1>3. ASSUME NEW x \in Clients PROVE ClientInv(x)'
  BY <1>3 DEF ClientInv, Onward, Mode
<1> QED BY <1>1, <1>2, <1>3 DEF LadTyped

\* LAD at rest says nothing of a command.
LEMMA LadAtRest ==
    ASSUME lad'.pc \in {"closed", "ready", "eof", "killed"}
    PROVE  LadInv'
BY DEF LadInv

\* The answers of x are still to be read and none is added.
LEMMA LadSameData ==
    ASSUME LadTyped, NEW x \in Clients, client' = client, Data(x)' = Data(x),
           \A i \in Handles : Taken(i) => Taken(i)',
           ~ (Mode(x) = "opened" /\ lad.pc = "connect" /\ lad.cmd.pid = x)
    PROVE  ClientInv(x)'
<1>1. ClientInv(x) /\ \A i : Taken(i) => Taken(i)'
  BY LadHandlesRange DEF LadTyped
<1> QED BY <1>1 DEF ClientInv, Mode, Small

LEMMA LadTypedRest ==
    ASSUME LadTyped, Reopen \/ Eof \/ ClosePipe
    PROVE  LadTyped'
<1>1. /\ lad.pc \in {"closed", "ready", "eof"} /\ lad'.pc \in {"closed", "ready", "eof"}
      /\ UNCHANGED <<slots, queues, commandFIFO, responseFIFO, client, commands, deaths>>
      /\ UNCHANGED <<orphaned, abandoned>>
  BY DEF Reopen, Eof, ClosePipe, clientVars
<1>2. LadTypeOK'
  <2>1. LadTypeOK
    BY DEF LadTyped
  <2>2. CountsTyped'
    BY <1>1, LadKeepsRecords, LadCounts DEF CountsTyped
  <2> QED BY <1>1, <2>1, <2>2, LadTypesApart, LadRetyped DEF LadLabels
<1>3. TakenStays
  BY <1>1, LadTakenStays
<1>4. Onward
  BY <1>1, <1>3 DEF Onward
<1>5. ASSUME NEW x \in Clients PROVE ClientInv(x)'
  BY <1>1, <1>3, LadSameData DEF TakenStays, Data
<1> QED BY <1>1, <1>2, <1>4, <1>5, LadAtRest, LadTypedOnward

\* LAD is killed.
LEMMA LadTypedKilled ==
    ASSUME LadTyped, Killed, TakenStays,
           UNCHANGED <<commandFIFO, client, commands, deaths, orphaned>>,
           abandoned' \subseteq Clients,
           lad.pc \in {"process", "connect", "respond"},
           slots' \in [Handles -> SlotSet],
           queues' \subseteq [id : 1 .. MaxCommands, owner : Clients],
           lad.pc = "connect" => ~ Pipe(lad.cmd.pid).reader
    PROVE  LadTyped'
<1>1. lad' = [pc |-> "killed"] /\ UNCHANGED <<client, commands, deaths, orphaned>>
  BY DEF Killed
<1>2. /\ responseFIFO' \in [Clients -> PipeSet]
      /\ \A x \in Clients : Data(x)' = Data(x)
  <2>1. \A x \in Clients : /\ [responseFIFO[x] EXCEPT !.writer = FALSE] \in PipeSet
                           /\ [responseFIFO[x] EXCEPT !.writer = FALSE].data = Data(x)
    BY LadKeepsRecords DEF PipeSet, Data, Pipe
  <2> QED BY <2>1 DEF Killed, Data
<1>3. LadTypeOK'
  <2>1. LadTypeOK
    BY DEF LadTyped
  <2>2. CountsTyped'
    BY <1>1, LadCounts DEF CountsTyped
  <2> QED BY <1>1, <1>2, <2>1, <2>2, LadTypesApart, LadRetyped DEF LadLabels
<1>4. Onward
  BY <1>1 DEF Onward
<1>5. ASSUME NEW x \in Clients PROVE ClientInv(x)'
  <2>1. ~ (Mode(x) = "opened" /\ lad.pc = "connect" /\ lad.cmd.pid = x)
    BY DEF LadTyped, LadInv
  <2> QED BY <1>1, <1>2, <2>1, LadSameData DEF TakenStays
<1> QED BY <1>1, <1>3, <1>4, <1>5, LadAtRest, LadTypedOnward

LEMMA LadPipesTyped ==
    ASSUME LadTyped
    PROVE  /\ \A x \in Clients :
                 /\ [responseFIFO[x] EXCEPT !.made = FALSE, !.writer = FALSE] \in PipeSet
                 /\ responseFIFO[x] \in PipeSet
                 /\ [responseFIFO[x] EXCEPT !.made = FALSE, !.writer = FALSE].data = Data(x)
           /\ \A i \in Handles :
                 /\ [slots[i] EXCEPT !.connected = FALSE, !.open = FALSE] \in SlotSet
                 /\ slots[i] \in SlotSet
                 /\ [slots[i] EXCEPT !.connected = FALSE, !.open = FALSE].pid = slots[i].pid
<1>1. LadTypeOK
  BY DEF LadTyped
<1>2. \A x \in Clients : responseFIFO[x] \in PipeSet
  BY <1>1, LadTypesApart
<1>3. \A i \in Handles : slots[i] \in SlotSet
  BY <1>1, LadTypesApart
<1>4. ASSUME NEW x \in Clients
      PROVE  /\ [responseFIFO[x] EXCEPT !.made = FALSE, !.writer = FALSE] \in PipeSet
             /\ [responseFIFO[x] EXCEPT !.made = FALSE, !.writer = FALSE].data = Data(x)
  BY <1>2 DEF PipeSet, Data
<1>5. ASSUME NEW i \in Handles
      PROVE  /\ [slots[i] EXCEPT !.connected = FALSE, !.open = FALSE] \in SlotSet
             /\ [slots[i] EXCEPT !.connected = FALSE, !.open = FALSE].pid = slots[i].pid
  BY <1>3 DEF SlotSet
<1> QED BY <1>2, <1>3, <1>4, <1>5

\* The clients whose slots are closed, and what is left of slots and pipes.
Dropped(D) == {slots[i].pid : i \in D}

LEMMA LadDisconnectSlots ==
    ASSUME LadTyped, NEW D \in SUBSET Handles, DisconnectSlots(D)
    PROVE  /\ slots' \in [Handles -> SlotSet] /\ responseFIFO' \in [Clients -> PipeSet]
           /\ TakenStays /\ \A x \in Clients : Data(x)' = Data(x)
           /\ \A i \in Handles : slots'[i].pid = slots[i].pid
           /\ \A i \in D : ~ slots'[i].connected
           /\ \A i \in Handles \ D : slots'[i] = slots[i]
           /\ \A x \in Clients : x \in Dropped(D) => ~ Pipe(x)'.made
           /\ \A x \in Clients : x \notin Dropped(D) => Pipe(x)' = Pipe(x)
           /\ \A x \in Clients : Pipe(x)'.reader = Pipe(x).reader
<1>1. /\ \A i \in D : slots'[i] = [slots[i] EXCEPT !.connected = FALSE, !.open = FALSE]
      /\ \A i \in Handles \ D : slots'[i] = slots[i]
      /\ slots' \in [Handles -> SlotSet] /\ \A i \in D : ~ slots'[i].connected
      /\ \A i \in Handles : slots'[i].pid = slots[i].pid
  <2>1. \A i \in Handles :
           slots'[i] = IF i \in D
                       THEN [slots[i] EXCEPT !.connected = FALSE, !.open = FALSE]
                       ELSE slots[i]
    BY DEF DisconnectSlots
  <2>2. slots' \in [Handles -> SlotSet]
    BY LadPipesTyped DEF DisconnectSlots
  <2>3. \A i \in Handles :
           [slots[i] EXCEPT !.connected = FALSE, !.open = FALSE].connected = FALSE
    BY LadPipesTyped DEF SlotSet
  <2> QED BY <2>1, <2>2, <2>3, LadPipesTyped
<1>2. TakenStays
  BY <1>1, LadTakenStays
<1>3. ASSUME NEW x \in Clients
      PROVE  responseFIFO'[x] = IF x \in Dropped(D)
                                THEN [responseFIFO[x] EXCEPT !.made = FALSE, !.writer = FALSE]
                                ELSE responseFIFO[x]
  BY DEF DisconnectSlots, Dropped
<1>4. responseFIFO' \in [Clients -> PipeSet]
  BY LadPipesTyped DEF DisconnectSlots
<1>5. \A x \in Clients : Data(x)' = Data(x)
  BY <1>3, LadPipesTyped DEF Data
<1>6. \A x \in Clients : x \in Dropped(D) => ~ Pipe(x)'.made
  BY <1>3, LadPipesTyped DEF Pipe, PipeSet
<1>7. \A x \in Clients : x \notin Dropped(D) => Pipe(x)' = Pipe(x)
  BY <1>3 DEF Pipe
<1>8. \A x \in Clients : Pipe(x)'.reader = Pipe(x).reader
  BY <1>3, LadPipesTyped DEF Pipe, PipeSet
<1> QED BY <1>1, <1>2, <1>4, <1>5, <1>6, <1>7, <1>8

LEMMA LadTypedDisconnect ==
    ASSUME LadTyped, DisconnectFromLAD
    PROVE  LadTyped'
<1>1. /\ lad.pc = "process" /\ lad.cmd.clientId \in Handles
      /\ UNCHANGED <<queues, commandFIFO, client, commands, deaths, orphaned, abandoned>>
      /\ abandoned' \subseteq Clients
  BY LadCounts DEF DisconnectFromLAD, Doing, LadTyped, LadInv, Named, Taken, clientVars
<1>2. LadTypeOK
  BY DEF LadTyped
<1>3. CASE Killed /\ UNCHANGED slots
  <2>1. TakenStays
    BY <1>3, LadTakenStays
  <2> QED BY <1>1, <1>2, <1>3, <2>1, LadTypesApart, LadTypedKilled
<1>4. CASE lad' = [pc |-> "ready"] /\ DisconnectSlots({lad.cmd.clientId})
  <2>1. /\ slots' \in [Handles -> SlotSet] /\ responseFIFO' \in [Clients -> PipeSet]
        /\ TakenStays /\ \A x \in Clients : Data(x)' = Data(x)
    BY <1>1, <1>4, LadDisconnectSlots
  <2>2. UNCHANGED <<client, commands, deaths, orphaned, abandoned>>
    BY <1>1 DEF clientVars
  <2>3. LadTypeOK'
    <3>1. CountsTyped'
      BY <2>2, LadCounts DEF CountsTyped
    <3> QED BY <1>1, <1>2, <1>4, <2>1, <2>2, <3>1, LadTypesApart, LadRetyped DEF LadLabels
  <2>4. Onward
    BY <1>1, <1>4, <2>1, <2>2 DEF Onward
  <2>5. ASSUME NEW x \in Clients PROVE ClientInv(x)'
    BY <1>1, <2>1, <2>2, LadSameData DEF TakenStays
  <2> QED BY <1>4, <2>3, <2>4, <2>5, LadAtRest, LadTypedOnward
<1> QED BY <1>3, <1>4 DEF DisconnectFromLAD

\* A command LAD has taken up names a slot that has been some client's.
LEMMA LadCommandTyped ==
    ASSUME LadTyped, lad.pc \in {"process", "respond"}, lad.cmd.cmd # "CONNECT"
    PROVE  /\ lad.cmd \in Command /\ lad.cmd.n \in 1 .. MaxCommands /\ lad.cmd.pid \in Clients
           /\ lad.cmd.clientId \in Handles /\ slots[lad.cmd.clientId].pid \in Clients
           /\ Taken(lad.cmd.clientId) /\ Named(lad.cmd)
BY DEF LadTyped, LadInv, Named, Taken, Command

LEMMA LadTypedCreate ==
    ASSUME LadTyped, MessageQCreate
    PROVE  LadTyped'
<1>1. /\ lad.pc = "process" /\ lad.cmd.cmd = "CREATE"
      /\ lad' = [pc |-> "respond", cmd |-> lad.cmd, value |-> lad.cmd.n]
      /\ UNCHANGED <<slots, commandFIFO, responseFIFO, client, commands, deaths>>
      /\ UNCHANGED <<orphaned, abandoned>>
      /\ queues' = queues \cup {[id |-> lad.cmd.n, owner |-> slots[lad.cmd.clientId].pid]}
  BY DEF MessageQCreate, Doing, clientVars
<1>2. /\ lad.cmd.n \in 1 .. MaxCommands /\ slots[lad.cmd.clientId].pid \in Clients /\ Named(lad.cmd)
      /\ lad.cmd \in Command
  BY <1>1, LadCommandTyped
<1>3. LadTypeOK
  BY DEF LadTyped
<1>4. LadTypeOK'
  <2>1. queues' \subseteq [id : 1 .. MaxCommands, owner : Clients]
    BY <1>1, <1>2, <1>3, LadTypesApart
  <2>2. CountsTyped'
    BY <1>1, LadCounts DEF CountsTyped
  <2> QED BY <1>1, <1>3, <2>1, <2>2, LadTypesApart, LadRetyped DEF LadLabels
<1>5. TakenStays
  BY <1>1, LadTakenStays
<1>6. Onward
  BY <1>1, <1>5 DEF Onward
<1>7. LadInv'
  <2>1. Named(lad.cmd)'
    BY <1>1, <1>2 DEF Named, Taken
  <2>2. lad'.value \in 0 .. MaxCommands
    BY <1>1, <1>2, LadCounts
  <2> QED BY <1>1, <1>2, <2>1, <2>2 DEF LadInv, Named, Taken
<1>8. ASSUME NEW x \in Clients PROVE ClientInv(x)'
  BY <1>1, <1>5, LadSameData DEF TakenStays, Data
<1> QED BY <1>4, <1>6, <1>7, <1>8, LadTypedOnward

LEMMA LadTypedDelete ==
    ASSUME LadTyped, MessageQDelete
    PROVE  LadTyped'
<1>1. /\ lad.pc = "process" /\ lad.cmd.cmd = "DELETE"
      /\ UNCHANGED <<slots, commandFIFO, client, commands, deaths, orphaned, abandoned>>
      /\ abandoned' \subseteq Clients
  BY LadCounts DEF MessageQDelete, Doing, clientVars
<1>2. Named(lad.cmd) /\ lad.cmd \in Command
  BY <1>1, LadCommandTyped
<1>3. LadTypeOK
  BY DEF LadTyped
<1>4. TakenStays
  BY <1>1, LadTakenStays
<1>5. CASE Killed /\ UNCHANGED queues
  BY <1>1, <1>3, <1>4, <1>5, LadTypesApart, LadTypedKilled
<1>6. CASE /\ queues' = {q \in queues : q.id # lad.cmd.queue}
           /\ lad' = [pc |-> "respond", cmd |-> lad.cmd, value |-> 0]
           /\ UNCHANGED responseFIFO
  <2>1. LadTypeOK'
    <3>1. queues' \subseteq [id : 1 .. MaxCommands, owner : Clients]
      BY <1>3, <1>6, LadTypesApart
    <3>2. CountsTyped'
      BY <1>1, LadCounts DEF CountsTyped
    <3> QED BY <1>1, <1>3, <1>6, <3>1, <3>2, LadTypesApart, LadRetyped DEF LadLabels
  <2>2. Onward
    BY <1>1, <1>4, <1>6 DEF Onward
  <2>3. LadInv'
    BY <1>1, <1>2, <1>6, LadCounts DEF LadInv, Named, Taken
  <2>4. ASSUME NEW x \in Clients PROVE ClientInv(x)'
    BY <1>1, <1>4, <1>6, LadSameData DEF TakenStays, Data
  <2> QED BY <2>1, <2>2, <2>3, <2>4, LadTypedOnward
<1> QED BY <1>5, <1>6 DEF MessageQDelete

LEMMA LadTypedRespond ==
    ASSUME LadTyped, Respond
    PROVE  LadTyped'
<1>1. /\ lad.pc = "respond" /\ lad.cmd.cmd # "CONNECT" /\ lad.value \in 0 .. MaxCommands
      /\ UNCHANGED <<slots, queues, commandFIFO, client, commands, deaths, orphaned, abandoned>>
      /\ abandoned' \subseteq Clients
  BY LadCounts DEF Respond, clientVars, LadTyped, LadInv
<1>2. PICK q \in Clients : q = slots[lad.cmd.clientId].pid
  BY <1>1, LadCommandTyped
<1>3. PICK a \in Response :
         a = [n |-> lad.cmd.n, status |-> "SUCCESS", value |-> lad.value]
  <2>1. lad.cmd.n \in 1 .. MaxCommands /\ lad.value \in Int
    BY <1>1, LadCommandTyped, LadCounts
  <2>2. [n |-> lad.cmd.n, status |-> "SUCCESS", value |-> lad.value] \in Response
    BY <2>1 DEF Response
  <2> QED BY <2>2
<1>4. LadTypeOK
  BY DEF LadTyped
<1>5. TakenStays
  BY <1>1, LadTakenStays
<1>6. CASE Killed
  BY <1>1, <1>4, <1>5, <1>6, LadTypesApart, LadTypedKilled
<1>7. CASE /\ lad' = [pc |-> "ready"]
           /\ \/ responseFIFO' = [responseFIFO EXCEPT ![q].data = Append(@, a)]
              \/ UNCHANGED responseFIFO
  <2>1. /\ responseFIFO' \in [Clients -> PipeSet]
        /\ \A x \in Clients \ {q} : Data(x)' = Data(x)
        /\ Data(q)' = Append(Data(q), a) \/ Data(q)' = Data(q)
    <3>1. CASE UNCHANGED responseFIFO
      BY <1>4, <3>1, LadTypesApart DEF Data
    <3>2. CASE responseFIFO' = [responseFIFO EXCEPT ![q].data = Append(@, a)]
      <4>1. responseFIFO \in [Clients -> PipeSet]
        BY <1>4, LadTypesApart
      <4>2. Append(responseFIFO[q].data, a) \in Seq(Response)
        BY <1>3, <4>1 DEF PipeSet
      <4>3. PICK r : r = [responseFIFO[q] EXCEPT !.data = Append(@, a)]
        OBVIOUS
      <4>4. responseFIFO' = [responseFIFO EXCEPT ![q] = r]
        BY <3>2, <4>1, <4>3 DEF PipeSet
      <4>5. r \in PipeSet /\ r.data = Append(responseFIFO[q].data, a)
        BY <4>1, <4>2, <4>3 DEF PipeSet
      <4> QED BY <4>1, <4>4, <4>5 DEF Data
    <3> QED BY <1>7, <3>1, <3>2
  <2>2. LadTypeOK'
    <3>1. CountsTyped'
      BY <1>1, LadCounts DEF CountsTyped
    <3> QED BY <1>1, <1>4, <1>7, <2>1, <3>1, LadTypesApart, LadRetyped DEF LadLabels
  <2>3. Onward
    BY <1>1, <1>5, <1>7 DEF Onward
  <2>4. ASSUME NEW x \in Clients PROVE ClientInv(x)'
    <3>1. CASE Data(x)' = Data(x)
      BY <1>1, <1>5, <3>1, LadSameData DEF TakenStays
    <3>2. CASE x = q /\ Data(x)' = Append(Data(x), a)
      <4>1. Data(x) \in Seq(Response)
        BY LadKeepsRecords
      <4>2. /\ Len(Data(x)') = Len(Data(x)) + 1 /\ Len(Data(x)) \in Nat
            /\ \A j \in 1 .. Len(Data(x)) : Data(x)'[j] = Data(x)[j]
            /\ Data(x)'[Len(Data(x)) + 1] = a /\ a.value \in 0 .. MaxCommands
        BY <1>1, <1>3, <3>2, <4>1
      <4>3. \A k \in 1 .. 2 : Small(x, k) => Small(x, k)'
        BY <4>2 DEF Small
      <4>4. Data(x) # <<>> => Data(x)' # <<>> /\ Data(x)'[1] = Data(x)[1]
        BY <4>1, <4>2
      <4>5. client' = client /\ \A i : Taken(i) => Taken(i)'
        BY <1>1 DEF Taken
      <4>6. ClientInv(x)
        BY DEF LadTyped
      <4> QED BY <1>1, <4>3, <4>4, <4>5, <4>6 DEF ClientInv, Mode
    <3> QED BY <1>2, <2>1, <3>1, <3>2
  <2> QED BY <1>7, <2>2, <2>3, <2>4, LadAtRest, LadTypedOnward
<1> QED BY <1>2, <1>3, <1>6, <1>7 DEF Respond

\* What is known of a client that LAD has open while it connects it.
LEMMA LadConnecting ==
    ASSUME LadTyped, lad.pc \in {"open", "connect"}
    PROVE  /\ lad.cmd \in Command /\ lad.cmd.pid \in Clients /\ lad.cmd.n \in 1 .. MaxCommands
           /\ lad.id \in Handles \cup {NoHandle} /\ lad.id \in Int
           /\ lad.id # NoHandle => lad.id \in Handles /\ ~ slots[lad.id].connected
           /\ Data(lad.cmd.pid) = <<>> /\ Pipe(lad.cmd.pid).made
BY LadHandlesRange DEF LadTyped, LadInv, Command, Free

LEMMA LadTypedConnectDone ==
    ASSUME LadTyped, ConnectDone
    PROVE  LadTyped'
<1>1. /\ lad.pc = "connect"
      /\ UNCHANGED <<queues, commandFIFO, client, commands, deaths, orphaned>>
      /\ abandoned' \subseteq Clients
  BY LadCounts DEF ConnectDone
<1>2. PICK p \in Clients : p = lad.cmd.pid
  BY <1>1, LadConnecting
<1>0. PICK h \in Handles \cup {NoHandle} : h = lad.id
  BY <1>1, LadConnecting
<1> DEFINE denied == h = NoHandle
<1>3. PICK a \in Response :
         a = [n |-> lad.cmd.n, status |-> IF denied THEN "ACCESSDENIED" ELSE "SUCCESS",
              value |-> h]
  <2>1. lad.cmd.n \in 1 .. MaxCommands /\ h \in Int
    BY <1>0, <1>1, LadConnecting
  <2>2. (IF denied THEN "ACCESSDENIED" ELSE "SUCCESS") \in {"SUCCESS", "ACCESSDENIED"}
    OBVIOUS
  <2>3. [n |-> lad.cmd.n, status |-> IF denied THEN "ACCESSDENIED" ELSE "SUCCESS",
         value |-> h] \in Response
    BY <2>1, <2>2, Zenon DEF Response
  <2> QED BY <2>3
<1>4. LadTypeOK
  BY DEF LadTyped
<1>5. \A i \in Handles :
         slots'[i] = IF i = h THEN [connected |-> TRUE, pid |-> p, open |-> TRUE]
                     ELSE slots[i]
  BY <1>0, <1>2 DEF ConnectDone
<1>6. slots' \in [Handles -> SlotSet]
  <2>1. [connected |-> TRUE, pid |-> p, open |-> TRUE] \in SlotSet
    BY DEF SlotSet
  <2>2. slots' = [i \in Handles |-> IF i = h THEN [connected |-> TRUE, pid |-> p, open |-> TRUE]
                                        ELSE slots[i]]
    BY <1>0, <1>2 DEF ConnectDone
  <2> QED BY <2>1, <2>2, LadPipesTyped
<1>7. TakenStays /\ (~ denied => Taken(h)')
  <2>1. \A i \in Handles : slots'[i].pid = slots[i].pid \/ slots'[i].pid = p
    BY <1>5
  <2>2. TakenStays
    BY <2>1, LadTakenStays
  <2>3. ~ denied => Taken(h)'
    BY <1>5 DEF Taken
  <2> QED BY <2>2, <2>3
<1>8. CASE ~ Pipe(p).reader /\ Killed
  BY <1>1, <1>2, <1>4, <1>6, <1>7, <1>8, LadTypesApart, LadTypedKilled
<1>9. CASE /\ lad' = [pc |-> "ready"]
           /\ responseFIFO' = [responseFIFO EXCEPT ![p].data = Append(@, a), ![p].made = ~ denied,
                                                   ![p].writer = ~ denied]
  <2>1. /\ responseFIFO' \in [Clients -> PipeSet]
        /\ \A x \in Clients \ {p} : Data(x)' = Data(x)
        /\ Data(p)' = <<a>>
    <3>1. responseFIFO \in [Clients -> PipeSet] /\ Data(p) = <<>>
      BY <1>1, <1>2, <1>4, LadTypesApart, LadConnecting
    <3>2. PICK r : r = [responseFIFO[p] EXCEPT !.data = Append(@, a), !.made = ~ denied,
                                               !.writer = ~ denied]
      OBVIOUS
    <3>3. responseFIFO' = [responseFIFO EXCEPT ![p] = r]
      BY <1>9, <3>1, <3>2 DEF PipeSet
    <3>4. Append(responseFIFO[p].data, a) = <<a>> /\ <<a>> \in Seq(Response)
      BY <1>3, <3>1 DEF Data
    <3> HIDE DEF denied
    <3>5. r \in PipeSet /\ r.data = Append(responseFIFO[p].data, a)
      BY <3>1, <3>2, <3>4 DEF PipeSet
    <3> QED BY <3>1, <3>3, <3>4, <3>5 DEF Data
  <2>2. LadTypeOK'
    <3>1. CountsTyped'
      BY <1>1, LadCounts DEF CountsTyped
    <3> QED BY <1>1, <1>4, <1>6, <1>9, <2>1, <3>1, LadTypesApart, LadRetyped DEF LadLabels
  <2>3. Onward
    BY <1>1, <1>7, <1>9 DEF Onward
  <2>4. ASSUME NEW x \in Clients PROVE ClientInv(x)'
    <3>1. CASE x # p
      BY <1>1, <1>2, <1>7, <2>1, <3>1, LadSameData DEF TakenStays
    <3>2. CASE x = p
      <4>1. Mode(p) \in {"opened", "dead"}
        BY <1>1, <1>2 DEF LadTyped, LadInv
      <4>2. Data(p)' # <<>> /\ Len(Data(p)') = 1 /\ Data(p)'[1] = a
        BY <2>1
      <4>3. a.status = "SUCCESS" => Taken(a.value)'
        BY <1>3, <1>7
      <4> QED BY <1>1, <3>2, <4>1, <4>2, <4>3 DEF ClientInv, Mode, Small
    <3> QED BY <3>1, <3>2
  <2> QED BY <1>9, <2>2, <2>3, <2>4, LadAtRest, LadTypedOnward
<1> QED BY <1>0, <1>2, <1>3, <1>8, <1>9 DEF ConnectDone, Pipe

LEMMA LadDepartedHandles ==
    ASSUME LadTyped
    PROVE  Departed \in SUBSET Handles
BY DEF Departed

\* The head and the tail of the command pipe.
LEMMA LadHeadTail ==
    ASSUME LadTyped, commandFIFO # <<>>
    PROVE  /\ 1 \in DOMAIN commandFIFO /\ Head(commandFIFO) = commandFIFO[1]
           /\ Tail(commandFIFO) \in Seq(Command)
           /\ \A i \in DOMAIN Tail(commandFIFO) :
                 /\ i + 1 \in DOMAIN commandFIFO /\ i + 1 # 1 /\ i \in Nat
                 /\ Tail(commandFIFO)[i] = commandFIFO[i + 1]
           /\ \A i, j \in DOMAIN Tail(commandFIFO) : i # j => i + 1 # j + 1
           /\ \A i \in DOMAIN commandFIFO : commandFIFO[i] \in Command
<1>1. commandFIFO \in Seq(Command)
  BY DEF LadTyped, LadTypeOK
<1>2. /\ Len(commandFIFO) \in Nat /\ Len(commandFIFO) >= 1
      /\ DOMAIN commandFIFO = 1 .. Len(commandFIFO)
      /\ Head(commandFIFO) = commandFIFO[1] /\ Tail(commandFIFO) \in Seq(Command)
      /\ DOMAIN Tail(commandFIFO) = 1 .. Len(commandFIFO) - 1
      /\ \A i \in 1 .. Len(commandFIFO) - 1 : Tail(commandFIFO)[i] = commandFIFO[i + 1]
      /\ \A i \in DOMAIN commandFIFO : commandFIFO[i] \in Command
  BY <1>1
<1> QED BY <1>2

NamedAt(i) == Named(commandFIFO[i])

LEMMA LadTypedRead ==
    ASSUME LadTyped, Read
    PROVE  LadTyped'
<1>1. /\ lad.pc = "ready" /\ commandFIFO # <<>> /\ commandFIFO' = Tail(commandFIFO)
      /\ lad' = [pc |-> "process", cmd |-> Head(commandFIFO)]
      /\ DisconnectSlots(Departed)
      /\ queues' \subseteq queues /\ UNCHANGED <<client, commands, deaths, orphaned, abandoned>>
  BY DEF Read, clientVars
<1>2. LadTypeOK
  BY DEF LadTyped
<1>0. PICK h : h = Head(commandFIFO) /\ lad' = [pc |-> "process", cmd |-> h]
  BY <1>1
<1>3. /\ slots' \in [Handles -> SlotSet] /\ responseFIFO' \in [Clients -> PipeSet]
      /\ TakenStays /\ \A x \in Clients : Data(x)' = Data(x)
  BY <1>1, LadDepartedHandles, LadDisconnectSlots
<1>4. LadTypeOK'
  <2>1. CountsTyped'
    BY <1>1, LadCounts DEF CountsTyped
  <2>2. queues' \subseteq [id : 1 .. MaxCommands, owner : Clients]
    BY <1>1, <1>2, LadTypesApart
  <2>3. lad'.pc \in LadLabels /\ commandFIFO' \in Seq(Command)
    BY <1>1, LadHeadTail DEF LadLabels
  <2>4. client' \in [Clients -> ClientSet]
    BY <1>1, <1>2, LadTypesApart
  <2> QED BY <1>3, <2>1, <2>2, <2>3, <2>4, LadRetyped
<1>5. \A c : Named(c) => Named(c)'
  BY <1>3, LadHandlesRange DEF TakenStays, Named
<1>6. FifoInv' /\ Named(h)'
  <2>1. \A i \in DOMAIN commandFIFO : Named(commandFIFO[i])
    BY DEF LadTyped, FifoInv
  <2>2. Named(h)
    BY <1>0, <1>1, <2>1, LadHeadTail
  <2>3. ASSUME NEW i \in DOMAIN commandFIFO' PROVE NamedAt(i)'
    <3>1. PICK c : c = commandFIFO'[i]
      OBVIOUS
    <3>2. Named(c)'
      BY <1>1, <1>5, <2>1, <3>1, LadHeadTail
    <3> QED BY <3>1, <3>2 DEF NamedAt, Named
  <2>4. FifoInv'
    BY <2>3 DEF FifoInv, NamedAt
  <2> QED BY <1>5, <2>2, <2>4
<1>7. LadInv'
  BY <1>0, <1>6 DEF LadInv, Named
<1>8. OneConnect'
  <2>1. OneConnect
    BY <1>1 DEF LadTyped, Stuck, Blocked, Alive
  <2>2. \A c : Asks(c)' <=> Asks(c)
    BY <1>1 DEF Asks, Mode
  <2>3. /\ \A i \in DOMAIN commandFIFO' : NowAsks(i)' => NowAsks(i + 1)
        /\ Looking' <=> NowAsks(1)
    BY <1>1, <2>2, LadHeadTail DEF NowAsks, Looking, Asks, Mode
  <2>4. \A i \in DOMAIN commandFIFO' :
           NowAsks(i)' => /\ client'[commandFIFO'[i].pid].state = "connecting"
                          /\ Looking' => lad'.cmd.pid # commandFIFO'[i].pid
    BY <1>1, <2>1, <2>3, LadHeadTail DEF OneConnect, NowAsks, Mode
  <2>5. Looking' => client'[lad'.cmd.pid].state = "connecting"
    BY <1>1, <2>1, <2>3, LadHeadTail DEF OneConnect, NowAsks, Mode
  <2>6. \A i, j \in DOMAIN commandFIFO' :
           i # j /\ NowAsks(i)' /\ NowAsks(j)' => commandFIFO'[i].pid # commandFIFO'[j].pid
    BY <1>1, <2>1, <2>3, LadHeadTail DEF OneConnect, NowAsks
  <2> QED BY <2>4, <2>5, <2>6 DEF OneConnect, NowAsks, Mode
<1>9. ASSUME NEW x \in Clients PROVE ClientInv(x)'
  BY <1>1, <1>3, LadSameData DEF TakenStays
<1> QED BY <1>4, <1>6, <1>7, <1>8, <1>9 DEF LadTyped

\* The answer a CONNECT may expect when LAD takes it up: its client still looks for it, or is dead.
LEMMA LadAsked ==
    ASSUME LadTyped, lad.pc = "process", lad.cmd.cmd = "CONNECT"
    PROVE  /\ lad.cmd \in Command /\ lad.cmd.pid \in Clients /\ OneConnect
           /\ Mode(lad.cmd.pid) \in {"connecting", "dead"}
BY DEF LadTyped, LadInv, Command, Stuck, Blocked, Alive, OneConnect, Looking, Asks

LEMMA LadAssigned ==
    ASSUME LadTyped
    PROVE  Assigned \in Free \cup {NoHandle}
<1>1. CASE Free = {}
  BY <1>1 DEF Assigned
<1>2. CASE Free # {}
  <2>1. Free \subseteq Nat
    BY LadAssumption DEF Free, Handles
  <2>2. \E x \in Free : \A y \in Free : x <= y
    <3>1. PICK f : f = [x \in Free |-> x]
      OBVIOUS
    <3>2. \A x \in Free : f[x] \in Nat /\ f[x] = x
      BY <2>1, <3>1
    <3>3. PICK r \in Free : \A y \in Free : f[r] <= f[y]
      BY <1>2, <3>2, LeastFound
    <3> QED BY <3>2, <3>3
  <2>3. Min(Free) \in Free
    BY <2>2 DEF Min
  <2> QED BY <1>2, <2>3 DEF Assigned
<1> QED BY <1>1, <1>2

LEMMA LadTypedConnect ==
    ASSUME LadTyped, ConnectToLAD
    PROVE  LadTyped'
<1>1. /\ lad.pc = "process" /\ lad.cmd.cmd = "CONNECT"
      /\ UNCHANGED <<slots, queues, commandFIFO, client, commands, deaths, orphaned, abandoned>>
  BY DEF ConnectToLAD, Doing, clientVars
<1>2. PICK p \in Clients : p = lad.cmd.pid
  BY <1>1, LadAsked
<1>3. LadTypeOK /\ TakenStays /\ CountsTyped'
  BY <1>1, LadTakenStays, LadCounts DEF LadTyped, CountsTyped
<1>4. CASE lad' = [pc |-> "ready"] /\ UNCHANGED responseFIFO
  <2>1. LadTypeOK'
    BY <1>1, <1>3, <1>4, LadTypesApart, LadRetyped DEF LadLabels
  <2>2. Onward
    BY <1>1, <1>3, <1>4 DEF Onward
  <2>3. ASSUME NEW x \in Clients PROVE ClientInv(x)'
    BY <1>1, <1>3, <1>4, LadSameData DEF TakenStays, Data
  <2> QED BY <1>4, <2>1, <2>2, <2>3, LadAtRest, LadTypedOnward
<1>5. CASE /\ lad' = [pc |-> "open", cmd |-> lad.cmd, id |-> Assigned]
           /\ responseFIFO' = [responseFIFO EXCEPT ![p] = [NoPipe EXCEPT !.made = TRUE]]
  <2>0. PICK r : r = [NoPipe EXCEPT !.made = TRUE]
    OBVIOUS
  <2>1. r \in PipeSet /\ r.made /\ r.data = <<>>
    <3>1. <<>> \in Seq(Response)
      OBVIOUS
    <3>2. NoPipe \in PipeSet /\ NoPipe.data = <<>>
      BY <3>1 DEF NoPipe, PipeSet
    <3> QED BY <2>0, <3>2 DEF PipeSet
  <2>2. /\ responseFIFO' \in [Clients -> PipeSet] /\ responseFIFO'[p] = r
        /\ \A x \in Clients \ {p} : Data(x)' = Data(x)
    BY <1>3, <1>5, <2>0, <2>1, LadTypesApart DEF Data
  <2>3. LadTypeOK'
    BY <1>1, <1>3, <1>5, <2>2, LadTypesApart, LadRetyped DEF LadLabels
  <2>4. LadInv'
    <3>1. /\ lad.cmd \in Command /\ Assigned \in Free \cup {NoHandle}
          /\ Free' = Free
      BY <1>1, LadAsked, LadAssigned DEF Free
    <3>2. lad'.pc = "open" /\ lad'.cmd = lad.cmd /\ lad'.id = Assigned
          /\ lad' = [pc |-> lad'.pc, cmd |-> lad'.cmd, id |-> lad'.id]
      BY <1>5
    <3>3. responseFIFO'[lad'.cmd.pid].made /\ responseFIFO'[lad'.cmd.pid].data = <<>>
      BY <1>2, <2>1, <2>2, <3>2
    <3> QED BY <1>1, <3>1, <3>2, <3>3 DEF LadInv, Pipe, Data
  <2>5. FifoInv'
    BY <1>1 DEF LadTyped, FifoInv, Named, Taken
  <2>6. (Stuck \/ OneConnect)'
    <3>1. OneConnect /\ Mode(p) \in {"connecting", "dead"}
      BY <1>1, <1>2, LadAsked
    <3>2. CASE Mode(p) = "dead"
      BY <1>1, <1>2, <1>5, <3>2 DEF Stuck, Blocked, Mode
    <3>3. CASE Mode(p) = "connecting"
      <4>1. Looking /\ Looking' /\ lad'.cmd = lad.cmd
        BY <1>1, <1>2, <1>5, <3>3 DEF Looking, Asks, Mode
      <4> QED BY <1>1, <3>1, <4>1 DEF OneConnect, Asks, Mode
    <3> QED BY <3>1, <3>2, <3>3
  <2>7. ASSUME NEW x \in Clients PROVE ClientInv(x)'
    <3>1. CASE x # p
      BY <1>1, <1>3, <2>2, <3>1, LadSameData DEF TakenStays
    <3>2. CASE x = p
      BY <1>1, <1>2, <3>2, LadAsked DEF ClientInv, Mode
    <3> QED BY <3>1, <3>2
  <2> QED BY <2>3, <2>4, <2>5, <2>6, <2>7 DEF LadTyped
<1> QED BY <1>2, <1>4, <1>5 DEF ConnectToLAD

LEMMA LadTypedOpen ==
    ASSUME LadTyped, ResponseOpen
    PROVE  LadTyped'
<1>1. /\ lad.pc = "open" /\ lad' = [lad EXCEPT !.pc = "connect"]
      /\ UNCHANGED <<slots, queues, commandFIFO, commands, deaths, orphaned, abandoned>>
  BY DEF ResponseOpen
<1>2. PICK p \in Clients : p = lad.cmd.pid
  BY <1>1, LadConnecting
<1>3. LadTypeOK /\ CountsTyped' /\ Mode(p) = "connecting"
  BY <1>1, <1>2, LadCounts DEF LadTyped, CountsTyped, ResponseOpen, Mode
<1>4. /\ client' = [client EXCEPT ![p] = In(p, "opened")] /\ In(p, "opened") \in ClientSet
      /\ In(p, "opened").state = "opened"
  BY <1>2, LadStateOnly DEF ResponseOpen, States
<1>0. PICK r : r = [responseFIFO[p] EXCEPT !.reader = TRUE, !.writer = TRUE]
  OBVIOUS
<1>5. r \in PipeSet /\ r.reader /\ r.writer /\ r.made = Pipe(p).made /\ r.data = Data(p)
  <2>1. responseFIFO[p] \in PipeSet
    BY <1>3, LadTypesApart
  <2> QED BY <1>0, <2>1 DEF PipeSet, Pipe, Data
<1>6. responseFIFO' = [responseFIFO EXCEPT ![p] = r]
  BY <1>2, <1>3, <1>5, <1>0, LadTypesApart DEF ResponseOpen, PipeSet
<1>7. /\ responseFIFO' \in [Clients -> PipeSet] /\ client' \in [Clients -> ClientSet]
      /\ responseFIFO'[p] = r /\ Mode(p)' = "opened"
      /\ \A x \in Clients \ {p} :
            Data(x)' = Data(x) /\ Mode(x)' = Mode(x) /\ client'[x] = client[x]
  BY <1>3, <1>4, <1>5, <1>6, LadTypesApart DEF Data, Mode
<1>8. /\ lad'.pc = "connect" /\ lad'.cmd = lad.cmd /\ lad'.id = lad.id
      /\ lad' = [pc |-> lad'.pc, cmd |-> lad'.cmd, id |-> lad'.id]
  BY <1>1 DEF LadTyped, LadInv
<1>9. LadTypeOK'
  BY <1>1, <1>3, <1>7, <1>8, LadTypesApart, LadRetyped DEF LadLabels
<1>10. LadInv'
  <2>1. /\ lad.cmd \in Command /\ lad.cmd.cmd = "CONNECT"
        /\ lad.id \in (Free \cup {NoHandle})'
    BY <1>1 DEF LadTyped, LadInv, Free
  <2>2. responseFIFO'[lad'.cmd.pid] = r /\ r.made /\ r.data = <<>>
        /\ client'[lad'.cmd.pid].state = "opened"
    BY <1>1, <1>2, <1>5, <1>7, <1>8, LadConnecting DEF Mode
  <2> QED BY <1>5, <1>8, <2>1, <2>2 DEF LadInv, Pipe, Data, Mode
<1>11. FifoInv'
  BY <1>1 DEF LadTyped, FifoInv, Named, Taken
<1>12. OneConnect'
  <2>1. OneConnect
    BY <1>1, <1>2, <1>3 DEF LadTyped, Stuck, Blocked, Alive, Mode
  <2>2. Looking
    BY <1>1, <1>2, <1>3 DEF Looking, Asks, LadTyped, LadInv
  <2>3. ~ Looking'
    BY <1>8 DEF Looking
  <2>4. ASSUME NEW i \in DOMAIN commandFIFO, NowAsks(i)'
        PROVE  NowAsks(i) /\ client'[commandFIFO[i].pid].state = "connecting"
    <3>1. PICK x \in Clients : x = commandFIFO[i].pid
      BY DEF LadTyped, FifoInv, Named, Command
    <3>2. NowAsks(i)
      BY <1>1, <1>3, <1>7, <2>4, <3>1 DEF NowAsks, Asks, Mode
    <3>3. x # p /\ Mode(x) = "connecting"
      BY <1>2, <2>1, <2>2, <3>1, <3>2 DEF OneConnect, NowAsks
    <3> QED BY <1>7, <3>1, <3>2, <3>3 DEF Mode
  <2> QED BY <1>1, <2>1, <2>3, <2>4 DEF OneConnect, NowAsks, Mode
<1>13. ASSUME NEW x \in Clients PROVE ClientInv(x)'
  <2>1. CASE x = p
    BY <1>2, <1>7, <1>8, <2>1 DEF ClientInv
  <2>2. CASE x # p
    <3>1. \A i : Taken(i)' <=> Taken(i)
      BY <1>1 DEF Taken
    <3> QED BY <1>1, <1>7, <2>2, <3>1 DEF LadTyped, ClientInv, Small
  <2> QED BY <2>1, <2>2
<1> QED BY <1>9, <1>10, <1>11, <1>12, <1>13 DEF LadTyped

LEMMA LadTypedInit ==
    ASSUME LadInit
    PROVE  LadTyped
<1> USE DEF LadInit
<1>1. LadTypeOK
  <2>1. 0 \in 0 .. MaxCommands /\ 0 \in 0 .. MaxDeaths
    BY LadAssumption
  <2>2. /\ lad.pc \in LadLabels /\ CountsTyped
        /\ queues \subseteq [id : 1 .. MaxCommands, owner : Clients]
    BY <2>1 DEF LadLabels, Idle, CountsTyped
  <2>3. slots \in [Handles -> SlotSet] /\ commandFIFO \in Seq(Command)
    BY DEF SlotSet
  <2>4. responseFIFO \in [Clients -> PipeSet]
    <3>1. <<>> \in Seq(Response)
      OBVIOUS
    <3>2. NoPipe \in PipeSet
      BY <3>1 DEF NoPipe, PipeSet
    <3> QED BY <3>2
  <2>5. client \in [Clients -> ClientSet]
    BY <2>1 DEF ClientSet
  <2> QED BY <2>2, <2>3, <2>4, <2>5, LadTypesApart
<1>2. lad.pc = "closed" /\ commandFIFO = <<>> /\ \A x \in Clients : Mode(x) = "off"
  BY DEF Idle, Mode
<1>3. LadInv /\ FifoInv /\ OneConnect
  BY <1>2 DEF LadInv, FifoInv, OneConnect, Looking
<1>4. \A x \in Clients : ClientInv(x)
  BY <1>2 DEF ClientInv
<1> QED BY <1>1, <1>3, <1>4 DEF LadTyped

-----------------------------------------------------------------------------
(* Sessions, commands, slots and queues, while no command is orphaned       *)

\* The queues of p: the one with handle v, or none.
Owns(p, v) ==
    /\ \A q \in queues : q.owner = p => q.id = v
    /\ v # 0 => [id |-> v, owner |-> p] \in queues

\* Slot i is p's, with its pipe.
Serves(i, p) ==
    /\ i \in Handles /\ slots[i].connected /\ slots[i].open /\ slots[i].pid = p
    /\ Pipe(p).made /\ Pipe(p).writer

\* The client of a command that is not carried out yet waits for it.
CommandSound(c) ==
    LET p == c.pid
    IN /\ client[p].sent = c.n /\ client[p].handle = c.clientId
       /\ \/ c.cmd = "CONNECT" /\ Mode(p) = "connecting"
          \/ /\ c.cmd \in {"CREATE", "DELETE"} /\ Mode(p) = "waiting" /\ Data(p) = <<>>
             /\ client[p].queue = c.queue /\ (c.queue = 0 <=> c.cmd = "CREATE")
          \/ c.cmd = "DISCONNECT" /\ Mode(p) = "leaving" /\ Serves(c.clientId, p)
       /\ Owns(p, client[p].queue)

Busy == lad.pc \in {"process", "open", "connect", "respond"}

LadSound ==
    /\ Alive
    /\ lad.pc = "process" => CommandSound(lad.cmd)
    /\ lad.pc = "open" => Mode(lad.cmd.pid) = "connecting"
    /\ lad.pc = "connect" => Mode(lad.cmd.pid) = "opened"
    /\ lad.pc \in {"open", "connect"} => client[lad.cmd.pid].sent = lad.cmd.n
    /\ lad.pc = "respond" =>
          LET p == lad.cmd.pid
          IN /\ Mode(p) = "waiting" /\ Data(p) = <<>> /\ client[p].sent = lad.cmd.n
             /\ client[p].handle = lad.cmd.clientId /\ Owns(p, lad.value)

\* No two commands on their way are one client's.
FifoSound ==
    /\ \A i \in DOMAIN commandFIFO : CommandSound(commandFIFO[i])
    /\ \A i, j \in DOMAIN commandFIFO : i # j => commandFIFO[i].pid # commandFIFO[j].pid
    /\ Busy => \A j \in DOMAIN commandFIFO : lad.cmd.pid # commandFIFO[j].pid

ClientSound(p) ==
    /\ Mode(p) # "failed"
    /\ Mode(p) \in {"off", "connecting", "opened", "leaving"} => Owns(p, client[p].queue)
    /\ Mode(p) = "leaving" => client[p].queue = 0 \/ p \in abandoned
    /\ Mode(p) \in {"connected", "waiting"} => Serves(client[p].handle, p) /\ Pipe(p).reader
    /\ Mode(p) = "connected" =>
          Data(p) = <<>> /\ client[p].got = client[p].sent /\ Owns(p, client[p].queue)
    /\ Mode(p) \in {"opened", "waiting"} /\ Data(p) # <<>> =>
          /\ Len(Data(p)) = 1 /\ Data(p)[1].n = client[p].sent
          /\ Mode(p) = "waiting" => Owns(p, Data(p)[1].value)
          /\ Mode(p) = "opened" /\ Data(p)[1].status = "SUCCESS" =>
                Serves(Data(p)[1].value, p) /\ Pipe(p).reader

\* Why p has slot i: it is connected by it, is about to read that it is, or is dead.
Keeps(i, p) ==
    \/ Mode(p) \in {"connected", "waiting", "leaving"} /\ client[p].handle = i
    \/ /\ Mode(p) = "opened" /\ Data(p) # <<>> /\ Data(p)[1].status = "SUCCESS"
       /\ Data(p)[1].value = i
    \/ Mode(p) = "dead"

Has(i, p) == slots[i].connected /\ slots[i].pid = p
SlotsSound ==
    /\ \A i \in Handles : slots[i].connected => slots[i].pid \in Clients
    /\ \A i \in Handles, p \in Clients : Has(i, p) => Serves(i, p) /\ Keeps(i, p)
    /\ \A i, j \in Handles, p \in Clients : Has(i, p) /\ Has(j, p) => i = j

\* A pipe is there for a slot, or because LAD is making the connection.
PipesSound ==
    \A p \in Clients : Pipe(p).made =>
        \/ lad.pc \in {"open", "connect"} /\ lad.cmd.pid = p
        \/ \E i \in Handles : Has(i, p)

\* The owner of a queue has a slot, or has disconnected and left the queue behind.
QueuesSound ==
    /\ \A q \in queues : q.id <= commands
    /\ \A q \in queues : q.owner \in abandoned \/ \E i \in Handles : Has(i, q.owner)
    /\ \A q, r \in queues : q.id = r.id => q = r
    /\ \A p \in Clients, q \in queues : client[p].sent = q.id => q.owner = p

\* Two commands have different numbers.
NumbersSound ==
    /\ \A p, r \in Clients : client[p].sent = client[r].sent /\ client[p].sent # 0 => p = r
    /\ \A p \in Clients : client[p].sent <= commands

Sound ==
    /\ LadSound /\ FifoSound /\ (\A p \in Clients : ClientSound(p))
    /\ SlotsSound /\ PipesSound /\ QueuesSound /\ NumbersSound

\* Nothing of p changes that these say.
Same(p) ==
    /\ client'[p] = client[p] /\ Pipe(p)' = Pipe(p)
    /\ \A v : Owns(p, v) => Owns(p, v)'
    /\ \A i : Serves(i, p) => Serves(i, p)'
    /\ p \in abandoned => p \in abandoned'

LEMMA LadSame ==
    ASSUME NEW p, Same(p)
    PROVE  /\ Mode(p)' = Mode(p) /\ Data(p)' = Data(p)
           /\ ClientSound(p) => ClientSound(p)'
           /\ \A i : Keeps(i, p) => Keeps(i, p)'
           /\ \A c : c.pid = p /\ CommandSound(c) => CommandSound(c)'
<1>1. /\ Mode(p)' = Mode(p) /\ Data(p)' = Data(p) /\ Pipe(p)' = Pipe(p) /\ client'[p] = client[p]
      /\ \A v : Owns(p, v) => Owns(p, v)'
      /\ \A i : Serves(i, p) => Serves(i, p)'
      /\ p \in abandoned => p \in abandoned'
  BY DEF Same, Mode, Data, Pipe
<1>2. ClientSound(p) => ClientSound(p)'
  BY <1>1 DEF ClientSound
<1>3. \A i : Keeps(i, p) => Keeps(i, p)'
  BY <1>1 DEF Keeps
<1>4. ASSUME NEW c, c.pid = p, CommandSound(c) PROVE CommandSound(c)'
  BY <1>1, <1>4 DEF CommandSound
<1> QED BY <1>1, <1>2, <1>3, <1>4

\* A client none of whose queues comes or goes.
LEMMA LadOwnsSame ==
    ASSUME NEW p, \A q : q \in queues /\ q.owner = p <=> q \in queues' /\ q.owner = p
    PROVE  \A v : Owns(p, v) => Owns(p, v)'
BY DEF Owns

\* p has no command on its way.
NoCommand(p) ==
    /\ \A i \in DOMAIN commandFIFO : commandFIFO[i].pid # p
    /\ Busy => lad.cmd.pid # p

\* One whose state none of its commands would leave it in has none.
LEMMA LadNoCommand ==
    ASSUME LadTyped, Sound, NEW p \in Clients,
           \/ Mode(p) \in {"off", "connected", "dead", "failed"}
           \/ Mode(p) = "opened" /\ ~ (lad.pc = "connect" /\ lad.cmd.pid = p)
           \/ Mode(p) = "waiting" /\ Data(p) # <<>>
           \/ Mode(p) = "leaving" /\ ~ Pipe(p).made
    PROVE  NoCommand(p)
<1>1. ASSUME NEW c \in Command, CommandSound(c) PROVE c.pid # p
  BY <1>1 DEF CommandSound, Serves
<1>2. \A i \in DOMAIN commandFIFO : commandFIFO[i].pid # p
  BY <1>1 DEF Sound, FifoSound, LadTyped, FifoInv, Named
<1>3. Busy => lad.cmd.pid # p
  BY <1>1 DEF Busy, Sound, LadSound, LadTyped, LadInv
<1> QED BY <1>2, <1>3 DEF NoCommand

LEMMA LadNotStuck == ASSUME Sound PROVE ~ Stuck /\ ~ TimesOut
BY DEF Sound, LadSound, Stuck, TimesOut, Blocked, Mode

\* A step of a client with no command on its way.
LEMMA LadSoundAlone ==
    ASSUME LadTyped, Sound, NEW p \in Clients, ClientStep(p), NoCommand(p),
           commands' \in {commands, commands + 1},
           client'[p].sent = client[p].sent, ClientSound(p)',
           \A i \in Handles : Has(i, p) => Keeps(i, p)'
    PROVE  Sound'
<1>1. /\ UNCHANGED <<slots, queues, commandFIFO>>
      /\ lad' = lad \/ (lad.pc = "closed" /\ lad' = [pc |-> "ready"])
      /\ \A x \in Clients \ {p} : client'[x] = client[x] /\ Pipe(x)' = Pipe(x)
      /\ Pipe(p)'.made = Pipe(p).made /\ Pipe(p)'.writer = Pipe(p).writer
      /\ abandoned \subseteq abandoned'
  BY DEF ClientStep, Alone, Pipe
<1>2. /\ \A x \in Clients : \A v : Owns(x, v)' <=> Owns(x, v)
      /\ \A x \in Clients : \A i : Serves(i, x) => Serves(i, x)'
      /\ \A i, x : Has(i, x)' <=> Has(i, x)
      /\ \A x \in Clients : client'[x].sent = client[x].sent
  BY <1>1 DEF Owns, Serves, Has
<1>3. \A x \in Clients \ {p} : Same(x)
  BY <1>1, <1>2 DEF Same
<1>4. \A c \in Command : c.pid # p /\ CommandSound(c) => CommandSound(c)'
  BY <1>3, LadSame DEF Command
<1>5. lad' = lad \/ (~ Busy' /\ ~ Busy /\ lad'.pc # "killed")
  BY <1>1 DEF Busy
<1>6. LadSound'
  <2>1. CASE lad' = lad
    <3>1. Busy => lad.cmd \in Command /\ lad.cmd.pid \in Clients \ {p}
      BY DEF Busy, NoCommand, LadTyped, LadInv, Command
    <3>2. Busy => /\ client'[lad.cmd.pid] = client[lad.cmd.pid]
                  /\ responseFIFO'[lad.cmd.pid] = responseFIFO[lad.cmd.pid]
      BY <1>1, <3>1 DEF Pipe
    <3>3. lad.pc = "process" => CommandSound(lad.cmd)'
      <4>1. PICK c : c = lad.cmd
        OBVIOUS
      <4> QED BY <1>4, <2>1, <3>1, <4>1 DEF Busy, Sound, LadSound, CommandSound
    <3>4. lad.pc = "respond" => Owns(lad.cmd.pid, lad.value)'
      BY <1>2, <2>1, <3>1 DEF Busy, Sound, LadSound
    <3> QED BY <2>1, <3>2, <3>3, <3>4 DEF Busy, Sound, LadSound, Alive, Mode, Data
  <2>2. CASE ~ Busy' /\ lad'.pc # "killed"
    BY <2>2 DEF Busy, LadSound, Alive
  <2> QED BY <1>5, <2>1, <2>2
<1>7. FifoSound'
  <2>1. \A i \in DOMAIN commandFIFO : /\ commandFIFO[i] \in Command /\ commandFIFO[i].pid # p
                                      /\ CommandSound(commandFIFO[i])
    BY DEF LadTyped, FifoInv, Named, NoCommand, Sound, FifoSound
  <2>2. ASSUME NEW i \in DOMAIN commandFIFO PROVE CommandSound(commandFIFO[i])'
    <3>1. PICK c : c = commandFIFO[i]
      OBVIOUS
    <3>2. CommandSound(c)'
      BY <1>4, <2>1, <3>1
    <3> QED BY <1>1, <3>1, <3>2 DEF CommandSound
  <2> QED BY <1>1, <1>5, <2>2 DEF Sound, FifoSound, Busy
<1>8. \A x \in Clients : ClientSound(x)'
  BY <1>3, LadSame DEF Sound
<1>9. SlotsSound'
  <2>1. \A i \in Handles, x \in Clients \ {p} : Keeps(i, x) => Keeps(i, x)'
    BY <1>3, LadSame
  <2> QED BY <1>1, <1>2, <2>1 DEF Sound, SlotsSound
<1>10. PipesSound'
  <2>1. \A x \in Clients : Pipe(x)'.made = Pipe(x).made
    BY <1>1
  <2> QED BY <1>2, <1>5, <2>1 DEF Sound, PipesSound, Busy
<1>11. QueuesSound' /\ NumbersSound'
  <2>1. commands \in Nat /\ commands' >= commands /\ commands' \in Nat
    BY LadCounts
  <2>2. \A x \in Clients : client[x].sent \in Nat /\ client[x].sent <= commands
    BY LadKeepsRecords DEF ClientSet, Sound, NumbersSound
  <2>3. \A q \in queues : q.id <= commands /\ q.id \in Nat
    BY DEF LadTyped, LadTypeOK, Sound, QueuesSound
  <2>4. QueuesSound'
    BY <1>1, <1>2, <2>1, <2>3 DEF Sound, QueuesSound
  <2>5. NumbersSound'
    BY <1>2, <2>1, <2>2 DEF Sound, NumbersSound
  <2> QED BY <2>4, <2>5
<1> QED BY <1>6, <1>7, <1>8, <1>9, <1>10, <1>11 DEF Sound

LEMMA LadOneAnswer ==
    ASSUME LadTyped, NEW p \in Clients, Len(Data(p)) = 1, Data(p) # <<>>
    PROVE  Tail(Data(p)) = <<>>
<1>1. PICK t \in Seq(Response) : t = Tail(Data(p))
  BY LadFirstAnswer
<1>2. Len(t) = 0
  BY <1>1, LadFirstAnswer
<1> QED BY <1>1, <1>2

LEMMA LadSoundOpenCommandFIFO ==
    ASSUME LadTyped, Sound, NEW p \in Clients, OpenCommandFIFO(p)
    PROVE  Sound'
<1>1. /\ ClientStep(p) /\ responseFIFO'[p] = Pipe(p) /\ Mode(p) = "off"
      /\ client'[p] = [client[p] EXCEPT !.started = TRUE] /\ UNCHANGED <<slots, queues, commands>>
  BY LadOpenCommandFIFO DEF OpenCommandFIFO, Mode
<1>2. /\ Mode(p)' = Mode(p) /\ Data(p)' = Data(p) /\ Pipe(p)' = Pipe(p)
      /\ client'[p].queue = client[p].queue /\ client'[p].handle = client[p].handle
      /\ client'[p].sent = client[p].sent /\ client'[p].got = client[p].got
  BY <1>1, LadKeepsRecords DEF ClientSet, Mode, Data, Pipe
<1>3. ClientSound(p)'
  BY <1>1, <1>2 DEF Sound, ClientSound, Owns
<1>4. \A i \in Handles : ~ Has(i, p)
  BY <1>1 DEF Sound, SlotsSound, Keeps
<1> QED BY <1>1, <1>2, <1>3, <1>4, LadNoCommand, LadSoundAlone

LEMMA LadSoundReadConnect ==
    ASSUME LadTyped, Sound, NEW p \in Clients, ReadConnect(p)
    PROVE  Sound'
<1>1. PICK a : a = Data(p)[1]
  OBVIOUS
<1>2. /\ ClientStep(p) /\ Mode(p) = "opened" /\ Data(p) # <<>>
      /\ ~ (lad.pc = "connect" /\ lad.cmd.pid = p)
      /\ client'[p] = Connected(p, a) /\ responseFIFO'[p] = Shorter(p, a.status = "SUCCESS")
      /\ UNCHANGED <<slots, queues, commands>>
  BY <1>1, LadReadConnect DEF ReadConnect, ladVars
<1>3. /\ Owns(p, client[p].queue) /\ Len(Data(p)) = 1 /\ a.n = client[p].sent
      /\ a.status = "SUCCESS" => Serves(a.value, p) /\ Pipe(p).reader
  BY <1>1, <1>2 DEF Sound, ClientSound
<1>4. /\ Mode(p)' = (IF a.status = "SUCCESS" THEN "connected" ELSE "off")
      /\ client'[p].queue = client[p].queue /\ client'[p].sent = client[p].sent
      /\ client'[p].got = a.n /\ (a.status = "SUCCESS" => client'[p].handle = a.value)
  BY <1>2, LadKeepsRecords DEF Connected, ClientSet, Mode
<1>5. /\ Data(p)' = <<>> /\ Pipe(p)'.reader = (a.status = "SUCCESS")
      /\ Pipe(p)'.made = Pipe(p).made /\ Pipe(p)'.writer = Pipe(p).writer
  <2>1. Tail(Data(p)) = <<>>
    BY <1>2, <1>3, LadOneAnswer
  <2>2. Pipe(p) \in PipeSet /\ Pipe(p)' = Shorter(p, a.status = "SUCCESS")
    BY <1>2, LadKeepsRecords DEF Pipe
  <2>3. Data(p)' = Tail(Data(p))
    BY <2>2 DEF Shorter, PipeSet, Data, Pipe
  <2> QED BY <2>1, <2>2, <2>3 DEF Shorter, PipeSet
<1>6. ClientSound(p)'
  BY <1>2, <1>3, <1>4, <1>5 DEF ClientSound, Owns, Serves
<1>7. \A i \in Handles : Has(i, p) => Keeps(i, p)'
  BY <1>1, <1>2, <1>4 DEF Sound, SlotsSound, Keeps
<1> QED BY <1>2, <1>4, <1>6, <1>7, LadNoCommand, LadSoundAlone

LEMMA LadSoundReadResponse ==
    ASSUME LadTyped, Sound, NEW p \in Clients, ReadResponse(p)
    PROVE  Sound'
<1>1. PICK a : a = Data(p)[1]
  OBVIOUS
<1>2. /\ ClientStep(p) /\ Mode(p) = "waiting" /\ Data(p) # <<>>
      /\ client'[p] = AfterAnswer(p, a) /\ responseFIFO'[p] = Shorter(p, TRUE)
      /\ UNCHANGED <<slots, queues, commands>>
  BY <1>1, LadReadResponse DEF ReadResponse, ladVars
<1>3. /\ Len(Data(p)) = 1 /\ a.n = client[p].sent /\ Owns(p, a.value) /\ Serves(client[p].handle, p)
  BY <1>1, <1>2 DEF Sound, ClientSound
<1>4. /\ Mode(p)' = "connected" /\ client'[p].queue = a.value /\ client'[p].sent = client[p].sent
      /\ client'[p].got = a.n /\ client'[p].handle = client[p].handle
  BY <1>2, LadKeepsRecords DEF AfterAnswer, ClientSet, Mode
<1>5. /\ Data(p)' = <<>> /\ Pipe(p)'.reader
      /\ Pipe(p)'.made = Pipe(p).made /\ Pipe(p)'.writer = Pipe(p).writer
  <2>1. Tail(Data(p)) = <<>>
    BY <1>2, <1>3, LadOneAnswer
  <2>2. Pipe(p) \in PipeSet /\ Pipe(p)' = Shorter(p, TRUE)
    BY <1>2, LadKeepsRecords DEF Pipe
  <2>3. Data(p)' = Tail(Data(p))
    BY <2>2 DEF Shorter, PipeSet, Data, Pipe
  <2> QED BY <2>1, <2>2, <2>3 DEF Shorter, PipeSet
<1>6. ClientSound(p)'
  BY <1>2, <1>3, <1>4, <1>5 DEF ClientSound, Owns, Serves
<1>7. \A i \in Handles : Has(i, p) => Keeps(i, p)'
  BY <1>2, <1>4 DEF Sound, SlotsSound, Keeps
<1> QED BY <1>2, <1>4, <1>6, <1>7, LadNoCommand, LadSoundAlone

LEMMA LadSoundEndOfFile ==
    ASSUME LadTyped, Sound, NEW p \in Clients, EndOfFile(p)
    PROVE  FALSE
<1>1. Mode(p) \in {"opened", "waiting"} /\ Data(p) = <<>> /\ ~ Pipe(p).writer
  BY LadEndOfFile
<1>2. CASE Mode(p) = "opened"
  BY <1>1, <1>2 DEF LadTyped, ClientInv, LadInv
<1>3. CASE Mode(p) = "waiting"
  BY <1>1, <1>3 DEF Sound, ClientSound, Serves
<1> QED BY <1>1, <1>2, <1>3

LEMMA LadSoundDisconnected ==
    ASSUME LadTyped, Sound, NEW p \in Clients, Disconnected(p)
    PROVE  Sound'
<1>1. /\ ClientStep(p) /\ responseFIFO'[p] = Pipe(p) /\ Mode(p) = "leaving" /\ ~ Pipe(p).made
      /\ client'[p] = [client[p] EXCEPT !.state = "off", !.handle = NoHandle]
      /\ UNCHANGED <<slots, queues, commands>>
  BY LadDisconnected DEF Disconnected, ladVars
<1>2. /\ Mode(p)' = "off" /\ client'[p].queue = client[p].queue /\ client'[p].sent = client[p].sent
  BY <1>1, LadKeepsRecords DEF ClientSet, Mode
<1>3. ClientSound(p)'
  BY <1>1, <1>2 DEF Sound, ClientSound, Owns
<1>4. \A i \in Handles : ~ Has(i, p)
  BY <1>1 DEF Sound, SlotsSound, Serves
<1> QED BY <1>1, <1>2, <1>3, <1>4, LadNoCommand, LadSoundAlone

\* A client dies, or is killed, that has no command on its way.
LEMMA LadSoundDead ==
    ASSUME LadTyped, Sound, NEW p \in Clients, NoCommand(p), ClientStep(p),
           commands' \in {commands, commands + 1},
           client'[p] = In(p, "dead"), responseFIFO'[p] = Unread(p)
    PROVE  Sound'
<1>1. Mode(p)' = "dead" /\ client'[p].sent = client[p].sent
  BY LadKeepsRecords DEF In, ClientSet, Mode
<1>2. ClientSound(p)'
  BY <1>1 DEF ClientSound
<1>3. \A i \in Handles : Has(i, p) => Keeps(i, p)'
  BY <1>1 DEF Keeps
<1> QED BY <1>1, <1>2, <1>3, LadSoundAlone

LEMMA LadSoundDie ==
    ASSUME LadTyped, Sound, NEW p \in Clients, Die(p), ~ orphaned'
    PROVE  Sound'
<1>1. /\ ClientStep(p) /\ client'[p] = In(p, "dead") /\ responseFIFO'[p] = Unread(p)
      /\ ~ Pending(p) /\ commands' = commands
  BY LadDie DEF Die
<1>2. NoCommand(p)
  BY <1>1 DEF NoCommand, Pending, Busy
<1> QED BY <1>1, <1>2, LadSoundDead

-----------------------------------------------------------------------------
(* A command is put                                                        *)

SoundAt(i) == CommandSound(commandFIFO[i])

LEMMA LadSoundSent ==
    ASSUME LadTyped, Sound, NEW p \in Clients, NEW s \in States, NEW cmd, NEW queue,
           Puts(p, s, cmd, queue), Sent(p, s, cmd, queue)
    PROVE  Sound'
<1>1. PICK d : d = PutCommand(p, cmd, queue)
  OBVIOUS
<1>2. /\ SentSeen(p, s, d) /\ UNCHANGED <<lad, slots, queues>> /\ commands' = commands + 1
      /\ Alive /\ Pipe(p)' = Leaver(p, cmd)
      /\ d.pid = p /\ d.cmd = cmd /\ d.clientId = client[p].handle /\ d.queue = queue
      /\ d.n = commands' /\ commands \in Nat /\ abandoned \subseteq abandoned'
  <2>1. Pipe(p)' = Leaver(p, cmd)
    BY LadTypesApart DEF LadTyped, Sent, Pipe
  <2>2. SentSeen(p, s, d)
    BY <1>1, LadSentSeen
  <2>3. /\ d.pid = p /\ d.cmd = cmd /\ d.clientId = client[p].handle /\ d.queue = queue
        /\ d.n = commands'
    BY <1>1 DEF PutCommand
  <2> QED BY <2>1, <2>2, <2>3, LadCounts DEF Sent
<1>3. NoCommand(p)
  BY LadNoCommand DEF Puts
<1>4. cmd # "DISCONNECT" => Pipe(p)'.reader = Pipe(p).reader
  BY <1>2, LadKeepsRecords DEF Leaver, PipeSet
<1>5. /\ \A x \in Clients : \A v : Owns(x, v)' <=> Owns(x, v)
      /\ \A x \in Clients : \A i : Serves(i, x)' <=> Serves(i, x)
      /\ \A i, x : Has(i, x)' <=> Has(i, x)
  <2>1. \A x \in Clients : Pipe(x)'.made = Pipe(x).made /\ Pipe(x)'.writer = Pipe(x).writer
    BY <1>2 DEF SentSeen
  <2> QED BY <1>2, <2>1 DEF Owns, Serves, Has
<1>6. \A x \in Clients \ {p} : Same(x)
  BY <1>2, <1>5 DEF Same, SentSeen
<1>7. \A c \in Command : c.pid # p /\ CommandSound(c) => CommandSound(c)'
  BY <1>6, LadSame DEF Command
<1>8. /\ Mode(p) = "off" => Owns(p, client[p].queue)
      /\ Mode(p) = "connected" => /\ Serves(client[p].handle, p) /\ Pipe(p).reader
                                   /\ Data(p) = <<>> /\ Owns(p, client[p].queue)
  BY DEF Sound, ClientSound
<1>9. CommandSound(d)'
  BY <1>2, <1>5, <1>8 DEF Puts, SentSeen, CommandSound
<1>10. LadSound'
  <2>1. Busy => lad.cmd \in Command /\ lad.cmd.pid \in Clients \ {p}
    BY <1>3 DEF Busy, NoCommand, LadTyped, LadInv, Command
  <2>2. Busy => /\ client'[lad.cmd.pid] = client[lad.cmd.pid]
                /\ responseFIFO'[lad.cmd.pid] = responseFIFO[lad.cmd.pid]
    BY <1>2, <2>1 DEF SentSeen, Pipe
  <2>3. lad.pc = "process" => CommandSound(lad.cmd)'
    <3>1. PICK c : c = lad.cmd
      OBVIOUS
    <3> QED BY <1>2, <1>7, <2>1, <3>1 DEF Busy, Sound, LadSound, CommandSound
  <2>4. lad.pc = "respond" => Owns(lad.cmd.pid, lad.value)'
    BY <1>2, <1>5, <2>1 DEF Busy, Sound, LadSound
  <2> QED BY <1>2, <2>2, <2>3, <2>4 DEF Busy, Sound, LadSound, Alive, Mode, Data
<1>11. FifoSound'
  <2>1. \A i \in DOMAIN commandFIFO : /\ commandFIFO[i] \in Command /\ commandFIFO[i].pid # p
                                      /\ CommandSound(commandFIFO[i])
    BY <1>3 DEF LadTyped, FifoInv, Named, NoCommand, Sound, FifoSound
  <2>2. PICK n : n = Len(commandFIFO) + 1
    OBVIOUS
  <2>3. /\ DOMAIN commandFIFO' = DOMAIN commandFIFO \cup {n} /\ n \notin DOMAIN commandFIFO
        /\ \A i \in DOMAIN commandFIFO : commandFIFO'[i] = commandFIFO[i]
        /\ commandFIFO'[n] = d
    BY <1>2, <2>2 DEF SentSeen
  <2>4. ASSUME NEW i \in DOMAIN commandFIFO' PROVE SoundAt(i)'
    <3>1. PICK c : c = commandFIFO'[i]
      OBVIOUS
    <3>2. CommandSound(c)'
      BY <1>7, <1>9, <2>1, <2>3, <3>1
    <3> QED BY <3>1, <3>2 DEF SoundAt, CommandSound
  <2>5. \A i, j \in DOMAIN commandFIFO' : i # j => commandFIFO'[i].pid # commandFIFO'[j].pid
    BY <1>2, <2>1, <2>3 DEF Sound, FifoSound
  <2>6. Busy => \A j \in DOMAIN commandFIFO' : lad.cmd.pid # commandFIFO'[j].pid
    BY <1>2, <1>3, <2>3 DEF Sound, FifoSound, NoCommand
  <2> QED BY <1>2, <2>4, <2>5, <2>6 DEF FifoSound, SoundAt, Busy
<1>12. ASSUME NEW x \in Clients PROVE ClientSound(x)'
  <2>1. CASE x # p
    BY <1>6, <2>1, LadSame DEF Sound
  <2>2. CASE x = p
    BY <1>2, <1>4, <1>5, <1>8, <2>2 DEF Puts, SentSeen, ClientSound
  <2> QED BY <2>1, <2>2
<1>13. SlotsSound'
  <2>1. ASSUME NEW i \in Handles, NEW x \in Clients, Has(i, x)
        PROVE  Serves(i, x)' /\ Keeps(i, x)'
    <3>1. Serves(i, x) /\ Keeps(i, x)
      BY <2>1 DEF Sound, SlotsSound
    <3>2. CASE x # p
      BY <1>5, <1>6, <3>1, <3>2, LadSame
    <3>3. CASE x = p
      BY <1>2, <1>5, <3>1, <3>3 DEF Puts, SentSeen, Keeps
    <3> QED BY <3>2, <3>3
  <2> QED BY <1>2, <1>5, <2>1 DEF Sound, SlotsSound
<1>14. PipesSound'
  <2>1. \A x \in Clients : Pipe(x)'.made = Pipe(x).made
    BY <1>2 DEF SentSeen
  <2> QED BY <1>2, <1>5, <2>1 DEF Sound, PipesSound
<1>15. QueuesSound' /\ NumbersSound'
  <2>1. \A x \in Clients : client[x].sent \in Nat /\ client[x].sent <= commands
    BY LadKeepsRecords DEF ClientSet, Sound, NumbersSound
  <2>2. \A q \in queues : q.id <= commands /\ q.id \in Nat
    BY DEF LadTyped, LadTypeOK, Sound, QueuesSound
  <2>3. /\ client'[p].sent = commands + 1
        /\ \A x \in Clients \ {p} : client'[x].sent = client[x].sent
    BY <1>2 DEF SentSeen
  <2>4. QueuesSound'
    BY <1>2, <1>5, <2>1, <2>2, <2>3 DEF Sound, QueuesSound
  <2>5. NumbersSound'
    BY <1>2, <2>1, <2>3 DEF Sound, NumbersSound
  <2> QED BY <2>4, <2>5
<1> QED BY <1>10, <1>11, <1>12, <1>13, <1>14, <1>15 DEF Sound

LEMMA LadPutKeeps ==
    ASSUME LadTyped, NEW p \in Clients, NEW s, NEW cmd, NEW queue, Puts(p, s, cmd, queue),
           Put(p, s, cmd, queue), Abandons
    PROVE  LadTyped' /\ (Sound => Sound') /\ orphaned' = orphaned
<1>1. CASE /\ ClientStep(p) /\ client'[p] = In(p, "dead") /\ responseFIFO'[p] = Unread(p)
           /\ UNCHANGED orphaned /\ commands' = commands + 1
  <2>1. LadTyped'
    BY <1>1, LadTypedAlone DEF ClientStep
  <2>2. Sound => Sound'
    BY <1>1, LadNoCommand, LadSoundDead DEF Puts
  <2> QED BY <1>1, <2>1, <2>2
<1>2. CASE s \in States /\ Sent(p, s, cmd, queue)
  BY <1>2, LadTypedSent, LadSoundSent DEF Sent
<1> QED BY <1>1, <1>2, LadPut

LEMMA LadApplicationKeeps ==
    ASSUME LadTyped, NEW p \in Clients, Application(p)
    PROVE  LadTyped' /\ (Sound => Sound') /\ orphaned' = orphaned
<1>1. CASE OpenCommandFIFO(p)
  BY <1>1, LadOpenCommandFIFO, LadTypedAlone, LadSoundOpenCommandFIFO
  DEF ClientStep, OpenCommandFIFO
<1>2. CASE Connect(p)
  BY <1>2, LadPutKeeps, LadCounts DEF Connect, Puts, Mode, Pipe, Abandons
<1>3. CASE CreateQueue(p)
  BY <1>3, LadPutKeeps, LadCounts DEF CreateQueue, Puts, Mode, Abandons
<1>4. CASE DeleteQueue(p)
  BY <1>4, LadPutKeeps, LadCounts DEF DeleteQueue, Puts, Mode, Abandons
<1>5. CASE Disconnect(p)
  BY <1>5, LadPutKeeps, LadCounts DEF Disconnect, Puts, Mode, Abandons
<1> QED BY <1>1, <1>2, <1>3, <1>4, <1>5 DEF Application

LEMMA LadLibraryKeeps ==
    ASSUME LadTyped, NEW p \in Clients, Library(p)
    PROVE  LadTyped' /\ (Sound => Sound') /\ orphaned' = orphaned
<1>1. CASE ReadConnect(p)
  BY <1>1, LadReadConnect, LadTypedAlone, LadSoundReadConnect DEF ClientStep, ReadConnect
<1>2. CASE ReadResponse(p)
  BY <1>2, LadReadResponse, LadTypedAlone, LadSoundReadResponse DEF ClientStep, ReadResponse
<1>3. CASE EndOfFile(p)
  BY <1>3, LadEndOfFile, LadTypedAlone, LadSoundEndOfFile DEF ClientStep, EndOfFile
<1>4. CASE Disconnected(p)
  BY <1>4, LadDisconnected, LadTypedAlone, LadSoundDisconnected DEF ClientStep, Disconnected
<1> QED BY <1>1, <1>2, <1>3, <1>4 DEF Library

LEMMA LadFaultKeeps ==
    ASSUME LadTyped, NEW p \in Clients, Fault(p)
    PROVE  LadTyped' /\ (Sound /\ ~ orphaned' => Sound') /\ (orphaned => orphaned')
<1>1. CASE ConnectTimeout(p)
  BY <1>1, LadConnectTimeout, LadTypedAlone DEF ClientStep
<1>2. CASE DisconnectTimeout(p)
  BY <1>2, LadDisconnectTimeout, LadTypedAlone, LadNotStuck DEF ClientStep, DisconnectTimeout
<1>3. CASE Die(p)
  <2>1. LadTyped' /\ (orphaned => orphaned')
    BY <1>3, LadDie, LadTypedAlone DEF ClientStep
  <2>2. Sound /\ ~ orphaned' => Sound'
    BY <1>3, LadSoundDie
  <2> QED BY <2>1, <2>2
<1> QED BY <1>1, <1>2, <1>3 DEF Fault

-----------------------------------------------------------------------------
(* LAD carries out a command: the other clients see nothing of it           *)

Serving(p) == p \in Clients /\ Busy /\ lad.cmd.pid = p

LEMMA LadOthers ==
    ASSUME LadTyped, Sound, NEW p, Serving(p), commandFIFO' = commandFIFO,
           Busy' => lad'.cmd = lad.cmd, \A x \in Clients \ {p} : Same(x)
    PROVE  /\ FifoSound' /\ \A x \in Clients \ {p} : ClientSound(x)'
           /\ \A i \in Handles, x \in Clients \ {p} : Keeps(i, x) => Keeps(i, x)'
<1>1. \A i \in DOMAIN commandFIFO : /\ commandFIFO[i].pid \in Clients \ {p}
                                    /\ CommandSound(commandFIFO[i])
  BY DEF LadTyped, FifoInv, Named, Command, Serving, Sound, FifoSound
<1>2. \A i \in DOMAIN commandFIFO' : SoundAt(i)'
  <2>1. ASSUME NEW i \in DOMAIN commandFIFO PROVE SoundAt(i)'
    <3>1. PICK c : c = commandFIFO[i]
      OBVIOUS
    <3>2. CommandSound(c)'
      BY <1>1, <3>1, LadSame
    <3> QED BY <3>1, <3>2 DEF SoundAt, CommandSound
  <2> QED BY <2>1
<1>3. FifoSound'
  BY <1>1, <1>2 DEF Sound, FifoSound, SoundAt, Serving
<1> QED BY <1>3, LadSame DEF Sound

LEMMA LadNumbersStay ==
    ASSUME Sound, commands' = commands, \A x \in Clients : client'[x].sent = client[x].sent
    PROVE  NumbersSound'
BY DEF Sound, NumbersSound

LEMMA LadSoundRest ==
    ASSUME LadTyped, Sound, Reopen \/ Eof \/ ClosePipe
    PROVE  Sound'
<1>1. /\ ~ Busy /\ ~ Busy' /\ lad'.pc # "killed"
      /\ UNCHANGED <<slots, queues, commandFIFO, responseFIFO, client, commands, abandoned>>
  BY DEF Reopen, Eof, ClosePipe, clientVars, Busy
<1>2. LadSound'
  BY <1>1 DEF LadSound, Busy, Alive
<1>3. /\ \A x, v : Owns(x, v)' <=> Owns(x, v)
      /\ \A i, x : Serves(i, x)' <=> Serves(i, x)
      /\ \A i, x : Keeps(i, x)' <=> Keeps(i, x)
      /\ \A i, x : Has(i, x)' <=> Has(i, x)
      /\ \A x : Data(x)' = Data(x) /\ Mode(x)' = Mode(x) /\ Pipe(x)' = Pipe(x)
  BY <1>1 DEF Owns, Serves, Keeps, Has, Data, Mode, Pipe
<1>4. \A c : CommandSound(c)' <=> CommandSound(c)
  BY <1>1, <1>3 DEF CommandSound
<1>5. \A x \in Clients : ClientSound(x)'
  BY <1>1, <1>3 DEF Sound, ClientSound
<1>6. FifoSound'
  BY <1>1, <1>4 DEF Sound, FifoSound
<1>7. SlotsSound' /\ QueuesSound' /\ NumbersSound'
  BY <1>1, <1>3 DEF Sound, SlotsSound, QueuesSound, NumbersSound
<1>8. PipesSound'
  BY <1>1, <1>3 DEF Sound, PipesSound, Busy
<1> QED BY <1>2, <1>5, <1>6, <1>7, <1>8 DEF Sound

LEMMA LadSoundRead ==
    ASSUME LadTyped, Sound, Read
    PROVE  Sound'
<1>1. /\ lad.pc = "ready" /\ commandFIFO # <<>> /\ commandFIFO' = Tail(commandFIFO)
      /\ lad' = [pc |-> "process", cmd |-> Head(commandFIFO)]
      /\ DisconnectSlots(Departed)
      /\ queues' = {q \in queues : \A i \in Departed : q.owner # slots[i].pid}
      /\ UNCHANGED <<client, commands, abandoned>>
  BY DEF Read, clientVars
<1>2. PICK D : D = Departed
  OBVIOUS
<1>3. /\ \A i \in Handles : slots'[i].pid = slots[i].pid
      /\ \A i \in D : ~ slots'[i].connected
      /\ \A i \in Handles \ D : slots'[i] = slots[i]
      /\ \A x \in Clients : x \in Dropped(D) => ~ Pipe(x)'.made
      /\ \A x \in Clients : x \notin Dropped(D) => Pipe(x)' = Pipe(x)
  BY <1>1, <1>2, LadDepartedHandles, LadDisconnectSlots
<1>4. /\ \A i \in D : i \in Handles /\ slots[i].connected /\ Mode(slots[i].pid) = "dead"
      /\ \A i \in Handles : slots[i].connected /\ Mode(slots[i].pid) = "dead" => i \in D
  BY <1>2 DEF Departed, Gone, Mode
<1>5. ASSUME NEW x \in Clients, Mode(x) # "dead" PROVE x \notin Dropped(D) /\ Same(x)
  <2>1. x \notin Dropped(D)
    BY <1>4, <1>5 DEF Dropped
  <2>2. \A q : q \in queues /\ q.owner = x <=> q \in queues' /\ q.owner = x
    BY <1>1, <1>2, <2>1 DEF Dropped
  <2>3. \A i : Serves(i, x) => Serves(i, x)'
    BY <1>3, <2>1 DEF Serves, Dropped
  <2> QED BY <1>1, <1>3, <2>1, <2>2, <2>3, LadOwnsSame DEF Same
<1>6. \A c \in Command : CommandSound(c) => CommandSound(c)'
  <2>1. \A c \in Command : CommandSound(c) => c.pid \in Clients /\ Mode(c.pid) # "dead"
    BY DEF CommandSound, Command
  <2> QED BY <1>5, <2>1, LadSame
<1>7. PICK h : h = Head(commandFIFO) /\ lad' = [pc |-> "process", cmd |-> h] /\ h = commandFIFO[1]
  BY <1>1, LadHeadTail
<1>8. \A i \in DOMAIN commandFIFO : commandFIFO[i] \in Command /\ CommandSound(commandFIFO[i])
  BY DEF LadTyped, FifoInv, Named, Sound, FifoSound
<1>9. LadSound'
  <2>1. CommandSound(h)'
    BY <1>1, <1>6, <1>7, <1>8, LadHeadTail
  <2> QED BY <1>7, <2>1 DEF LadSound, Alive, CommandSound
<1>10. FifoSound'
  <2>1. ASSUME NEW i \in DOMAIN commandFIFO' PROVE SoundAt(i)'
    <3>1. PICK c : c = commandFIFO'[i]
      OBVIOUS
    <3>2. CommandSound(c)'
      BY <1>1, <1>6, <1>8, <3>1, LadHeadTail
    <3> QED BY <3>1, <3>2 DEF SoundAt, CommandSound
  <2>2. \A i, j \in DOMAIN commandFIFO' : i # j => commandFIFO'[i].pid # commandFIFO'[j].pid
    BY <1>1, LadHeadTail DEF Sound, FifoSound
  <2>3. \A j \in DOMAIN commandFIFO' : lad'.cmd.pid # commandFIFO'[j].pid
    BY <1>1, <1>7, LadHeadTail DEF Sound, FifoSound
  <2> QED BY <2>1, <2>2, <2>3 DEF FifoSound, SoundAt
<1>11. ASSUME NEW x \in Clients PROVE ClientSound(x)'
  <2>1. CASE Mode(x) = "dead"
    BY <1>1, <2>1 DEF ClientSound, Mode
  <2>2. CASE Mode(x) # "dead"
    BY <1>5, <2>2, LadSame DEF Sound
  <2> QED BY <2>1, <2>2
<1>12. \A x : \A i \in Handles : Has(i, x)' <=> Has(i, x) /\ i \notin D
  BY <1>3 DEF Has
<1>13. SlotsSound'
  <2>1. ASSUME NEW i \in Handles, NEW x \in Clients, Has(i, x)'
        PROVE  Serves(i, x)' /\ Keeps(i, x)'
    <3>1. Has(i, x) /\ i \notin D /\ Serves(i, x) /\ Keeps(i, x)
      BY <1>12, <2>1 DEF Sound, SlotsSound
    <3>2. Same(x)
      BY <1>4, <1>5, <3>1 DEF Has
    <3> QED BY <3>1, <3>2, LadSame DEF Same
  <2>2. \A i \in Handles : slots'[i].connected => slots'[i].pid \in Clients
    BY <1>3 DEF Sound, SlotsSound
  <2> QED BY <1>12, <2>1, <2>2 DEF Sound, SlotsSound
<1>14. PipesSound'
  <2>1. ASSUME NEW x \in Clients, Pipe(x)'.made PROVE \E i \in Handles : Has(i, x)'
    <3>1. x \notin Dropped(D) /\ Pipe(x).made
      BY <1>3, <2>1
    <3>2. PICK i \in Handles : Has(i, x)
      BY <1>1, <3>1 DEF Sound, PipesSound
    <3> QED BY <1>12, <3>1, <3>2 DEF Dropped, Has
  <2> QED BY <2>1 DEF PipesSound
<1>15. QueuesSound'
  <2>1. ASSUME NEW q \in queues', q.owner \notin abandoned
        PROVE  \E i \in Handles : Has(i, q.owner)'
    <3>1. PICK i \in Handles : Has(i, q.owner)
      BY <1>1, <2>1 DEF Sound, QueuesSound
    <3> QED BY <1>1, <1>2, <1>12, <3>1 DEF Has
  <2> QED BY <1>1, <2>1 DEF Sound, QueuesSound
<1>16. NumbersSound'
  BY <1>1, LadNumbersStay
<1> QED BY <1>9, <1>10, <1>11, <1>13, <1>14, <1>15, <1>16 DEF Sound

\* Steps that leave slots and queues alone leave every client's alone whose pipe they do not touch.
LEMMA LadSameByPipe ==
    ASSUME NEW x, UNCHANGED <<slots, queues>>, client'[x] = client[x], Pipe(x)' = Pipe(x),
           x \in abandoned => x \in abandoned'
    PROVE  Same(x)
BY DEF Same, Owns, Serves

LEMMA LadSoundConnect ==
    ASSUME LadTyped, Sound, ConnectToLAD
    PROVE  Sound'
<1>1. /\ lad.pc = "process" /\ lad.cmd.cmd = "CONNECT"
      /\ UNCHANGED <<slots, queues, commandFIFO, client, commands, abandoned>>
  BY DEF ConnectToLAD, Doing, clientVars
<1>2. PICK p \in Clients : p = lad.cmd.pid
  BY <1>1, LadAsked
<1>3. /\ Mode(p) = "connecting" /\ client[p].sent = lad.cmd.n /\ Owns(p, client[p].queue)
  BY <1>1, <1>2 DEF Sound, LadSound, CommandSound, ClientSound
<1>4. \A i \in Handles : ~ Has(i, p)
  BY <1>3 DEF Sound, SlotsSound, Keeps
<1>5. \/ lad' = [pc |-> "ready"]
      \/ /\ lad' = [pc |-> "open", cmd |-> lad.cmd, id |-> Assigned]
  BY DEF ConnectToLAD
<1>6. /\ lad'.pc \in {"ready", "open"} /\ (Busy' => lad'.pc = "open" /\ lad'.cmd = lad.cmd)
      /\ lad'.pc = "ready" => Pipe(p)' = Pipe(p) /\ Pipe(p).made
      /\ \A x \in Clients \ {p} : Pipe(x)' = Pipe(x)
      /\ Mode(p)' = Mode(p)
  BY <1>1, <1>2, <1>5, LadTypesApart DEF ConnectToLAD, Pipe, Busy, LadTyped, Mode
<1>7. \A x \in Clients \ {p} : Same(x)
  BY <1>1, <1>6, LadSameByPipe
<1>8. /\ FifoSound' /\ \A x \in Clients \ {p} : ClientSound(x)'
      /\ \A i \in Handles, x \in Clients \ {p} : Keeps(i, x) => Keeps(i, x)'
  BY <1>1, <1>2, <1>6, <1>7, LadOthers DEF Serving, Busy
<1>9. LadSound'
  BY <1>1, <1>2, <1>3, <1>6 DEF LadSound, Alive, Busy, Mode
<1>10. ClientSound(p)'
  BY <1>1, <1>3, <1>6 DEF ClientSound, Owns
<1>11. SlotsSound'
  BY <1>1, <1>4, <1>7, <1>8 DEF Sound, SlotsSound, Has, Same
<1>12. PipesSound'
  BY <1>1, <1>2, <1>4, <1>6 DEF Sound, PipesSound, Has, Busy
<1>13. QueuesSound' /\ NumbersSound'
  BY <1>1, LadNumbersStay DEF Sound, QueuesSound, Has
<1> QED BY <1>8, <1>9, <1>10, <1>11, <1>12, <1>13 DEF Sound

LEMMA LadSoundOpen ==
    ASSUME LadTyped, Sound, ResponseOpen
    PROVE  Sound'
<1>1. /\ lad.pc = "open" /\ lad' = [lad EXCEPT !.pc = "connect"]
      /\ UNCHANGED <<slots, queues, commandFIFO, commands, abandoned>>
  BY DEF ResponseOpen
<1>2. PICK p \in Clients : p = lad.cmd.pid
  BY <1>1, LadConnecting
<1>3. /\ Mode(p) = "connecting" /\ client[p].sent = lad.cmd.n /\ Owns(p, client[p].queue)
      /\ Data(p) = <<>>
  BY <1>1, <1>2, LadConnecting DEF Sound, LadSound, ClientSound
<1>4. /\ lad'.pc = "connect" /\ lad'.cmd = lad.cmd
  BY <1>1 DEF LadTyped, LadInv
<1>5. client' = [client EXCEPT ![p] = In(p, "opened")]
  BY <1>2, LadStateOnly DEF ResponseOpen, States
<1>6. /\ Mode(p)' = "opened" /\ client'[p].sent = client[p].sent
      /\ client'[p].queue = client[p].queue
      /\ \A x \in Clients \ {p} : client'[x] = client[x]
  BY <1>5, LadTypesApart DEF LadTyped, In, Mode, ClientSet
<1>7. /\ Data(p)' = Data(p) /\ Pipe(p)'.made = Pipe(p).made
      /\ \A x \in Clients \ {p} : Pipe(x)' = Pipe(x)
  BY <1>2, LadTypesApart DEF LadTyped, ResponseOpen, Data, Pipe, PipeSet
<1>8. \A i \in Handles : ~ Has(i, p)
  BY <1>3 DEF Sound, SlotsSound, Keeps
<1>9. \A x \in Clients \ {p} : Same(x)
  BY <1>1, <1>6, <1>7, LadSameByPipe
<1>10. /\ FifoSound' /\ \A x \in Clients \ {p} : ClientSound(x)'
       /\ \A i \in Handles, x \in Clients \ {p} : Keeps(i, x) => Keeps(i, x)'
  BY <1>1, <1>2, <1>4, <1>9, LadOthers DEF Serving, Busy
<1>11. LadSound'
  BY <1>2, <1>3, <1>4, <1>6 DEF LadSound, Alive, Mode
<1>12. ClientSound(p)'
  BY <1>1, <1>3, <1>6, <1>7 DEF ClientSound, Owns
<1>13. SlotsSound'
  BY <1>1, <1>8, <1>9, <1>10 DEF Sound, SlotsSound, Has, Same
<1>14. PipesSound'
  BY <1>1, <1>2, <1>4, <1>7 DEF Sound, PipesSound, Has
<1>15. QueuesSound' /\ NumbersSound'
  <2>1. \A x \in Clients : client'[x].sent = client[x].sent
    BY <1>6
  <2> QED BY <1>1, <2>1, LadNumbersStay DEF Sound, QueuesSound, Has
<1> QED BY <1>10, <1>11, <1>12, <1>13, <1>14, <1>15 DEF Sound

LEMMA LadSoundConnectDone ==
    ASSUME LadTyped, Sound, ConnectDone
    PROVE  Sound'
<1>1. /\ lad.pc = "connect" /\ UNCHANGED <<queues, commandFIFO, client, commands>>
  BY DEF ConnectDone, clientVars
<1>2. PICK p \in Clients : p = lad.cmd.pid
  BY <1>1, LadConnecting
<1>3. PICK h \in Handles \cup {NoHandle} : h = lad.id
  BY <1>1, LadConnecting
<1>4. /\ Mode(p) = "opened" /\ client[p].sent = lad.cmd.n /\ Owns(p, client[p].queue)
      /\ Data(p) = <<>> /\ Pipe(p).reader /\ Pipe(p).made /\ Pipe(p).writer
  BY <1>1, <1>2, LadConnecting DEF Sound, LadSound, ClientSound, LadTyped, LadInv
<1> DEFINE denied == h = NoHandle
<1>5. PICK a : a = [n |-> lad.cmd.n, value |-> h,
                    status |-> IF denied THEN "ACCESSDENIED" ELSE "SUCCESS"]
  OBVIOUS
<1>6. /\ lad' = [pc |-> "ready"]
      /\ responseFIFO' = [responseFIFO EXCEPT ![p].data = Append(@, a), ![p].made = ~ denied,
                                              ![p].writer = ~ denied]
  BY <1>2, <1>3, <1>4, <1>5 DEF ConnectDone, Pipe
<1>7. a.n = client[p].sent /\ a.value = h /\ (a.status = "SUCCESS" <=> ~ denied)
  BY <1>4, <1>5
<1>8. /\ Data(p)' = <<a>> /\ Pipe(p)'.reader /\ (Pipe(p)'.made <=> ~ denied)
      /\ (~ denied => Pipe(p)'.writer)
      /\ \A x \in Clients \ {p} : Pipe(x)' = Pipe(x)
  <2>1. responseFIFO \in [Clients -> PipeSet]
    BY LadTypesApart DEF LadTyped
  <2>2. Append(responseFIFO[p].data, a) = <<a>>
    BY <1>4 DEF Data
  <2>3. PICK b : b = ~ denied
    OBVIOUS
  <2>4. responseFIFO' = [responseFIFO EXCEPT ![p].data = <<a>>, ![p].made = b, ![p].writer = b]
    BY <1>6, <2>1, <2>2, <2>3 DEF PipeSet
  <2> HIDE DEF denied
  <2>5. /\ responseFIFO'[p].data = <<a>> /\ responseFIFO'[p].made = b /\ responseFIFO'[p].writer = b
        /\ responseFIFO'[p].reader = responseFIFO[p].reader
        /\ \A x \in Clients \ {p} : responseFIFO'[x] = responseFIFO[x]
    BY <2>1, <2>4 DEF PipeSet
  <2> QED BY <1>4, <2>3, <2>5 DEF Data, Pipe
<1>9. /\ \A i \in Handles :
            slots'[i] = IF i = h THEN [connected |-> TRUE, pid |-> p, open |-> TRUE]
                        ELSE slots[i]
      /\ ~ denied => h \in Handles /\ ~ slots[h].connected
  BY <1>1, <1>2, <1>3, LadConnecting DEF ConnectDone
<1>21. abandoned' = IF denied THEN abandoned ELSE abandoned \ {p}
  BY <1>2, <1>3 DEF ConnectDone
<1> HIDE DEF denied
<1>10. \A i \in Handles : ~ Has(i, p)
  BY <1>4 DEF Sound, SlotsSound, Keeps
<1>11. \A x : \A i \in Handles : Has(i, x)' <=> Has(i, x) \/ (i = h /\ x = p)
  <2>1. \A i \in Handles : i = h => ~ denied /\ ~ slots[i].connected
    BY <1>3, <1>9, LadHandlesRange DEF denied
  <2> QED BY <1>9, <2>1 DEF Has
<1>12. ASSUME NEW x \in Clients \ {p} PROVE Same(x)
  <2>1. \A i : Serves(i, x) => Serves(i, x)'
    BY <1>8, <1>9, LadHandlesRange DEF Serves, denied
  <2> QED BY <1>1, <1>8, <1>21, <2>1 DEF Same, Owns
<1>13. /\ FifoSound' /\ \A x \in Clients \ {p} : ClientSound(x)'
       /\ \A i \in Handles, x \in Clients \ {p} : Keeps(i, x) => Keeps(i, x)'
  BY <1>1, <1>2, <1>6, <1>12, LadOthers DEF Serving, Busy
<1>14. LadSound'
  BY <1>6 DEF LadSound, Alive
<1>15. ~ denied => Serves(h, p)'
  BY <1>8, <1>9 DEF Serves
<1>16. ClientSound(p)'
  <2>1. Mode(p)' = "opened" /\ client'[p] = client[p] /\ Owns(p, client[p].queue)'
    BY <1>1, <1>4 DEF Mode, Owns
  <2>2. Data(p)'[1] = a /\ Len(Data(p)') = 1
    BY <1>8
  <2> QED BY <1>4, <1>7, <1>8, <1>15, <2>1, <2>2 DEF ClientSound
<1>17. SlotsSound'
  <2>1. ASSUME NEW i \in Handles, NEW x \in Clients, Has(i, x)'
        PROVE  Serves(i, x)' /\ Keeps(i, x)'
    <3>1. CASE x # p
      BY <1>11, <1>12, <1>13, <2>1, <3>1 DEF Sound, SlotsSound, Same
    <3>2. CASE x = p
      <4>1. i = h /\ ~ denied
        BY <1>10, <1>11, <2>1, <3>2, LadHandlesRange DEF denied
      <4>2. Data(p)' # <<>> /\ Data(p)'[1] = a /\ Mode(p)' = "opened"
        BY <1>1, <1>4, <1>8 DEF Mode
      <4> QED BY <1>7, <1>15, <3>2, <4>1, <4>2 DEF Keeps
    <3> QED BY <3>1, <3>2
  <2>2. \A i \in Handles : slots'[i].connected => slots'[i].pid \in Clients
    BY <1>9 DEF Sound, SlotsSound
  <2> QED BY <1>10, <1>11, <2>1, <2>2 DEF Sound, SlotsSound
<1>18. PipesSound'
  <2>1. ASSUME NEW x \in Clients, Pipe(x)'.made PROVE \E i \in Handles : Has(i, x)'
    <3>1. CASE x = p
      BY <1>8, <1>9, <1>11, <2>1, <3>1
    <3>2. CASE x # p
      BY <1>2, <1>8, <1>11, <2>1, <3>2 DEF Sound, PipesSound
    <3> QED BY <3>1, <3>2
  <2> QED BY <2>1 DEF PipesSound
<1>19. QueuesSound'
  <2>1. ASSUME NEW q \in queues
        PROVE  q.owner \in abandoned' \/ \E i \in Handles : Has(i, q.owner)'
    <3>1. CASE q.owner = p /\ ~ denied
      BY <1>9, <1>11, <3>1
    <3>2. CASE q.owner # p \/ denied
      BY <1>11, <1>21, <3>2 DEF Sound, QueuesSound
    <3> QED BY <3>1, <3>2
  <2> QED BY <1>1, <2>1 DEF Sound, QueuesSound
<1>20. NumbersSound'
  BY <1>1, LadNumbersStay
<1> QED BY <1>13, <1>14, <1>16, <1>17, <1>18, <1>19, <1>20 DEF Sound

\* The command that LAD carries out, other than CONNECT.
LEMMA LadSoundCommand ==
    ASSUME LadTyped, Sound, lad.pc = "process", lad.cmd.cmd # "CONNECT"
    PROVE  LET p == lad.cmd.pid
           IN /\ Serving(p) /\ client[p].sent = lad.cmd.n /\ client[p].handle = lad.cmd.clientId
              /\ Owns(p, client[p].queue)
              /\ Serves(lad.cmd.clientId, p) /\ slots[lad.cmd.clientId].pid = p
              /\ \/ /\ lad.cmd.cmd = "DISCONNECT" /\ Mode(p) = "leaving"
                    /\ client[p].queue = 0 \/ p \in abandoned
                 \/ /\ lad.cmd.cmd \in {"CREATE", "DELETE"} /\ client[p].queue = lad.cmd.queue
                    /\ Mode(p) = "waiting" /\ Data(p) = <<>>
                    /\ lad.cmd.queue = 0 <=> lad.cmd.cmd = "CREATE"
<1>1. PICK p \in Clients : p = lad.cmd.pid
  BY LadCommandTyped
<1>2. CommandSound(lad.cmd) /\ ClientSound(p) /\ lad.cmd \in Command
  BY LadCommandTyped DEF Sound, LadSound
<1>3. Mode(p) = "waiting" => Serves(client[p].handle, p)
  BY <1>2 DEF ClientSound
<1>4. Mode(p) = "leaving" => client[p].queue = 0 \/ p \in abandoned
  BY <1>2 DEF ClientSound
<1>5. Serves(lad.cmd.clientId, p)
  BY <1>1, <1>2, <1>3 DEF CommandSound
<1> QED BY <1>1, <1>2, <1>4, <1>5 DEF CommandSound, Serving, Busy, Serves

LEMMA LadSoundDisconnect ==
    ASSUME LadTyped, Sound, DisconnectFromLAD
    PROVE  Sound'
<1>1. /\ lad.pc = "process" /\ lad.cmd.cmd = "DISCONNECT"
      /\ UNCHANGED <<queues, commandFIFO, client, commands, abandoned>>
  BY DEF DisconnectFromLAD, Doing, clientVars
<1>2. PICK p \in Clients : p = lad.cmd.pid
  BY <1>1, LadCommandTyped
<1>3. PICK h \in Handles : h = lad.cmd.clientId
  BY <1>1, LadCommandTyped
<1>4. /\ Serving(p) /\ Owns(p, client[p].queue) /\ Serves(h, p) /\ Mode(p) = "leaving"
      /\ client[p].queue = 0 \/ p \in abandoned
  BY <1>1, <1>2, <1>3, LadSoundCommand
<1>5. lad' = [pc |-> "ready"] /\ DisconnectSlots({h})
  BY <1>3, <1>4 DEF DisconnectFromLAD, Serves
<1>6. Dropped({h}) = {p}
  BY <1>4 DEF Dropped, Serves
<1>7. /\ ~ slots'[h].connected /\ \A i \in Handles \ {h} : slots'[i] = slots[i]
      /\ slots'[h].pid = p
      /\ ~ Pipe(p)'.made /\ \A x \in Clients \ {p} : Pipe(x)' = Pipe(x)
  BY <1>4, <1>5, <1>6, LadDisconnectSlots DEF Serves
<1>8. ASSUME NEW x \in Clients \ {p} PROVE Same(x)
  <2>1. \A i : Serves(i, x) => Serves(i, x)'
    BY <1>4, <1>7 DEF Serves
  <2> QED BY <1>1, <1>7, <2>1 DEF Same, Owns
<1>9. /\ FifoSound' /\ \A x \in Clients \ {p} : ClientSound(x)'
      /\ \A i \in Handles, x \in Clients \ {p} : Keeps(i, x) => Keeps(i, x)'
  BY <1>1, <1>4, <1>5, <1>8, LadOthers DEF Busy
<1>10. LadSound'
  BY <1>5 DEF LadSound, Alive
<1>11. ClientSound(p)'
  BY <1>1, <1>4 DEF ClientSound, Owns, Mode
<1>12. \A x : \A i \in Handles : Has(i, x)' <=> Has(i, x) /\ i # h
  BY <1>7 DEF Has
<1>13. \A i \in Handles : Has(i, p) => i = h
  BY <1>4 DEF Sound, SlotsSound, Has, Serves
<1>14. SlotsSound'
  <2>1. \A i \in Handles, x \in Clients : Has(i, x)' => Serves(i, x)' /\ Keeps(i, x)'
    BY <1>8, <1>9, <1>12, <1>13 DEF Sound, SlotsSound, Same
  <2>2. \A i \in Handles : slots'[i].connected => slots'[i].pid \in Clients
    BY <1>7 DEF Sound, SlotsSound
  <2> QED BY <1>12, <2>1, <2>2 DEF Sound, SlotsSound
<1>15. PipesSound'
  <2>1. ASSUME NEW x \in Clients, Pipe(x)'.made PROVE \E i \in Handles : Has(i, x)'
    <3>1. x # p /\ Pipe(x).made
      BY <1>7, <2>1
    <3>2. PICK i \in Handles : Has(i, x)
      BY <1>1, <3>1 DEF Sound, PipesSound
    <3>3. i # h
      BY <1>4, <3>1, <3>2 DEF Has, Serves
    <3> QED BY <1>12, <3>2, <3>3
  <2> QED BY <2>1 DEF PipesSound
<1>16. QueuesSound'
  <2>1. \A q \in queues : q.owner # p \/ p \in abandoned
    BY <1>4 DEF Owns, LadTyped, LadTypeOK
  <2>2. ASSUME NEW q \in queues, q.owner \notin abandoned
        PROVE  \E i \in Handles : Has(i, q.owner)'
    <3>1. PICK i \in Handles : Has(i, q.owner)
      BY <2>2 DEF Sound, QueuesSound
    <3>2. i # h
      BY <1>4, <2>1, <2>2, <3>1 DEF Has, Serves
    <3> QED BY <1>12, <3>1, <3>2
  <2> QED BY <1>1, <2>2 DEF Sound, QueuesSound
<1>17. NumbersSound'
  BY <1>1, LadNumbersStay
<1> QED BY <1>9, <1>10, <1>11, <1>14, <1>15, <1>16, <1>17 DEF Sound

\* LAD has an answer for p that it has not written yet.
LEMMA LadSoundAnswering ==
    ASSUME LadTyped, Sound, NEW p, NEW v, Serving(p), Mode(p) = "waiting", Data(p) = <<>>,
           client[p].sent = lad.cmd.n, client[p].handle = lad.cmd.clientId,
           lad' = [pc |-> "respond", cmd |-> lad.cmd, value |-> v],
           lad.pc = "process",
           UNCHANGED <<slots, commandFIFO, responseFIFO, client, commands, abandoned>>,
           \A x \in Clients \ {p} : \A w : Owns(x, w) => Owns(x, w)', Owns(p, v)', QueuesSound'
    PROVE  Sound'
<1>1. /\ \A i, x : Serves(i, x)' <=> Serves(i, x)
      /\ \A i, x : Keeps(i, x)' <=> Keeps(i, x)
      /\ \A i, x : Has(i, x)' <=> Has(i, x)
      /\ \A x : Data(x)' = Data(x) /\ Mode(x)' = Mode(x) /\ Pipe(x)' = Pipe(x)
  BY DEF Serves, Keeps, Has, Data, Mode, Pipe
<1>2. \A x \in Clients \ {p} : Same(x)
  BY <1>1 DEF Same
<1>3. FifoSound' /\ \A x \in Clients \ {p} : ClientSound(x)'
  BY <1>2, LadOthers DEF Busy
<1>4. LadSound'
  BY <1>1 DEF LadSound, Alive, Serving
<1>5. ClientSound(p)'
  BY <1>1 DEF Sound, ClientSound, Serving
<1>6. SlotsSound' /\ NumbersSound'
  BY <1>1, LadNumbersStay DEF Sound, SlotsSound
<1>7. PipesSound'
  BY <1>1 DEF Sound, PipesSound
<1> QED BY <1>3, <1>4, <1>5, <1>6, <1>7 DEF Sound, Serving

LEMMA LadSoundCreate ==
    ASSUME LadTyped, Sound, MessageQCreate
    PROVE  Sound'
<1>1. /\ lad.pc = "process" /\ lad.cmd.cmd = "CREATE"
      /\ lad' = [pc |-> "respond", cmd |-> lad.cmd, value |-> lad.cmd.n]
      /\ UNCHANGED <<slots, commandFIFO, responseFIFO, client, commands, abandoned>>
      /\ queues' = queues \cup {[id |-> lad.cmd.n, owner |-> slots[lad.cmd.clientId].pid]}
  BY DEF MessageQCreate, Doing, clientVars
<1>2. PICK p \in Clients : p = lad.cmd.pid
  BY <1>1, LadCommandTyped
<1>3. PICK n \in 1 .. MaxCommands : n = lad.cmd.n
  BY <1>1, LadCommandTyped
<1>4. /\ Serving(p) /\ client[p].sent = n /\ client[p].handle = lad.cmd.clientId
      /\ Owns(p, 0) /\ Serves(lad.cmd.clientId, p) /\ slots[lad.cmd.clientId].pid = p
      /\ Mode(p) = "waiting" /\ Data(p) = <<>>
  BY <1>1, <1>2, <1>3, LadSoundCommand
<1>5. PICK new : new = [id |-> n, owner |-> p]
  OBVIOUS
<1>6. queues' = queues \cup {new} /\ new.id = n /\ new.owner = p
  BY <1>1, <1>3, <1>4, <1>5
<1>7. \A q \in queues : q.owner # p /\ q.id # n
  <2>1. \A q \in queues : q.owner # p
    BY <1>4 DEF Owns, LadTyped, LadTypeOK
  <2> QED BY <1>4, <2>1 DEF Sound, QueuesSound
<1>8. \A x \in Clients \ {p} : \A w : Owns(x, w) => Owns(x, w)'
  BY <1>6 DEF Owns
<1>9. Owns(p, n)'
  BY <1>5, <1>6, <1>7 DEF Owns
<1>10. QueuesSound'
  <2>1. n <= commands
    BY <1>4 DEF Sound, NumbersSound
  <2>2. \A q \in queues' :
           /\ q.id <= commands
           /\ q.owner \in abandoned \/ \E i \in Handles : Has(i, q.owner)'
    BY <1>1, <1>4, <1>6, <2>1 DEF Sound, QueuesSound, Has, Serves
  <2>3. \A q, r \in queues' : q.id = r.id => q = r
    BY <1>6, <1>7 DEF Sound, QueuesSound
  <2>4. \A x \in Clients, q \in queues' : client[x].sent = q.id => q.owner = x
    BY <1>3, <1>4, <1>6 DEF Sound, QueuesSound, NumbersSound
  <2> QED BY <1>1, <2>2, <2>3, <2>4 DEF QueuesSound
<1> QED BY <1>1, <1>3, <1>4, <1>8, <1>9, <1>10, LadSoundAnswering

LEMMA LadSoundDelete ==
    ASSUME LadTyped, Sound, MessageQDelete
    PROVE  Sound'
<1>1. /\ lad.pc = "process" /\ lad.cmd.cmd = "DELETE"
      /\ UNCHANGED <<slots, commandFIFO, client, commands, abandoned>>
  BY DEF MessageQDelete, Doing, clientVars
<1>2. PICK p \in Clients : p = lad.cmd.pid
  BY <1>1, LadCommandTyped
<1>3. /\ Serving(p) /\ client[p].sent = lad.cmd.n /\ client[p].handle = lad.cmd.clientId
      /\ Owns(p, lad.cmd.queue) /\ lad.cmd.queue # 0
      /\ Mode(p) = "waiting" /\ Data(p) = <<>>
  BY <1>1, <1>2, LadSoundCommand
<1>4. PICK old \in queues : old.id = lad.cmd.queue /\ old.owner = p
  BY <1>3 DEF Owns
<1>5. /\ queues' = {q \in queues : q.id # old.id} /\ UNCHANGED responseFIFO
      /\ lad' = [pc |-> "respond", cmd |-> lad.cmd, value |-> 0]
  BY <1>4 DEF MessageQDelete
<1>6. \A q \in queues : q.owner = p => q.id = old.id
  BY <1>3, <1>4 DEF Owns
<1>7. \A q \in queues : q.owner # p => q.id # old.id
  BY <1>4 DEF Sound, QueuesSound
<1>8. \A x \in Clients \ {p} : \A w : Owns(x, w) => Owns(x, w)'
  BY <1>5, <1>7 DEF Owns
<1>9. Owns(p, 0)'
  BY <1>5, <1>6 DEF Owns
<1>10. QueuesSound'
  BY <1>1, <1>5 DEF Sound, QueuesSound, Has
<1> QED BY <1>1, <1>3, <1>5, <1>8, <1>9, <1>10, LadSoundAnswering

LEMMA LadSoundRespond ==
    ASSUME LadTyped, Sound, Respond
    PROVE  Sound'
<1>1. /\ lad.pc = "respond" /\ UNCHANGED <<slots, queues, commandFIFO, client, commands, abandoned>>
      /\ lad.cmd \in Command
  BY DEF Respond, clientVars, LadTyped, LadInv
<1>2. PICK p \in Clients : p = lad.cmd.pid
  BY <1>1 DEF Command
<1>3. /\ Serving(p) /\ Mode(p) = "waiting" /\ Data(p) = <<>> /\ client[p].sent = lad.cmd.n
      /\ client[p].handle = lad.cmd.clientId /\ Owns(p, lad.value)
      /\ Serves(lad.cmd.clientId, p) /\ Pipe(p).reader
  BY <1>1, <1>2 DEF Sound, LadSound, ClientSound, Serving, Busy
<1>4. PICK a : a = [n |-> lad.cmd.n, status |-> "SUCCESS", value |-> lad.value]
  OBVIOUS
<1>5. /\ lad' = [pc |-> "ready"]
      /\ responseFIFO' = [responseFIFO EXCEPT ![p].data = Append(@, a)]
  BY <1>3, <1>4 DEF Respond, Serves, Pipe
<1>6. a.n = client[p].sent /\ a.value = lad.value
  BY <1>3, <1>4
<1>7. /\ Data(p)' = <<a>> /\ Pipe(p)'.reader = Pipe(p).reader /\ Pipe(p)'.made = Pipe(p).made
      /\ Pipe(p)'.writer = Pipe(p).writer
      /\ \A x \in Clients \ {p} : Pipe(x)' = Pipe(x)
  <2>1. responseFIFO \in [Clients -> PipeSet]
    BY LadTypesApart DEF LadTyped
  <2>2. Append(responseFIFO[p].data, a) = <<a>>
    BY <1>3 DEF Data
  <2> QED BY <1>5, <2>1, <2>2 DEF PipeSet, Data, Pipe
<1>8. /\ \A x, w : Owns(x, w)' <=> Owns(x, w)
      /\ \A x \in Clients : \A i : Serves(i, x)' <=> Serves(i, x)
      /\ \A i, x : Has(i, x)' <=> Has(i, x)
  <2>1. \A x \in Clients : Pipe(x)'.made = Pipe(x).made /\ Pipe(x)'.writer = Pipe(x).writer
    BY <1>7
  <2> QED BY <1>1, <2>1 DEF Owns, Serves, Has
<1>9. \A x \in Clients \ {p} : Same(x)
  BY <1>1, <1>7, <1>8 DEF Same
<1>10. /\ FifoSound' /\ \A x \in Clients \ {p} : ClientSound(x)'
       /\ \A i \in Handles, x \in Clients \ {p} : Keeps(i, x) => Keeps(i, x)'
  BY <1>1, <1>3, <1>5, <1>9, LadOthers DEF Busy
<1>11. LadSound'
  BY <1>5 DEF LadSound, Alive
<1>12. Mode(p)' = "waiting" /\ client'[p] = client[p]
  BY <1>1, <1>3 DEF Mode
<1>13. ClientSound(p)'
  <2>1. Data(p)'[1] = a /\ Len(Data(p)') = 1
    BY <1>7
  <2> QED BY <1>3, <1>6, <1>7, <1>8, <1>12, <2>1 DEF ClientSound
<1>14. SlotsSound'
  <2>1. \A i \in Handles : Keeps(i, p) => Keeps(i, p)'
    BY <1>3, <1>12 DEF Keeps
  <2> QED BY <1>1, <1>8, <1>10, <2>1 DEF Sound, SlotsSound
<1>15. PipesSound'
  <2>1. \A x \in Clients : Pipe(x)'.made = Pipe(x).made
    BY <1>7
  <2> QED BY <1>1, <1>5, <1>8, <2>1 DEF Sound, PipesSound
<1>16. QueuesSound' /\ NumbersSound'
  BY <1>1, <1>8, LadNumbersStay DEF Sound, QueuesSound
<1> QED BY <1>10, <1>11, <1>13, <1>14, <1>15, <1>16 DEF Sound

-----------------------------------------------------------------------------
(* The theorems about the daemon                                           *)

LEMMA LadStepKeeps ==
    ASSUME LadTyped, LadStep
    PROVE  LadTyped' /\ (Sound => Sound') /\ orphaned' = orphaned
<1>1. orphaned' = orphaned
  BY DEF LadStep, Reopen, Eof, ClosePipe, Read, ConnectToLAD,
         ResponseOpen, ConnectDone, DisconnectFromLAD, MessageQCreate,
         MessageQDelete, Respond, clientVars
<1>2. CASE Reopen \/ Eof \/ ClosePipe
  BY <1>1, <1>2, LadTypedRest, LadSoundRest
<1>3. CASE Read
  BY <1>1, <1>3, LadTypedRead, LadSoundRead
<1>4. CASE ConnectToLAD
  BY <1>1, <1>4, LadTypedConnect, LadSoundConnect
<1>5. CASE ResponseOpen
  BY <1>1, <1>5, LadTypedOpen, LadSoundOpen
<1>6. CASE ConnectDone
  BY <1>1, <1>6, LadTypedConnectDone, LadSoundConnectDone
<1>7. CASE DisconnectFromLAD
  BY <1>1, <1>7, LadTypedDisconnect, LadSoundDisconnect
<1>8. CASE MessageQCreate
  BY <1>1, <1>8, LadTypedCreate, LadSoundCreate
<1>9. CASE MessageQDelete
  BY <1>1, <1>9, LadTypedDelete, LadSoundDelete
<1>10. CASE Respond
  BY <1>1, <1>10, LadTypedRespond, LadSoundRespond
<1> QED BY <1>2, <1>3, <1>4, <1>5, <1>6, <1>7, <1>8, <1>9, <1>10 DEF LadStep

\* A step that changes nothing.
LEMMA LadStutters ==
    ASSUME UNCHANGED allVars
    PROVE  /\ LadTyped => LadTyped'
           /\ Sound => Sound'
<1>1. /\ UNCHANGED <<lad, slots, queues, commandFIFO, responseFIFO, client>>
      /\ UNCHANGED <<orphaned, abandoned, commands, deaths>>
  BY DEF allVars
<1>2. LadTyped => LadTyped'
  <2>1. LadTypeOK => LadTypeOK'
    BY <1>1 DEF LadTypeOK
  <2>2. LadInv => LadInv'
    BY <1>1 DEF LadInv, Named, Taken, Data, Mode, Pipe, Free
  <2>3. FifoInv => FifoInv'
    BY <1>1 DEF FifoInv, Named, Taken
  <2>4. Stuck \/ OneConnect => Stuck' \/ OneConnect'
    BY <1>1 DEF Stuck, OneConnect, Looking, Asks, Mode, Blocked, Alive
  <2>5. (\A p \in Clients : ClientInv(p)) => \A p \in Clients : ClientInv(p)'
    BY <1>1 DEF ClientInv, Mode, Taken, Small, Data
  <2> QED BY <2>1, <2>2, <2>3, <2>4, <2>5 DEF LadTyped
<1>3. Sound => Sound'
  <2>1. LadSound => LadSound'
    BY <1>1 DEF LadSound, Alive, CommandSound, Mode, Data, Owns, Serves, Pipe
  <2>2. FifoSound => FifoSound'
    BY <1>1 DEF FifoSound, CommandSound, Mode, Data, Owns, Serves, Pipe, Busy
  <2>3. \A p \in Clients : ClientSound(p) => ClientSound(p)'
    BY <1>1 DEF ClientSound, Mode, Data, Owns, Serves, Pipe
  <2>4. SlotsSound => SlotsSound'
    BY <1>1 DEF SlotsSound, Has, Serves, Keeps, Mode, Data, Pipe
  <2>5. PipesSound => PipesSound'
    BY <1>1 DEF PipesSound, Pipe, Has
  <2>6. (QueuesSound => QueuesSound') /\ (NumbersSound => NumbersSound')
    BY <1>1 DEF QueuesSound, Has, NumbersSound
  <2> QED BY <2>1, <2>2, <2>3, <2>4, <2>5, <2>6 DEF Sound
<1> QED BY <1>2, <1>3

LEMMA LadSoundInit ==
    ASSUME LadInit
    PROVE  Sound
<1>1. /\ lad.pc = "closed" /\ commandFIFO = <<>> /\ queues = {}
      /\ \A x \in Clients : Mode(x) = "off" /\ client[x].queue = 0 /\ client[x].sent = 0
      /\ \A x \in Clients : ~ Pipe(x).made
      /\ \A i \in Handles : ~ slots[i].connected
      /\ commands = 0
  BY DEF LadInit, Idle, Mode, Pipe, NoPipe
<1>2. LadSound /\ FifoSound
  BY <1>1 DEF LadSound, FifoSound, Busy, Alive
<1>3. \A x \in Clients : ClientSound(x)
  BY <1>1 DEF ClientSound, Owns
<1>4. SlotsSound /\ PipesSound /\ QueuesSound /\ NumbersSound
  BY <1>1 DEF SlotsSound, Has, PipesSound, QueuesSound, NumbersSound
<1> QED BY <1>2, <1>3, <1>4 DEF Sound

\* Types always; sessions, commands and queues until a command is orphaned.
LadSafe == LadTyped /\ (~ orphaned => Sound)

LEMMA LadNextSafe ==
    ASSUME LadSafe, [LadNext]_allVars
    PROVE  LadSafe'
<1>1. LadTyped /\ (~ orphaned => Sound)
  BY DEF LadSafe
<1>2. CASE LadStep
  BY <1>1, <1>2, LadStepKeeps DEF LadSafe
<1>3. ASSUME NEW p \in Clients, Library(p) \/ Application(p) PROVE LadSafe'
  BY <1>1, <1>3, LadLibraryKeeps, LadApplicationKeeps DEF LadSafe
<1>4. ASSUME NEW p \in Clients, Fault(p) PROVE LadSafe'
  BY <1>1, <1>4, LadFaultKeeps DEF LadSafe
<1>5. CASE UNCHANGED allVars
  BY <1>1, <1>5, LadStutters DEF LadSafe, allVars
<1> QED BY <1>2, <1>3, <1>4, <1>5 DEF LadNext

\* The invariant of the daemon and its clients: the types and the pipes always, and the commands,
\* answers, slots and queues of each client until one is orphaned (lad.c, LAD_client.c).  A queue
\* is that of a client with a slot, or one that was left behind at a disconnect.
THEOREM LadAlwaysSafe == LadSpec => []LadSafe
<1>1. LadInit => LadSafe
  BY LadTypedInit, LadSoundInit DEF LadSafe
<1>2. LadSafe /\ [LadNext]_allVars => LadSafe'
  BY LadNextSafe
<1> QED BY <1>1, <1>2, PTL DEF LadSpec

LEMMA LadSessions ==
    ASSUME LadSafe
    PROVE  SessionsSound
<1>1. LadTyped /\ LadTypeOK
  BY DEF LadSafe, LadTyped
<1>2. SUFFICES ASSUME Sound
               PROVE  /\ \A p \in Clients : InSession(p) =>
                            LET slot == slots[client[p].handle]
                            IN /\ slot.connected /\ slot.open /\ slot.pid = p
                               /\ responseFIFO[p].made /\ responseFIFO[p].writer
                      /\ \A p \in Clients : Holds(p) /\ client[p].queue # 0 =>
                            [id |-> client[p].queue, owner |-> p] \in queues
                      /\ \A i, j \in Handles : slots[i].connected /\ slots[j].connected /\ i # j
                            => slots[i].pid # slots[j].pid
                      /\ \A i \in Handles : slots[i].connected =>
                            client[slots[i].pid].state \notin {"off", "connecting"}
  BY <1>1 DEF LadSafe, SessionsSound
<1>3. ASSUME NEW p \in Clients, InSession(p)
      PROVE  LET slot == slots[client[p].handle]
             IN /\ slot.connected /\ slot.open /\ slot.pid = p
                /\ responseFIFO[p].made /\ responseFIFO[p].writer
  BY <1>2, <1>3 DEF Sound, ClientSound, InSession, Mode, Serves, Pipe
<1>4. ASSUME NEW p \in Clients, Holds(p), client[p].queue # 0
      PROVE  [id |-> client[p].queue, owner |-> p] \in queues
  BY <1>2, <1>4 DEF Sound, ClientSound, Holds, Mode, Owns
<1>5. \A i, j \in Handles : slots[i].connected /\ slots[j].connected /\ i # j
         => slots[i].pid # slots[j].pid
  BY <1>2 DEF Sound, SlotsSound, Has
<1>6. ASSUME NEW i \in Handles, slots[i].connected
      PROVE  client[slots[i].pid].state \notin {"off", "connecting"}
  <2>1. PICK p \in Clients : Has(i, p) /\ p = slots[i].pid
    BY <1>2, <1>6 DEF Sound, SlotsSound, Has
  <2>2. Keeps(i, p)
    BY <1>2, <2>1 DEF Sound, SlotsSound
  <2> QED BY <2>1, <2>2 DEF Keeps, Mode
<1> QED BY <1>3, <1>4, <1>5, <1>6

LEMMA LadDeparted ==
    ASSUME LadSafe, Read, ~ orphaned, NEW p \in Clients, Gone(p)
    PROVE  /\ \A q \in queues' : q.owner = p => p \in abandoned
           /\ \A i \in Handles : ~ (slots'[i].connected /\ slots'[i].pid = p)
           /\ ~ responseFIFO'[p].made
<1>1. /\ LadTyped /\ Sound /\ lad.pc = "ready" /\ DisconnectSlots(Departed)
      /\ queues' = {q \in queues : \A i \in Departed : q.owner # slots[i].pid}
  BY DEF LadSafe, Read
<1>2. \A i \in Handles : Has(i, p) => i \in Departed
  BY DEF Has, Departed
<1>3. /\ \A i \in Departed : ~ slots'[i].connected
      /\ \A i \in Handles \ Departed : slots'[i] = slots[i]
      /\ p \in Dropped(Departed) => ~ Pipe(p)'.made
      /\ p \notin Dropped(Departed) => Pipe(p)' = Pipe(p)
  BY <1>1, LadDepartedHandles, LadDisconnectSlots
<1>4. \A i \in Handles : ~ (slots'[i].connected /\ slots'[i].pid = p)
  BY <1>2, <1>3 DEF Has
<1>5. \A q \in queues' : q.owner = p => p \in abandoned
  <2>1. ASSUME NEW q \in queues, q.owner = p, p \notin abandoned
        PROVE  \E i \in Departed : q.owner = slots[i].pid
    BY <1>1, <1>2, <2>1 DEF Sound, QueuesSound, Has
  <2> QED BY <1>1, <2>1
<1>6. ~ Pipe(p)'.made
  <2>1. Pipe(p).made => p \in Dropped(Departed)
    <3>1. Pipe(p).made => \E i \in Handles : Has(i, p)
      BY <1>1 DEF Sound, PipesSound
    <3> QED BY <1>2, <3>1 DEF Dropped, Has
  <2> QED BY <1>3, <2>1
<1> QED BY <1>4, <1>5, <1>6 DEF Pipe

\* As long as no command is orphaned, every client in session has a slot of the daemon and a
\* pipe that are its own and the queue it was given; no two slots are one client's and no slot
\* is that of a client that has left (lad.c, LAD_client.c).
THEOREM LadSessionsStaySound == LadSpec => []SessionsSound
<1>1. LadSafe => SessionsSound
  BY LadSessions
<1> QED BY <1>1, LadAlwaysSafe, PTL

\* As long as no command is orphaned, the answer that a client of the daemon reads is the one
\* to the command it sent, although the answers carry no number.
THEOREM LadAnswersStayOwn == LadSpec => []AnswersOwn
<1>1. LadSafe => AnswersOwn
  BY DEF LadSafe, Sound, ClientSound, AnswersOwn, Holds, Mode
<1> QED BY <1>1, LadAlwaysSafe, PTL

\* When the daemon reads a command while none is orphaned, cleanupDepartedClients leaves no
\* slot and no pipe of a client that has died, and no queue but one that the client had left
\* behind when it disconnected.
THEOREM LadDepartedAreCleanedUp == LadSpec => DepartedCleanedUp
<1>1. ASSUME LadSafe
      PROVE  [Read /\ ~ orphaned =>
                \A p \in Clients : Gone(p) =>
                    /\ \A q \in queues' : q.owner = p => p \in abandoned
                    /\ \A i \in Handles : ~ (slots'[i].connected /\ slots'[i].pid = p)
                    /\ ~ responseFIFO'[p].made]_allVars
  BY <1>1, LadDeparted
<1> QED BY <1>1, LadAlwaysSafe, PTL DEF DepartedCleanedUp
=============================================================================
