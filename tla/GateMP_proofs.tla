---------------------------- MODULE GateMP_proofs ----------------------------
(***************************************************************************)
(* Proofs about GateMP for any number of processors, threads, resources    *)
(* and addresses.                                                          *)
(*                                                                         *)
(* GateInv says how threads, objects, flags, attributes and tables agree:  *)
(* it always holds, and holds that a resource has one owner.  FlagsOwned   *)
(* holds until a search in vain leaves a copy of the flags in a cache,     *)
(* HandlesSound until a gate is opened while it is closed or deleted.      *)
(* Each step keeps GateInv, and the other two as far as the invariant      *)
(* held before: there is one lemma for each action.                        *)
(***************************************************************************)
EXTENDS GateMP, FiniteSetTheorems, WellFoundedInduction, TLAPS

USE GateMPAssumption

-----------------------------------------------------------------------------
(* The inductive invariant                                                  *)

ThreadLabels == {"idle", "proxy", "publish", "created", "checked",
                 "opened", "finalize", "unlist", "release", "free"}
ThreadRecords == [pc : ThreadLabels, obj : Objects \cup {Nothing}, addr : Blocks \cup {Nothing}]
ObjectRecords == [live : BOOLEAN, created : BOOLEAN, named : BOOLEAN, block : Blocks \cup {Nothing},
                  resourceId : Resources \cup {Nothing}, numOpens : Nat]

\* Who has the object in hand to make it or to end it, and who has it open.
MakerLabels == {"proxy", "publish", "created", "finalize", "unlist", "release"}
Makes(t, o) == thread[t].obj = o /\ thread[t].pc \in MakerLabels
Openers(o)  == {t \in Threads : At(t, "opened") /\ thread[t].obj = o}

\* What a thread knows where it is.
ThreadSound(t) ==
    /\ thread[t].obj = Nothing <=> thread[t].pc \in {"idle", "checked"}
    /\ thread[t].pc \in {"proxy", "publish", "created", "release"} =>
          Obj(t).created /\ Obj(t).resourceId \in Resources
    /\ thread[t].pc \in {"checked", "opened"} => thread[t].addr \in Blocks
    /\ At(t, "checked") => attrs[thread[t].addr].arg \in Resources

ThreadsSound == \A t \in Threads : ThreadSound(t)

\* A created object is in the hands of one thread; one that an open has made counts the
\* threads that have it open, and is in somebody's hands.
ObjectSound(o) ==
    /\ obj[o].live \/ obj[o] = NoObject
    /\ obj[o].live => obj[o].block \in Blocks /\ obj[o].numOpens = Cardinality(Openers(o))
    /\ obj[o].created => \E t \in Threads : Makes(t, o)
    /\ obj[o].created => \A t, u \in Threads : Makes(t, o) /\ Makes(u, o) => t = u
    /\ obj[o].live /\ ~ obj[o].created => obj[o].resourceId \in Resources
    /\ obj[o].live /\ ~ obj[o].created => Openers(o) # {} \/ \E t \in Threads : Makes(t, o)

ObjectsSound == \A o \in Objects : ObjectSound(o)

\* A copy of the flags in a cache has them all set, for only a search in vain leaves one.
FlagsSound ==
    /\ \A p \in Procs : inUse.cache[p] # Nothing => \A r \in Resources : inUse.cache[p][r]
    /\ \A o \in Objects : obj[o].created /\ obj[o].resourceId # Nothing =>
                              inUse.memory[obj[o].resourceId]
    /\ \A o, q \in Objects :
          obj[o].created /\ obj[q].created /\ obj[o].resourceId = obj[q].resourceId =>
              obj[o].resourceId = Nothing \/ o = q

Gate(t, b) == Obj(t).created /\ Obj(t).block = b

\* Attributes that say "created" are those of the one gate at the address.
AttrsSound ==
    /\ \A b \in Blocks : attrs[b].created =>
          /\ attrs[b].arg \in Resources
          /\ \E t \in Threads : /\ thread[t].pc \in {"created", "finalize"} /\ Gate(t, b)
                                /\ Obj(t).resourceId = attrs[b].arg
    /\ \A o, q \in Objects : obj[o].created /\ obj[q].created /\ obj[o].block = obj[q].block => o = q

\* A processor's table lists objects that are there, each under its resource.
TableSound ==
    /\ \A p \in Procs : \A r \in Resources :
          LET o == remoteSystemGates[p][r]
          IN  o # Nothing => /\ obj[o].live /\ obj[o].resourceId = r
                             /\ \A t \in Threads : thread[t].obj = o => On[t] = p
    /\ \A t \in Threads : At(t, "release") =>
          \A p \in Procs : \A r \in Resources : remoteSystemGates[p][r] # thread[t].obj
    /\ \A t, u \in Threads : thread[t].obj = thread[u].obj => thread[t].obj = Nothing \/ On[t] = On[u]

GateInv == TypeOK /\ ThreadsSound /\ ObjectsSound /\ FlagsSound /\ AttrsSound /\ TableSound

\* Until a search in vain leaves a copy of them in a cache, only owners' flags are set.
FlagsOwned ==
    ~ exhausted => /\ \A p \in Procs : inUse.cache[p] = Nothing
                   /\ \A r \in Resources : inUse.memory[r] => Owners(r) # {}

\* An object stands for a gate: one is at its address, under its resource, and its creator
\* has not begun to delete it.
Serves(o) ==
    /\ obj[o].live /\ obj[o].block \in Blocks
    /\ attrs[obj[o].block].created /\ attrs[obj[o].block].arg = obj[o].resourceId
    /\ \E t \in Threads : At(t, "created") /\ Obj(t).block = obj[o].block

\* The thread whose close was the last ends an object that an open has made.
Closing(t) == thread[t].pc \in {"finalize", "unlist"} /\ ~ Obj(t).created

HandleSound(t) ==
    /\ At(t, "opened") => Serves(thread[t].obj) /\ Obj(t).block = thread[t].addr
    /\ At(t, "checked") => attrs[thread[t].addr].created
    /\ Closing(t) => Obj(t).live /\ Obj(t).numOpens = 0
    /\ At(t, "opened") \/ Closing(t) => remoteSystemGates[On[t]][Obj(t).resourceId] = thread[t].obj

\* Until a gate is opened while it is closed or deleted, what has been opened is served.
HandlesSound ==
    ~ raced => /\ \A o \in Objects : obj[o].live /\ ~ obj[o].created => Serves(o)
               /\ \A t \in Threads : HandleSound(t)
               /\ \A t, u \in Threads : Closing(t) /\ Closing(u) /\ thread[t].obj = thread[u].obj => t = u

-----------------------------------------------------------------------------
(* Lemmas about objects and those who have them                             *)

LEMMA Types ==
    ASSUME TypeOK
    PROVE  /\ thread \in [Threads -> ThreadRecords] /\ obj \in [Objects -> ObjectRecords]
           /\ NoObject \in ObjectRecords /\ Idle \in ThreadRecords
           /\ Nothing \notin Objects /\ Nothing \notin Resources /\ Nothing \notin Blocks
BY DEF TypeOK, ThreadRecords, ObjectRecords, ThreadLabels, NoObject, Idle

\* A set of naturals that is not empty has a least element, and Min finds it.
LEMMA LeastExists == \A S \in SUBSET Nat : S # {} => \E i \in S : \A j \in S : i <= j
<1> SUFFICES ASSUME NEW S \in SUBSET Nat, S # {}
             PROVE \E i \in S : \A j \in S : i <= j
  OBVIOUS
<1> DEFINE T == {0 .. i : i \in S}
<1>1. T # {} /\ \A x \in T : x \in FiniteSubsetsOf(Nat)
  <2>1. ASSUME NEW i \in S PROVE 0 .. i \in FiniteSubsetsOf(Nat)
    BY FS_Interval DEF FiniteSubsetsOf
  <2>2. PICK i \in S : TRUE
    OBVIOUS
  <2>3. 0 .. i \in T
    OBVIOUS
  <2>4. \A x \in T : x \in FiniteSubsetsOf(Nat)
    BY <2>1, Zenon
  <2> QED BY <2>3, <2>4
<1>2. PICK x \in T : \A y \in T : ~ (<<y, x>> \in StrictSubsetOrdering(Nat))
  <2>1. T \subseteq FiniteSubsetsOf(Nat) /\ T # {}
    BY <1>1, Zenon
  <2> HIDE DEF T
  <2> QED BY <2>1, FS_StrictSubsetOrderingWellFounded, WFMin
<1>3. PICK i \in S : x = 0 .. i
  OBVIOUS
<1>4. ASSUME NEW j \in S PROVE i <= j
  <2> SUFFICES ASSUME j < i PROVE FALSE
    OBVIOUS
  <2>1. 0 .. j \in T /\ 0 .. j \subseteq 0 .. i /\ i \in 0 .. i /\ i \notin 0 .. j
    OBVIOUS
  <2>2. 0 .. j \in SUBSET Nat /\ 0 .. i \in SUBSET Nat /\ 0 .. j # 0 .. i
    BY <2>1
  <2> QED BY <1>2, <1>3, <2>1, <2>2 DEF StrictSubsetOrdering
<1> QED BY <1>4

LEMMA MinIsIn == ASSUME NEW S \in SUBSET Nat, S # {} PROVE Min(S) \in S
BY LeastExists DEF Min

\* An object in use is in the hands of a thread.
LEMMA LiveIsHeld ==
    ASSUME GateInv, NEW o \in Objects, obj[o].live
    PROVE  \E t \in Threads : thread[t].obj = o
<1>1. ObjectSound(o)
  BY DEF GateInv, ObjectsSound
<1> QED BY <1>1 DEF ObjectSound, Makes, Openers

\* There are as many objects as threads, so one that has none in hand finds one to use.
LEMMA NewObjectIsNew ==
    ASSUME GateInv, NEW t \in Threads, thread[t].obj = Nothing
    PROVE  /\ NewObject \in Objects /\ obj[NewObject] = NoObject
           /\ \A u \in Threads : thread[u].obj # NewObject
<1> DEFINE S == {o \in Objects : ~ obj[o].live /\ \A u \in Threads : thread[u].obj # o}
<1>1. S # {}
  <2> SUFFICES ASSUME S = {} PROVE FALSE
    OBVIOUS
  <2>1. \A o \in Objects : \E u \in Threads : thread[u].obj = o
    BY LiveIsHeld
  <2> DEFINE f == [o \in Objects |-> CHOOSE u \in Threads : thread[u].obj = o]
  <2>2. ASSUME NEW o \in Objects PROVE f[o] \in Threads \ {t} /\ thread[f[o]].obj = o
    <3>1. f[o] \in Threads /\ thread[f[o]].obj = o
      BY <2>1
    <3>2. o # Nothing
      BY Types DEF GateInv
    <3> QED BY <3>1, <3>2
  <2>3. f \in [Objects -> Threads \ {t}]
    <3>1. \A o \in Objects : (CHOOSE u \in Threads : thread[u].obj = o) \in Threads \ {t}
      BY <2>2
    <3> QED BY <3>1
  <2>4. Cardinality(Threads) \in Nat /\ IsFiniteSet(Threads \ {t})
        /\ Cardinality(Threads \ {t}) = Cardinality(Threads) - 1
    BY FS_CardinalityType, FS_RemoveElement
  <2>5. IsFiniteSet(Objects) /\ Cardinality(Objects) = Cardinality(Threads)
    <3>1. IsFiniteSet(1 .. Cardinality(Threads))
          /\ Cardinality(1 .. Cardinality(Threads)) =
                IF 1 > Cardinality(Threads) THEN 0 ELSE Cardinality(Threads) - 1 + 1
      BY <2>4, FS_Interval
    <3> QED BY <2>4, <3>1 DEF Objects
  <2> HIDE DEF f
  <2>6. PICK x, y \in Objects : x # y /\ f[x] = f[y]
    <3>1. Cardinality(Threads \ {t}) < Cardinality(Objects)
      BY <2>4, <2>5
    <3> QED BY <2>3, <2>4, <2>5, <3>1, FS_PigeonHole
  <2> QED BY <2>2, <2>6
<1>2. S \in SUBSET Nat
  BY DEF Objects
<1>3. NewObject = Min(S)
  BY DEF NewObject
<1>4. NewObject \in S
  <2> HIDE DEF S
  <2> QED BY <1>1, <1>2, <1>3, MinIsIn
<1>5. NewObject \in Objects /\ ~ obj[NewObject].live /\ \A u \in Threads : thread[u].obj # NewObject
  <2>1. \A n \in S : n \in Objects /\ ~ obj[n].live /\ \A u \in Threads : thread[u].obj # n
    OBVIOUS
  <2> HIDE DEF S
  <2> QED BY <1>4, <2>1
<1> HIDE DEF S
<1>6. ObjectSound(NewObject)
  BY <1>5 DEF GateInv, ObjectsSound
<1> QED BY <1>5, <1>6 DEF ObjectSound

\* The count of an object that is opened or closed.
LEMMA NumOpensSet ==
    ASSUME TypeOK, NEW o \in Objects, NEW k \in Nat, obj' = [obj EXCEPT ![o].numOpens = k]
    PROVE  \E n \in ObjectRecords :
              /\ obj' = [obj EXCEPT ![o] = n] /\ n.live = obj[o].live /\ n.created = obj[o].created
              /\ n.block = obj[o].block /\ n.resourceId = obj[o].resourceId /\ n.numOpens = k
<1>1. PICK r \in ObjectRecords : r = obj[o]
  BY Types
<1> DEFINE n == [r EXCEPT !.numOpens = k]
<1>2. /\ n \in ObjectRecords /\ n.live = r.live /\ n.created = r.created
      /\ n.block = r.block /\ n.resourceId = r.resourceId /\ n.numOpens = k
  BY DEF ObjectRecords
<1>3. obj' = [obj EXCEPT ![o] = n]
  BY <1>1
<1> HIDE DEF n
<1> QED BY <1>1, <1>2, <1>3

\* How the threads that have an object open change when one thread goes on.
LEMMA OpenersEffect ==
    ASSUME TypeOK, NEW t \in Threads, NEW h \in ThreadRecords, thread' = [thread EXCEPT ![t] = h],
           NEW x \in Objects
    PROVE  /\ Cardinality(Openers(x)) \in Nat
           /\ Openers(x) # {} <=> Cardinality(Openers(x)) > 0
           /\ (Openers(x) # {})' <=> (Cardinality(Openers(x)) > 0)'
           /\ t \in Openers(x) <=> At(t, "opened") /\ thread[t].obj = x
           /\ (t \in Openers(x) <=> h.pc = "opened" /\ h.obj = x) => Openers(x)' = Openers(x)
           /\ t \notin Openers(x) /\ h.pc = "opened" /\ h.obj = x =>
                 Cardinality(Openers(x))' = Cardinality(Openers(x)) + 1
           /\ t \in Openers(x) /\ ~ (h.pc = "opened" /\ h.obj = x) =>
                 Cardinality(Openers(x))' = Cardinality(Openers(x)) - 1
<1>1. \A u \in Threads : thread'[u] = IF u = t THEN h ELSE thread[u]
  BY Types
<1>2. Openers(x)' = (Openers(x) \ {t}) \cup (IF h.pc = "opened" /\ h.obj = x THEN {t} ELSE {})
  BY <1>1 DEF Openers, At
<1>3. IsFiniteSet(Openers(x)) /\ IsFiniteSet(Openers(x) \ {t})
  BY FS_Subset DEF Openers
<1>4. Cardinality(Openers(x)) \in Nat
  BY <1>3, FS_CardinalityType
<1>5. Openers(x) # {} <=> Cardinality(Openers(x)) > 0
  BY <1>3, <1>4, FS_EmptySet
<1>6. (Openers(x) # {})' <=> (Cardinality(Openers(x)) > 0)'
  <2>1. IsFiniteSet(Openers(x)') /\ Cardinality(Openers(x)') \in Nat
    <3>1. Openers(x)' \subseteq Threads
      BY DEF Openers
    <3> QED BY <3>1, FS_Subset, FS_CardinalityType
  <2> QED BY <2>1, FS_EmptySet
<1>7. t \in Openers(x) => Cardinality(Openers(x) \ {t}) = Cardinality(Openers(x)) - 1
  BY <1>3, FS_RemoveElement
<1>8. t \notin Openers(x) => Cardinality(Openers(x) \cup {t}) = Cardinality(Openers(x)) + 1
  BY <1>3, FS_AddElement
<1>9. CASE t \in Openers(x) <=> h.pc = "opened" /\ h.obj = x
  <2>1. Openers(x)' = Openers(x)
    BY <1>2, <1>9
  <2> QED BY <1>4, <1>5, <1>6, <1>9, <2>1 DEF Openers
<1>10. CASE t \notin Openers(x) /\ h.pc = "opened" /\ h.obj = x
  <2>1. Openers(x)' = Openers(x) \cup {t}
    BY <1>2, <1>10
  <2> QED BY <1>4, <1>5, <1>6, <1>8, <1>10, <2>1 DEF Openers
<1>11. CASE t \in Openers(x) /\ ~ (h.pc = "opened" /\ h.obj = x)
  <2>1. Openers(x)' = Openers(x) \ {t}
    BY <1>2, <1>11
  <2> QED BY <1>4, <1>5, <1>6, <1>7, <1>11, <2>1 DEF Openers
<1> QED BY <1>9, <1>10, <1>11

\* A thread and an object that a step leaves alone.
LEMMA ThreadKept ==
    ASSUME TypeOK, NEW u \in Threads, ThreadSound(u), thread'[u] = thread[u],
           thread[u].obj \in Objects =>
              /\ obj'[thread[u].obj].created = obj[thread[u].obj].created
              /\ obj'[thread[u].obj].resourceId = obj[thread[u].obj].resourceId,
           At(u, "checked") => attrs'[thread[u].addr].arg = attrs[thread[u].addr].arg
    PROVE  ThreadSound(u)'
<1>1. thread[u] \in ThreadRecords
  BY Types
<1>2. thread[u].obj \in Objects \cup {Nothing}
  BY <1>1 DEF ThreadRecords
<1> QED BY <1>2 DEF ThreadSound, Obj, At

LEMMA ObjectKept ==
    ASSUME TypeOK, NEW x \in Objects, ObjectSound(x),
           NEW t \in Threads, NEW h \in ThreadRecords, thread' = [thread EXCEPT ![t] = h],
           \/ obj'[x] = obj[x]
           \/ /\ obj'[x].live /\ obj[x].live /\ obj'[x].created = obj[x].created
              /\ obj'[x].block = obj[x].block /\ obj'[x].resourceId = obj[x].resourceId
              /\ obj'[x].numOpens = obj[x].numOpens,
           Makes(t, x) <=> h.obj = x /\ h.pc \in MakerLabels,
           At(t, "opened") /\ thread[t].obj = x <=> h.pc = "opened" /\ h.obj = x
    PROVE  ObjectSound(x)'
<1>1. Openers(x)' = Openers(x)
  BY OpenersEffect
<1>2. \A u \in Threads : Makes(u, x)' <=> Makes(u, x)
  <2>1. \A u \in Threads : thread'[u] = IF u = t THEN h ELSE thread[u]
    BY Types
  <2> QED BY <2>1 DEF Makes
<1>3. /\ obj'[x].live = obj[x].live /\ obj'[x].created = obj[x].created
      /\ obj'[x].block = obj[x].block /\ obj'[x].resourceId = obj[x].resourceId
      /\ obj'[x].numOpens = obj[x].numOpens /\ (obj'[x] = NoObject \/ obj'[x].live)
  BY DEF ObjectSound
<1> QED BY <1>1, <1>2, <1>3 DEF ObjectSound

\* A thread goes on, with the same object.
LEMMA GotoEffect ==
    ASSUME TypeOK, NEW t \in Threads, NEW label \in ThreadLabels, Goto(t, label)
    PROVE  \E h \in ThreadRecords :
              /\ thread' = [thread EXCEPT ![t] = h]
              /\ h.pc = label /\ h.obj = thread[t].obj /\ h.addr = thread[t].addr
<1>1. thread[t] \in ThreadRecords
  BY Types
<1> DEFINE h == [thread[t] EXCEPT !.pc = label]
<1>2. h \in ThreadRecords /\ h.pc = label /\ h.obj = thread[t].obj /\ h.addr = thread[t].addr
  BY <1>1 DEF ThreadRecords
<1>3. thread' = [thread EXCEPT ![t] = h]
  BY DEF Goto
<1> HIDE DEF h
<1> QED BY <1>2, <1>3

LEMMA GetFreeResourceEffect ==
    ASSUME TypeOK, NEW p \in Procs, NEW r \in Resources \cup {Nothing}, GetFreeResource(p, r)
    PROVE  /\ inUse' \in [memory : Flags, cache : [Procs -> Flags \cup {Nothing}]]
           /\ \/ /\ r \in Resources /\ ~ inUse.memory[r] /\ exhausted' = exhausted
                 /\ \A s \in Resources : inUse'.memory[s] = (s = r \/ inUse.memory[s])
                 /\ \A q \in Procs : inUse'.cache[q] = IF q = p THEN Nothing ELSE inUse.cache[q]
              \/ /\ r = Nothing /\ exhausted' = TRUE /\ inUse'.memory = inUse.memory
                 /\ \A s \in Resources : inUse.memory[s]
                 /\ \A q \in Procs : inUse'.cache[q] = IF q = p THEN inUse.memory ELSE inUse.cache[q]
<1>1. PICK m \in Flags, c \in [Procs -> Flags \cup {Nothing}] : inUse = [memory |-> m, cache |-> c]
  BY DEF TypeOK
<1>2. CASE r \in Unused /\ inUse' = [inUse EXCEPT !.memory[r] = TRUE, !.cache[p] = Nothing]
           /\ UNCHANGED exhausted
  <2>1. r \in Resources /\ ~ m[r]
    BY <1>1, <1>2 DEF Unused
  <2>2. inUse' = [memory |-> [m EXCEPT ![r] = TRUE], cache |-> [c EXCEPT ![p] = Nothing]]
    BY <1>1, <1>2
  <2>3. [m EXCEPT ![r] = TRUE] \in Flags /\ [c EXCEPT ![p] = Nothing] \in [Procs -> Flags \cup {Nothing}]
    BY <2>1 DEF Flags
  <2>4. \A s \in Resources : m[s] \in BOOLEAN /\ [m EXCEPT ![r] = TRUE][s] = (s = r \/ m[s])
    BY <2>1 DEF Flags
  <2>5. \A q \in Procs : [c EXCEPT ![p] = Nothing][q] = IF q = p THEN Nothing ELSE c[q]
    OBVIOUS
  <2> DEFINE m2 == [m EXCEPT ![r] = TRUE]
             c2 == [c EXCEPT ![p] = Nothing]
  <2>6. /\ m2 \in Flags /\ c2 \in [Procs -> Flags \cup {Nothing}]
        /\ \A s \in Resources : m2[s] = (s = r \/ m[s])
        /\ \A q \in Procs : c2[q] = IF q = p THEN Nothing ELSE c[q]
        /\ inUse' = [memory |-> m2, cache |-> c2]
    BY <2>2, <2>3, <2>4, <2>5
  <2> HIDE DEF m2, c2
  <2>7. inUse.memory = m /\ inUse.cache = c /\ inUse'.memory = m2 /\ inUse'.cache = c2
    BY <1>1, <2>6
  <2>8. inUse' \in [memory : Flags, cache : [Procs -> Flags \cup {Nothing}]]
    BY <2>6
  <2> QED BY <1>2, <2>1, <2>6, <2>7, <2>8
<1>3. CASE r = Nothing /\ Unused = {} /\ inUse' = [inUse EXCEPT !.cache[p] = inUse.memory]
           /\ exhausted' = TRUE
  <2>1. \A s \in Resources : m[s]
    BY <1>1, <1>3 DEF Unused
  <2>2. inUse' = [memory |-> m, cache |-> [c EXCEPT ![p] = m]]
    BY <1>1, <1>3
  <2> DEFINE c2 == [c EXCEPT ![p] = m]
  <2>3. /\ c2 \in [Procs -> Flags \cup {Nothing}] /\ inUse' = [memory |-> m, cache |-> c2]
        /\ \A q \in Procs : c2[q] = IF q = p THEN m ELSE c[q]
    BY <2>2
  <2> HIDE DEF c2
  <2>4. inUse.memory = m /\ inUse.cache = c /\ inUse'.memory = m /\ inUse'.cache = c2
    BY <1>1, <2>3
  <2>5. inUse' \in [memory : Flags, cache : [Procs -> Flags \cup {Nothing}]]
    BY <2>3
  <2> QED BY <1>3, <2>1, <2>3, <2>4, <2>5
<1> QED BY <1>2, <1>3 DEF GetFreeResource

-----------------------------------------------------------------------------
(* What steps have in common that neither make nor end a created object     *)

SameMakers(o) ==
    /\ obj'[o].created = obj[o].created
    /\ obj[o].created => obj'[o].block = obj[o].block /\ obj'[o].resourceId = obj[o].resourceId

LEMMA FlagsKept ==
    ASSUME FlagsSound, UNCHANGED inUse, \A x \in Objects : SameMakers(x)
    PROVE  FlagsSound'
BY DEF FlagsSound, SameMakers

LEMMA AttrsKept ==
    ASSUME GateInv, NEW t \in Threads, NEW h \in ThreadRecords, thread' = [thread EXCEPT ![t] = h],
           UNCHANGED attrs, \A x \in Objects : SameMakers(x),
           thread[t].pc \in {"created", "finalize"} /\ Obj(t).created =>
               h.obj = thread[t].obj /\ h.pc \in {"created", "finalize"}
    PROVE  AttrsSound'
<1>t. thread \in [Threads -> ThreadRecords] /\ Nothing \notin Objects
  BY Types DEF GateInv
<1>1. ASSUME NEW c \in Blocks, attrs'[c].created
      PROVE  /\ attrs'[c].arg \in Resources
             /\ \E u \in Threads : /\ thread'[u].pc \in {"created", "finalize"} /\ Gate(u, c)'
                                   /\ Obj(u)'.resourceId = attrs'[c].arg
  <2>1. PICK u \in Threads : /\ thread[u].pc \in {"created", "finalize"} /\ Gate(u, c)
                             /\ Obj(u).resourceId = attrs[c].arg
    BY <1>1 DEF GateInv, AttrsSound
  <2>2. PICK x \in Objects : x = thread[u].obj
    <3>1. thread[u] \in ThreadRecords /\ thread[u].obj # Nothing
      BY <1>t, <2>1 DEF GateInv, ThreadsSound, ThreadSound
    <3> QED BY <3>1 DEF ThreadRecords
  <2>3. thread'[u].obj = x /\ thread'[u].pc \in {"created", "finalize"}
    BY <1>t, <2>1, <2>2 DEF Gate
  <2>4. obj[x].created /\ obj[x].block = c /\ obj[x].resourceId = attrs[c].arg
    BY <2>1, <2>2 DEF Gate, Obj
  <2>5. obj'[x].created /\ obj'[x].block = c /\ obj'[x].resourceId = attrs'[c].arg
    BY <2>4 DEF SameMakers
  <2>6. attrs[c].arg \in Resources
    BY <1>1 DEF GateInv, AttrsSound
  <2> QED BY <2>3, <2>5, <2>6 DEF Gate, Obj
<1>2. \A x, y \in Objects : obj'[x].created /\ obj'[y].created /\ obj'[x].block = obj'[y].block => x = y
  BY DEF SameMakers, GateInv, AttrsSound
<1> QED BY <1>1, <1>2 DEF AttrsSound

LEMMA TableKept ==
    ASSUME GateInv, NEW t \in Threads, NEW h \in ThreadRecords, thread' = [thread EXCEPT ![t] = h],
           UNCHANGED remoteSystemGates,
           \A x \in Objects : obj[x].live => obj'[x].live /\ obj'[x].resourceId = obj[x].resourceId,
           \/ h.obj = thread[t].obj
           \/ h.obj = Nothing
           \/ /\ \A p \in Procs : \A r \in Resources :
                    remoteSystemGates[p][r] = h.obj => On[t] = p
              /\ \A u \in Threads : thread[u].obj = h.obj => On[u] = On[t],
           h.pc = "release" => At(t, "release") /\ h.obj = thread[t].obj
    PROVE  TableSound'
<1>t. TypeOK /\ thread \in [Threads -> ThreadRecords]
  BY Types DEF GateInv
<1>h. \A u \in Threads : thread'[u] = IF u = t THEN h ELSE thread[u]
  BY <1>t
<1>1. ASSUME NEW p \in Procs, NEW s \in Resources, remoteSystemGates'[p][s] # Nothing
      PROVE  LET x == remoteSystemGates'[p][s]
             IN  /\ obj'[x].live /\ obj'[x].resourceId = s
                 /\ \A u \in Threads : thread'[u].obj = x => On[u] = p
  <2>1. PICK x \in Objects : x = remoteSystemGates[p][s] /\ x # Nothing
    BY <1>t, <1>1 DEF TypeOK
  <2>2. /\ obj[x].live /\ obj[x].resourceId = s
        /\ \A u \in Threads : thread[u].obj = x => On[u] = p
    BY <2>1 DEF GateInv, TableSound
  <2> QED BY <1>h, <2>1, <2>2
<1>2. \A u \in Threads : At(u, "release")' =>
         \A p \in Procs : \A s \in Resources : remoteSystemGates'[p][s] # thread'[u].obj
  <2>1. \A u \in Threads : At(u, "release")' => At(u, "release") /\ thread'[u].obj = thread[u].obj
    BY <1>h DEF At
  <2> QED BY <2>1 DEF GateInv, TableSound
<1>3. \A u, v \in Threads : thread'[u].obj = thread'[v].obj =>
                             thread'[u].obj = Nothing \/ On[u] = On[v]
  BY <1>h DEF GateInv, TableSound
<1> QED BY <1>1, <1>2, <1>3 DEF TableSound

\* The other threads, when no object is made or ended.
LEMMA OthersKept ==
    ASSUME GateInv, NEW t \in Threads, NEW h \in ThreadRecords, thread' = [thread EXCEPT ![t] = h],
           \A x \in Objects : (\E u \in Threads \ {t} : thread[u].obj = x) =>
               obj'[x].created = obj[x].created /\ obj'[x].resourceId = obj[x].resourceId,
           \A b \in Blocks : attrs'[b].arg = attrs[b].arg \/ attrs'[b].arg \in Resources,
           ThreadSound(t)'
    PROVE  ThreadsSound'
<1>t. TypeOK /\ thread \in [Threads -> ThreadRecords]
  BY Types DEF GateInv
<1>1. ASSUME NEW u \in Threads \ {t} PROVE ThreadSound(u)'
  <2>1. thread'[u] = thread[u] /\ ThreadSound(u) /\ thread[u] \in ThreadRecords
    BY <1>t DEF GateInv, ThreadsSound
  <2>2. thread[u].obj \in Objects \cup {Nothing} /\ Nothing \notin Objects
    BY <1>t, <2>1, Types DEF ThreadRecords
  <2> QED BY <2>1, <2>2 DEF ThreadSound, Obj, At
<1> QED BY <1>1 DEF ThreadsSound

LEMMA OwnedKept ==
    ASSUME FlagsOwned, UNCHANGED <<inUse, exhausted>>, \A x \in Objects : SameMakers(x)
    PROVE  FlagsOwned'
<1>1. \A r \in Resources : Owners(r) \subseteq Owners(r)'
  BY DEF Owners, SameMakers
<1> QED BY <1>1 DEF FlagsOwned

LEMMA Held ==
    ASSUME GateInv, NEW t \in Threads, thread[t].pc \notin {"idle", "checked"}
    PROVE  \E o \in Objects : o = thread[t].obj
<1>1. thread[t] \in ThreadRecords /\ thread[t].obj # Nothing
  BY Types DEF GateInv, ThreadsSound, ThreadSound
<1> QED BY <1>1 DEF ThreadRecords

\* The gate that an object stands for is the only one with its address or its resource, and
\* is in the hands of a thread that has created it.
LEMMA Server ==
    ASSUME GateInv, NEW x \in Objects, Serves(x),
           NEW t \in Threads, NEW o \in Objects, Makes(t, o), obj[o].created,
           obj[o].block = obj[x].block \/ obj[o].resourceId = obj[x].resourceId
    PROVE  At(t, "created") /\ obj[o].block = obj[x].block /\ obj[o].resourceId = obj[x].resourceId
<1>1. PICK v \in Threads : At(v, "created") /\ Obj(v).block = obj[x].block
  BY DEF Serves
<1>2. PICK y \in Objects : y = thread[v].obj
  BY <1>1, Held DEF At
<1>3. obj[y].created /\ Makes(v, y) /\ obj[y].block = obj[x].block
  BY <1>1, <1>2 DEF GateInv, ThreadsSound, ThreadSound, Obj, At, Makes, MakerLabels
<1>4. obj[y].resourceId = obj[x].resourceId /\ obj[y].resourceId \in Resources
  <2>1. PICK b \in Blocks : b = obj[x].block /\ attrs[b].created /\ attrs[b].arg = obj[x].resourceId
    BY DEF Serves
  <2>2. PICK u \in Threads : /\ thread[u].pc \in {"created", "finalize"} /\ Gate(u, b)
                             /\ Obj(u).resourceId = attrs[b].arg
    BY <2>1 DEF GateInv, AttrsSound
  <2>3. PICK z \in Objects : z = thread[u].obj
    BY <2>2, Held
  <2>4. z = y
    BY <1>3, <2>1, <2>2, <2>3 DEF GateInv, AttrsSound, Gate, Obj
  <2>5. attrs[b].arg \in Resources
    BY <2>1 DEF GateInv, AttrsSound
  <2> QED BY <2>1, <2>2, <2>3, <2>4, <2>5 DEF Obj
<1>5. o = y
  <2>1. CASE obj[o].block = obj[x].block
    BY <1>3, <2>1 DEF GateInv, AttrsSound
  <2>2. CASE obj[o].resourceId = obj[x].resourceId
    BY <1>3, <1>4, <2>2, Types DEF GateInv, FlagsSound
  <2> QED BY <2>1, <2>2
<1>6. t = v
  BY <1>3, <1>5 DEF GateInv, ObjectsSound, ObjectSound
<1> QED BY <1>1, <1>3, <1>4, <1>5, <1>6

LEMMA HandleServes ==
    ASSUME GateInv, HandlesSound, ~ raced, NEW u \in Threads, At(u, "opened") \/ Closing(u)
    PROVE  \E x \in Objects : /\ x = thread[u].obj /\ Serves(x)
                              /\ remoteSystemGates[On[u]][obj[x].resourceId] = x
<1>1. PICK x \in Objects : x = thread[u].obj
  BY Held DEF At, Closing
<1>2. HandleSound(u)
  BY DEF HandlesSound
<1>3. Serves(x)
  BY <1>1, <1>2 DEF HandlesSound, HandleSound, Closing, Obj
<1> QED BY <1>1, <1>2, <1>3 DEF HandleSound, Obj

LEMMA ServesKept ==
    ASSUME NEW x \in Objects, Serves(x),
           obj'[x].live, obj'[x].block = obj[x].block, obj'[x].resourceId = obj[x].resourceId,
           attrs'[obj[x].block].created, attrs'[obj[x].block].arg = attrs[obj[x].block].arg,
           \A v \in Threads : At(v, "created") /\ Obj(v).block = obj[x].block =>
              At(v, "created")' /\ Obj(v)'.block = Obj(v).block
    PROVE  Serves(x)'
BY DEF Serves

LEMMA HandleKept ==
    ASSUME NEW u \in Threads, HandleSound(u), thread'[u] = thread[u],
           At(u, "checked") => attrs'[thread[u].addr].created,
           At(u, "opened") => /\ Serves(thread[u].obj)' /\ obj'[thread[u].obj].block = Obj(u).block
                              /\ obj'[thread[u].obj].resourceId = Obj(u).resourceId,
           thread[u].pc \in {"finalize", "unlist"} => obj'[thread[u].obj].created = Obj(u).created,
           Closing(u) => /\ obj'[thread[u].obj].live
                         /\ obj'[thread[u].obj].numOpens = Obj(u).numOpens
                         /\ obj'[thread[u].obj].resourceId = Obj(u).resourceId,
           At(u, "opened") \/ Closing(u) =>
              remoteSystemGates'[On[u]][Obj(u).resourceId] = remoteSystemGates[On[u]][Obj(u).resourceId]
    PROVE  HandleSound(u)' /\ (Closing(u)' <=> Closing(u))
<1>1. At(u, "opened")' <=> At(u, "opened")
  BY DEF At
<1>2. At(u, "checked")' <=> At(u, "checked")
  BY DEF At
<1>3. Closing(u)' <=> Closing(u)
  BY DEF Closing, Obj
<1>4. At(u, "opened") => Serves(thread[u].obj)' /\ Obj(u)'.block = thread'[u].addr
  BY DEF HandleSound, Obj
<1>5. Closing(u) => Obj(u)'.live /\ Obj(u)'.numOpens = 0
  BY DEF HandleSound, Obj
<1>6. At(u, "opened") \/ Closing(u) =>
         remoteSystemGates'[On[u]][Obj(u)'.resourceId] = thread'[u].obj
  BY DEF HandleSound, Obj
<1>7. At(u, "opened") => Serves(thread[u].obj)'
  OBVIOUS
<1> QED BY <1>1, <1>2, <1>3, <1>4, <1>5, <1>6, <1>7 DEF HandleSound

\* What a step of one thread has to do for the handles of the others.
LEMMA HandlesKept ==
    ASSUME GateInv, HandlesSound, ~ raced,
           NEW t \in Threads, NEW h \in ThreadRecords, thread' = [thread EXCEPT ![t] = h],
           \A u \in Threads \ {t} : At(u, "checked") => attrs'[thread[u].addr].created,
           \A u \in Threads \ {t} : \A x \in Objects :
              x = thread[u].obj /\ (At(u, "opened") \/ Closing(u)) =>
                 /\ Serves(x)' /\ obj'[x].block = obj[x].block /\ obj'[x].resourceId = obj[x].resourceId
                 /\ remoteSystemGates'[On[u]][obj[x].resourceId] = remoteSystemGates[On[u]][obj[x].resourceId],
           \A u \in Threads \ {t} : \A x \in Objects :
              x = thread[u].obj /\ thread[u].pc \in {"finalize", "unlist"} =>
                 /\ obj'[x].created = obj[x].created
                 /\ Closing(u) => obj'[x].numOpens = obj[x].numOpens,
           \A x \in Objects : obj'[x].live /\ ~ obj'[x].created => Serves(x)',
           HandleSound(t)',
           \A u \in Threads \ {t} : Closing(u) /\ thread[u].obj = h.obj => ~ Closing(t)'
    PROVE  HandlesSound'
<1>h. \A u \in Threads : thread'[u] = IF u = t THEN h ELSE thread[u]
  BY Types DEF GateInv
<1>1. ASSUME NEW u \in Threads \ {t} PROVE HandleSound(u)' /\ (Closing(u)' <=> Closing(u))
  <2>1. HandleSound(u) /\ thread'[u] = thread[u]
    BY <1>h DEF HandlesSound
  <2>2. CASE thread[u].pc \notin {"opened", "finalize", "unlist"}
    <3>1. ~ At(u, "opened") /\ ~ Closing(u)
      BY <2>2 DEF At, Closing
    <3>2. At(u, "checked") => attrs'[thread[u].addr].created
      OBVIOUS
    <3>3. thread[u].pc \notin {"finalize", "unlist"}
      BY <2>2
    <3> QED BY <2>1, <3>1, <3>2, <3>3, HandleKept
  <2>3. CASE thread[u].pc \in {"opened", "finalize", "unlist"}
    <3>1. PICK x \in Objects : x = thread[u].obj
      BY <2>3, Held
    <3>2. ~ At(u, "checked") /\ (At(u, "opened") => thread[u].pc \notin {"finalize", "unlist"})
      BY <2>3 DEF At
    <3>3. /\ At(u, "opened") \/ Closing(u) =>
                /\ Serves(x)' /\ obj'[x].block = obj[x].block /\ obj'[x].resourceId = obj[x].resourceId
                /\ remoteSystemGates'[On[u]][obj[x].resourceId] =
                       remoteSystemGates[On[u]][obj[x].resourceId]
          /\ thread[u].pc \in {"finalize", "unlist"} => obj'[x].created = obj[x].created
          /\ Closing(u) => obj'[x].numOpens = obj[x].numOpens
      BY <3>1 DEF Closing
    <3>4. Obj(u) = obj[x] /\ obj'[thread[u].obj] = obj'[x] /\ (Serves(x)' <=> Serves(thread[u].obj)')
      BY <2>1, <3>1 DEF Obj, Serves
    <3>5. Serves(x)' => obj'[x].live
      BY DEF Serves
    <3> QED BY <2>1, <3>2, <3>3, <3>4, <3>5, HandleKept
  <2> QED BY <2>2, <2>3
<1>2. ASSUME NEW u \in Threads, NEW v \in Threads, Closing(u)', Closing(v)', thread'[u].obj = thread'[v].obj
      PROVE  u = v
  <2>1. CASE u # t /\ v # t
    BY <1>1, <1>2, <1>h, <2>1 DEF HandlesSound
  <2>2. CASE u = t /\ v # t
    BY <1>1, <1>2, <1>h, <2>2
  <2>3. CASE v = t /\ u # t
    BY <1>1, <1>2, <1>h, <2>3
  <2> QED BY <2>1, <2>2, <2>3
<1> QED BY <1>1, <1>2 DEF HandlesSound

LEMMA HandlesUntouched ==
    ASSUME GateInv, HandlesSound, ~ raced,
           NEW t \in Threads, NEW h \in ThreadRecords, thread' = [thread EXCEPT ![t] = h],
           UNCHANGED <<attrs, obj, remoteSystemGates>>, HandleSound(t)', ~ Closing(t)', ~ At(t, "created")
    PROVE  HandlesSound'
<1>h. \A u \in Threads : thread'[u] = IF u = t THEN h ELSE thread[u]
  BY Types DEF GateInv
<1>1. ASSUME NEW x \in Objects, Serves(x) PROVE Serves(x)'
  <2>1. \A v \in Threads : At(v, "created") /\ Obj(v).block = obj[x].block =>
           At(v, "created")' /\ Obj(v)'.block = Obj(v).block
    BY <1>h DEF At, Obj
  <2>2. obj'[x].live /\ attrs'[obj[x].block].created
    BY <1>1 DEF Serves
  <2> QED BY <1>1, <2>1, <2>2, ServesKept
<1>2. \A u \in Threads \ {t} : At(u, "checked") => attrs'[thread[u].addr].created
  BY DEF HandlesSound, HandleSound
<1>3. ASSUME NEW u \in Threads \ {t}, NEW x \in Objects, x = thread[u].obj, At(u, "opened") \/ Closing(u)
      PROVE  Serves(x)'
  BY <1>1, <1>3, HandleServes
<1>4. \A x \in Objects : obj'[x].live /\ ~ obj'[x].created => Serves(x)'
  BY <1>1 DEF HandlesSound
<1> QED BY <1>2, <1>3, <1>4, HandlesKept

-----------------------------------------------------------------------------
(* The steps, one by one                                                    *)

LEMMA CreateKeeps ==
    ASSUME GateInv, NEW t \in Threads, NEW b \in Blocks, Create(t, b)
    PROVE  GateInv' /\ (FlagsOwned => FlagsOwned') /\ (HandlesSound => HandlesSound')
<1>t. /\ TypeOK /\ thread \in [Threads -> ThreadRecords] /\ obj \in [Objects -> ObjectRecords]
      /\ Nothing \notin Objects /\ Nothing \notin Resources
  BY Types DEF GateInv
<1>1. /\ thread[t].pc = "idle" /\ thread[t].obj = Nothing /\ BlockIsFree(b)
      /\ UNCHANGED <<attrs, nameServer, remoteSystemGates, raced>>
  BY DEF Create, At, GateInv, ThreadsSound, ThreadSound
<1>2. PICK o \in Objects : o = NewObject /\ obj[o] = NoObject /\ \A u \in Threads : thread[u].obj # o
  BY <1>1, NewObjectIsNew
<1>3. PICK r \in Resources \cup {Nothing} :
         /\ GetFreeResource(On[t], r)
         /\ obj' = [obj EXCEPT ![o] = [NoObject EXCEPT !.live = TRUE,
                        !.created = TRUE, !.block = b, !.resourceId = r]]
         /\ thread' = [thread EXCEPT ![t] = [Idle EXCEPT !.obj = o,
                        !.pc = IF r = Nothing THEN "finalize" ELSE "proxy"]]
  BY <1>2 DEF Create
<1>4. PICK n \in ObjectRecords : /\ obj' = [obj EXCEPT ![o] = n] /\ n.live /\ n.created
                                 /\ n.block = b /\ n.resourceId = r /\ n.numOpens = 0
  <2> DEFINE n == [NoObject EXCEPT !.live = TRUE, !.created = TRUE, !.block = b, !.resourceId = r]
  <2>1. NoObject \in ObjectRecords /\ NoObject.numOpens = 0
    BY <1>t, Types DEF NoObject
  <2>2. n \in ObjectRecords /\ n.live /\ n.created /\ n.block = b /\ n.resourceId = r /\ n.numOpens = 0
    BY <2>1 DEF ObjectRecords
  <2>3. obj' = [obj EXCEPT ![o] = n]
    BY <1>3
  <2> HIDE DEF n
  <2> QED BY <2>2, <2>3
<1>5. PICK h \in ThreadRecords : /\ thread' = [thread EXCEPT ![t] = h] /\ h.obj = o
                                 /\ h.pc = IF r = Nothing THEN "finalize" ELSE "proxy"
  <2> DEFINE h == [Idle EXCEPT !.obj = o, !.pc = IF r = Nothing THEN "finalize" ELSE "proxy"]
  <2>1. Idle \in ThreadRecords
    BY <1>t, Types
  <2>2. h \in ThreadRecords /\ h.obj = o /\ h.pc = IF r = Nothing THEN "finalize" ELSE "proxy"
    BY <2>1 DEF ThreadRecords, ThreadLabels
  <2>3. thread' = [thread EXCEPT ![t] = h]
    BY <1>3
  <2> HIDE DEF h
  <2> QED BY <2>2, <2>3
<1>f. /\ inUse' \in [memory : Flags, cache : [Procs -> Flags \cup {Nothing}]]
      /\ \/ /\ r \in Resources /\ ~ inUse.memory[r] /\ exhausted' = exhausted
            /\ \A s \in Resources : inUse'.memory[s] = (s = r \/ inUse.memory[s])
            /\ \A q \in Procs : inUse'.cache[q] = IF q = On[t] THEN Nothing ELSE inUse.cache[q]
         \/ /\ r = Nothing /\ exhausted' = TRUE /\ inUse'.memory = inUse.memory
            /\ \A s \in Resources : inUse.memory[s]
            /\ \A q \in Procs : inUse'.cache[q] = IF q = On[t] THEN inUse.memory
                                                  ELSE inUse.cache[q]
  <2>1. On[t] \in Procs
    OBVIOUS
  <2> QED BY <1>3, <1>t, <2>1, GetFreeResourceEffect
<1>h. \A u \in Threads : thread'[u] = IF u = t THEN h ELSE thread[u]
  BY <1>5, <1>t
<1>o. \A x \in Objects : obj'[x] = IF x = o THEN n ELSE obj[x]
  BY <1>4, <1>t
<1>6. TypeOK'
  <2>1. thread' \in [Threads -> ThreadRecords] /\ obj' \in [Objects -> ObjectRecords]
    BY <1>4, <1>5, <1>t
  <2> QED BY <1>1, <1>f, <1>t, <2>1 DEF TypeOK, ThreadRecords, ObjectRecords, ThreadLabels
<1>7. ThreadsSound'
  <2>1. ASSUME NEW u \in Threads \ {t} PROVE ThreadSound(u)'
    BY <1>1, <1>2, <1>h, <1>o, <1>t, ThreadKept DEF GateInv, ThreadsSound
  <2>2. ThreadSound(t)'
    BY <1>4, <1>5, <1>h, <1>o, <1>t DEF ThreadSound, Obj, At
  <2> QED BY <2>1, <2>2 DEF ThreadsSound
<1>8. ObjectsSound'
  <2>1. ASSUME NEW x \in Objects \ {o} PROVE ObjectSound(x)'
    <3>1. Makes(t, x) <=> h.obj = x /\ h.pc \in MakerLabels
      BY <1>1, <1>5, <1>t DEF Makes, MakerLabels
    <3>2. At(t, "opened") /\ thread[t].obj = x <=> h.pc = "opened" /\ h.obj = x
      BY <1>1, <1>5 DEF At
    <3> QED BY <1>5, <1>o, <1>t, <3>1, <3>2, ObjectKept DEF GateInv, ObjectsSound
  <2>2. ObjectSound(o)'
    <3>1. Openers(o)' = {}
      BY <1>2, <1>5, <1>h DEF Openers, At
    <3>2. Cardinality(Openers(o))' = 0
      BY <3>1, FS_EmptySet
    <3>3. \A u \in Threads : Makes(u, o)' <=> u = t
      BY <1>2, <1>5, <1>h DEF Makes, MakerLabels
    <3>4. obj'[o] = n
      BY <1>o
    <3> QED BY <1>4, <3>1, <3>2, <3>3, <3>4 DEF ObjectSound
  <2> QED BY <2>1, <2>2 DEF ObjectsSound
<1>9. FlagsSound'
  <2>1. \A p \in Procs : inUse'.cache[p] # Nothing => \A s \in Resources : inUse'.cache[p][s]
    BY <1>f DEF GateInv, FlagsSound
  <2>2. ASSUME NEW x \in Objects, obj'[x].created, obj'[x].resourceId # Nothing
        PROVE  inUse'.memory[obj'[x].resourceId]
    <3>1. CASE x = o
      BY <1>4, <1>f, <1>o, <2>2, <3>1
    <3>2. CASE x # o
      <4>1. /\ obj[x].created /\ obj[x].resourceId # Nothing /\ obj'[x] = obj[x]
            /\ obj[x].resourceId \in Resources
        BY <1>o, <1>t, <2>2, <3>2 DEF ObjectRecords
      <4> QED BY <1>f, <4>1 DEF GateInv, FlagsSound
    <3> QED BY <3>1, <3>2
  <2>3. \A x \in Objects : x # o /\ obj[x].created /\ obj[x].resourceId # Nothing =>
                              obj[x].resourceId # r
    BY <1>f DEF GateInv, FlagsSound
  <2>4. ASSUME NEW x \in Objects, NEW y \in Objects, obj'[x].created, obj'[y].created,
               obj'[x].resourceId = obj'[y].resourceId, obj'[x].resourceId # Nothing
        PROVE  x = y
    BY <1>4, <1>o, <2>3, <2>4 DEF GateInv, FlagsSound
  <2>5. \A x \in Objects : obj'[x].created /\ obj'[x].resourceId # Nothing =>
                               inUse'.memory[obj'[x].resourceId]
    BY <2>2
  <2>6. \A x, y \in Objects :
          obj'[x].created /\ obj'[y].created /\ obj'[x].resourceId = obj'[y].resourceId =>
              obj'[x].resourceId = Nothing \/ x = y
    BY <2>4
  <2> QED BY <2>1, <2>5, <2>6 DEF FlagsSound
<1>10. AttrsSound'
  <2>1. ASSUME NEW c \in Blocks, attrs'[c].created
        PROVE  /\ attrs'[c].arg \in Resources
               /\ \E u \in Threads : /\ thread'[u].pc \in {"created", "finalize"} /\ Gate(u, c)'
                                     /\ Obj(u)'.resourceId = attrs'[c].arg
    <3>1. /\ attrs[c].arg \in Resources /\ attrs' = attrs
          /\ \E u \in Threads : /\ thread[u].pc \in {"created", "finalize"} /\ Gate(u, c)
                                /\ Obj(u).resourceId = attrs[c].arg
      BY <1>1, <2>1 DEF GateInv, AttrsSound
    <3>2. PICK u \in Threads : /\ thread[u].pc \in {"created", "finalize"} /\ Gate(u, c)
                               /\ Obj(u).resourceId = attrs[c].arg
      BY <3>1
    <3>3. u # t /\ thread[u].obj \in Objects /\ thread[u].obj # o
      <4>1. thread[u] \in ThreadRecords /\ thread[u].obj # Nothing
        BY <1>t, <3>2 DEF GateInv, ThreadsSound, ThreadSound
      <4> QED BY <1>1, <1>2, <3>2, <4>1 DEF ThreadRecords
    <3> QED BY <1>h, <1>o, <3>1, <3>2, <3>3 DEF Gate, Obj
  <2>2. ASSUME NEW x \in Objects, NEW y \in Objects, obj'[x].created, obj'[y].created,
               obj'[x].block = obj'[y].block
        PROVE  x = y
    BY <1>1, <1>4, <1>o, <2>2 DEF GateInv, AttrsSound, BlockIsFree
  <2> QED BY <2>1, <2>2 DEF AttrsSound
<1>11. TableSound'
  <2>1. ASSUME NEW p \in Procs, NEW s \in Resources, remoteSystemGates'[p][s] # Nothing
        PROVE  LET x == remoteSystemGates'[p][s]
               IN  /\ obj'[x].live /\ obj'[x].resourceId = s
                   /\ \A u \in Threads : thread'[u].obj = x => On[u] = p
    <3>1. PICK x \in Objects : x = remoteSystemGates[p][s]
      BY <1>1, <1>t, <2>1 DEF TypeOK
    <3>2. /\ obj[x].live /\ obj[x].resourceId = s /\ x # Nothing
          /\ \A u \in Threads : thread[u].obj = x => On[u] = p
      BY <1>1, <2>1, <3>1 DEF GateInv, TableSound
    <3>3. x # o
      BY <1>2, <3>2 DEF NoObject
    <3> QED BY <1>1, <1>5, <1>h, <1>o, <3>1, <3>2, <3>3
  <2>2. ASSUME NEW u \in Threads, At(u, "release")'
        PROVE  \A p \in Procs : \A s \in Resources : remoteSystemGates'[p][s] # thread'[u].obj
    <3>1. u # t /\ thread'[u] = thread[u]
      BY <1>5, <1>h, <2>2 DEF At
    <3> QED BY <1>1, <2>2, <3>1 DEF GateInv, TableSound, At
  <2>3. \A u, v \in Threads : thread'[u].obj = thread'[v].obj =>
                               thread'[u].obj = Nothing \/ On[u] = On[v]
    BY <1>2, <1>5, <1>h DEF GateInv, TableSound
  <2> QED BY <2>1, <2>2, <2>3 DEF TableSound
<1>12. ASSUME FlagsOwned PROVE FlagsOwned'
  <2>1. ASSUME ~ exhausted'
        PROVE  /\ \A p \in Procs : inUse'.cache[p] = Nothing
               /\ \A s \in Resources : inUse'.memory[s] => Owners(s)' # {}
    <3>1. r \in Resources /\ ~ exhausted
      BY <1>f, <2>1
    <3>2. \A p \in Procs : inUse'.cache[p] = Nothing
      BY <1>12, <1>f, <1>t, <3>1 DEF FlagsOwned
    <3>3. ASSUME NEW s \in Resources, inUse'.memory[s] PROVE Owners(s)' # {}
      <4>1. CASE s = r
        <5>1. o \in Owners(s)'
          BY <1>4, <1>o, <4>1 DEF Owners
        <5> QED BY <5>1
      <4>2. CASE s # r
        <5>1. Owners(s) # {}
          BY <1>12, <1>f, <1>t, <3>1, <3>3, <4>2 DEF FlagsOwned
        <5>2. PICK x \in Objects : obj[x].created /\ obj[x].resourceId = s
          BY <5>1 DEF Owners
        <5>3. x \in Owners(s)'
          BY <1>2, <1>o, <5>2 DEF Owners, NoObject
        <5> QED BY <5>3
      <4> QED BY <4>1, <4>2
    <3> QED BY <3>2, <3>3
  <2> QED BY <2>1 DEF FlagsOwned
<1>13. ASSUME HandlesSound PROVE HandlesSound'
  <2> SUFFICES ASSUME ~ raced' PROVE HandlesSound'
    BY DEF HandlesSound
  <2>1. ~ raced
    BY <1>1
  <2>2. ASSUME NEW x \in Objects, Serves(x) PROVE x # o /\ Serves(x)'
    <3>1. x # o
      BY <1>2, <2>2 DEF Serves, NoObject
    <3>2. ASSUME NEW v \in Threads, At(v, "created"), Obj(v).block = obj[x].block
          PROVE  At(v, "created")' /\ Obj(v)'.block = Obj(v).block
      <4>1. PICK y \in Objects : y = thread[v].obj
        BY <3>2, Held DEF At
      <4> QED BY <1>1, <1>2, <1>h, <1>o, <3>2, <4>1 DEF At, Obj
    <3>3. obj'[x] = obj[x] /\ attrs' = attrs
      BY <1>1, <1>o, <3>1
    <3>4. obj'[x].live /\ attrs'[obj[x].block].created
      BY <2>2, <3>3 DEF Serves
    <3> QED BY <2>2, <3>1, <3>2, <3>3, <3>4, ServesKept
  <2>3. \A u \in Threads \ {t} : At(u, "checked") => attrs'[thread[u].addr].created
    BY <1>1, <2>1, <1>13 DEF HandlesSound, HandleSound
  <2>4. ASSUME NEW u \in Threads \ {t}, NEW x \in Objects, x = thread[u].obj, At(u, "opened") \/ Closing(u)
        PROVE  /\ Serves(x)' /\ obj'[x].block = obj[x].block /\ obj'[x].resourceId = obj[x].resourceId
               /\ remoteSystemGates'[On[u]][obj[x].resourceId] = remoteSystemGates[On[u]][obj[x].resourceId]
    BY <1>1, <1>13, <1>o, <2>1, <2>2, <2>4, HandleServes
  <2>5. \A u \in Threads \ {t} : \A x \in Objects :
           x = thread[u].obj /\ thread[u].pc \in {"finalize", "unlist"} =>
              /\ obj'[x].created = obj[x].created
              /\ Closing(u) => obj'[x].numOpens = obj[x].numOpens
    BY <1>2, <1>o
  <2>6. \A x \in Objects : obj'[x].live /\ ~ obj'[x].created => Serves(x)'
    BY <1>4, <1>13, <1>o, <2>1, <2>2 DEF HandlesSound
  <2>7. HandleSound(t)' /\ ~ Closing(t)'
    <3>1. Obj(t)'.created
      BY <1>4, <1>5, <1>h, <1>o DEF Obj
    <3> QED BY <1>5, <1>h, <3>1 DEF HandleSound, Closing, At
  <2> QED BY <1>5, <1>13, <2>1, <2>3, <2>4, <2>5, <2>6, <2>7, HandlesKept
<1> QED BY <1>6, <1>7, <1>8, <1>9, <1>10, <1>11, <1>12, <1>13 DEF GateInv

LEMMA CreateProxyKeeps ==
    ASSUME GateInv, NEW t \in Threads, CreateProxy(t)
    PROVE  GateInv' /\ (FlagsOwned => FlagsOwned') /\ (HandlesSound => HandlesSound')
<1>t. /\ TypeOK /\ thread \in [Threads -> ThreadRecords] /\ obj \in [Objects -> ObjectRecords]
      /\ Nothing \notin Objects /\ Nothing \notin Resources
  BY Types DEF GateInv
<1>1. thread[t].pc = "proxy" /\ UNCHANGED <<inUse, attrs, nameServer, obj, raced, exhausted>>
  BY DEF CreateProxy, At, shared, history
<1>2. PICK label \in {"publish", "finalize"} : Goto(t, label)
  BY DEF CreateProxy
<1>3. PICK h \in ThreadRecords : /\ thread' = [thread EXCEPT ![t] = h]
                                 /\ h.pc = label /\ h.obj = thread[t].obj /\ h.addr = thread[t].addr
  BY <1>2, <1>t, GotoEffect DEF ThreadLabels
<1>4. PICK o \in Objects : /\ o = thread[t].obj /\ obj[o].created /\ obj[o].resourceId \in Resources
                           /\ obj[o].live
  <2>1. thread[t] \in ThreadRecords /\ thread[t].obj # Nothing
    BY <1>1, <1>t DEF GateInv, ThreadsSound, ThreadSound
  <2>2. thread[t].obj \in Objects
    BY <2>1 DEF ThreadRecords
  <2>3. obj[thread[t].obj].created /\ obj[thread[t].obj].resourceId \in Resources
    BY <1>1 DEF GateInv, ThreadsSound, ThreadSound, Obj
  <2>4. obj[thread[t].obj].live
    BY <2>2, <2>3 DEF GateInv, ObjectsSound, ObjectSound, NoObject
  <2> QED BY <2>2, <2>3, <2>4
<1>5. PICK r \in Resources, p \in Procs : r = obj[o].resourceId /\ p = On[t]
  BY <1>4
<1>6. \/ remoteSystemGates' = remoteSystemGates
      \/ remoteSystemGates' = [remoteSystemGates EXCEPT ![p][r] = o]
  BY <1>4, <1>5 DEF CreateProxy, Obj
<1>7. TypeOK'
  <2>1. remoteSystemGates' \in [Procs -> [Resources -> Objects \cup {Nothing}]]
    <3>1. remoteSystemGates \in [Procs -> [Resources -> Objects \cup {Nothing}]]
      BY <1>t DEF TypeOK
    <3>2. CASE remoteSystemGates' = [remoteSystemGates EXCEPT ![p][r] = o]
      BY <3>1, <3>2
    <3> QED BY <1>6, <3>1, <3>2
  <2>2. thread' \in [Threads -> ThreadRecords]
    BY <1>3, <1>t
  <2> QED BY <1>1, <1>t, <2>1, <2>2 DEF TypeOK, ThreadRecords, ThreadLabels
<1>8. ThreadsSound'
  <2>1. ThreadSound(t)'
    BY <1>1, <1>3, <1>4, <1>t DEF ThreadSound, Obj, At
  <2> QED BY <1>1, <1>3, <2>1, OthersKept
<1>9. ObjectsSound'
  <2>1. ASSUME NEW x \in Objects PROVE ObjectSound(x)'
    <3>1. Makes(t, x) <=> h.obj = x /\ h.pc \in MakerLabels
      BY <1>1, <1>3 DEF Makes, MakerLabels
    <3>2. At(t, "opened") /\ thread[t].obj = x <=> h.pc = "opened" /\ h.obj = x
      BY <1>1, <1>3 DEF At
    <3> QED BY <1>1, <1>3, <1>t, <3>1, <3>2, ObjectKept DEF GateInv, ObjectsSound
  <2> QED BY <2>1 DEF ObjectsSound
<1>s. \A x \in Objects : SameMakers(x)
  BY <1>1 DEF SameMakers
<1>10. FlagsSound'
  BY <1>1, <1>s, FlagsKept DEF GateInv
<1>11. AttrsSound'
  BY <1>1, <1>3, <1>s, AttrsKept
<1>12. TableSound'
  <2>1. CASE remoteSystemGates' = remoteSystemGates
    BY <1>1, <1>3, <2>1, TableKept DEF At
  <2>2. CASE remoteSystemGates' = [remoteSystemGates EXCEPT ![p][r] = o]
    <3>1. \A q \in Procs : \A s \in Resources :
             remoteSystemGates'[q][s] = IF q = p /\ s = r THEN o ELSE remoteSystemGates[q][s]
      BY <1>t, <2>2 DEF TypeOK
    <3>2. \A u \in Threads : thread'[u].obj = thread[u].obj /\ (At(u, "release")' <=> At(u, "release"))
      BY <1>1, <1>3, <1>t DEF At
    <3>3. \A u \in Threads : thread[u].obj = o => On[u] = p
      BY <1>4, <1>5, <1>t DEF GateInv, TableSound
    <3>4. \A u \in Threads : At(u, "release") => thread[u].obj # o
      \* the maker of o is t
      <4>1. ASSUME NEW u \in Threads, At(u, "release"), thread[u].obj = o PROVE FALSE
        <5>1. Makes(u, o) /\ Makes(t, o)
          BY <1>1, <1>4, <4>1 DEF Makes, MakerLabels, At
        <5> QED BY <1>1, <1>4, <4>1, <5>1 DEF GateInv, ObjectsSound, ObjectSound, At
      <4> QED BY <4>1
    <3>5. ASSUME NEW q \in Procs, NEW z \in Resources, remoteSystemGates'[q][z] # Nothing
          PROVE  LET x == remoteSystemGates'[q][z]
                 IN  /\ obj'[x].live /\ obj'[x].resourceId = z
                     /\ \A u \in Threads : thread'[u].obj = x => On[u] = q
      BY <1>1, <1>4, <1>5, <3>1, <3>2, <3>3, <3>5 DEF GateInv, TableSound
    <3>6. \A u \in Threads : At(u, "release")' =>
             \A q \in Procs : \A z \in Resources : remoteSystemGates'[q][z] # thread'[u].obj
      BY <3>1, <3>2, <3>4 DEF GateInv, TableSound
    <3>7. \A u, v \in Threads : thread'[u].obj = thread'[v].obj =>
                                 thread'[u].obj = Nothing \/ On[u] = On[v]
      BY <3>2 DEF GateInv, TableSound
    <3> QED BY <3>5, <3>6, <3>7 DEF TableSound
  <2> QED BY <1>6, <2>1, <2>2
<1>13. FlagsOwned => FlagsOwned'
  BY <1>1, <1>s, OwnedKept
<1>14. ASSUME HandlesSound PROVE HandlesSound'
  <2> SUFFICES ASSUME ~ raced' PROVE HandlesSound'
    BY DEF HandlesSound
  <2>1. ~ raced
    BY <1>1
  <2>2. ASSUME NEW x \in Objects, Serves(x) PROVE Serves(x)' /\ obj[x].resourceId # r
    <3>1. \A v \in Threads : At(v, "created") /\ Obj(v).block = obj[x].block =>
             At(v, "created")' /\ Obj(v)'.block = Obj(v).block
      BY <1>1, <1>3, <1>t DEF At, Obj
    <3>2. Makes(t, o) /\ ~ At(t, "created")
      BY <1>1, <1>4 DEF Makes, MakerLabels, At
    <3>3. obj[x].resourceId # r
      BY <1>4, <1>5, <2>2, <3>2, Server
    <3>4. obj'[x].live /\ attrs'[obj[x].block].created
      BY <1>1, <2>2 DEF Serves
    <3> QED BY <1>1, <2>2, <3>1, <3>3, <3>4, ServesKept
  <2>3. \A u \in Threads \ {t} : At(u, "checked") => attrs'[thread[u].addr].created
    BY <1>1, <2>1, <1>14 DEF HandlesSound, HandleSound
  <2>4. ASSUME NEW u \in Threads \ {t}, NEW x \in Objects, x = thread[u].obj, At(u, "opened") \/ Closing(u)
        PROVE  /\ Serves(x)' /\ obj'[x].block = obj[x].block /\ obj'[x].resourceId = obj[x].resourceId
               /\ remoteSystemGates'[On[u]][obj[x].resourceId] = remoteSystemGates[On[u]][obj[x].resourceId]
    <3>1. Serves(x) /\ Serves(x)' /\ obj[x].resourceId # r /\ remoteSystemGates[On[u]][obj[x].resourceId] = x
      BY <1>14, <2>1, <2>2, <2>4, HandleServes
    <3>2. PICK q \in Procs : q = On[u]
      OBVIOUS
    <3>3. PICK s \in Resources : s = obj[x].resourceId
      BY <3>1 DEF Serves, GateInv, AttrsSound
    <3>4. remoteSystemGates'[q][s] = remoteSystemGates[q][s]
      <4>1. remoteSystemGates \in [Procs -> [Resources -> Objects \cup {Nothing}]] /\ s # r
        BY <1>t, <3>1, <3>3 DEF TypeOK
      <4>2. CASE remoteSystemGates' = [remoteSystemGates EXCEPT ![p][r] = o]
        BY <4>1, <4>2
      <4> QED BY <1>6, <4>2
    <3> QED BY <1>1, <3>1, <3>2, <3>3, <3>4
  <2>5. \A u \in Threads \ {t} : \A x \in Objects :
           x = thread[u].obj /\ thread[u].pc \in {"finalize", "unlist"} =>
              /\ obj'[x].created = obj[x].created
              /\ Closing(u) => obj'[x].numOpens = obj[x].numOpens
    BY <1>1
  <2>6. \A x \in Objects : obj'[x].live /\ ~ obj'[x].created => Serves(x)'
    BY <1>1, <1>14, <2>1, <2>2 DEF HandlesSound
  <2>7. HandleSound(t)' /\ ~ Closing(t)'
    <3>1. Obj(t)'.created
      BY <1>1, <1>3, <1>4, <1>t DEF Obj
    <3> QED BY <1>3, <1>t, <3>1 DEF HandleSound, Closing, At
  <2> QED BY <1>3, <1>14, <2>1, <2>3, <2>4, <2>5, <2>6, <2>7, HandlesKept
<1> QED BY <1>7, <1>8, <1>9, <1>10, <1>11, <1>12, <1>13, <1>14 DEF GateInv

LEMMA PublishKeeps ==
    ASSUME GateInv, NEW t \in Threads, Publish(t)
    PROVE  GateInv' /\ (FlagsOwned => FlagsOwned') /\ (HandlesSound => HandlesSound')
<1>t. /\ TypeOK /\ thread \in [Threads -> ThreadRecords] /\ obj \in [Objects -> ObjectRecords]
      /\ Nothing \notin Objects /\ Nothing \notin Resources
  BY Types DEF GateInv
<1>1. thread[t].pc = "publish" /\ UNCHANGED <<inUse, remoteSystemGates, raced, exhausted>>
  BY DEF Publish, At, history
<1>2. PICK o \in Objects : o = thread[t].obj
  BY <1>1, Held
<1>3. obj[o].created /\ obj[o].live /\ obj[o].resourceId \in Resources /\ obj[o].block \in Blocks
  <2>1. obj[o].created /\ obj[o].resourceId \in Resources
    BY <1>1, <1>2 DEF GateInv, ThreadsSound, ThreadSound, Obj
  <2> QED BY <2>1 DEF GateInv, ObjectsSound, ObjectSound, NoObject
<1>4. PICK b \in Blocks, r \in Resources : b = obj[o].block /\ r = obj[o].resourceId
  BY <1>3
<1>5. attrs' = [attrs EXCEPT ![b] = [created |-> TRUE, arg |-> r]]
  BY <1>2, <1>4 DEF Publish, Obj
<1>6. PICK label \in {"created", "finalize"} :
         /\ Goto(t, label)
         /\ \/ nameServer' = [nameServer EXCEPT ![On[t]] = b] /\ obj' = [obj EXCEPT ![o].named = TRUE]
            \/ UNCHANGED <<nameServer, obj>>
  <2>1. CASE nameServer[On[t]] = Nothing
    BY <1>2, <1>4, <2>1 DEF Publish, Obj
  <2>2. CASE nameServer[On[t]] # Nothing
    BY <2>2 DEF Publish
  <2> QED BY <2>1, <2>2
<1>7. PICK h \in ThreadRecords : /\ thread' = [thread EXCEPT ![t] = h]
                                 /\ h.pc = label /\ h.obj = o /\ h.addr = thread[t].addr
  BY <1>2, <1>6, <1>t, GotoEffect DEF ThreadLabels
<1>8. PICK n \in ObjectRecords :
         /\ obj' = [obj EXCEPT ![o] = n] /\ n.live /\ n.created
         /\ n.block = b /\ n.resourceId = r /\ n.numOpens = obj[o].numOpens
  <2>1. obj[o] \in ObjectRecords
    BY <1>t
  <2>2. CASE obj' = [obj EXCEPT ![o].named = TRUE]
    <3> DEFINE n == [obj[o] EXCEPT !.named = TRUE]
    <3>1. /\ n \in ObjectRecords /\ n.live /\ n.created
          /\ n.block = b /\ n.resourceId = r /\ n.numOpens = obj[o].numOpens
      BY <1>3, <1>4, <2>1 DEF ObjectRecords
    <3>2. obj' = [obj EXCEPT ![o] = n]
      BY <2>2
    <3> HIDE DEF n
    <3> QED BY <3>1, <3>2
  <2>3. CASE obj' = obj
    <3>1. obj' = [obj EXCEPT ![o] = obj[o]]
      BY <1>t, <2>3
    <3> QED BY <1>3, <1>4, <2>1, <3>1
  <2> QED BY <1>6, <2>2, <2>3
<1>h. \A u \in Threads : thread'[u] = IF u = t THEN h ELSE thread[u]
  BY <1>7, <1>t
<1>o. \A x \in Objects : obj'[x] = IF x = o THEN n ELSE obj[x]
  BY <1>8, <1>t
<1>k. /\ n.created = obj[o].created /\ n.live = obj[o].live
      /\ \A x \in Objects :
            /\ obj'[x].live = obj[x].live /\ obj'[x].created = obj[x].created
            /\ obj'[x].block = obj[x].block /\ obj'[x].resourceId = obj[x].resourceId
            /\ obj'[x].numOpens = obj[x].numOpens
  <2>1. obj[o] \in ObjectRecords
    BY <1>t
  <2>2. n.created = obj[o].created /\ n.live = obj[o].live
    BY <1>3, <1>8, <2>1 DEF ObjectRecords
  <2> QED BY <1>4, <1>8, <1>o, <2>2
<1>a. attrs' \in [Blocks -> [created : BOOLEAN, arg : Resources \cup {Nothing}]]
      /\ \A c \in Blocks : /\ attrs'[c].created <=> c = b \/ attrs[c].created
                           /\ attrs'[c].arg = IF c = b THEN r ELSE attrs[c].arg
  <2>1. attrs \in [Blocks -> [created : BOOLEAN, arg : Resources \cup {Nothing}]]
    BY <1>t DEF TypeOK
  <2> QED BY <1>5, <2>1
<1>9. TypeOK'
  <2>1. nameServer' \in [Procs -> Blocks \cup {Nothing}]
    BY <1>6, <1>t DEF TypeOK
  <2>2. thread' \in [Threads -> ThreadRecords] /\ obj' \in [Objects -> ObjectRecords]
    BY <1>7, <1>8, <1>t
  <2> QED BY <1>1, <1>a, <1>t, <2>1, <2>2 DEF TypeOK, ThreadRecords, ThreadLabels, ObjectRecords
<1>10. ThreadsSound'
  <2>1. ThreadSound(t)'
    BY <1>3, <1>7, <1>8, <1>h, <1>o, <1>t DEF ThreadSound, Obj, At
  <2>2. \A x \in Objects : obj'[x].created = obj[x].created /\ obj'[x].resourceId = obj[x].resourceId
    BY <1>k
  <2> QED BY <1>7, <1>a, <2>1, <2>2, OthersKept
<1>11. ObjectsSound'
  <2>1. ASSUME NEW x \in Objects PROVE ObjectSound(x)'
    <3>1. Makes(t, x) <=> h.obj = x /\ h.pc \in MakerLabels
      BY <1>1, <1>2, <1>7 DEF Makes, MakerLabels
    <3>2. At(t, "opened") /\ thread[t].obj = x <=> h.pc = "opened" /\ h.obj = x
      BY <1>1, <1>7 DEF At
    <3>3. \/ obj'[x] = obj[x]
          \/ /\ obj'[x].live /\ obj[x].live /\ obj'[x].created = obj[x].created
             /\ obj'[x].block = obj[x].block /\ obj'[x].resourceId = obj[x].resourceId
             /\ obj'[x].numOpens = obj[x].numOpens
      BY <1>3, <1>8, <1>k, <1>o
    <3> QED BY <1>7, <1>t, <3>1, <3>2, <3>3, ObjectKept DEF GateInv, ObjectsSound
  <2> QED BY <2>1 DEF ObjectsSound
<1>s. \A x \in Objects : SameMakers(x)
  BY <1>k DEF SameMakers
<1>12. FlagsSound'
  BY <1>1, <1>s, FlagsKept DEF GateInv
<1>13. AttrsSound'
  <2>1. ASSUME NEW c \in Blocks, attrs'[c].created
        PROVE  /\ attrs'[c].arg \in Resources
               /\ \E u \in Threads : /\ thread'[u].pc \in {"created", "finalize"} /\ Gate(u, c)'
                                     /\ Obj(u)'.resourceId = attrs'[c].arg
    <3>1. CASE c = b
      BY <1>6, <1>7, <1>8, <1>a, <1>h, <1>o, <3>1 DEF Gate, Obj
    <3>2. CASE c # b
      <4>1. PICK u \in Threads : /\ thread[u].pc \in {"created", "finalize"} /\ Gate(u, c)
                                 /\ Obj(u).resourceId = attrs[c].arg
        BY <1>a, <2>1, <3>2 DEF GateInv, AttrsSound
      <4>2. PICK x \in Objects : x = thread[u].obj
        BY <4>1, Held
      <4>3. u # t /\ x # o
        BY <1>1, <1>4, <3>2, <4>1, <4>2 DEF Gate, Obj
      <4>4. attrs[c].arg \in Resources /\ attrs'[c].arg = attrs[c].arg
        BY <1>a, <2>1, <3>2 DEF GateInv, AttrsSound
      <4> QED BY <1>h, <1>o, <4>1, <4>2, <4>3, <4>4 DEF Gate, Obj
    <3> QED BY <3>1, <3>2
  <2>2. \A x, y \in Objects : obj'[x].created /\ obj'[y].created /\ obj'[x].block = obj'[y].block => x = y
    BY <1>s DEF SameMakers, GateInv, AttrsSound
  <2> QED BY <2>1, <2>2 DEF AttrsSound
<1>14. TableSound'
  <2>1. \A x \in Objects : obj[x].live => obj'[x].live /\ obj'[x].resourceId = obj[x].resourceId
    BY <1>3, <1>8, <1>k, <1>o
  <2>2. h.pc # "release" /\ h.obj = thread[t].obj
    BY <1>2, <1>6, <1>7
  <2> QED BY <1>1, <1>7, <2>1, <2>2, TableKept
<1>15. FlagsOwned => FlagsOwned'
  BY <1>1, <1>s, OwnedKept
<1>16. ASSUME HandlesSound PROVE HandlesSound'
  <2> SUFFICES ASSUME ~ raced' PROVE HandlesSound'
    BY DEF HandlesSound
  <2>1. ~ raced
    BY <1>1
  <2>2. ASSUME NEW x \in Objects, Serves(x) PROVE Serves(x)'
    <3>1. ASSUME NEW v \in Threads, At(v, "created"), Obj(v).block = obj[x].block
          PROVE  At(v, "created")' /\ Obj(v)'.block = Obj(v).block
      <4>1. PICK y \in Objects : y = thread[v].obj
        BY <3>1, Held DEF At
      <4> QED BY <1>1, <1>h, <1>k, <3>1, <4>1 DEF At, Obj
    <3>2. Makes(t, o) /\ ~ At(t, "created")
      BY <1>1, <1>2 DEF Makes, MakerLabels, At
    <3>3. obj[x].block # b
      BY <1>3, <1>4, <2>2, <3>2, Server
    <3>4. obj[x].live /\ attrs[obj[x].block].created /\ obj[x].block \in Blocks
      BY <2>2 DEF Serves
    <3>5. attrs'[obj[x].block].created /\ attrs'[obj[x].block].arg = attrs[obj[x].block].arg
      BY <1>a, <3>3, <3>4
    <3>6. obj'[x].live /\ obj'[x].block = obj[x].block /\ obj'[x].resourceId = obj[x].resourceId
      BY <1>k, <3>4
    <3> QED BY <2>2, <3>1, <3>5, <3>6, ServesKept
  <2>3. ASSUME NEW u \in Threads \ {t}, At(u, "checked") PROVE attrs'[thread[u].addr].created
    <3>1. thread[u].addr \in Blocks /\ attrs[thread[u].addr].created
      BY <1>16, <2>1, <2>3 DEF HandlesSound, HandleSound, GateInv, ThreadsSound, ThreadSound, At
    <3> QED BY <1>a, <3>1
  <2>4. ASSUME NEW u \in Threads \ {t}, NEW x \in Objects, x = thread[u].obj, At(u, "opened") \/ Closing(u)
        PROVE  /\ Serves(x)' /\ obj'[x].block = obj[x].block /\ obj'[x].resourceId = obj[x].resourceId
               /\ remoteSystemGates'[On[u]][obj[x].resourceId] = remoteSystemGates[On[u]][obj[x].resourceId]
    BY <1>1, <1>16, <1>k, <2>1, <2>2, <2>4, HandleServes
  <2>5. \A u \in Threads \ {t} : \A x \in Objects :
           x = thread[u].obj /\ thread[u].pc \in {"finalize", "unlist"} =>
              /\ obj'[x].created = obj[x].created
              /\ Closing(u) => obj'[x].numOpens = obj[x].numOpens
    BY <1>k
  <2>6. \A x \in Objects : obj'[x].live /\ ~ obj'[x].created => Serves(x)'
    BY <1>16, <1>k, <2>1, <2>2 DEF HandlesSound
  <2>7. HandleSound(t)' /\ ~ Closing(t)'
    <3>1. Obj(t)'.created
      BY <1>7, <1>8, <1>h, <1>o DEF Obj
    <3> QED BY <1>6, <1>7, <1>h, <3>1 DEF HandleSound, Closing, At
  <2> QED BY <1>7, <1>16, <2>1, <2>3, <2>4, <2>5, <2>6, <2>7, HandlesKept
<1> QED BY <1>9, <1>10, <1>11, <1>12, <1>13, <1>14, <1>15, <1>16 DEF GateInv

LEMMA OpenByAddrKeeps ==
    ASSUME GateInv, NEW t \in Threads, NEW b \in Blocks, OpenByAddr(t, b)
    PROVE  GateInv' /\ (FlagsOwned => FlagsOwned') /\ (HandlesSound => HandlesSound')
<1>t. /\ TypeOK /\ thread \in [Threads -> ThreadRecords] /\ obj \in [Objects -> ObjectRecords]
      /\ Nothing \notin Objects /\ Nothing \notin Resources
  BY Types DEF GateInv
<1>1. /\ thread[t].pc = "idle" /\ thread[t].obj = Nothing
      /\ UNCHANGED <<inUse, attrs, nameServer, obj, remoteSystemGates, raced, exhausted>>
  BY DEF OpenByAddr, At, GateInv, ThreadsSound, ThreadSound, shared, history
<1>2. attrs[b].created /\ attrs[b].arg \in Resources
  BY DEF OpenByAddr, GateInv, AttrsSound
<1>3. PICK h \in ThreadRecords : /\ thread' = [thread EXCEPT ![t] = h]
                                 /\ h.pc = "checked" /\ h.obj = Nothing /\ h.addr = b
  <2>1. thread[t] \in ThreadRecords
    BY <1>t
  <2> DEFINE h == [thread[t] EXCEPT !.pc = "checked", !.addr = b]
  <2>2. h \in ThreadRecords /\ h.pc = "checked" /\ h.obj = Nothing /\ h.addr = b
    BY <1>1, <2>1 DEF ThreadRecords, ThreadLabels
  <2>3. thread' = [thread EXCEPT ![t] = h]
    BY DEF OpenByAddr
  <2> HIDE DEF h
  <2> QED BY <2>2, <2>3
<1>s. \A x \in Objects : SameMakers(x)
  BY <1>1 DEF SameMakers
<1>4. TypeOK'
  <2>1. thread' \in [Threads -> ThreadRecords]
    BY <1>3, <1>t
  <2> QED BY <1>1, <1>t, <2>1 DEF TypeOK, ThreadRecords, ThreadLabels
<1>5. ThreadsSound'
  <2>1. ThreadSound(t)'
    BY <1>1, <1>2, <1>3, <1>t DEF ThreadSound, Obj, At
  <2> QED BY <1>1, <1>3, <2>1, OthersKept
<1>6. ObjectsSound'
  <2>1. ASSUME NEW x \in Objects PROVE ObjectSound(x)'
    <3>1. Makes(t, x) <=> h.obj = x /\ h.pc \in MakerLabels
      BY <1>1, <1>3, <1>t DEF Makes
    <3>2. At(t, "opened") /\ thread[t].obj = x <=> h.pc = "opened" /\ h.obj = x
      BY <1>1, <1>3 DEF At
    <3> QED BY <1>1, <1>3, <1>t, <3>1, <3>2, ObjectKept DEF GateInv, ObjectsSound
  <2> QED BY <2>1 DEF ObjectsSound
<1>7. FlagsSound'
  BY <1>1, <1>s, FlagsKept DEF GateInv
<1>8. AttrsSound'
  BY <1>1, <1>3, <1>s, AttrsKept
<1>9. TableSound'
  BY <1>1, <1>3, TableKept
<1>10. FlagsOwned => FlagsOwned'
  BY <1>1, <1>s, OwnedKept
<1>11. ASSUME HandlesSound PROVE HandlesSound'
  <2> SUFFICES ASSUME ~ raced' PROVE HandlesSound'
    BY DEF HandlesSound
  <2>1. ~ raced
    BY <1>1
  <2>2. HandleSound(t)' /\ ~ Closing(t)'
    BY <1>1, <1>2, <1>3, <1>t DEF HandleSound, Closing, At
  <2> QED BY <1>1, <1>3, <1>11, <2>1, <2>2, HandlesUntouched DEF At
<1> QED BY <1>4, <1>5, <1>6, <1>7, <1>8, <1>9, <1>10, <1>11 DEF GateInv

LEMMA OpenLocalKeeps ==
    ASSUME GateInv, NEW t \in Threads, OpenLocal(t)
    PROVE  GateInv' /\ (FlagsOwned => FlagsOwned') /\ (HandlesSound => HandlesSound')
<1>t. /\ TypeOK /\ thread \in [Threads -> ThreadRecords] /\ obj \in [Objects -> ObjectRecords]
      /\ Nothing \notin Objects /\ Nothing \notin Resources
  BY Types DEF GateInv
<1>1. /\ thread[t].pc = "checked" /\ thread[t].obj = Nothing /\ thread[t].addr \in Blocks
      /\ attrs[thread[t].addr].arg \in Resources
      /\ UNCHANGED <<inUse, attrs, nameServer, remoteSystemGates, exhausted>>
  BY DEF OpenLocal, At, GateInv, ThreadsSound, ThreadSound, shared
<1>2. PICK p \in Procs, b \in Blocks, r \in Resources :
         p = On[t] /\ b = thread[t].addr /\ r = attrs[b].arg
  BY <1>1
<1>3. PICK o \in Objects : o = remoteSystemGates[p][r] /\ o # Nothing
  <2>1. remoteSystemGates[p][r] \in Objects \cup {Nothing}
    BY <1>t DEF TypeOK
  <2>2. remoteSystemGates[p][r] # Nothing
    BY <1>2 DEF OpenLocal
  <2> QED BY <2>1, <2>2
<1>4. /\ obj[o].live /\ obj[o].resourceId = r /\ obj[o].numOpens \in Nat
      /\ \A u \in Threads : thread[u].obj = o => On[u] = p
  <2>1. obj[o] \in ObjectRecords
    BY <1>t
  <2> QED BY <1>3, <2>1 DEF GateInv, TableSound, ObjectRecords
<1>5. PICK n \in ObjectRecords :
         /\ obj' = [obj EXCEPT ![o] = n] /\ n.live = obj[o].live /\ n.created = obj[o].created
         /\ n.block = obj[o].block /\ n.resourceId = r /\ n.numOpens = obj[o].numOpens + 1
  <2>1. obj' = [obj EXCEPT ![o].numOpens = obj[o].numOpens + 1] /\ obj[o].numOpens + 1 \in Nat
    <3>1. obj' = [obj EXCEPT ![o].numOpens = obj[o].numOpens + 1]
      BY <1>2, <1>3 DEF OpenLocal
    <3> QED BY <1>4, <3>1
  <2>2. \E n \in ObjectRecords :
           /\ obj' = [obj EXCEPT ![o] = n] /\ n.live = obj[o].live /\ n.created = obj[o].created
           /\ n.block = obj[o].block /\ n.resourceId = obj[o].resourceId
           /\ n.numOpens = obj[o].numOpens + 1
    <3> DEFINE k == obj[o].numOpens + 1
    <3>1. k \in Nat /\ obj' = [obj EXCEPT ![o].numOpens = k]
      BY <2>1
    <3> HIDE DEF k
    <3>2. \E n \in ObjectRecords :
             /\ obj' = [obj EXCEPT ![o] = n] /\ n.live = obj[o].live /\ n.created = obj[o].created
             /\ n.block = obj[o].block /\ n.resourceId = obj[o].resourceId /\ n.numOpens = k
      BY <1>t, <3>1, NumOpensSet
    <3> QED BY <3>2 DEF k
  <2> QED BY <1>4, <2>2
<1>6. PICK h \in ThreadRecords : /\ thread' = [thread EXCEPT ![t] = h]
                                 /\ h.pc = "opened" /\ h.obj = o /\ h.addr = b
  <2>1. thread[t] \in ThreadRecords
    BY <1>t
  <2> DEFINE h == [thread[t] EXCEPT !.pc = "opened", !.obj = o]
  <2>2. h \in ThreadRecords /\ h.pc = "opened" /\ h.obj = o /\ h.addr = b
    BY <1>2, <2>1 DEF ThreadRecords, ThreadLabels
  <2>3. thread' = [thread EXCEPT ![t] = h]
    BY <1>2, <1>3 DEF OpenLocal
  <2> HIDE DEF h
  <2> QED BY <2>2, <2>3
<1>h. \A u \in Threads : thread'[u] = IF u = t THEN h ELSE thread[u]
  BY <1>6, <1>t
<1>o. \A x \in Objects : obj'[x] = IF x = o THEN n ELSE obj[x]
  BY <1>5, <1>t
<1>s. \A x \in Objects : SameMakers(x)
  BY <1>4, <1>5, <1>o DEF SameMakers
<1>7. TypeOK'
  <2>1. thread' \in [Threads -> ThreadRecords] /\ obj' \in [Objects -> ObjectRecords]
    BY <1>5, <1>6, <1>t
  <2>2. raced' \in BOOLEAN
    BY <1>2, <1>3 DEF OpenLocal
  <2> QED BY <1>1, <1>t, <2>1, <2>2 DEF TypeOK, ThreadRecords, ThreadLabels, ObjectRecords
<1>8. ThreadsSound'
  <2>1. ThreadSound(t)'
    BY <1>1, <1>6, <1>h, <1>t DEF ThreadSound, Obj, At
  <2>2. \A x \in Objects : obj'[x].created = obj[x].created /\ obj'[x].resourceId = obj[x].resourceId
    BY <1>4, <1>5, <1>o
  <2> QED BY <1>1, <1>6, <2>1, <2>2, OthersKept
<1>9. ObjectsSound'
  <2>1. ASSUME NEW x \in Objects \ {o} PROVE ObjectSound(x)'
    <3>1. Makes(t, x) <=> h.obj = x /\ h.pc \in MakerLabels
      BY <1>1, <1>6, <1>t DEF Makes, MakerLabels
    <3>2. At(t, "opened") /\ thread[t].obj = x <=> h.pc = "opened" /\ h.obj = x
      BY <1>1, <1>6 DEF At
    <3> QED BY <1>6, <1>o, <1>t, <3>1, <3>2, ObjectKept DEF GateInv, ObjectsSound
  <2>2. ObjectSound(o)'
    <3>1. t \notin Openers(o)
      BY <1>1 DEF Openers, At
    <3>2. Cardinality(Openers(o))' = Cardinality(Openers(o)) + 1
      BY <1>6, <1>t, <3>1, OpenersEffect
    <3>3. Cardinality(Openers(o)) \in Nat /\ ((Openers(o) # {})' <=> (Cardinality(Openers(o)) > 0)')
      BY <1>6, <1>t, OpenersEffect
    <3>4. (Openers(o) # {})'
      BY <3>2, <3>3
    <3>5. \A u \in Threads : Makes(u, o)' <=> Makes(u, o)
      BY <1>1, <1>6, <1>h DEF Makes, MakerLabels
    <3>6. obj'[o] = n /\ ObjectSound(o)
      BY <1>o DEF GateInv, ObjectsSound
    <3> QED BY <1>4, <1>5, <3>2, <3>4, <3>5, <3>6 DEF ObjectSound
  <2> QED BY <2>1, <2>2 DEF ObjectsSound
<1>10. FlagsSound'
  BY <1>1, <1>s, FlagsKept DEF GateInv
<1>11. AttrsSound'
  BY <1>1, <1>6, <1>s, AttrsKept
<1>12. TableSound'
  <2>1. \A x \in Objects : obj[x].live => obj'[x].live /\ obj'[x].resourceId = obj[x].resourceId
    BY <1>4, <1>5, <1>o
  <2>2. PICK u \in Threads : thread[u].obj = o
    BY <1>4, LiveIsHeld
  <2>3. \A q \in Procs : \A s \in Resources : remoteSystemGates[q][s] = h.obj => On[t] = q
    <3>1. ASSUME NEW q \in Procs, NEW s \in Resources, remoteSystemGates[q][s] = o PROVE On[t] = q
      <4>1. On[u] = q
        BY <1>3, <2>2, <3>1 DEF GateInv, TableSound
      <4> QED BY <1>2, <1>4, <2>2, <4>1
    <3> QED BY <1>6, <3>1
  <2>4. \A v \in Threads : thread[v].obj = h.obj => On[v] = On[t]
    BY <1>2, <1>4, <1>6
  <2> QED BY <1>1, <1>6, <2>1, <2>3, <2>4, TableKept
<1>13. FlagsOwned => FlagsOwned'
  BY <1>1, <1>s, OwnedKept
<1>14. ASSUME HandlesSound PROVE HandlesSound'
  <2> SUFFICES ASSUME ~ raced' PROVE HandlesSound'
    BY DEF HandlesSound
  <2>1. ~ raced /\ ~ Finalizing(o, b)
    BY <1>2, <1>3, <1>t DEF OpenLocal, TypeOK
  <2>k. \A x \in Objects : /\ obj'[x].live = obj[x].live /\ obj'[x].created = obj[x].created
                           /\ obj'[x].block = obj[x].block /\ obj'[x].resourceId = obj[x].resourceId
                           /\ x # o => obj'[x] = obj[x]
    BY <1>4, <1>5, <1>o
  <2>2. ASSUME NEW x \in Objects, Serves(x) PROVE Serves(x)'
    <3>1. ASSUME NEW v \in Threads, At(v, "created"), Obj(v).block = obj[x].block
          PROVE  At(v, "created")' /\ Obj(v)'.block = Obj(v).block
      <4>1. PICK y \in Objects : y = thread[v].obj
        BY <3>1, Held DEF At
      <4> QED BY <1>1, <1>h, <2>k, <3>1, <4>1 DEF At, Obj
    <3>2. obj[x].live /\ attrs[obj[x].block].created
      BY <2>2 DEF Serves
    <3> QED BY <1>1, <2>2, <2>k, <3>1, <3>2, ServesKept
  <2>3. \A u \in Threads \ {t} : At(u, "checked") => attrs'[thread[u].addr].created
    BY <1>1, <1>14, <2>1 DEF HandlesSound, HandleSound
  <2>4. ASSUME NEW u \in Threads \ {t}, NEW x \in Objects, x = thread[u].obj, At(u, "opened") \/ Closing(u)
        PROVE  /\ Serves(x)' /\ obj'[x].block = obj[x].block /\ obj'[x].resourceId = obj[x].resourceId
               /\ remoteSystemGates'[On[u]][obj[x].resourceId] = remoteSystemGates[On[u]][obj[x].resourceId]
    BY <1>1, <1>14, <2>1, <2>2, <2>4, <2>k, HandleServes
  <2>5. \A u \in Threads \ {t} : \A x \in Objects :
           x = thread[u].obj /\ thread[u].pc \in {"finalize", "unlist"} =>
              /\ obj'[x].created = obj[x].created
              /\ Closing(u) => obj'[x].numOpens = obj[x].numOpens
    <3>1. \A u \in Threads \ {t} : thread[u].pc \in {"finalize", "unlist"} => thread[u].obj # o
      BY <2>1 DEF Finalizing
    <3> QED BY <2>k, <3>1
  <2>6. \A x \in Objects : obj'[x].live /\ ~ obj'[x].created => Serves(x)'
    BY <1>14, <2>1, <2>2, <2>k DEF HandlesSound
  <2>7. Serves(o) /\ obj[o].block = b
    \* the gate that the thread has checked is still there, and o is its object
    <3>1. attrs[b].created
      BY <1>1, <1>2, <1>14, <2>1 DEF HandlesSound, HandleSound, At
    <3>2. PICK u \in Threads : /\ thread[u].pc \in {"created", "finalize"} /\ Gate(u, b)
                               /\ Obj(u).resourceId = r
      BY <1>2, <3>1 DEF GateInv, AttrsSound
    <3>3. PICK y \in Objects : y = thread[u].obj
      BY <3>2, Held
    <3>4. At(u, "created") /\ Makes(u, y) /\ obj[y].created /\ obj[y].block = b /\ obj[y].resourceId = r
      BY <2>1, <3>2, <3>3 DEF Finalizing, Gate, Obj, At, Makes, MakerLabels
    <3>5. CASE obj[o].created
      <4>1. o = y
        BY <1>4, <1>t, <3>4, <3>5 DEF GateInv, FlagsSound
      <4> QED BY <1>2, <1>4, <3>1, <3>3, <3>4, <4>1 DEF Serves, Obj
    <3>6. CASE ~ obj[o].created
      <4>1. Serves(o)
        BY <1>4, <1>14, <2>1, <3>6 DEF HandlesSound
      <4>2. obj[y].block = obj[o].block
        BY <1>4, <3>4, <4>1, Server
      <4> QED BY <3>4, <4>1, <4>2
    <3> QED BY <3>5, <3>6
  <2>8. HandleSound(t)' /\ ~ Closing(t)'
    <3>1. thread'[t].pc = "opened" /\ thread'[t].obj = o /\ thread'[t].addr = b
      BY <1>6, <1>h
    <3>2. Serves(o)' /\ obj'[o].block = b /\ obj'[o].resourceId = r
      BY <1>4, <2>2, <2>7, <2>k
    <3>3. (Serves(o)' <=> Serves(thread[t].obj)') /\ Obj(t)' = obj'[o]
      BY <3>1 DEF Serves, Obj
    <3> QED BY <1>1, <1>2, <1>3, <3>1, <3>2, <3>3 DEF HandleSound, Closing, At
  <2> QED BY <1>6, <1>14, <2>1, <2>3, <2>4, <2>5, <2>6, <2>8, HandlesKept
<1> QED BY <1>7, <1>8, <1>9, <1>10, <1>11, <1>12, <1>13, <1>14 DEF GateInv

LEMMA OpenRemoteKeeps ==
    ASSUME GateInv, NEW t \in Threads, OpenRemote(t)
    PROVE  GateInv' /\ (FlagsOwned => FlagsOwned') /\ (HandlesSound => HandlesSound')
<1>t. /\ TypeOK /\ thread \in [Threads -> ThreadRecords] /\ obj \in [Objects -> ObjectRecords]
      /\ Nothing \notin Objects /\ Nothing \notin Resources
      /\ NoObject \in ObjectRecords /\ Idle \in ThreadRecords
  BY Types DEF GateInv
<1>1. /\ thread[t].pc = "checked" /\ thread[t].obj = Nothing /\ thread[t].addr \in Blocks
      /\ attrs[thread[t].addr].arg \in Resources
      /\ UNCHANGED <<inUse, attrs, nameServer, exhausted>>
  BY DEF OpenRemote, At, GateInv, ThreadsSound, ThreadSound, shared
<1>2. PICK p \in Procs, b \in Blocks, r \in Resources :
         p = On[t] /\ b = thread[t].addr /\ r = attrs[b].arg
  BY <1>1
<1>3. PICK o \in Objects : o = NewObject /\ obj[o] = NoObject /\ \A u \in Threads : thread[u].obj # o
  BY <1>1, NewObjectIsNew
<1>4. CASE thread' = [thread EXCEPT ![t] = Idle] /\ UNCHANGED <<obj, remoteSystemGates, raced>>
  <2>1. Idle.pc = "idle" /\ Idle.obj = Nothing
    BY DEF Idle
  <2>2. PICK h \in ThreadRecords : /\ thread' = [thread EXCEPT ![t] = h]
                                   /\ h.pc = "idle" /\ h.obj = Nothing
    BY <1>4, <1>t, <2>1
  <2>s. \A x \in Objects : SameMakers(x)
    BY <1>4 DEF SameMakers
  <2>3. TypeOK'
    <3>1. thread' \in [Threads -> ThreadRecords]
      BY <1>t, <2>2
    <3> QED BY <1>1, <1>4, <1>t, <3>1 DEF TypeOK, ThreadRecords, ThreadLabels
  <2>4. ThreadsSound'
    <3>1. ThreadSound(t)'
      BY <1>t, <2>2 DEF ThreadSound, Obj, At
    <3> QED BY <1>1, <1>4, <2>2, <3>1, OthersKept
  <2>5. ObjectsSound'
    <3>1. ASSUME NEW x \in Objects PROVE ObjectSound(x)'
      <4>1. Makes(t, x) <=> h.obj = x /\ h.pc \in MakerLabels
        BY <1>1, <1>t, <2>2 DEF Makes
      <4>2. At(t, "opened") /\ thread[t].obj = x <=> h.pc = "opened" /\ h.obj = x
        BY <1>1, <2>2 DEF At
      <4> QED BY <1>4, <1>t, <2>2, <4>1, <4>2, ObjectKept DEF GateInv, ObjectsSound
    <3> QED BY <3>1 DEF ObjectsSound
  <2>6. FlagsSound'
    BY <1>1, <2>s, FlagsKept DEF GateInv
  <2>7. AttrsSound'
    BY <1>1, <2>2, <2>s, AttrsKept
  <2>8. TableSound'
    BY <1>4, <2>2, TableKept
  <2>9. FlagsOwned => FlagsOwned'
    BY <1>1, <2>s, OwnedKept
  <2>10. HandlesSound => HandlesSound'
    <3>1. CASE raced'
      BY <3>1 DEF HandlesSound
    <3>2. CASE ~ raced'
      <4>1. HandleSound(t)' /\ ~ Closing(t)'
        BY <1>t, <2>2 DEF HandleSound, Closing, At
      <4> QED BY <1>1, <1>4, <2>2, <3>2, <4>1, HandlesUntouched DEF At
    <3> QED BY <3>1, <3>2
  <2> QED BY <2>3, <2>4, <2>5, <2>6, <2>7, <2>8, <2>9, <2>10 DEF GateInv
<1>5. CASE /\ remoteSystemGates[p][r] = Nothing
           /\ obj' = [obj EXCEPT ![o] = [NoObject EXCEPT !.live = TRUE, !.numOpens = 1,
                             !.block = b, !.resourceId = r]]
           /\ remoteSystemGates' = [remoteSystemGates EXCEPT ![p][r] = o]
           /\ thread' = [thread EXCEPT ![t].pc = "opened", ![t].obj = o]
           /\ raced' = (raced \/ Finalizing(Nothing, b))
  <2>1. PICK n \in ObjectRecords : /\ obj' = [obj EXCEPT ![o] = n] /\ n.live /\ ~ n.created
                                   /\ n.block = b /\ n.resourceId = r /\ n.numOpens = 1
    <3> DEFINE n == [NoObject EXCEPT !.live = TRUE, !.numOpens = 1, !.block = b, !.resourceId = r]
    <3>1. ~ NoObject.created
      BY DEF NoObject
    <3>2. /\ n \in ObjectRecords /\ n.live /\ ~ n.created
          /\ n.block = b /\ n.resourceId = r /\ n.numOpens = 1
      BY <1>t, <3>1 DEF ObjectRecords
    <3>3. obj' = [obj EXCEPT ![o] = n]
      BY <1>5
    <3> HIDE DEF n
    <3> QED BY <3>2, <3>3
  <2>2. PICK h \in ThreadRecords : /\ thread' = [thread EXCEPT ![t] = h]
                                   /\ h.pc = "opened" /\ h.obj = o /\ h.addr = b
    <3>1. thread[t] \in ThreadRecords
      BY <1>t
    <3> DEFINE h == [thread[t] EXCEPT !.pc = "opened", !.obj = o]
    <3>2. h \in ThreadRecords /\ h.pc = "opened" /\ h.obj = o /\ h.addr = b
      BY <1>2, <3>1 DEF ThreadRecords, ThreadLabels
    <3>3. thread' = [thread EXCEPT ![t] = h]
      BY <1>5
    <3> HIDE DEF h
    <3> QED BY <3>2, <3>3
  <2>h. \A u \in Threads : thread'[u] = IF u = t THEN h ELSE thread[u]
    BY <1>t, <2>2
  <2>o. \A x \in Objects : obj'[x] = IF x = o THEN n ELSE obj[x]
    BY <1>t, <2>1
  <2>n. ~ obj[o].live /\ ~ obj[o].created /\ obj[o] \in ObjectRecords
    BY <1>3, <1>t DEF NoObject
  <2>s. \A x \in Objects : SameMakers(x)
    BY <2>1, <2>n, <2>o DEF SameMakers, ObjectRecords
  <2>g. /\ remoteSystemGates' \in [Procs -> [Resources -> Objects \cup {Nothing}]]
        /\ \A q \in Procs : \A s \in Resources :
              remoteSystemGates'[q][s] = IF q = p /\ s = r THEN o ELSE remoteSystemGates[q][s]
    <3>1. remoteSystemGates \in [Procs -> [Resources -> Objects \cup {Nothing}]]
      BY <1>t DEF TypeOK
    <3> QED BY <1>5, <3>1
  <2>3. TypeOK'
    <3>1. thread' \in [Threads -> ThreadRecords] /\ obj' \in [Objects -> ObjectRecords]
      BY <1>t, <2>1, <2>2
    <3>2. raced' \in BOOLEAN
      BY <1>5
    <3> QED BY <1>1, <1>t, <2>g, <3>1, <3>2 DEF TypeOK, ThreadRecords, ThreadLabels, ObjectRecords
  <2>4. ThreadsSound'
    <3>1. ThreadSound(t)'
      BY <1>t, <2>2, <2>h DEF ThreadSound, Obj, At
    <3>2. \A x \in Objects : (\E u \in Threads \ {t} : thread[u].obj = x) =>
               obj'[x].created = obj[x].created /\ obj'[x].resourceId = obj[x].resourceId
      BY <1>3, <2>o
    <3> QED BY <1>1, <2>2, <3>1, <3>2, OthersKept
  <2>5. ObjectsSound'
    <3>1. ASSUME NEW x \in Objects \ {o} PROVE ObjectSound(x)'
      <4>1. Makes(t, x) <=> h.obj = x /\ h.pc \in MakerLabels
        BY <1>1, <1>t, <2>2 DEF Makes, MakerLabels
      <4>2. At(t, "opened") /\ thread[t].obj = x <=> h.pc = "opened" /\ h.obj = x
        BY <1>1, <2>2 DEF At
      <4> QED BY <1>t, <2>2, <2>o, <4>1, <4>2, ObjectKept DEF GateInv, ObjectsSound
    <3>2. ObjectSound(o)'
      <4>1. Openers(o)' = {t}
        BY <1>3, <2>2, <2>h DEF Openers, At
      <4>2. Cardinality(Openers(o))' = 1
        BY <4>1, FS_Singleton
      <4>3. obj'[o] = n
        BY <2>o
      <4> QED BY <2>1, <4>1, <4>2, <4>3 DEF ObjectSound
    <3> QED BY <3>1, <3>2 DEF ObjectsSound
  <2>6. FlagsSound'
    BY <1>1, <2>s, FlagsKept DEF GateInv
  <2>7. AttrsSound'
    BY <1>1, <2>2, <2>s, AttrsKept
  <2>8. TableSound'
    <3>1. ASSUME NEW q \in Procs, NEW s \in Resources, remoteSystemGates'[q][s] # Nothing
          PROVE  LET x == remoteSystemGates'[q][s]
                 IN  /\ obj'[x].live /\ obj'[x].resourceId = s
                     /\ \A u \in Threads : thread'[u].obj = x => On[u] = q
      <4>1. CASE q = p /\ s = r
        <5>1. remoteSystemGates'[q][s] = o /\ obj'[o] = n
          BY <2>g, <2>o, <4>1
        <5>2. \A u \in Threads : thread'[u].obj = o => On[u] = q
          BY <1>2, <1>3, <2>h, <4>1
        <5> QED BY <2>1, <4>1, <5>1, <5>2
      <4>2. CASE ~ (q = p /\ s = r)
        <5>1. PICK x \in Objects : x = remoteSystemGates[q][s] /\ x = remoteSystemGates'[q][s]
          BY <1>t, <2>g, <3>1, <4>2 DEF TypeOK
        <5>2. /\ obj[x].live /\ obj[x].resourceId = s
              /\ \A u \in Threads : thread[u].obj = x => On[u] = q
          <6>1. remoteSystemGates[q][s] # Nothing
            BY <3>1, <5>1
          <6>2. /\ obj[remoteSystemGates[q][s]].live /\ obj[remoteSystemGates[q][s]].resourceId = s
                /\ \A u \in Threads : thread[u].obj = remoteSystemGates[q][s] => On[u] = q
            BY <6>1 DEF GateInv, TableSound
          <6> QED BY <5>1, <6>2
        <5>3. x # o
          BY <2>n, <5>2
        <5> QED BY <2>2, <2>h, <2>o, <5>1, <5>2, <5>3
      <4> QED BY <4>1, <4>2
    <3>2. ASSUME NEW u \in Threads, At(u, "release")'
          PROVE  \A q \in Procs : \A s \in Resources : remoteSystemGates'[q][s] # thread'[u].obj
      <4>1. thread'[u] = thread[u] /\ At(u, "release") /\ thread[u].obj # o
        BY <1>3, <2>2, <2>h, <3>2 DEF At
      <4> QED BY <2>g, <4>1 DEF GateInv, TableSound
    <3>3. \A u, v \in Threads : thread'[u].obj = thread'[v].obj =>
                                 thread'[u].obj = Nothing \/ On[u] = On[v]
      BY <1>3, <2>2, <2>h DEF GateInv, TableSound
    <3> QED BY <3>1, <3>2, <3>3 DEF TableSound
  <2>9. FlagsOwned => FlagsOwned'
    BY <1>1, <2>s, OwnedKept
  <2>10. ASSUME HandlesSound PROVE HandlesSound'
    <3> SUFFICES ASSUME ~ raced' PROVE HandlesSound'
      BY DEF HandlesSound
    <3>1. ~ raced /\ ~ Finalizing(Nothing, b)
      BY <1>5, <1>t DEF TypeOK
    <3>2. ASSUME NEW x \in Objects, Serves(x) PROVE x # o /\ Serves(x)'
      <4>1. x # o
        BY <2>n, <3>2 DEF Serves
      <4>2. ASSUME NEW v \in Threads, At(v, "created"), Obj(v).block = obj[x].block
            PROVE  At(v, "created")' /\ Obj(v)'.block = Obj(v).block
        <5>1. PICK y \in Objects : y = thread[v].obj
          BY <4>2, Held DEF At
        <5> QED BY <1>1, <1>3, <2>h, <2>o, <4>2, <5>1 DEF At, Obj
      <4>3. obj'[x] = obj[x] /\ attrs' = attrs
        BY <1>1, <2>o, <4>1
      <4>4. obj'[x].live /\ attrs'[obj[x].block].created
        BY <3>2, <4>3 DEF Serves
      <4> QED BY <3>2, <4>1, <4>2, <4>3, <4>4, ServesKept
    <3>3. \A u \in Threads \ {t} : At(u, "checked") => attrs'[thread[u].addr].created
      BY <1>1, <2>10, <3>1 DEF HandlesSound, HandleSound
    <3>4. ASSUME NEW u \in Threads \ {t}, NEW x \in Objects, x = thread[u].obj, At(u, "opened") \/ Closing(u)
          PROVE  /\ Serves(x)' /\ obj'[x].block = obj[x].block /\ obj'[x].resourceId = obj[x].resourceId
                 /\ remoteSystemGates'[On[u]][obj[x].resourceId] =
                        remoteSystemGates[On[u]][obj[x].resourceId]
      <4>1. Serves(x) /\ Serves(x)' /\ x # o /\ remoteSystemGates[On[u]][obj[x].resourceId] = x
        BY <2>10, <3>1, <3>2, <3>4, HandleServes
      <4>2. obj[x].resourceId \in Resources
        BY <4>1 DEF Serves, GateInv, AttrsSound
      <4>3. remoteSystemGates'[On[u]][obj[x].resourceId] = remoteSystemGates[On[u]][obj[x].resourceId]
        BY <1>5, <1>t, <2>g, <4>1, <4>2
      <4> QED BY <2>o, <4>1, <4>3
    <3>5. \A u \in Threads \ {t} : \A x \in Objects :
             x = thread[u].obj /\ thread[u].pc \in {"finalize", "unlist"} =>
                /\ obj'[x].created = obj[x].created
                /\ Closing(u) => obj'[x].numOpens = obj[x].numOpens
      BY <1>3, <2>o
    <3>6. Serves(o)'
      <4>1. attrs[b].created
        BY <1>1, <1>2, <2>10, <3>1 DEF HandlesSound, HandleSound, At
      <4>2. PICK u \in Threads : /\ thread[u].pc \in {"created", "finalize"} /\ Gate(u, b)
                                 /\ Obj(u).resourceId = r
        BY <1>2, <4>1 DEF GateInv, AttrsSound
      <4>3. PICK y \in Objects : y = thread[u].obj
        BY <4>2, Held
      <4>4. At(u, "created") /\ obj[y].block = b /\ u # t /\ y # o
        BY <1>1, <1>3, <3>1, <4>2, <4>3 DEF Finalizing, Gate, Obj, At
      <4>5. At(u, "created")' /\ Obj(u)'.block = b
        BY <2>h, <2>o, <4>3, <4>4 DEF At, Obj
      <4> QED BY <1>1, <1>2, <2>1, <2>o, <4>1, <4>5 DEF Serves
    <3>7. \A x \in Objects : obj'[x].live /\ ~ obj'[x].created => Serves(x)'
      BY <2>10, <2>o, <3>1, <3>2, <3>6 DEF HandlesSound
    <3>8. HandleSound(t)' /\ ~ Closing(t)'
      <4>1. thread'[t].pc = "opened" /\ thread'[t].obj = o /\ thread'[t].addr = b
        BY <2>2, <2>h
      <4>2. (Serves(o)' <=> Serves(thread[t].obj)') /\ Obj(t)' = n
        BY <2>o, <4>1 DEF Serves, Obj
      <4> QED BY <1>2, <2>1, <2>g, <3>6, <4>1, <4>2 DEF HandleSound, Closing, At
    <3> QED BY <2>2, <2>10, <3>1, <3>3, <3>4, <3>5, <3>7, <3>8, HandlesKept
  <2> QED BY <2>3, <2>4, <2>5, <2>6, <2>7, <2>8, <2>9, <2>10 DEF GateInv
<1> QED BY <1>2, <1>3, <1>4, <1>5 DEF OpenRemote

LEMMA CloseKeeps ==
    ASSUME GateInv, NEW t \in Threads, Close(t)
    PROVE  GateInv' /\ (FlagsOwned => FlagsOwned') /\ (HandlesSound => HandlesSound')
<1>t. /\ TypeOK /\ thread \in [Threads -> ThreadRecords] /\ obj \in [Objects -> ObjectRecords]
      /\ Nothing \notin Objects /\ Nothing \notin Resources /\ Idle \in ThreadRecords
  BY Types DEF GateInv
<1>1. /\ thread[t].pc = "opened"
      /\ UNCHANGED <<inUse, attrs, nameServer, remoteSystemGates, raced, exhausted>>
  BY DEF Close, At, shared, history
<1>2. PICK o \in Objects : o = thread[t].obj
  BY <1>1, Held
<1>3. /\ obj[o].numOpens \in Nat /\ obj[o].numOpens > 0 /\ obj[o].live
      /\ obj[o].numOpens = Cardinality(Openers(o))
  <2>1. obj[o] \in ObjectRecords /\ obj[o].numOpens > 0
    BY <1>2, <1>t DEF Close, Obj
  <2>2. obj[o] # NoObject
    BY <2>1 DEF NoObject
  <2> QED BY <2>1, <2>2 DEF ObjectRecords, GateInv, ObjectsSound, ObjectSound
<1>4. PICK n \in ObjectRecords :
         /\ obj' = [obj EXCEPT ![o] = n] /\ n.live = obj[o].live /\ n.created = obj[o].created
         /\ n.block = obj[o].block /\ n.resourceId = obj[o].resourceId
         /\ n.numOpens = obj[o].numOpens - 1
  <2>1. obj' = [obj EXCEPT ![o].numOpens = obj[o].numOpens - 1] /\ obj[o].numOpens - 1 \in Nat
    BY <1>2, <1>3 DEF Close
  <2> QED BY <1>t, <2>1, NumOpensSet
<1>5. PICK h \in ThreadRecords :
         /\ thread' = [thread EXCEPT ![t] = h]
         /\ \/ /\ obj[o].numOpens = 1 /\ ~ obj[o].created
               /\ h.pc = "finalize" /\ h.obj = o
            \/ /\ obj[o].numOpens # 1 \/ obj[o].created
               /\ h.pc = "idle" /\ h.obj = Nothing
  <2>1. CASE obj[o].numOpens = 1 /\ ~ obj[o].created
    <3>1. Goto(t, "finalize")
      BY <1>2, <2>1 DEF Close, Obj
    <3> QED BY <1>2, <1>t, <2>1, <3>1, GotoEffect DEF ThreadLabels
  <2>2. CASE obj[o].numOpens # 1 \/ obj[o].created
    <3>1. thread' = [thread EXCEPT ![t] = Idle]
      BY <1>2, <2>2 DEF Close, Obj
    <3>2. Idle.pc = "idle" /\ Idle.obj = Nothing
      BY DEF Idle
    <3> QED BY <1>t, <2>2, <3>1, <3>2
  <2> QED BY <2>1, <2>2
<1>h. \A u \in Threads : thread'[u] = IF u = t THEN h ELSE thread[u]
  BY <1>5, <1>t
<1>o. \A x \in Objects : obj'[x] = IF x = o THEN n ELSE obj[x]
  BY <1>4, <1>t
<1>s. \A x \in Objects : SameMakers(x)
  BY <1>4, <1>o DEF SameMakers
<1>6. TypeOK'
  <2>1. thread' \in [Threads -> ThreadRecords] /\ obj' \in [Objects -> ObjectRecords]
    BY <1>4, <1>5, <1>t
  <2> QED BY <1>1, <1>t, <2>1 DEF TypeOK, ThreadRecords, ThreadLabels, ObjectRecords
<1>7. ThreadsSound'
  <2>1. ThreadSound(t)'
    BY <1>5, <1>h, <1>t DEF ThreadSound, Obj, At
  <2>2. \A x \in Objects : obj'[x].created = obj[x].created /\ obj'[x].resourceId = obj[x].resourceId
    BY <1>4, <1>o
  <2> QED BY <1>1, <1>5, <2>1, <2>2, OthersKept
<1>8. ObjectsSound'
  <2>1. ASSUME NEW x \in Objects \ {o} PROVE ObjectSound(x)'
    <3>1. Makes(t, x) <=> h.obj = x /\ h.pc \in MakerLabels
      BY <1>1, <1>2, <1>5, <1>t DEF Makes, MakerLabels
    <3>2. At(t, "opened") /\ thread[t].obj = x <=> h.pc = "opened" /\ h.obj = x
      BY <1>1, <1>2, <1>5 DEF At
    <3> QED BY <1>5, <1>o, <1>t, <3>1, <3>2, ObjectKept DEF GateInv, ObjectsSound
  <2>2. ObjectSound(o)'
    <3>1. t \in Openers(o) /\ ~ (h.pc = "opened" /\ h.obj = o)
      BY <1>1, <1>2, <1>5 DEF Openers, At
    <3>2. Cardinality(Openers(o))' = Cardinality(Openers(o)) - 1
      BY <1>5, <1>t, <3>1, OpenersEffect
    <3>3. (Openers(o) # {})' <=> (Cardinality(Openers(o)) > 0)'
      BY <1>5, <1>t, OpenersEffect
    <3>4. \A u \in Threads \ {t} : Makes(u, o)' <=> Makes(u, o)
      BY <1>h DEF Makes
    <3>5. ~ Makes(t, o)
      BY <1>1 DEF Makes, MakerLabels
    <3>6. obj'[o] = n /\ ObjectSound(o)
      BY <1>o DEF GateInv, ObjectsSound
    <3>7. CASE obj[o].numOpens = 1 /\ ~ obj[o].created
      <4>1. Makes(t, o)'
        BY <1>5, <1>h, <3>7 DEF Makes, MakerLabels
      <4> QED BY <1>3, <1>4, <3>2, <3>6, <3>7, <4>1 DEF ObjectSound
    <3>8. CASE obj[o].created
      <4>1. ~ Makes(t, o)'
        BY <1>5, <1>h, <1>t, <3>8 DEF Makes
      <4> QED BY <1>3, <1>4, <3>2, <3>4, <3>5, <3>6, <3>8, <4>1 DEF ObjectSound
    <3>9. CASE obj[o].numOpens # 1 /\ ~ obj[o].created
      <4>1. (Openers(o) # {})'
        BY <1>3, <3>2, <3>3, <3>9
      <4> QED BY <1>3, <1>4, <3>2, <3>6, <3>9, <4>1 DEF ObjectSound
    <3> QED BY <3>7, <3>8, <3>9
  <2> QED BY <2>1, <2>2 DEF ObjectsSound
<1>9. FlagsSound'
  BY <1>1, <1>s, FlagsKept DEF GateInv
<1>10. AttrsSound'
  BY <1>1, <1>5, <1>s, AttrsKept
<1>11. TableSound'
  <2>1. \A x \in Objects : obj[x].live => obj'[x].live /\ obj'[x].resourceId = obj[x].resourceId
    BY <1>4, <1>o
  <2>2. h.pc # "release" /\ (h.obj = thread[t].obj \/ h.obj = Nothing)
    BY <1>2, <1>5
  <2> QED BY <1>1, <1>5, <2>1, <2>2, TableKept
<1>12. FlagsOwned => FlagsOwned'
  BY <1>1, <1>s, OwnedKept
<1>13. ASSUME HandlesSound PROVE HandlesSound'
  <2> SUFFICES ASSUME ~ raced' PROVE HandlesSound'
    BY DEF HandlesSound
  <2>1. ~ raced
    BY <1>1
  <2>k. \A x \in Objects : /\ obj'[x].live = obj[x].live /\ obj'[x].created = obj[x].created
                           /\ obj'[x].block = obj[x].block /\ obj'[x].resourceId = obj[x].resourceId
                           /\ x # o => obj'[x] = obj[x]
    BY <1>4, <1>o
  <2>2. ASSUME NEW x \in Objects, Serves(x) PROVE Serves(x)'
    <3>1. ASSUME NEW v \in Threads, At(v, "created"), Obj(v).block = obj[x].block
          PROVE  At(v, "created")' /\ Obj(v)'.block = Obj(v).block
      <4>1. PICK y \in Objects : y = thread[v].obj
        BY <3>1, Held DEF At
      <4> QED BY <1>1, <1>h, <2>k, <3>1, <4>1 DEF At, Obj
    <3>2. obj[x].live /\ attrs[obj[x].block].created
      BY <2>2 DEF Serves
    <3> QED BY <1>1, <2>2, <2>k, <3>1, <3>2, ServesKept
  <2>3. \A u \in Threads \ {t} : At(u, "checked") => attrs'[thread[u].addr].created
    BY <1>1, <1>13, <2>1 DEF HandlesSound, HandleSound
  <2>4. ASSUME NEW u \in Threads \ {t}, NEW x \in Objects, x = thread[u].obj, At(u, "opened") \/ Closing(u)
        PROVE  /\ Serves(x)' /\ obj'[x].block = obj[x].block /\ obj'[x].resourceId = obj[x].resourceId
               /\ remoteSystemGates'[On[u]][obj[x].resourceId] = remoteSystemGates[On[u]][obj[x].resourceId]
    BY <1>1, <1>13, <2>1, <2>2, <2>4, <2>k, HandleServes
  <2>5. \A u \in Threads : Closing(u) => thread[u].obj # o
    \* who ends an object has found that nobody has it open
    BY <1>3, <1>13, <2>1 DEF HandlesSound, HandleSound, Obj
  <2>6. \A u \in Threads \ {t} : \A x \in Objects :
           x = thread[u].obj /\ thread[u].pc \in {"finalize", "unlist"} =>
              /\ obj'[x].created = obj[x].created
              /\ Closing(u) => obj'[x].numOpens = obj[x].numOpens
    BY <2>5, <2>k
  <2>7. \A x \in Objects : obj'[x].live /\ ~ obj'[x].created => Serves(x)'
    BY <1>13, <2>1, <2>2, <2>k DEF HandlesSound
  <2>8. HandleSound(t)'
    <3>1. CASE h.pc = "finalize" /\ h.obj = o /\ obj[o].numOpens = 1
      <4>1. Obj(t)' = n /\ thread'[t].pc = "finalize" /\ thread'[t].obj = o
        BY <1>h, <1>o, <3>1 DEF Obj
      <4>2. n.live /\ n.numOpens = 0
        BY <1>3, <1>4, <3>1
      <4>3. remoteSystemGates'[On[t]][n.resourceId] = o
        BY <1>1, <1>2, <1>4, <1>13, <2>1 DEF HandlesSound, HandleSound, At, Obj
      <4> QED BY <4>1, <4>2, <4>3 DEF HandleSound, At
    <3>2. CASE h.pc = "idle"
      BY <1>h, <3>2 DEF HandleSound, At, Closing
    <3> QED BY <1>5, <3>1, <3>2
  <2>9. ASSUME NEW u \in Threads \ {t}, Closing(u), thread[u].obj = h.obj PROVE ~ Closing(t)'
    <3>1. h.obj # o
      BY <2>5, <2>9
    <3>2. h.pc = "idle"
      BY <1>5, <3>1
    <3> QED BY <1>h, <3>2 DEF Closing
  <2> QED BY <1>5, <1>13, <2>1, <2>3, <2>4, <2>6, <2>7, <2>8, <2>9, HandlesKept
<1> QED BY <1>6, <1>7, <1>8, <1>9, <1>10, <1>11, <1>12, <1>13 DEF GateInv

LEMMA DeleteKeeps ==
    ASSUME GateInv, NEW t \in Threads, Delete(t)
    PROVE  GateInv' /\ (FlagsOwned => FlagsOwned') /\ (HandlesSound => HandlesSound')
<1>t. /\ TypeOK /\ thread \in [Threads -> ThreadRecords] /\ obj \in [Objects -> ObjectRecords]
      /\ Nothing \notin Objects /\ Nothing \notin Resources
  BY Types DEF GateInv
<1>1. /\ thread[t].pc = "created" /\ Goto(t, "finalize")
      /\ UNCHANGED <<inUse, attrs, nameServer, obj, remoteSystemGates, raced, exhausted>>
  BY DEF Delete, At, shared, history
<1>2. PICK o \in Objects : o = thread[t].obj
  BY <1>1, Held
<1>3. PICK h \in ThreadRecords : /\ thread' = [thread EXCEPT ![t] = h]
                                 /\ h.pc = "finalize" /\ h.obj = o
  BY <1>1, <1>2, <1>t, GotoEffect DEF ThreadLabels
<1>s. \A x \in Objects : SameMakers(x)
  BY <1>1 DEF SameMakers
<1>4. TypeOK'
  <2>1. thread' \in [Threads -> ThreadRecords]
    BY <1>3, <1>t
  <2> QED BY <1>1, <1>t, <2>1 DEF TypeOK, ThreadRecords, ThreadLabels
<1>5. ThreadsSound'
  <2>1. ThreadSound(t)'
    BY <1>3, <1>t DEF ThreadSound, Obj, At
  <2> QED BY <1>1, <1>3, <2>1, OthersKept
<1>6. ObjectsSound'
  <2>1. ASSUME NEW x \in Objects PROVE ObjectSound(x)'
    <3>1. Makes(t, x) <=> h.obj = x /\ h.pc \in MakerLabels
      BY <1>1, <1>2, <1>3 DEF Makes, MakerLabels
    <3>2. At(t, "opened") /\ thread[t].obj = x <=> h.pc = "opened" /\ h.obj = x
      BY <1>1, <1>3 DEF At
    <3> QED BY <1>1, <1>3, <1>t, <3>1, <3>2, ObjectKept DEF GateInv, ObjectsSound
  <2> QED BY <2>1 DEF ObjectsSound
<1>7. FlagsSound'
  BY <1>1, <1>s, FlagsKept DEF GateInv
<1>8. AttrsSound'
  BY <1>1, <1>2, <1>3, <1>s, AttrsKept
<1>9. TableSound'
  BY <1>1, <1>2, <1>3, TableKept
<1>10. FlagsOwned => FlagsOwned'
  BY <1>1, <1>s, OwnedKept
<1>11. ASSUME HandlesSound PROVE HandlesSound'
  <2> SUFFICES ASSUME ~ raced' PROVE HandlesSound'
    BY DEF HandlesSound
  <2>1. ~ raced /\ obj[o].created
    BY <1>1, <1>2 DEF GateInv, ThreadsSound, ThreadSound, Obj
  <2>2. ASSUME NEW x \in Objects, Serves(x), NEW w \in Threads \ {t}, thread[w].obj = x PROVE Serves(x)'
    <3>1. obj[x].block # obj[o].block
      BY <1>2, <1>t, <2>2 DEF Delete, Obj
    <3>2. ASSUME NEW v \in Threads, At(v, "created"), Obj(v).block = obj[x].block
          PROVE  At(v, "created")' /\ Obj(v)'.block = Obj(v).block
      BY <1>1, <1>2, <1>3, <1>t, <3>1, <3>2 DEF At, Obj
    <3>3. obj'[x].live /\ attrs'[obj[x].block].created
      BY <1>1, <2>2 DEF Serves
    <3> QED BY <1>1, <2>2, <3>2, <3>3, ServesKept
  <2>3. \A u \in Threads \ {t} : At(u, "checked") => attrs'[thread[u].addr].created
    BY <1>1, <1>11, <2>1 DEF HandlesSound, HandleSound
  <2>4. ASSUME NEW u \in Threads \ {t}, NEW x \in Objects, x = thread[u].obj, At(u, "opened") \/ Closing(u)
        PROVE  /\ Serves(x)' /\ obj'[x].block = obj[x].block /\ obj'[x].resourceId = obj[x].resourceId
               /\ remoteSystemGates'[On[u]][obj[x].resourceId] = remoteSystemGates[On[u]][obj[x].resourceId]
    <3>1. Serves(x)
      BY <1>11, <2>1, <2>4, HandleServes
    <3> QED BY <1>1, <2>2, <2>4, <3>1
  <2>5. \A u \in Threads \ {t} : \A x \in Objects :
           x = thread[u].obj /\ thread[u].pc \in {"finalize", "unlist"} =>
              /\ obj'[x].created = obj[x].created
              /\ Closing(u) => obj'[x].numOpens = obj[x].numOpens
    BY <1>1
  <2>6. ASSUME NEW x \in Objects, obj'[x].live, ~ obj'[x].created PROVE Serves(x)'
    <3>1. Serves(x) /\ x # o
      BY <1>1, <1>11, <2>1, <2>6 DEF HandlesSound
    <3>2. PICK w \in Threads : thread[w].obj = x
      BY <1>1, <2>6, LiveIsHeld
    <3> QED BY <1>2, <2>2, <3>1, <3>2
  <2>7. HandleSound(t)' /\ ~ Closing(t)'
    <3>1. Obj(t)'.created /\ thread'[t].pc = "finalize"
      BY <1>1, <1>3, <1>t, <2>1 DEF Obj
    <3> QED BY <3>1 DEF HandleSound, Closing, At
  <2> QED BY <1>3, <1>11, <2>1, <2>3, <2>4, <2>5, <2>6, <2>7, HandlesKept
<1> QED BY <1>4, <1>5, <1>6, <1>7, <1>8, <1>9, <1>10, <1>11 DEF GateInv

LEMMA UnpublishKeeps ==
    ASSUME GateInv, NEW t \in Threads, Unpublish(t)
    PROVE  GateInv' /\ (FlagsOwned => FlagsOwned') /\ (HandlesSound => HandlesSound')
<1>t. /\ TypeOK /\ thread \in [Threads -> ThreadRecords] /\ obj \in [Objects -> ObjectRecords]
      /\ Nothing \notin Objects /\ Nothing \notin Resources
  BY Types DEF GateInv
<1>1. /\ thread[t].pc = "finalize" /\ Goto(t, "unlist")
      /\ UNCHANGED <<inUse, obj, remoteSystemGates, exhausted>>
  BY DEF Unpublish, At
<1>2. PICK o \in Objects : o = thread[t].obj
  BY <1>1, Held
<1>3. PICK h \in ThreadRecords : /\ thread' = [thread EXCEPT ![t] = h]
                                 /\ h.pc = "unlist" /\ h.obj = o
  BY <1>1, <1>2, <1>t, GotoEffect DEF ThreadLabels
<1>h. \A u \in Threads : thread'[u] = IF u = t THEN h ELSE thread[u]
  BY <1>3, <1>t
<1>s. \A x \in Objects : SameMakers(x)
  BY <1>1 DEF SameMakers
<1>c. obj[o].created => obj[o].block \in Blocks
  BY DEF GateInv, ObjectsSound, ObjectSound, NoObject
<1>a. /\ attrs' \in [Blocks -> [created : BOOLEAN, arg : Resources \cup {Nothing}]]
      /\ \A c \in Blocks :
            /\ attrs'[c].created <=> attrs[c].created /\ ~ (obj[o].created /\ obj[o].block = c)
            /\ attrs'[c].arg = attrs[c].arg
  <2>1. attrs \in [Blocks -> [created : BOOLEAN, arg : Resources \cup {Nothing}]]
    BY <1>t DEF TypeOK
  <2>2. CASE obj[o].created
    <3>1. PICK b \in Blocks : b = obj[o].block
      BY <1>c, <2>2
    <3>2. attrs' = [attrs EXCEPT ![b].created = FALSE]
      BY <1>2, <2>2, <3>1 DEF Unpublish, Obj
    <3>3. \A c \in Blocks : attrs'[c] = IF c = b THEN [attrs[b] EXCEPT !.created = FALSE] ELSE attrs[c]
      BY <2>1, <3>2
    <3>4. PICK a \in [created : BOOLEAN, arg : Resources \cup {Nothing}] : a = attrs[b]
      BY <2>1
    <3> DEFINE a2 == [a EXCEPT !.created = FALSE]
    <3>5. a2 \in [created : BOOLEAN, arg : Resources \cup {Nothing}] /\ ~ a2.created /\ a2.arg = a.arg
      OBVIOUS
    <3>6. attrs' = [attrs EXCEPT ![b] = a2]
      BY <3>2, <3>4
    <3> HIDE DEF a2
    <3> QED BY <2>1, <2>2, <3>1, <3>4, <3>5, <3>6
  <2>3. CASE ~ obj[o].created
    <3>1. attrs' = attrs
      BY <1>2, <2>3 DEF Unpublish, Obj
    <3> QED BY <2>1, <2>3, <3>1
  <2> QED BY <2>2, <2>3
<1>4. TypeOK'
  <2>1. thread' \in [Threads -> ThreadRecords]
    BY <1>3, <1>t
  <2>2. nameServer' \in [Procs -> Blocks \cup {Nothing}]
    BY <1>t DEF Unpublish, TypeOK
  <2>3. raced' \in BOOLEAN
    BY DEF Unpublish
  <2> QED BY <1>1, <1>a, <1>t, <2>1, <2>2, <2>3 DEF TypeOK, ThreadRecords, ThreadLabels
<1>5. ThreadsSound'
  <2>1. ThreadSound(t)'
    BY <1>3, <1>t DEF ThreadSound, Obj, At
  <2> QED BY <1>1, <1>3, <1>a, <2>1, OthersKept
<1>6. ObjectsSound'
  <2>1. ASSUME NEW x \in Objects PROVE ObjectSound(x)'
    <3>1. Makes(t, x) <=> h.obj = x /\ h.pc \in MakerLabels
      BY <1>1, <1>2, <1>3 DEF Makes, MakerLabels
    <3>2. At(t, "opened") /\ thread[t].obj = x <=> h.pc = "opened" /\ h.obj = x
      BY <1>1, <1>3 DEF At
    <3> QED BY <1>1, <1>3, <1>t, <3>1, <3>2, ObjectKept DEF GateInv, ObjectsSound
  <2> QED BY <2>1 DEF ObjectsSound
<1>7. FlagsSound'
  BY <1>1, <1>s, FlagsKept DEF GateInv
<1>8. AttrsSound'
  <2>1. ASSUME NEW c \in Blocks, attrs'[c].created
        PROVE  /\ attrs'[c].arg \in Resources
               /\ \E u \in Threads : /\ thread'[u].pc \in {"created", "finalize"} /\ Gate(u, c)'
                                     /\ Obj(u)'.resourceId = attrs'[c].arg
    <3>1. attrs[c].created /\ ~ (obj[o].created /\ obj[o].block = c) /\ attrs'[c].arg = attrs[c].arg
      BY <1>a, <2>1
    <3>2. PICK u \in Threads : /\ thread[u].pc \in {"created", "finalize"} /\ Gate(u, c)
                               /\ Obj(u).resourceId = attrs[c].arg
      BY <3>1 DEF GateInv, AttrsSound
    <3>3. u # t /\ attrs[c].arg \in Resources
      BY <1>2, <3>1, <3>2 DEF Gate, Obj, GateInv, AttrsSound
    <3> QED BY <1>1, <1>h, <3>1, <3>2, <3>3 DEF Gate, Obj
  <2>2. \A x, y \in Objects : obj'[x].created /\ obj'[y].created /\ obj'[x].block = obj'[y].block => x = y
    BY <1>1 DEF GateInv, AttrsSound
  <2> QED BY <2>1, <2>2 DEF AttrsSound
<1>9. TableSound'
  BY <1>1, <1>2, <1>3, TableKept
<1>10. FlagsOwned => FlagsOwned'
  BY <1>1, <1>s, OwnedKept
<1>11. ASSUME HandlesSound PROVE HandlesSound'
  <2> SUFFICES ASSUME ~ raced' PROVE HandlesSound'
    BY DEF HandlesSound
  <2>1. /\ ~ raced
        /\ obj[o].created => \A u \in Threads : At(u, "checked") => thread[u].addr # obj[o].block
    BY <1>2, <1>t DEF Unpublish, TypeOK, Obj
  <2>2. ASSUME NEW x \in Objects, Serves(x) PROVE Serves(x)'
    <3>1. Makes(t, o) /\ ~ At(t, "created")
      BY <1>1, <1>2 DEF Makes, MakerLabels, At
    <3>2. ~ (obj[o].created /\ obj[o].block = obj[x].block)
      BY <2>2, <3>1, Server
    <3>3. ASSUME NEW v \in Threads, At(v, "created"), Obj(v).block = obj[x].block
          PROVE  At(v, "created")' /\ Obj(v)'.block = Obj(v).block
      BY <1>1, <1>h, <3>3 DEF At, Obj
    <3>4. obj[x].live /\ attrs[obj[x].block].created /\ obj[x].block \in Blocks
      BY <2>2 DEF Serves
    <3>5. attrs'[obj[x].block].created /\ attrs'[obj[x].block].arg = attrs[obj[x].block].arg
      BY <1>a, <3>2, <3>4
    <3> QED BY <1>1, <2>2, <3>3, <3>4, <3>5, ServesKept
  <2>3. ASSUME NEW u \in Threads \ {t}, At(u, "checked") PROVE attrs'[thread[u].addr].created
    <3>1. thread[u].addr \in Blocks /\ attrs[thread[u].addr].created
      BY <1>11, <2>1, <2>3 DEF HandlesSound, HandleSound, GateInv, ThreadsSound, ThreadSound, At
    <3> QED BY <1>a, <2>1, <2>3, <3>1
  <2>4. ASSUME NEW u \in Threads \ {t}, NEW x \in Objects, x = thread[u].obj, At(u, "opened") \/ Closing(u)
        PROVE  /\ Serves(x)' /\ obj'[x].block = obj[x].block /\ obj'[x].resourceId = obj[x].resourceId
               /\ remoteSystemGates'[On[u]][obj[x].resourceId] = remoteSystemGates[On[u]][obj[x].resourceId]
    BY <1>1, <1>11, <2>1, <2>2, <2>4, HandleServes
  <2>5. \A u \in Threads \ {t} : \A x \in Objects :
           x = thread[u].obj /\ thread[u].pc \in {"finalize", "unlist"} =>
              /\ obj'[x].created = obj[x].created
              /\ Closing(u) => obj'[x].numOpens = obj[x].numOpens
    BY <1>1
  <2>6. \A x \in Objects : obj'[x].live /\ ~ obj'[x].created => Serves(x)'
    BY <1>1, <1>11, <2>1, <2>2 DEF HandlesSound
  <2>7. HandleSound(t)' /\ (Closing(t)' => Closing(t))
    <3>1. thread'[t].pc = "unlist" /\ thread'[t].obj = o /\ Obj(t)' = obj[o]
      BY <1>1, <1>3, <1>h DEF Obj
    <3>2. Closing(t)' => Closing(t)
      BY <1>1, <1>2, <3>1 DEF Closing, Obj
    <3>3. Closing(t) => obj[o].live /\ obj[o].numOpens = 0 /\ remoteSystemGates[On[t]][obj[o].resourceId] = o
      BY <1>2, <1>11, <2>1 DEF HandlesSound, HandleSound, Obj
    <3> QED BY <1>1, <3>1, <3>2, <3>3 DEF HandleSound, At
  <2>8. \A u \in Threads \ {t} : Closing(u) /\ thread[u].obj = h.obj => ~ Closing(t)'
    BY <1>2, <1>3, <1>11, <2>1, <2>7 DEF HandlesSound
  <2> QED BY <1>3, <1>11, <2>1, <2>3, <2>4, <2>5, <2>6, <2>7, <2>8, HandlesKept
<1> QED BY <1>4, <1>5, <1>6, <1>7, <1>8, <1>9, <1>10, <1>11 DEF GateInv

\* An object that no table lists any more, or that is taken out of it, is freed.
LEMMA FreeKeeps ==
    ASSUME GateInv, NEW t \in Threads, thread[t].pc \in {"unlist", "release"}, Free(t), UNCHANGED attrs,
           \A p \in Procs : \A r \in Resources :
              /\ remoteSystemGates'[p][r] \in {Nothing, remoteSystemGates[p][r]}
              /\ remoteSystemGates'[p][r] # thread[t].obj
    PROVE  /\ thread' \in [Threads -> ThreadRecords] /\ obj' \in [Objects -> ObjectRecords]
           /\ ThreadsSound' /\ ObjectsSound' /\ AttrsSound' /\ TableSound'
           /\ \A x \in Objects : obj'[x] = IF x = thread[t].obj THEN NoObject ELSE obj[x]
<1>t. /\ TypeOK /\ thread \in [Threads -> ThreadRecords] /\ obj \in [Objects -> ObjectRecords]
      /\ Nothing \notin Objects /\ Nothing \notin Resources
      /\ NoObject \in ObjectRecords /\ Idle \in ThreadRecords
  BY Types DEF GateInv
<1>1. PICK o \in Objects : o = thread[t].obj
  BY Held
<1>2. PICK h \in ThreadRecords : /\ thread' = [thread EXCEPT ![t] = h]
                                 /\ h.pc = "idle" /\ h.obj = Nothing
  <2>1. Idle.pc = "idle" /\ Idle.obj = Nothing
    BY DEF Idle
  <2>2. thread' = [thread EXCEPT ![t] = Idle]
    BY DEF Free
  <2> QED BY <1>t, <2>1, <2>2
<1>3. PICK n \in ObjectRecords : /\ obj' = [obj EXCEPT ![o] = n] /\ n = NoObject
                                 /\ ~ n.live /\ ~ n.created
  <2>1. ~ NoObject.live /\ ~ NoObject.created
    BY DEF NoObject
  <2> QED BY <1>1, <1>t, <2>1 DEF Free
<1>h. \A u \in Threads : thread'[u] = IF u = t THEN h ELSE thread[u]
  BY <1>2, <1>t
<1>o. \A x \in Objects : obj'[x] = IF x = o THEN n ELSE obj[x]
  BY <1>3, <1>t
<1>m. \A u \in Threads : obj[o].created /\ Makes(u, o) => u = t
  <2>1. Makes(t, o)
    BY <1>1 DEF Makes, MakerLabels
  <2> QED BY <2>1 DEF GateInv, ObjectsSound, ObjectSound
<1>4. ThreadsSound'
  <2>1. ThreadSound(t)'
    BY <1>2, <1>h, <1>t DEF ThreadSound, Obj, At
  <2>2. ASSUME NEW u \in Threads \ {t} PROVE ThreadSound(u)'
    <3>1. thread'[u] = thread[u] /\ ThreadSound(u) /\ thread[u] \in ThreadRecords
      BY <1>h, <1>t DEF GateInv, ThreadsSound
    <3>2. ASSUME thread[u].pc \in {"proxy", "publish", "created", "release"}
          PROVE  thread[u].obj \in Objects \ {o}
      <4>1. PICK x \in Objects : x = thread[u].obj
        BY <3>2, Held
      <4>2. obj[x].created /\ Makes(u, x)
        BY <3>1, <3>2, <4>1 DEF ThreadSound, Obj, Makes, MakerLabels
      <4> QED BY <1>m, <4>1, <4>2
    <3> QED BY <1>o, <3>1, <3>2 DEF ThreadSound, Obj, At
  <2> QED BY <2>1, <2>2 DEF ThreadsSound
<1>5. ObjectsSound'
  <2>1. ASSUME NEW x \in Objects \ {o} PROVE ObjectSound(x)'
    <3>1. Makes(t, x) <=> h.obj = x /\ h.pc \in MakerLabels
      BY <1>1, <1>2, <1>t DEF Makes, MakerLabels
    <3>2. At(t, "opened") /\ thread[t].obj = x <=> h.pc = "opened" /\ h.obj = x
      BY <1>1, <1>2 DEF At
    <3> QED BY <1>2, <1>o, <1>t, <3>1, <3>2, ObjectKept DEF GateInv, ObjectsSound
  <2>2. ObjectSound(o)'
    <3>1. obj'[o] = n
      BY <1>o
    <3> QED BY <1>3, <3>1 DEF ObjectSound
  <2> QED BY <2>1, <2>2 DEF ObjectsSound
<1>6. AttrsSound'
  <2>1. ASSUME NEW c \in Blocks, attrs'[c].created
        PROVE  /\ attrs'[c].arg \in Resources
               /\ \E u \in Threads : /\ thread'[u].pc \in {"created", "finalize"} /\ Gate(u, c)'
                                     /\ Obj(u)'.resourceId = attrs'[c].arg
    <3>1. PICK u \in Threads : /\ thread[u].pc \in {"created", "finalize"} /\ Gate(u, c)
                               /\ Obj(u).resourceId = attrs[c].arg
      BY <2>1 DEF GateInv, AttrsSound
    <3>2. PICK x \in Objects : x = thread[u].obj
      BY <3>1, Held
    <3>3. u # t /\ x # o
      BY <1>m, <3>1, <3>2 DEF Gate, Obj, Makes, MakerLabels
    <3>4. attrs[c].arg \in Resources
      BY <2>1 DEF GateInv, AttrsSound
    <3> QED BY <1>h, <1>o, <3>1, <3>2, <3>3, <3>4 DEF Gate, Obj
  <2>2. \A x, y \in Objects : obj'[x].created /\ obj'[y].created /\ obj'[x].block = obj'[y].block => x = y
    BY <1>3, <1>o DEF GateInv, AttrsSound
  <2> QED BY <2>1, <2>2 DEF AttrsSound
<1>7. TableSound'
  <2>1. ASSUME NEW p \in Procs, NEW r \in Resources, remoteSystemGates'[p][r] # Nothing
        PROVE  LET x == remoteSystemGates'[p][r]
               IN  /\ obj'[x].live /\ obj'[x].resourceId = r
                   /\ \A u \in Threads : thread'[u].obj = x => On[u] = p
    <3>1. remoteSystemGates[p][r] \in Objects \cup {Nothing}
      BY <1>t DEF TypeOK
    <3>2. PICK x \in Objects : x = remoteSystemGates[p][r] /\ x = remoteSystemGates'[p][r] /\ x # o
      BY <1>1, <2>1, <3>1
    <3>3. remoteSystemGates[p][r] # Nothing
      BY <1>t, <3>2
    <3>4. /\ obj[remoteSystemGates[p][r]].live /\ obj[remoteSystemGates[p][r]].resourceId = r
          /\ \A u \in Threads : thread[u].obj = remoteSystemGates[p][r] => On[u] = p
      BY <3>3 DEF GateInv, TableSound
    <3> QED BY <1>2, <1>h, <1>o, <1>t, <3>2, <3>4
  <2>2. ASSUME NEW u \in Threads, At(u, "release")'
        PROVE  \A p \in Procs : \A r \in Resources : remoteSystemGates'[p][r] # thread'[u].obj
    <3>1. thread'[u] = thread[u] /\ At(u, "release")
      BY <1>2, <1>h, <2>2 DEF At
    <3>2. thread[u].obj # Nothing
      BY <3>1 DEF At, GateInv, ThreadsSound, ThreadSound
    <3>3. \A p \in Procs : \A r \in Resources : remoteSystemGates[p][r] # thread[u].obj
      BY <3>1 DEF GateInv, TableSound
    <3> QED BY <3>1, <3>2, <3>3
  <2>3. \A u, v \in Threads : thread'[u].obj = thread'[v].obj =>
                               thread'[u].obj = Nothing \/ On[u] = On[v]
    BY <1>2, <1>h DEF GateInv, TableSound
  <2> QED BY <2>1, <2>2, <2>3 DEF TableSound
<1>8. thread' \in [Threads -> ThreadRecords] /\ obj' \in [Objects -> ObjectRecords]
  BY <1>2, <1>3, <1>t
<1> QED BY <1>1, <1>3, <1>4, <1>5, <1>6, <1>7, <1>8, <1>o

\* The handles, when an object is freed that nobody has open and nobody else ends.
LEMMA FreeHandles ==
    ASSUME GateInv, HandlesSound, ~ raced,
           NEW t \in Threads, thread[t].pc \in {"unlist", "release"}, Free(t), UNCHANGED attrs,
           NEW o \in Objects, o = thread[t].obj,
           \A x \in Objects : obj'[x] = IF x = o THEN NoObject ELSE obj[x],
           \A u \in Threads \ {t} : At(u, "opened") \/ Closing(u) =>
              \E x \in Objects : /\ x = thread[u].obj /\ Serves(x) /\ x # o
                                 /\ remoteSystemGates'[On[u]][obj[x].resourceId] =
                                        remoteSystemGates[On[u]][obj[x].resourceId]
    PROVE  HandlesSound'
<1>1. PICK h \in ThreadRecords : /\ thread' = [thread EXCEPT ![t] = h]
                                 /\ h.pc = "idle" /\ h.obj = Nothing
  <2>1. Idle.pc = "idle" /\ Idle.obj = Nothing
    BY DEF Idle
  <2>2. Idle \in ThreadRecords /\ thread' = [thread EXCEPT ![t] = Idle]
    BY Types DEF Free, GateInv
  <2> QED BY <2>1, <2>2
<1>h. \A u \in Threads : thread'[u] = IF u = t THEN h ELSE thread[u]
  BY <1>1, Types DEF GateInv
<1>m. ASSUME NEW u \in Threads, Makes(u, o), obj[o].created PROVE u = t
  <2>1. Makes(t, o)
    BY DEF Makes, MakerLabels
  <2> QED BY <1>m, <2>1 DEF GateInv, ObjectsSound, ObjectSound
<1>2. ASSUME NEW x \in Objects, x # o, Serves(x) PROVE Serves(x)'
  <2>1. ASSUME NEW v \in Threads, At(v, "created"), Obj(v).block = obj[x].block
        PROVE  At(v, "created")' /\ Obj(v)'.block = Obj(v).block
    <3>1. PICK y \in Objects : y = thread[v].obj
      BY <2>1, Held DEF At
    <3>2. obj[y].created /\ Makes(v, y) /\ v # t
      BY <2>1, <3>1 DEF GateInv, ThreadsSound, ThreadSound, Obj, At, Makes, MakerLabels
    <3>3. y # o
      BY <1>m, <3>2
    <3> QED BY <1>h, <2>1, <3>1, <3>2, <3>3 DEF At, Obj
  <2>2. obj'[x].live /\ attrs'[obj[x].block].created
    BY <1>2 DEF Serves
  <2> QED BY <1>2, <2>1, <2>2, ServesKept
<1>3. \A u \in Threads \ {t} : At(u, "checked") => attrs'[thread[u].addr].created
  BY DEF HandlesSound, HandleSound
<1>4. ASSUME NEW u \in Threads \ {t}, NEW x \in Objects, x = thread[u].obj, At(u, "opened") \/ Closing(u)
      PROVE  /\ Serves(x)' /\ obj'[x].block = obj[x].block /\ obj'[x].resourceId = obj[x].resourceId
             /\ remoteSystemGates'[On[u]][obj[x].resourceId] = remoteSystemGates[On[u]][obj[x].resourceId]
  <2>1. /\ Serves(x) /\ x # o
        /\ remoteSystemGates'[On[u]][obj[x].resourceId] = remoteSystemGates[On[u]][obj[x].resourceId]
    BY <1>4
  <2> QED BY <1>2, <2>1
<1>5. ASSUME NEW u \in Threads \ {t}, NEW x \in Objects, x = thread[u].obj,
             thread[u].pc \in {"finalize", "unlist"}
      PROVE  x # o
  <2>1. CASE Closing(u)
    BY <1>5, <2>1
  <2>2. CASE ~ Closing(u)
    <3>1. obj[x].created /\ Makes(u, x)
      BY <1>5, <2>2 DEF Closing, Obj, Makes, MakerLabels
    <3> QED BY <1>m, <3>1
  <2> QED BY <2>1, <2>2
<1>6. \A x \in Objects : obj'[x].live /\ ~ obj'[x].created => Serves(x)'
  BY <1>2 DEF HandlesSound, NoObject
<1>7. HandleSound(t)' /\ ~ Closing(t)'
  BY <1>1, <1>h DEF HandleSound, Closing, At
<1>8. \A u \in Threads \ {t} : \A x \in Objects :
         x = thread[u].obj /\ thread[u].pc \in {"finalize", "unlist"} =>
            /\ obj'[x].created = obj[x].created
            /\ Closing(u) => obj'[x].numOpens = obj[x].numOpens
  BY <1>5
<1> QED BY <1>1, <1>3, <1>4, <1>6, <1>7, <1>8, HandlesKept

LEMMA UnlistKeeps ==
    ASSUME GateInv, NEW t \in Threads, Unlist(t)
    PROVE  GateInv' /\ (FlagsOwned => FlagsOwned') /\ (HandlesSound => HandlesSound')
<1>t. /\ TypeOK /\ thread \in [Threads -> ThreadRecords] /\ obj \in [Objects -> ObjectRecords]
      /\ Nothing \notin Objects /\ Nothing \notin Resources
  BY Types DEF GateInv
<1>1. thread[t].pc = "unlist" /\ UNCHANGED <<inUse, attrs, nameServer, raced, exhausted>>
  BY DEF Unlist, At, shared, history
<1>2. PICK o \in Objects : o = thread[t].obj
  BY <1>1, Held
<1>3. PICK p \in Procs : p = On[t]
  OBVIOUS
<1>4. \A q \in Procs : \A s \in Resources :
         remoteSystemGates[q][s] = o => q = p /\ obj[o].resourceId = s
  <2>1. ASSUME NEW q \in Procs, NEW s \in Resources, remoteSystemGates[q][s] = o
        PROVE  q = p /\ obj[o].resourceId = s
    <3>1. remoteSystemGates[q][s] # Nothing
      BY <1>t, <2>1
    <3>2. /\ obj[remoteSystemGates[q][s]].resourceId = s
          /\ \A u \in Threads : thread[u].obj = remoteSystemGates[q][s] => On[u] = q
      BY <3>1 DEF GateInv, TableSound
    <3> QED BY <1>2, <1>3, <2>1, <3>2
  <2> QED BY <2>1
<1>5. /\ remoteSystemGates' \in [Procs -> [Resources -> Objects \cup {Nothing}]]
      /\ \A q \in Procs : \A s \in Resources :
            /\ remoteSystemGates'[q][s] \in {Nothing, remoteSystemGates[q][s]}
            /\ remoteSystemGates'[q][s] # o
            /\ (q = p /\ s = obj[o].resourceId) \/ remoteSystemGates'[q][s] = remoteSystemGates[q][s]
  <2>1. remoteSystemGates \in [Procs -> [Resources -> Objects \cup {Nothing}]]
    BY <1>t DEF TypeOK
  <2>2. CASE obj[o].resourceId = Nothing
    <3>1. remoteSystemGates' = remoteSystemGates
      BY <1>2, <2>2 DEF Unlist, Obj
    <3>2. \A q \in Procs : \A s \in Resources : remoteSystemGates[q][s] # o
      BY <1>4, <1>t, <2>2
    <3> QED BY <2>1, <3>1, <3>2
  <2>3. CASE obj[o].resourceId # Nothing
    <3>1. PICK r \in Resources : r = obj[o].resourceId
      BY <1>t, <2>3 DEF ObjectRecords
    <3>2. remoteSystemGates' = [remoteSystemGates EXCEPT ![p][r] = Nothing]
      BY <1>2, <1>3, <2>3, <3>1 DEF Unlist, Obj
    <3>3. \A q \in Procs : \A s \in Resources :
             remoteSystemGates'[q][s] = IF q = p /\ s = r THEN Nothing ELSE remoteSystemGates[q][s]
      BY <2>1, <3>2
    <3>4. remoteSystemGates' \in [Procs -> [Resources -> Objects \cup {Nothing}]]
      BY <2>1, <3>2
    <3> QED BY <1>4, <1>t, <3>1, <3>3, <3>4
  <2> QED BY <2>2, <2>3
<1>u. ASSUME HandlesSound, ~ raced, NEW u \in Threads \ {t}, At(u, "opened") \/ Closing(u)
      PROVE  \E x \in Objects : /\ x = thread[u].obj /\ Serves(x) /\ x # o
                                /\ remoteSystemGates'[On[u]][obj[x].resourceId] =
                                       remoteSystemGates[On[u]][obj[x].resourceId]
  <2>1. PICK x \in Objects : /\ x = thread[u].obj /\ Serves(x)
                            /\ remoteSystemGates[On[u]][obj[x].resourceId] = x
    BY <1>u, HandleServes
  <2>2. obj[x].resourceId \in Resources /\ On[u] \in Procs
    BY <2>1 DEF Serves, GateInv, AttrsSound
  <2>3. CASE obj[o].created
    <3>1. Makes(t, o) /\ ~ At(t, "created")
      BY <1>1, <1>2 DEF Makes, MakerLabels, At
    <3>2. obj[o].block # obj[x].block /\ obj[o].resourceId # obj[x].resourceId
      BY <2>1, <2>3, <3>1, Server
    <3> QED BY <1>5, <2>1, <2>2, <3>2
  <2>4. CASE ~ obj[o].created
    <3>1. Closing(t)
      BY <1>1, <1>2, <2>4 DEF Closing, Obj
    <3>2. obj[o].live /\ obj[o].numOpens = 0 /\ remoteSystemGates[p][obj[o].resourceId] = o
      BY <1>2, <1>3, <1>u, <3>1 DEF HandlesSound, HandleSound, Obj
    <3>3. Openers(o) = {}
      <4>1. Cardinality(Openers(o)) = 0
        BY <3>2 DEF GateInv, ObjectsSound, ObjectSound
      <4>2. IsFiniteSet(Openers(o))
        BY FS_Subset DEF Openers
      <4> QED BY <4>1, <4>2, FS_EmptySet
    <3>4. x # o
      BY <1>2, <1>u, <2>1, <3>1, <3>3 DEF Openers, HandlesSound
    <3> QED BY <1>5, <2>1, <2>2, <3>2, <3>4
  <2> QED BY <2>3, <2>4
<1>6. CASE obj[o].created /\ obj[o].resourceId # Nothing
  <2>1. Goto(t, "release") /\ UNCHANGED obj
    BY <1>2, <1>6 DEF Unlist, Obj
  <2>2. PICK h \in ThreadRecords : /\ thread' = [thread EXCEPT ![t] = h]
                                   /\ h.pc = "release" /\ h.obj = o
    BY <1>2, <1>t, <2>1, GotoEffect DEF ThreadLabels
  <2>h. \A u \in Threads : thread'[u] = IF u = t THEN h ELSE thread[u]
    BY <1>t, <2>2
  <2>s. \A x \in Objects : SameMakers(x)
    BY <2>1 DEF SameMakers
  <2>3. TypeOK'
    <3>1. thread' \in [Threads -> ThreadRecords]
      BY <1>t, <2>2
    <3> QED BY <1>1, <1>5, <1>t, <2>1, <3>1 DEF TypeOK, ThreadRecords, ThreadLabels
  <2>4. ThreadsSound'
    <3>1. obj[o].resourceId \in Resources
      BY <1>6, <1>t DEF ObjectRecords
    <3>2. ThreadSound(t)'
      BY <1>6, <1>t, <2>1, <2>2, <2>h, <3>1 DEF ThreadSound, Obj, At
    <3> QED BY <1>1, <2>1, <2>2, <3>2, OthersKept
  <2>5. ObjectsSound'
    <3>1. ASSUME NEW x \in Objects PROVE ObjectSound(x)'
      <4>1. Makes(t, x) <=> h.obj = x /\ h.pc \in MakerLabels
        BY <1>1, <1>2, <2>2 DEF Makes, MakerLabels
      <4>2. At(t, "opened") /\ thread[t].obj = x <=> h.pc = "opened" /\ h.obj = x
        BY <1>1, <2>2 DEF At
      <4> QED BY <1>t, <2>1, <2>2, <4>1, <4>2, ObjectKept DEF GateInv, ObjectsSound
    <3> QED BY <3>1 DEF ObjectsSound
  <2>6. FlagsSound'
    BY <1>1, <2>s, FlagsKept DEF GateInv
  <2>7. AttrsSound'
    BY <1>1, <2>2, <2>s, AttrsKept
  <2>8. TableSound'
    <3>1. ASSUME NEW q \in Procs, NEW s \in Resources, remoteSystemGates'[q][s] # Nothing
          PROVE  LET x == remoteSystemGates'[q][s]
                 IN  /\ obj'[x].live /\ obj'[x].resourceId = s
                     /\ \A u \in Threads : thread'[u].obj = x => On[u] = q
      <4>1. remoteSystemGates'[q][s] = remoteSystemGates[q][s] /\ remoteSystemGates[q][s] # Nothing
        BY <1>5, <3>1
      <4>2. /\ obj[remoteSystemGates[q][s]].live /\ obj[remoteSystemGates[q][s]].resourceId = s
            /\ \A u \in Threads : thread[u].obj = remoteSystemGates[q][s] => On[u] = q
        BY <4>1 DEF GateInv, TableSound
      <4> QED BY <1>2, <2>1, <2>2, <2>h, <4>1, <4>2
    <3>2. ASSUME NEW u \in Threads, At(u, "release")'
          PROVE  \A q \in Procs : \A s \in Resources : remoteSystemGates'[q][s] # thread'[u].obj
      <4>1. CASE u = t
        BY <1>5, <2>2, <2>h, <4>1
      <4>2. CASE u # t
        <5>1. thread'[u] = thread[u] /\ At(u, "release") /\ thread[u].obj # Nothing
          BY <2>h, <3>2, <4>2 DEF At, GateInv, ThreadsSound, ThreadSound
        <5>2. \A q \in Procs : \A s \in Resources : remoteSystemGates[q][s] # thread[u].obj
          BY <5>1 DEF GateInv, TableSound
        <5> QED BY <1>5, <5>1, <5>2
      <4> QED BY <4>1, <4>2
    <3>3. \A u, v \in Threads : thread'[u].obj = thread'[v].obj =>
                                 thread'[u].obj = Nothing \/ On[u] = On[v]
      BY <1>2, <2>2, <2>h DEF GateInv, TableSound
    <3> QED BY <3>1, <3>2, <3>3 DEF TableSound
  <2>9. FlagsOwned => FlagsOwned'
    BY <1>1, <2>s, OwnedKept
  <2>10. ASSUME HandlesSound PROVE HandlesSound'
    <3> SUFFICES ASSUME ~ raced' PROVE HandlesSound'
      BY DEF HandlesSound
    <3>1. ~ raced
      BY <1>1
    <3>2. ASSUME NEW x \in Objects, Serves(x) PROVE Serves(x)'
      <4>1. \A v \in Threads : At(v, "created") /\ Obj(v).block = obj[x].block =>
               At(v, "created")' /\ Obj(v)'.block = Obj(v).block
        BY <1>1, <2>1, <2>h DEF At, Obj
      <4>2. obj'[x].live /\ attrs'[obj[x].block].created
        BY <1>1, <2>1, <3>2 DEF Serves
      <4> QED BY <1>1, <2>1, <3>2, <4>1, <4>2, ServesKept
    <3>3. \A u \in Threads \ {t} : At(u, "checked") => attrs'[thread[u].addr].created
      BY <1>1, <2>10, <3>1 DEF HandlesSound, HandleSound
    <3>4. ASSUME NEW u \in Threads \ {t}, NEW x \in Objects, x = thread[u].obj, At(u, "opened") \/ Closing(u)
          PROVE  /\ Serves(x)' /\ obj'[x].block = obj[x].block /\ obj'[x].resourceId = obj[x].resourceId
                 /\ remoteSystemGates'[On[u]][obj[x].resourceId] =
                        remoteSystemGates[On[u]][obj[x].resourceId]
      BY <1>u, <2>1, <2>10, <3>1, <3>2, <3>4
    <3>5. \A x \in Objects : obj'[x].live /\ ~ obj'[x].created => Serves(x)'
      BY <2>1, <2>10, <3>1, <3>2 DEF HandlesSound
    <3>6. HandleSound(t)' /\ ~ Closing(t)'
      BY <2>2, <2>h DEF HandleSound, Closing, At
    <3> QED BY <2>1, <2>2, <2>10, <3>1, <3>3, <3>4, <3>5, <3>6, HandlesKept
  <2> QED BY <2>3, <2>4, <2>5, <2>6, <2>7, <2>8, <2>9, <2>10 DEF GateInv
<1>7. CASE ~ (obj[o].created /\ obj[o].resourceId # Nothing)
  <2>1. Free(t)
    BY <1>2, <1>7 DEF Unlist, Obj
  <2>2. /\ thread' \in [Threads -> ThreadRecords] /\ obj' \in [Objects -> ObjectRecords]
        /\ ThreadsSound' /\ ObjectsSound' /\ AttrsSound' /\ TableSound'
        /\ \A x \in Objects : obj'[x] = IF x = o THEN NoObject ELSE obj[x]
    BY <1>1, <1>2, <1>5, <2>1, FreeKeeps
  <2>3. TypeOK'
    BY <1>1, <1>5, <1>t, <2>2 DEF TypeOK, ThreadRecords, ThreadLabels, ObjectRecords
  <2>4. FlagsSound'
    <3>1. ~ NoObject.created
      BY DEF NoObject
    <3>2. \A x \in Objects : obj'[x].created => obj'[x] = obj[x]
      BY <2>2, <3>1
    <3> QED BY <1>1, <3>2 DEF GateInv, FlagsSound
  <2>5. ASSUME FlagsOwned PROVE FlagsOwned'
    <3>1. ASSUME NEW s \in Resources, Owners(s) # {} PROVE Owners(s)' # {}
      <4>1. PICK x \in Objects : obj[x].created /\ obj[x].resourceId = s
        BY <3>1 DEF Owners
      <4>2. x \in Owners(s)'
        BY <1>7, <1>t, <2>2, <4>1 DEF Owners
      <4> QED BY <4>2
    <3> QED BY <1>1, <2>5, <3>1 DEF FlagsOwned
  <2>6. ASSUME HandlesSound PROVE HandlesSound'
    <3>1. CASE raced'
      BY <3>1 DEF HandlesSound
    <3>2. CASE ~ raced'
      BY <1>1, <1>2, <1>u, <2>1, <2>2, <2>6, <3>2, FreeHandles
    <3> QED BY <3>1, <3>2
  <2> QED BY <2>2, <2>3, <2>4, <2>5, <2>6 DEF GateInv
<1> QED BY <1>6, <1>7

\* What the flags are when one is given back.
LEMMA ReleaseEffect ==
    ASSUME GateInv, NEW t \in Threads, Release(t)
    PROVE  \E o \in Objects, r \in Resources :
              /\ o = thread[t].obj /\ obj[o].created /\ obj[o].resourceId = r
              /\ inUse' \in [memory : Flags, cache : [Procs -> Flags \cup {Nothing}]]
              /\ \A q \in Procs : inUse'.cache[q] = IF q = On[t] THEN Nothing ELSE inUse.cache[q]
              /\ \A s \in Resources :
                    /\ inUse.memory[s] /\ s # r => inUse'.memory[s]
                    /\ inUse'.memory[s] => s # r /\ (inUse.memory[s] \/ inUse.cache[On[t]] # Nothing)
<1>t. /\ TypeOK /\ thread \in [Threads -> ThreadRecords] /\ obj \in [Objects -> ObjectRecords]
      /\ Nothing \notin Objects /\ Nothing \notin Resources
  BY Types DEF GateInv
<1>1. PICK o \in Objects : o = thread[t].obj
  BY Held DEF Release, At
<1>2. obj[o].created /\ obj[o].resourceId \in Resources
  BY <1>1 DEF Release, At, GateInv, ThreadsSound, ThreadSound, Obj
<1>3. PICK r \in Resources, p \in Procs : r = obj[o].resourceId /\ p = On[t]
  BY <1>2
<1>4. PICK m \in Flags, c \in [Procs -> Flags \cup {Nothing}] : inUse = [memory |-> m, cache |-> c]
  BY <1>t DEF TypeOK
<1>5. inUse.memory = m /\ inUse.cache = c
  BY <1>4
<1> DEFINE seen == IF c[p] = Nothing THEN m ELSE c[p]
           m2 == [seen EXCEPT ![r] = FALSE]
           c2 == [c EXCEPT ![p] = Nothing]
<1>6. seen \in Flags /\ \A s \in Resources : m[s] => seen[s]
  <2>1. c[p] # Nothing => \A s \in Resources : c[p][s]
    BY <1>5 DEF GateInv, FlagsSound
  <2>2. c[p] \in Flags \cup {Nothing}
    OBVIOUS
  <2> QED BY <2>1, <2>2
<1>7. seen = m \/ c[p] # Nothing
  OBVIOUS
<1>8. inUse' = [inUse EXCEPT !.memory = m2, !.cache[p] = Nothing]
  BY <1>1, <1>3, <1>5 DEF Release, Obj
<1>9. inUse' = [memory |-> m2, cache |-> c2]
  BY <1>4, <1>8
<1> HIDE DEF seen
<1>10. m2 \in Flags /\ \A s \in Resources : m2[s] <=> s # r /\ seen[s]
  BY <1>6 DEF Flags
<1>11. c2 \in [Procs -> Flags \cup {Nothing}] /\ \A q \in Procs : c2[q] = IF q = p THEN Nothing ELSE c[q]
  OBVIOUS
<1> HIDE DEF m2, c2
<1>12. inUse'.memory = m2 /\ inUse'.cache = c2
  BY <1>9
<1>13. inUse' \in [memory : Flags, cache : [Procs -> Flags \cup {Nothing}]]
  BY <1>9, <1>10, <1>11
<1>14. \A q \in Procs : inUse'.cache[q] = IF q = On[t] THEN Nothing ELSE inUse.cache[q]
  BY <1>3, <1>5, <1>11, <1>12
<1>15. \A s \in Resources :
          /\ inUse.memory[s] /\ s # r => inUse'.memory[s]
          /\ inUse'.memory[s] => s # r /\ (inUse.memory[s] \/ inUse.cache[On[t]] # Nothing)
  BY <1>3, <1>5, <1>6, <1>7, <1>10, <1>12
<1> QED BY <1>1, <1>2, <1>3, <1>13, <1>14, <1>15

LEMMA ReleaseKeeps ==
    ASSUME GateInv, NEW t \in Threads, Release(t)
    PROVE  GateInv' /\ (FlagsOwned => FlagsOwned') /\ (HandlesSound => HandlesSound')
<1>t. /\ TypeOK /\ thread \in [Threads -> ThreadRecords] /\ obj \in [Objects -> ObjectRecords]
      /\ Nothing \notin Objects /\ Nothing \notin Resources
  BY Types DEF GateInv
<1>1. /\ thread[t].pc = "release" /\ Free(t)
      /\ UNCHANGED <<attrs, nameServer, remoteSystemGates, raced, exhausted>>
  BY DEF Release, At, history
<1>2. PICK o \in Objects, r \in Resources :
         /\ o = thread[t].obj /\ obj[o].created /\ obj[o].resourceId = r
         /\ inUse' \in [memory : Flags, cache : [Procs -> Flags \cup {Nothing}]]
         /\ \A q \in Procs : inUse'.cache[q] = IF q = On[t] THEN Nothing ELSE inUse.cache[q]
         /\ \A s \in Resources :
               /\ inUse.memory[s] /\ s # r => inUse'.memory[s]
               /\ inUse'.memory[s] => s # r /\ (inUse.memory[s] \/ inUse.cache[On[t]] # Nothing)
  BY ReleaseEffect
<1>3. \A q \in Procs : \A s \in Resources : remoteSystemGates[q][s] # o
  BY <1>1, <1>2 DEF GateInv, TableSound, At
<1>4. /\ thread' \in [Threads -> ThreadRecords] /\ obj' \in [Objects -> ObjectRecords]
      /\ ThreadsSound' /\ ObjectsSound' /\ AttrsSound' /\ TableSound'
      /\ \A x \in Objects : obj'[x] = IF x = o THEN NoObject ELSE obj[x]
  BY <1>1, <1>2, <1>3, FreeKeeps
<1>5. TypeOK'
  BY <1>1, <1>2, <1>4, <1>t DEF TypeOK, ThreadRecords, ThreadLabels, ObjectRecords
<1>6. FlagsSound'
  <2>1. ~ NoObject.created
    BY DEF NoObject
  <2>2. \A x \in Objects : obj'[x].created => obj'[x] = obj[x] /\ obj[x].created /\ x # o
    BY <1>4, <2>1
  <2>3. \A q \in Procs : inUse'.cache[q] # Nothing => \A s \in Resources : inUse'.cache[q][s]
    BY <1>2 DEF GateInv, FlagsSound
  <2>4. ASSUME NEW x \in Objects, obj'[x].created, obj'[x].resourceId # Nothing
        PROVE  inUse'.memory[obj'[x].resourceId]
    <3>1. PICK s \in Resources : s = obj[x].resourceId /\ s = obj'[x].resourceId
      BY <1>t, <2>2, <2>4 DEF ObjectRecords
    <3>2. s # r /\ inUse.memory[s]
      BY <1>2, <1>t, <2>2, <2>4, <3>1 DEF GateInv, FlagsSound
    <3> QED BY <1>2, <3>1, <3>2
  <2>5. \A x, y \in Objects :
           obj'[x].created /\ obj'[y].created /\ obj'[x].resourceId = obj'[y].resourceId =>
               obj'[x].resourceId = Nothing \/ x = y
    BY <2>2 DEF GateInv, FlagsSound
  <2>6. \A x \in Objects : obj'[x].created /\ obj'[x].resourceId # Nothing =>
                               inUse'.memory[obj'[x].resourceId]
    BY <2>4
  <2> QED BY <2>3, <2>5, <2>6 DEF FlagsSound
<1>7. ASSUME FlagsOwned PROVE FlagsOwned'
  <2>1. ASSUME ~ exhausted'
        PROVE  /\ \A q \in Procs : inUse'.cache[q] = Nothing
               /\ \A s \in Resources : inUse'.memory[s] => Owners(s)' # {}
    <3>1. /\ ~ exhausted /\ On[t] \in Procs
          /\ \A q \in Procs : inUse.cache[q] = Nothing
          /\ \A s \in Resources : inUse.memory[s] => Owners(s) # {}
      BY <1>1, <1>7, <2>1 DEF FlagsOwned
    <3>2. ASSUME NEW s \in Resources, inUse'.memory[s] PROVE Owners(s)' # {}
      <4>1. s # r /\ inUse.memory[s]
        BY <1>2, <3>1, <3>2
      <4>2. PICK x \in Objects : obj[x].created /\ obj[x].resourceId = s
        BY <3>1, <4>1 DEF Owners
      <4>3. x \in Owners(s)'
        BY <1>2, <1>4, <4>1, <4>2 DEF Owners
      <4> QED BY <4>3
    <3> QED BY <1>2, <3>1, <3>2
  <2> QED BY <2>1 DEF FlagsOwned
<1>8. ASSUME HandlesSound PROVE HandlesSound'
  <2> SUFFICES ASSUME ~ raced' PROVE HandlesSound'
    BY DEF HandlesSound
  <2>1. ~ raced
    BY <1>1
  <2>2. ASSUME NEW u \in Threads \ {t}, At(u, "opened") \/ Closing(u)
        PROVE  \E x \in Objects : /\ x = thread[u].obj /\ Serves(x) /\ x # o
                                  /\ remoteSystemGates'[On[u]][obj[x].resourceId] =
                                         remoteSystemGates[On[u]][obj[x].resourceId]
    <3>1. PICK x \in Objects : x = thread[u].obj /\ Serves(x)
      BY <1>8, <2>1, <2>2, HandleServes
    <3>2. Makes(t, o) /\ ~ At(t, "created")
      BY <1>1, <1>2 DEF Makes, MakerLabels, At
    <3>3. obj[o].block # obj[x].block
      BY <1>2, <3>1, <3>2, Server
    <3> QED BY <1>1, <3>1, <3>3
  <2> QED BY <1>1, <1>2, <1>4, <1>8, <2>1, <2>2, FreeHandles
<1> QED BY <1>4, <1>5, <1>6, <1>7, <1>8 DEF GateInv

LEMMA CacheEvictsKeeps ==
    ASSUME GateInv, NEW p \in Procs, CacheEvicts(p)
    PROVE  GateInv' /\ (FlagsOwned => FlagsOwned') /\ (HandlesSound => HandlesSound')
<1>1. /\ UNCHANGED <<attrs, nameServer, remoteSystemGates, obj, thread, raced, exhausted>>
      /\ inUse' = [inUse EXCEPT !.cache[p] = Nothing]
  BY DEF CacheEvicts, history
<1>2. PICK m \in Flags, c \in [Procs -> Flags \cup {Nothing}] : inUse = [memory |-> m, cache |-> c]
  BY DEF GateInv, TypeOK
<1> DEFINE c2 == [c EXCEPT ![p] = Nothing]
<1>3. inUse' = [memory |-> m, cache |-> c2]
  BY <1>1, <1>2
<1>4. c2 \in [Procs -> Flags \cup {Nothing}] /\ \A q \in Procs : c2[q] = IF q = p THEN Nothing ELSE c[q]
  OBVIOUS
<1> HIDE DEF c2
<1>5. inUse.memory = m /\ inUse.cache = c /\ inUse'.memory = m /\ inUse'.cache = c2
  BY <1>2, <1>3
<1>6. TypeOK'
  <2>1. inUse' \in [memory : Flags, cache : [Procs -> Flags \cup {Nothing}]]
    BY <1>3, <1>4
  <2> QED BY <1>1, <2>1 DEF GateInv, TypeOK
<1>7. ThreadsSound'
  BY <1>1 DEF GateInv, ThreadsSound, ThreadSound, Obj, At
<1>8. ObjectsSound'
  BY <1>1 DEF GateInv, ObjectsSound, ObjectSound, Makes, Openers, At
<1>9. FlagsSound'
  BY <1>1, <1>4, <1>5 DEF GateInv, FlagsSound
<1>10. AttrsSound'
  BY <1>1 DEF GateInv, AttrsSound, Gate, Obj
<1>11. TableSound'
  BY <1>1 DEF GateInv, TableSound, At
<1>12. FlagsOwned => FlagsOwned'
  BY <1>1, <1>4, <1>5 DEF FlagsOwned, Owners
<1>13. HandlesSound => HandlesSound'
  BY <1>1 DEF HandlesSound, HandleSound, Serves, Closing, Obj, At
<1> QED BY <1>6, <1>7, <1>8, <1>9, <1>10, <1>11, <1>12, <1>13 DEF GateInv

LEMMA StutterKeeps ==
    ASSUME GateInv, UNCHANGED vars
    PROVE  GateInv' /\ (FlagsOwned => FlagsOwned') /\ (HandlesSound => HandlesSound')
<1>1. UNCHANGED <<inUse, attrs, nameServer, remoteSystemGates, obj, thread, raced, exhausted>>
  BY DEF vars
<1>2. TypeOK'
  BY <1>1 DEF GateInv, TypeOK
<1>3. ThreadsSound'
  BY <1>1 DEF GateInv, ThreadsSound, ThreadSound, Obj, At
<1>4. ObjectsSound'
  <2>1. \A x \in Objects : Openers(x)' = Openers(x) /\ \A t \in Threads : Makes(t, x)' <=> Makes(t, x)
    BY <1>1 DEF Openers, Makes, At
  <2>2. ASSUME NEW x \in Objects PROVE ObjectSound(x)'
    BY <1>1, <2>1 DEF GateInv, ObjectsSound, ObjectSound
  <2> QED BY <2>2 DEF ObjectsSound
<1>5. FlagsSound'
  BY <1>1 DEF GateInv, FlagsSound
<1>6. AttrsSound'
  BY <1>1 DEF GateInv, AttrsSound, Gate, Obj
<1>7. TableSound'
  BY <1>1 DEF GateInv, TableSound, At
<1>8. FlagsOwned => FlagsOwned'
  BY <1>1 DEF FlagsOwned, Owners
<1>9. HandlesSound => HandlesSound'
  BY <1>1 DEF HandlesSound, HandleSound, Serves, Closing, Obj, At
<1> QED BY <1>2, <1>3, <1>4, <1>5, <1>6, <1>7, <1>8, <1>9 DEF GateInv

-----------------------------------------------------------------------------
(* The theorems                                                             *)

LEMMA GateInit == Init => GateInv
<1> SUFFICES ASSUME Init PROVE GateInv
  OBVIOUS
<1>1. /\ NoObject \in ObjectRecords /\ ~ NoObject.live /\ ~ NoObject.created
      /\ Idle \in ThreadRecords /\ Idle.pc = "idle" /\ Idle.obj = Nothing
  BY DEF NoObject, Idle, ObjectRecords, ThreadRecords, ThreadLabels
<1>2. /\ \A o \in Objects : obj[o] = NoObject
      /\ \A t \in Threads : thread[t] = Idle
      /\ \A b \in Blocks : ~ attrs[b].created
      /\ \A p \in Procs : inUse.cache[p] = Nothing /\ \A r \in Resources : remoteSystemGates[p][r] = Nothing
  BY DEF Init
<1>3. TypeOK
  <2>1. inUse \in [memory : Flags, cache : [Procs -> Flags \cup {Nothing}]]
    BY DEF Init, Flags
  <2>2. /\ attrs \in [Blocks -> [created : BOOLEAN, arg : Resources \cup {Nothing}]]
        /\ nameServer \in [Procs -> Blocks \cup {Nothing}]
        /\ remoteSystemGates \in [Procs -> [Resources -> Objects \cup {Nothing}]]
        /\ {raced, exhausted} \subseteq BOOLEAN
    BY DEF Init
  <2>3. obj \in [Objects -> ObjectRecords] /\ thread \in [Threads -> ThreadRecords]
    BY <1>1 DEF Init
  <2> QED BY <2>1, <2>2, <2>3 DEF TypeOK, ObjectRecords, ThreadRecords, ThreadLabels
<1>4. ThreadsSound
  BY <1>1, <1>2 DEF ThreadsSound, ThreadSound, At
<1>5. ObjectsSound
  BY <1>1, <1>2 DEF ObjectsSound, ObjectSound
<1>6. FlagsSound
  BY <1>1, <1>2 DEF FlagsSound
<1>7. AttrsSound
  BY <1>1, <1>2 DEF AttrsSound
<1>8. TableSound
  BY <1>1, <1>2 DEF TableSound, At
<1> QED BY <1>3, <1>4, <1>5, <1>6, <1>7, <1>8 DEF GateInv

\* Every step keeps each part of the invariant.
Kept == GateInv' /\ (FlagsOwned => FlagsOwned') /\ (HandlesSound => HandlesSound')

LEMMA GateStep == GateInv /\ [Next]_vars => Kept
<1> SUFFICES ASSUME GateInv, [Next]_vars PROVE Kept
  OBVIOUS
<1>1. ASSUME NEW t \in Threads, NEW p \in Procs, Open(t, p) PROVE Kept
  <2>1. nameServer[p] \in Blocks
    BY <1>1 DEF Open, GateInv, TypeOK
  <2> QED BY <1>1, <2>1, OpenByAddrKeeps DEF Kept, Open
<1>2. ASSUME NEW t \in Threads, NEW b \in Blocks, Create(t, b) \/ OpenByAddr(t, b) PROVE Kept
  BY <1>2, CreateKeeps, OpenByAddrKeeps DEF Kept
<1>3. ASSUME NEW t \in Threads, Close(t) \/ Delete(t) PROVE Kept
  BY <1>3, CloseKeeps, DeleteKeeps DEF Kept
<1>4. ASSUME NEW t \in Threads, Creates(t) PROVE Kept
  BY <1>4, CreateProxyKeeps, PublishKeeps DEF Kept, Creates
<1>5. ASSUME NEW t \in Threads, Opens(t) PROVE Kept
  BY <1>5, OpenLocalKeeps, OpenRemoteKeeps DEF Kept, Opens
<1>6. ASSUME NEW t \in Threads, Finalizes(t) PROVE Kept
  BY <1>6, UnpublishKeeps, UnlistKeeps, ReleaseKeeps DEF Kept, Finalizes
<1>7. ASSUME NEW p \in Procs, CacheEvicts(p) PROVE Kept
  BY <1>7, CacheEvictsKeeps DEF Kept
<1>8. ASSUME UNCHANGED vars PROVE Kept
  BY <1>8, StutterKeeps DEF Kept
<1> QED BY <1>1, <1>2, <1>3, <1>4, <1>5, <1>6, <1>7, <1>8 DEF Next

\* Whoever creates, opens, closes and deletes gates, and whatever fails on the way, threads,
\* objects, flags, attributes and the processors' tables agree with one another.
THEOREM GateInvariant == Spec => []GateInv
<1>1. Init => GateInv
  BY GateInit
<1>2. GateInv /\ [Next]_vars => GateInv'
  BY GateStep DEF Kept
<1> QED BY <1>1, <1>2, PTL DEF Spec

\* No two gates ever get one of the proxy's resources, and a gate's resource is flagged in
\* memory until the gate gives it back, on any number of processors whose caches do not agree.
THEOREM ResourcesAreUnshared == Spec => []ResourcesUnshared
<1>1. GateInv => ResourcesUnshared
  <2> SUFFICES ASSUME GateInv PROVE ResourcesUnshared
    OBVIOUS
  <2>1. ASSUME NEW r \in Resources PROVE Cardinality(Owners(r)) <= 1 /\ (Owners(r) # {} => inUse.memory[r])
    <3>1. \A o, q \in Owners(r) : o = q
      BY Types DEF GateInv, FlagsSound, Owners
    <3>2. Owners(r) = {} \/ \E o \in Owners(r) : Owners(r) = {o}
      BY <3>1
    <3>3. Cardinality(Owners(r)) <= 1
      <4>1. CASE Owners(r) = {}
        BY <4>1, FS_EmptySet
      <4>2. ASSUME NEW o \in Owners(r), Owners(r) = {o} PROVE Cardinality(Owners(r)) <= 1
        <5>1. Cardinality({o}) = 1
          BY FS_Singleton
        <5> QED BY <4>2, <5>1
      <4> QED BY <3>2, <4>1, <4>2
    <3>4. Owners(r) # {} => inUse.memory[r]
      BY Types DEF GateInv, FlagsSound, Owners
    <3> QED BY <3>3, <3>4
  <2> QED BY <2>1 DEF ResourcesUnshared, GateInv
<1> QED BY <1>1, GateInvariant, PTL

\* A flag that is set has an owner, so no resource is lost whatever step of a creation fails,
\* until a search in vain has left a copy of the flags in a cache.
THEOREM NoResourceIsLost == Spec => []NoResourceLost
<1>1. Init => FlagsOwned
  BY DEF Init, FlagsOwned
<1>2. GateInv /\ FlagsOwned /\ [Next]_vars => FlagsOwned'
  BY GateStep DEF Kept
<1>3. FlagsOwned => NoResourceLost
  BY DEF FlagsOwned, NoResourceLost
<1> QED BY <1>1, <1>2, <1>3, GateInvariant, PTL DEF Spec

\* The object behind a handle is live, listed, counted and served by the gate at the address
\* until the handle is closed, for any number of threads that create, open, close and delete.
THEOREM HandlesStayLive == Spec => []HandlesLive
<1>1. Init => HandlesSound
  BY DEF Init, HandlesSound, HandleSound, Closing, At, NoObject, Idle
<1>2. GateInv /\ HandlesSound /\ [Next]_vars => HandlesSound'
  BY GateStep DEF Kept
<1>3. GateInv /\ HandlesSound => HandlesLive
  <2> SUFFICES ASSUME GateInv, HandlesSound, ~ raced, NEW t \in Threads, At(t, "opened")
               PROVE  LET o == thread[t].obj
                      IN /\ obj[o].live /\ obj[o].block = thread[t].addr
                         /\ remoteSystemGates[On[t]][obj[o].resourceId] = o
                         /\ obj[o].numOpens =
                               Cardinality({u \in Threads : At(u, "opened") /\ thread[u].obj = o})
                         /\ attrs[thread[t].addr] = [created |-> TRUE, arg |-> obj[o].resourceId]
    BY DEF HandlesLive
  <2>1. PICK o \in Objects : /\ o = thread[t].obj /\ Serves(o)
                            /\ remoteSystemGates[On[t]][obj[o].resourceId] = o
    BY HandleServes
  <2>2. obj[o].live /\ obj[o].block = thread[t].addr /\ obj[o].block \in Blocks
    BY <2>1 DEF HandlesSound, HandleSound, Serves, Obj
  <2>3. obj[o].numOpens = Cardinality({u \in Threads : At(u, "opened") /\ thread[u].obj = o})
    BY <2>2 DEF GateInv, ObjectsSound, ObjectSound, Openers
  <2>4. attrs[thread[t].addr] = [created |-> TRUE, arg |-> obj[o].resourceId]
    <3>1. PICK a \in [created : BOOLEAN, arg : Resources \cup {Nothing}] : a = attrs[thread[t].addr]
      BY <2>2 DEF GateInv, TypeOK
    <3>2. a.created /\ a.arg = obj[o].resourceId
      BY <2>1, <2>2, <3>1 DEF Serves
    <3>3. a = [created |-> TRUE, arg |-> obj[o].resourceId]
      BY <3>2
    <3> QED BY <3>1, <3>3
  <2> QED BY <2>1, <2>2, <2>3, <2>4
<1> QED BY <1>1, <1>2, <1>3, GateInvariant, PTL DEF Spec

=============================================================================
