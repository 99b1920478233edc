-------------------------------- MODULE Ipc --------------------------------
(***************************************************************************)
(* Ipc.c: how the processors of a cluster start, attach to each other,     *)
(* detach and stop.  The two sides of a pair meet through one key each in  *)
(* the reserved memory of shared region 0.  The side with the lower id,    *)
(* the "slave", allocates the memory of the instances that the pair shares *)
(* (Notify, NameServer, MessageQ transport) from the heap of region 0; the *)
(* "master" opens them later and closes them earlier.                      *)
(*                                                                         *)
(* One task per processor makes the calls, as Ipc_start does when procSync *)
(* is ALL, or polling the other processors in turn as Ipc.h describes for  *)
(* PAIR.  A step reads or writes one word of the reserved memory at most.  *)
(***************************************************************************)
EXTENDS Integers, FiniteSets, Sequences

CONSTANTS
    NumProcs,        \* numProcsInCluster
    Owner,           \* ownerProcId of shared region 0
    Stages,          \* the instances of a pair, in the order of Ipc_attach
    Modes,           \* the values of procSync that are looked at
    Sessions,        \* bound: how often each processor attaches to the others
    MaxAttached,     \* bound: how often it attaches to one of them
    MaxFailures,     \* bound: the calls inside Ipc_attach and Ipc_detach that fail
    Null

Procs == 0 .. NumProcs - 1
Kinds == {Stages[i] : i \in DOMAIN Stages}
Blocks == 1 .. (NumProcs * (NumProcs - 1) * Len(Stages)) \div 2
Keys == {"none", "start", "finish", "detach"}

ASSUME IpcAssumption ==
    /\ NumProcs \in Nat \ {0, 1} /\ Owner \in Procs
    /\ Stages \in Seq(STRING) /\ Stages # <<>>
    /\ Modes \subseteq {"ALL", "PAIR"}
    /\ Sessions \in Nat /\ MaxAttached \in Nat \ {0} /\ MaxFailures \in Nat
    /\ Null \notin Blocks \cup Procs

VARIABLES
    procSync,    \* the configuration, the same for every processor
    \* the reserved memory of region 0 and its heap
    startedKey,  \* startedKey[p][slot]: written by p only
    srPtr,       \* srPtr[p][slot][kind]: written by p, the slave of the pair
    heapCreated, \* the heap and the default gate of region 0 exist
    free,        \* the blocks of the heap that are not allocated
    \* the processors
    pc, remote, stage,
    attached,    \* procEntry[q].attached
    instance,    \* instance[p][q][kind]: the memory p uses for it, Null if not registered
    heapOpen,    \* p has a handle of the heap
    sessions, failures

shared == <<startedKey, srPtr, heapCreated, free>>
bounds == <<procSync, sessions>>
vars == <<procSync, startedKey, srPtr, heapCreated, free, pc, remote, stage, attached,
          instance, heapOpen, sessions, failures>>

Peers(p) == Procs \ {p}
\* The processor whose memory the pair shares, and the place of p's word for the pair.
Slave(p, q) == IF p < q THEN p ELSE q
Slot(p, q) == IF p < q THEN q - 1 ELSE q

Key(p, q) == startedKey[p][Slot(p, q)]
SetKey(p, q, k) == startedKey' = [startedKey EXCEPT ![p][Slot(p, q)] = k]
SharedAt(p, q, kind) == srPtr[Slave(p, q)][Slot(Slave(p, q), p + q - Slave(p, q))][kind]

Cleared(v) == [p \in Procs |-> [s \in 0 .. NumProcs - 2 |-> v]]
NoBlocks == [k \in Kinds |-> Null]

Init ==
    /\ procSync \in Modes
    /\ startedKey = Cleared("none") /\ srPtr = Cleared(NoBlocks)
    /\ heapCreated = FALSE /\ free = Blocks
    /\ pc = [p \in Procs |-> "stopped"] /\ stage = [p \in Procs |-> 1]
    /\ remote = [p \in Procs |-> Null]
    /\ attached = [p \in Procs |-> [q \in Procs |-> 0]]
    /\ instance = [p \in Procs |-> [q \in Procs |-> NoBlocks]]
    /\ heapOpen = [p \in Procs |-> FALSE]
    /\ sessions = [p \in Procs |-> 0] /\ failures = 0

Goto(p, l) == pc' = [pc EXCEPT ![p] = l]

\* The first of S after q, going round the processors.
NextIn(S, q) == CHOOSE r \in S : \A t \in S : (r - q - 1) % NumProcs <= (t - q - 1) % NumProcs
FirstIn(S) == IF Owner \in S THEN Owner ELSE NextIn(S, NumProcs - 1)

-----------------------------------------------------------------------------
(* Ipc_start and Ipc_stop                                                  *)

\* Where a processor that is to attach to the processors of S goes on.
AttachTo(p, S) ==
    IF S = {} THEN Goto(p, "up") /\ UNCHANGED remote
    ELSE /\ Goto(p, "attach")
         /\ remote' = [remote EXCEPT ![p] = IF procSync = "ALL" THEN FirstIn(S)
                                            ELSE NextIn(S, IF @ = Null THEN p ELSE @)]

\* The owner of region 0 clears the reserved memory, whatever is in it.
Start(p) ==
    /\ pc[p] = "stopped" /\ sessions[p] < Sessions
    /\ IF p = Owner THEN /\ startedKey' = Cleared("none") /\ srPtr' = Cleared(NoBlocks)
                         /\ Goto(p, "create") /\ UNCHANGED <<remote, sessions>>
       ELSE /\ AttachTo(p, Peers(p)) /\ sessions' = [sessions EXCEPT ![p] = @ + 1]
            /\ UNCHANGED <<startedKey, srPtr>>
    /\ UNCHANGED <<procSync, heapCreated, free, stage, attached, instance, heapOpen, failures>>

\* GateMP_start and SharedRegion_start.
Create(p) ==
    /\ pc[p] = "create"
    /\ heapCreated' = TRUE /\ heapOpen' = [heapOpen EXCEPT ![p] = TRUE] /\ free' = Blocks
    /\ AttachTo(p, Peers(p)) /\ sessions' = [sessions EXCEPT ![p] = @ + 1]
    /\ UNCHANGED <<procSync, startedKey, srPtr, stage, attached, instance, failures>>

\* A processor that is detached from all others attaches again, or stops Ipc first.
Again(p) ==
    /\ pc[p] = "down" /\ procSync = "PAIR" /\ sessions[p] < Sessions
    /\ AttachTo(p, Peers(p)) /\ sessions' = [sessions EXCEPT ![p] = @ + 1]
    /\ UNCHANGED <<procSync, shared, stage, attached, instance, heapOpen, failures>>

\* SharedRegion_stop and GateMP_stop: the owner deletes the heap and the default gate.
Stop(p) ==
    /\ pc[p] = "down" /\ Goto(p, "stopped")
    /\ IF p = Owner THEN heapCreated' = FALSE /\ heapOpen' = [heapOpen EXCEPT ![p] = FALSE]
       ELSE UNCHANGED <<heapCreated, heapOpen>>
    /\ UNCHANGED <<bounds, startedKey, srPtr, free, remote, stage, attached, instance, failures>>

-----------------------------------------------------------------------------
(* Ipc_attach                                                              *)

\* The call returns an error: NOTREADY is tried again, by Ipc_start for the same
\* processor; after any other error Ipc_start gives up.
AttachNotReady(p) ==
    IF procSync = "ALL" THEN Goto(p, "attach") /\ UNCHANGED remote
    ELSE AttachTo(p, {q \in Peers(p) : attached[p][q] = 0})
AttachFails(p) ==
    IF procSync = "ALL" THEN Goto(p, "gaveUp") /\ UNCHANGED remote ELSE AttachNotReady(p)
Attached(p, q) ==
    /\ attached' = [attached EXCEPT ![p][q] = @ + 1]
    /\ AttachTo(p, {r \in Peers(p) \ {q} : attached[p][r] = 0})

Fail == failures < MaxFailures /\ failures' = failures + 1

\* The owner of region 0 comes first.  Then the slave writes its key; the master only reads.
AttachCall(p) ==
    LET q == remote[p] IN
    /\ pc[p] = "attach"
    /\ \/ /\ Owner \notin {p, q} /\ attached[p][Owner] = 0
          /\ AttachFails(p) /\ UNCHANGED startedKey
       \/ /\ Owner \in {p, q} \/ attached[p][Owner] > 0
          /\ \/ p < q /\ SetKey(p, q, "start") /\ Goto(p, "sync") /\ UNCHANGED remote
             \/ /\ q < p /\ UNCHANGED startedKey
                /\ IF "start" \in {Key(p, q), Key(q, p)}
                   THEN Goto(p, "starting") /\ UNCHANGED remote
                   ELSE AttachNotReady(p)
    /\ UNCHANGED <<bounds, srPtr, heapCreated, free, stage, attached, instance, heapOpen, failures>>

MasterStarts(p) ==
    /\ pc[p] = "starting" /\ SetKey(p, remote[p], "start") /\ Goto(p, "sync")
    /\ UNCHANGED <<bounds, srPtr, heapCreated, free, remote, stage, attached, instance,
                   heapOpen, failures>>

\* The slave goes on when the master has started, the master when the slave has finished.
SyncStart(p) ==
    LET q == remote[p] IN
    /\ pc[p] = "sync"
    /\ IF Key(q, p) = (IF p < q THEN "start" ELSE "finish")
       THEN Goto(p, "open") /\ UNCHANGED remote
       ELSE AttachNotReady(p)
    /\ UNCHANGED <<bounds, shared, stage, attached, instance, heapOpen, failures>>

\* GateMP_attach and SharedRegion_attach open what the owner has created.
Open(p) ==
    /\ pc[p] = "open" /\ Goto(p, "stage") /\ stage' = [stage EXCEPT ![p] = 1]
    /\ heapOpen' = [heapOpen EXCEPT ![p] = TRUE]
    /\ UNCHANGED <<bounds, shared, remote, attached, instance, failures>>

NextStage(p) ==
    /\ stage' = [stage EXCEPT ![p] = @ + 1]
    /\ Goto(p, IF stage[p] = Len(Stages) THEN "user" ELSE "stage") /\ UNCHANGED remote

Lowest(S) == CHOOSE b \in S : \A c \in S : b <= c

\* One of Notify, NameServer and MessageQ: nothing if it is registered already, as it is
\* when an earlier call failed behind it.  The slave frees the memory of an instance that
\* fails, and leaves the pointer to it.
AttachStage(p) ==
    LET q == remote[p]  kind == Stages[stage[p]]  slot == Slot(p, q)
        Point(b) == srPtr' = [srPtr EXCEPT ![p][slot][kind] = b]
        Register(b) == instance' = [instance EXCEPT ![p][q][kind] = b]
    IN  /\ pc[p] = "stage"
        /\ \/ /\ instance[p][q][kind] # Null
              /\ NextStage(p) /\ UNCHANGED <<instance, srPtr, free, failures>>
           \/ /\ instance[p][q][kind] = Null /\ p < q /\ free # {}
              /\ Point(Lowest(free))
              /\ \/ /\ Register(Lowest(free)) /\ free' = free \ {Lowest(free)}
                    /\ NextStage(p) /\ UNCHANGED failures
                 \/ Fail /\ AttachFails(p) /\ UNCHANGED <<instance, stage, free>>
           \/ /\ instance[p][q][kind] = Null /\ q < p
              /\ UNCHANGED <<srPtr, free>>
              /\ \/ Register(SharedAt(p, q, kind)) /\ NextStage(p) /\ UNCHANGED failures
                 \/ Fail /\ AttachFails(p) /\ UNCHANGED <<instance, stage>>
        /\ UNCHANGED <<bounds, startedKey, heapCreated, attached, heapOpen>>

\* The user's attach functions, and the key that says that this side is ready.
AttachUser(p) ==
    LET q == remote[p] IN
    /\ pc[p] = "user"
    /\ \/ /\ SetKey(p, q, "finish") /\ UNCHANGED failures
          /\ \/ p < q /\ Goto(p, "spin") /\ UNCHANGED <<attached, remote>>
             \/ q < p /\ Attached(p, q)
       \/ Fail /\ AttachFails(p) /\ UNCHANGED <<startedKey, attached>>
    /\ UNCHANGED <<bounds, srPtr, heapCreated, free, stage, instance, heapOpen>>

\* Mutant: the slave does not wait for the master.
SyncFinish_atOnce(p) ==
    /\ pc[p] = "spin" /\ Attached(p, remote[p])
    /\ UNCHANGED <<bounds, shared, stage, instance, heapOpen, failures>>

\* Mutant: a master that is detaching again is waited for.
SyncFinish_finishOnly(p) ==
    LET q == remote[p] IN
    /\ pc[p] = "spin" /\ Key(q, p) = "finish"
    /\ Attached(p, q)
    /\ UNCHANGED <<bounds, shared, stage, instance, heapOpen, failures>>

\* The slave waits for the master, which may be detaching already when it looks.
SyncFinish(p) ==
    LET q == remote[p] IN
    /\ pc[p] = "spin" /\ Key(q, p) \in {"finish", "detach"}
    /\ Attached(p, q)
    /\ UNCHANGED <<bounds, shared, stage, instance, heapOpen, failures>>

\* A call for a processor that is attached only counts.
AttachMore(p) ==
    /\ pc[p] = "up"
    /\ \E q \in Peers(p) : /\ attached[p][q] < MaxAttached
                           /\ attached' = [attached EXCEPT ![p][q] = @ + 1]
    /\ UNCHANGED <<bounds, shared, pc, remote, stage, instance, heapOpen, failures>>

-----------------------------------------------------------------------------
(* Ipc_detach                                                              *)

\* Where a processor that is to detach from the processors of S goes on.
DetachFrom(p, S, q) ==
    IF S = {} THEN Goto(p, "down") /\ remote' = [remote EXCEPT ![p] = Null]
    ELSE Goto(p, "detach") /\ remote' = [remote EXCEPT ![p] = NextIn(S, q)]

Known(p) == {q \in Peers(p) : attached[p][q] > 0}

Leave(p) ==
    /\ pc[p] = "up" /\ DetachFrom(p, Known(p), p)
    /\ UNCHANGED <<bounds, shared, stage, attached, instance, heapOpen, failures>>

\* Mutant: the slave does not wait for the master.
DetachReady_notStarting(p, q) == Key(q, p) # "start"

\* The last count detaches: from the owner of region 0 last, and the slave after the master.
DetachReady(p, q) == IF p < q THEN Key(q, p) = "detach" ELSE Key(q, p) # "start"
DetachCall(p) ==
    LET q == remote[p] IN
    /\ pc[p] = "detach"
    /\ \/ /\ attached[p][q] > 1
          /\ attached' = [attached EXCEPT ![p][q] = @ - 1]
          /\ UNCHANGED <<pc, remote>>
       \/ /\ attached[p][q] = 1
          /\ IF (q = Owner => Known(p) = {q}) /\ DetachReady(p, q)
             THEN Goto(p, "unuser") /\ UNCHANGED remote ELSE DetachFrom(p, Known(p), q)
          /\ UNCHANGED attached
    /\ UNCHANGED <<bounds, shared, stage, instance, heapOpen, failures>>

\* The user's detach functions.
DetachUser(p) ==
    /\ pc[p] = "unuser"
    /\ \/ /\ Goto(p, "unstage") /\ stage' = [stage EXCEPT ![p] = Len(Stages)]
          /\ UNCHANGED <<remote, failures>>
       \/ Fail /\ DetachFrom(p, Known(p), remote[p]) /\ UNCHANGED stage
    /\ UNCHANGED <<bounds, shared, attached, instance, heapOpen>>

\* The instances go in the opposite order, the slave frees their memory.
DetachStage(p) ==
    LET q == remote[p]  kind == Stages[stage[p]]  slot == Slot(p, q) IN
    /\ pc[p] = "unstage"
    /\ \/ /\ instance' = [instance EXCEPT ![p][q][kind] = Null]
          /\ IF p < q /\ instance[p][q][kind] # Null
             THEN /\ free' = free \cup {srPtr[p][slot][kind]}
                  /\ srPtr' = [srPtr EXCEPT ![p][slot][kind] = Null]
             ELSE UNCHANGED <<free, srPtr>>
          /\ stage' = [stage EXCEPT ![p] = @ - 1]
          /\ Goto(p, IF stage[p] = 1 THEN "close" ELSE "unstage")
          /\ UNCHANGED <<remote, failures>>
       \/ /\ instance[p][q][kind] # Null /\ Fail
          /\ DetachFrom(p, Known(p), q) /\ UNCHANGED <<instance, free, srPtr, stage>>
    /\ UNCHANGED <<bounds, startedKey, heapCreated, attached, heapOpen>>

\* SharedRegion_detach and GateMP_detach, then the key that lets the other side go on.
Close(p) ==
    /\ pc[p] = "close" /\ Goto(p, "key")
    /\ heapOpen' = [heapOpen EXCEPT ![p] = @ /\ remote[p] # Owner]
    /\ UNCHANGED <<bounds, shared, remote, stage, attached, instance, failures>>
Detached(p) ==
    LET q == remote[p] IN
    /\ pc[p] = "key" /\ SetKey(p, q, "detach")
    /\ attached' = [attached EXCEPT ![p][q] = @ - 1]
    /\ DetachFrom(p, Known(p) \ {q}, q)
    /\ UNCHANGED <<bounds, srPtr, heapCreated, free, stage, instance, heapOpen, failures>>

Step(p) ==
    \/ Start(p) \/ Create(p) \/ Again(p) \/ Stop(p) \/ AttachCall(p) \/ MasterStarts(p)
    \/ SyncStart(p) \/ Open(p) \/ AttachStage(p) \/ AttachUser(p) \/ SyncFinish(p)
    \/ AttachMore(p) \/ Leave(p) \/ DetachCall(p) \/ DetachUser(p) \/ DetachStage(p)
    \/ Close(p) \/ Detached(p)
Next == \E p \in Procs : Step(p)

Spec == Init /\ [][Next]_vars
\* The task of each processor keeps running: the loops sleep or yield, they do not block.
FairSpec == Spec /\ \A p \in Procs : WF_vars(Step(p))

-----------------------------------------------------------------------------
(* Properties                                                              *)

TypeOK ==
    /\ procSync \in Modes /\ startedKey \in [Procs -> [0 .. NumProcs - 2 -> Keys]]
    /\ srPtr \in [Procs -> [0 .. NumProcs - 2 -> [Kinds -> Blocks \cup {Null}]]]
    /\ heapCreated \in BOOLEAN /\ free \in SUBSET Blocks
    /\ pc \in [Procs -> {"stopped", "create", "up", "down", "gaveUp", "attach", "starting",
                         "sync", "open", "stage", "user", "spin", "detach", "unuser",
                         "unstage", "close", "key"}]
    /\ remote \in [Procs -> Procs \cup {Null}] /\ stage \in [Procs -> 0 .. Len(Stages) + 1]
    /\ attached \in [Procs -> [Procs -> 0 .. MaxAttached]]
    /\ instance \in [Procs -> [Procs -> [Kinds -> Blocks \cup {Null}]]]
    /\ heapOpen \in [Procs -> BOOLEAN]
    /\ sessions \in [Procs -> 0 .. Sessions] /\ failures \in 0 .. MaxFailures

\* The memory of an instance is allocated while either side has the instance, to that pair and
\* kind alone; the master has it only while the slave has the same.
SharesLiveMemory ==
    \A p, q \in Procs, k \in Kinds : instance[p][q][k] # Null =>
        /\ instance[p][q][k] \notin free
        /\ instance[Slave(p, q)][p + q - Slave(p, q)][k] = instance[p][q][k]
        /\ \A r, s \in Procs, l \in Kinds :
             instance[r][s][l] = instance[p][q][k] => {r, s} = {p, q} /\ l = k

\* Who is told that it is attached can count on the instances of the other side, from the
\* return of Ipc_attach until the master takes them down.  A call of the master's that failed
\* half way leaves some of them down while it detaches from others.
Ready(p, q) == \A k \in Kinds : instance[p][q][k] # Null
Leaving(p, q) ==
    \/ remote[p] = q /\ pc[p] \in {"unstage", "close", "key"}
    \/ failures > 0 /\ pc[p] \in {"detach", "unuser", "unstage", "close", "key"}
PeerIsReady ==
    \A p, q \in Procs : attached[p][q] > 0 =>
        Ready(q, p) \/ (p < q /\ (Key(q, p) = "detach" \/ Leaving(q, p)))

\* The owner of region 0 does not delete the heap and the default gate while another
\* processor uses them.
HeapOutlivesUsers == \A p \in Procs : heapOpen[p] \/ pc[p] = "open" => heapCreated

\* The memory of a pair and the heap it comes from live as long as someone uses them.
MemoryIsSound == TypeOK /\ SharesLiveMemory /\ HeapOutlivesUsers

\* However the calls of the processors meet and whichever of them fail, every processor gets
\* through all its sessions: no Ipc_start, Ipc_attach or Ipc_detach is repeated for ever
\* unless Ipc_start gave up.
AllReturn ==
    <>(\/ \A p \in Procs : pc[p] \in {"down", "stopped"} /\ sessions[p] = Sessions
       \/ \E p \in Procs : pc[p] = "gaveUp")
=============================================================================
