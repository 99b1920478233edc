-------------------------------- MODULE GateMP --------------------------------
(***************************************************************************)
(* The life of the gates several processors share                          *)
(* (packages/ti/sdo/ipc/GateMP.c): creation, opening by name or address,   *)
(* closing and deletion.  What a gate does once it is there is             *)
(* GatePetersonN; this is who has which, and when it is gone.              *)
(*                                                                         *)
(* A gate with remote protection has a resource, one of the gates of the   *)
(* proxy, that its creator takes from a table of flags in shared memory,   *)
(* and attributes at an address the application has chosen.  On each       *)
(* processor at most one object stands for it: its creator's, or one made  *)
(* by the first open.  The flags are one cache line, and the caches are    *)
(* not coherent.                                                           *)
(***************************************************************************)
EXTENDS Integers, FiniteSets, FiniteSetsExt

CONSTANTS Procs, Threads, On,   \* processors, threads, and the processor each runs on
          NumRemoteSystem,      \* resources the proxy has, without the default gate's
          Blocks,               \* addresses of attributes in the shared region
          Nothing               \* no object, block, resource or copy

Resources == 1 .. NumRemoteSystem
Objects   == 1 .. Cardinality(Threads)    \* as many as there can be at once
Flags     == [Resources -> BOOLEAN]

ASSUME GateMPAssumption ==
    /\ On \in [Threads -> Procs] /\ IsFiniteSet(Threads)
    /\ NumRemoteSystem \in Nat \ {0}
    /\ Nothing \notin Blocks \cup Resources \cup Objects \cup Flags

VARIABLES inUse,        \* remoteSystemInUse in memory, and the copies in the caches
          attrs,        \* the attributes, by address
          nameServer,   \* the one name each processor gives a gate it creates
          remoteSystemGates,    \* on each processor, its object for a resource
          obj,          \* the objects
          thread,       \* where each thread is, its object, the address it opens
          raced,        \* history: a gate was opened while it was closed or deleted
          exhausted     \* history: a create found no resource

vars == <<inUse, attrs, nameServer, remoteSystemGates, obj, thread, raced, exhausted>>

-----------------------------------------------------------------------------
NoObject == [live |-> FALSE, created |-> FALSE, named |-> FALSE, block |-> Nothing,
             resourceId |-> Nothing, numOpens |-> 0]
Idle == [pc |-> "idle", obj |-> Nothing, addr |-> Nothing]

TypeOK ==
    /\ inUse \in [memory : Flags, cache : [Procs -> Flags \cup {Nothing}]]
    /\ attrs \in [Blocks -> [created : BOOLEAN, arg : Resources \cup {Nothing}]]
    /\ nameServer \in [Procs -> Blocks \cup {Nothing}]
    /\ remoteSystemGates \in [Procs -> [Resources -> Objects \cup {Nothing}]]
    /\ obj \in [Objects -> [live : BOOLEAN, created : BOOLEAN, named : BOOLEAN,
                            block : Blocks \cup {Nothing},
                            resourceId : Resources \cup {Nothing}, numOpens : Nat]]
    /\ thread \in [Threads ->
         [pc : {"idle", "proxy", "publish", "created", "checked",
                "opened", "finalize", "unlist", "release", "free"},
          obj : Objects \cup {Nothing}, addr : Blocks \cup {Nothing}]]
    /\ {raced, exhausted} \subseteq BOOLEAN

\* GateMP_start has run: the default gate is there.
Init ==
    /\ inUse = [memory |-> [r \in Resources |-> FALSE], cache |-> [p \in Procs |-> Nothing]]
    /\ attrs = [b \in Blocks |-> [created |-> FALSE, arg |-> Nothing]]
    /\ nameServer = [p \in Procs |-> Nothing]
    /\ remoteSystemGates = [p \in Procs |-> [r \in Resources |-> Nothing]]
    /\ obj = [o \in Objects |-> NoObject]
    /\ thread = [t \in Threads |-> Idle]
    /\ raced = FALSE /\ exhausted = FALSE

At(t, pc) == thread[t].pc = pc
Goto(t, pc) == thread' = [thread EXCEPT ![t].pc = pc]
Obj(t) == obj[thread[t].obj]

\* Memory that no thread has a pointer to.
NewObject == Min({o \in Objects : ~ obj[o].live /\ \A t \in Threads : thread[t].obj # o})

\* The object's memory: no one can find it any more when it is freed.
Free(t) ==
    /\ obj' = [obj EXCEPT ![thread[t].obj] = NoObject]
    /\ thread' = [thread EXCEPT ![t] = Idle]

\* Creating a gate where another one is, or is on its way, is the application's mistake.
BlockIsFree(b) == \A o \in Objects : obj[o].block # b

shared == <<inUse, attrs, nameServer>>
history == <<raced, exhausted>>

-----------------------------------------------------------------------------
(* GateMP_create                                                            *)

Unused == {r \in Resources : ~ inUse.memory[r]}

GetFreeResource_unwritten(p, r) ==
    /\ r \in Unused /\ r = Min(Unused)
    /\ inUse' = [inUse EXCEPT !.cache[p] = [inUse.memory EXCEPT ![r] = TRUE]]
    /\ UNCHANGED exhausted

\* In the default gate: the flags are invalidated and searched, and written back when one
\* was set.  After a search in vain they stay in the cache.
GetFreeResource(p, r) ==
    \/ /\ r \in Unused /\ r = Min(Unused)
       /\ inUse' = [inUse EXCEPT !.memory[r] = TRUE, !.cache[p] = Nothing]
       /\ UNCHANGED exhausted
    \/ /\ r = Nothing /\ Unused = {}
       /\ inUse' = [inUse EXCEPT !.cache[p] = inUse.memory]
       /\ exhausted' = TRUE

Create(t, b) ==
    /\ At(t, "idle") /\ BlockIsFree(b)
    /\ \E r \in Resources \cup {Nothing} :
         /\ GetFreeResource(On[t], r)
         /\ obj' = [obj EXCEPT ![NewObject] = [NoObject EXCEPT !.live = TRUE,
                        !.created = TRUE, !.block = b, !.resourceId = r]]
         /\ thread' = [thread EXCEPT ![t] = [Idle EXCEPT !.obj = NewObject,
                        !.pc = IF r = Nothing THEN "finalize" ELSE "proxy"]]
    /\ UNCHANGED <<attrs, nameServer, remoteSystemGates, raced>>

CreateProxy_notFinalized(t) ==
    /\ At(t, "proxy")
    /\ \/ /\ remoteSystemGates' = [remoteSystemGates EXCEPT
                ![On[t]][Obj(t).resourceId] = thread[t].obj]
          /\ Goto(t, "publish") /\ UNCHANGED obj
       \/ Free(t) /\ UNCHANGED remoteSystemGates
    /\ UNCHANGED <<shared, history>>

\* The proxy may be refused, for want of memory.
CreateProxy(t) ==
    /\ At(t, "proxy")
    /\ \/ /\ remoteSystemGates' = [remoteSystemGates EXCEPT
                ![On[t]][Obj(t).resourceId] = thread[t].obj]
          /\ Goto(t, "publish")
       \/ Goto(t, "finalize") /\ UNCHANGED remoteSystemGates
    /\ UNCHANGED <<shared, obj, history>>

\* Attributes and name.  NameServer_add refuses a name that is there.
Publish(t) ==
    /\ At(t, "publish")
    /\ attrs' = [attrs EXCEPT ![Obj(t).block] = [created |-> TRUE, arg |-> Obj(t).resourceId]]
    /\ IF nameServer[On[t]] = Nothing
       THEN /\ nameServer' = [nameServer EXCEPT ![On[t]] = Obj(t).block]
            /\ obj' = [obj EXCEPT ![thread[t].obj].named = TRUE]
            /\ Goto(t, "created")
       ELSE Goto(t, "finalize") /\ UNCHANGED <<nameServer, obj>>
    /\ UNCHANGED <<inUse, remoteSystemGates, history>>

-----------------------------------------------------------------------------
(* GateMP_open and GateMP_openByAddr                                        *)

\* The attributes are invalidated and their status read: GateMP_E_NOTFOUND leaves all as it
\* was.  The address an application has agreed on, and the one NameServer_get has found for
\* a name, may be that of a gate deleted, or made anew, since.
OpenByAddr(t, b) ==
    /\ At(t, "idle") /\ attrs[b].created
    /\ thread' = [thread EXCEPT ![t].pc = "checked", ![t].addr = b]
    /\ UNCHANGED <<shared, remoteSystemGates, obj, history>>

Open(t, p) == nameServer[p] # Nothing /\ OpenByAddr(t, nameServer[p])

\* Object o, or the gate at b, is on its way out already.
Finalizing(o, b) ==
    \E t \in Threads : /\ thread[t].pc \in {"finalize", "unlist"}
                       /\ thread[t].obj = o \/ (Obj(t).created /\ Obj(t).block = b)

\* With interrupts disabled: the processor's object for the resource, or a new one.
OpenLocal(t) ==
    /\ At(t, "checked")
    /\ LET o == remoteSystemGates[On[t]][attrs[thread[t].addr].arg]
       IN /\ o # Nothing
          /\ obj' = [obj EXCEPT ![o].numOpens = @ + 1]
          /\ thread' = [thread EXCEPT ![t].pc = "opened", ![t].obj = o]
          /\ raced' = (raced \/ Finalizing(o, thread[t].addr))
    /\ UNCHANGED <<shared, remoteSystemGates, exhausted>>

OpenRemote(t) ==
    /\ At(t, "checked")
    /\ LET r == attrs[thread[t].addr].arg
           o == NewObject
       IN /\ remoteSystemGates[On[t]][r] = Nothing
          /\ \/ /\ obj' = [obj EXCEPT ![o] = [NoObject EXCEPT !.live = TRUE, !.numOpens = 1,
                              !.block = thread[t].addr, !.resourceId = r]]
                /\ remoteSystemGates' = [remoteSystemGates EXCEPT ![On[t]][r] = o]
                /\ thread' = [thread EXCEPT ![t].pc = "opened", ![t].obj = o]
                /\ raced' = (raced \/ Finalizing(Nothing, thread[t].addr))
             \/ /\ thread' = [thread EXCEPT ![t] = Idle]      \* no proxy: GateMP_E_FAIL
                /\ UNCHANGED <<obj, remoteSystemGates, raced>>
    /\ UNCHANGED <<shared, exhausted>>

-----------------------------------------------------------------------------
(* GateMP_close, GateMP_delete and the end of an object                     *)

\* The last close of an object that an open has made deletes it.
Close(t) ==
    /\ At(t, "opened") /\ Obj(t).numOpens > 0
    /\ obj' = [obj EXCEPT ![thread[t].obj].numOpens = @ - 1]
    /\ IF Obj(t).numOpens = 1 /\ ~ Obj(t).created THEN Goto(t, "finalize")
       ELSE thread' = [thread EXCEPT ![t] = Idle]
    /\ UNCHANGED <<shared, remoteSystemGates, history>>

\* To delete a gate that somebody else has open is the application's mistake.  That somebody
\* is about to open it, its creator cannot know.
Delete(t) ==
    /\ At(t, "created")
    /\ \A u \in Threads \ {t} : thread[u].obj # Nothing => Obj(u).block # Obj(t).block
    /\ Goto(t, "finalize")
    /\ UNCHANGED <<shared, remoteSystemGates, obj, history>>

\* Instance_finalize, step by step: the name and the status, which an open that has passed
\* the status does not see, ...
Unpublish(t) ==
    /\ At(t, "finalize")
    /\ nameServer' = IF Obj(t).named THEN [nameServer EXCEPT ![On[t]] = Nothing]
                     ELSE nameServer
    /\ attrs' = IF Obj(t).created THEN [attrs EXCEPT ![Obj(t).block].created = FALSE]
                ELSE attrs
    /\ raced' = \/ raced
                 \/ /\ Obj(t).created
                    /\ \E u \in Threads : At(u, "checked") /\ thread[u].addr = Obj(t).block
    /\ Goto(t, "unlist")
    /\ UNCHANGED <<inUse, remoteSystemGates, obj, exhausted>>

Unlist_createdOnly(t) ==
    /\ At(t, "unlist")
    /\ remoteSystemGates' =
         IF ~ Obj(t).created \/ Obj(t).resourceId = Nothing THEN remoteSystemGates
         ELSE [remoteSystemGates EXCEPT ![On[t]][Obj(t).resourceId] = Nothing]
    /\ IF Obj(t).created /\ Obj(t).resourceId # Nothing THEN Goto(t, "release") /\ UNCHANGED obj
       ELSE Free(t)
    /\ UNCHANGED <<shared, history>>

\* ... the entry of the processor's table, ...
Unlist(t) ==
    /\ At(t, "unlist")
    /\ remoteSystemGates' =
         IF Obj(t).resourceId = Nothing THEN remoteSystemGates
         ELSE [remoteSystemGates EXCEPT ![On[t]][Obj(t).resourceId] = Nothing]
    /\ IF Obj(t).created /\ Obj(t).resourceId # Nothing THEN Goto(t, "release") /\ UNCHANGED obj
       ELSE Free(t)
    /\ UNCHANGED <<shared, history>>

\* ... and the flag, in the default gate, in the line as the cache has it.
Release(t) ==
    /\ At(t, "release")
    /\ LET p    == On[t]
           seen == IF inUse.cache[p] = Nothing THEN inUse.memory ELSE inUse.cache[p]
       IN inUse' = [inUse EXCEPT !.memory = [seen EXCEPT ![Obj(t).resourceId] = FALSE],
                                 !.cache[p] = Nothing]
    /\ Free(t)
    /\ UNCHANGED <<attrs, nameServer, remoteSystemGates, history>>

\* The cache makes room.
CacheEvicts(p) ==
    /\ inUse.cache[p] # Nothing
    /\ inUse' = [inUse EXCEPT !.cache[p] = Nothing]
    /\ UNCHANGED <<attrs, nameServer, remoteSystemGates, obj, thread, history>>

Creates(t) == CreateProxy(t) \/ Publish(t)
Opens(t) == OpenLocal(t) \/ OpenRemote(t)
Finalizes(t) == Unpublish(t) \/ Unlist(t) \/ Release(t)

Next ==
    \/ \E t \in Threads :
        \/ \E p \in Procs : Open(t, p)
        \/ \E b \in Blocks : Create(t, b) \/ OpenByAddr(t, b)
        \/ Close(t) \/ Delete(t)
        \/ Creates(t) \/ Opens(t) \/ Finalizes(t)
    \/ \E p \in Procs : CacheEvicts(p)

Spec == Init /\ [][Next]_vars

-----------------------------------------------------------------------------
(* Properties                                                               *)

Owners(r) == {o \in Objects : obj[o].created /\ obj[o].resourceId = r}

\* Two gates never have one resource, and a resource that a gate has is flagged in memory,
\* where every processor looks for a free one, until it is given back, whatever step of
\* the creation failed.
ResourcesUnshared ==
    /\ TypeOK
    /\ \A r \in Resources :
         Cardinality(Owners(r)) <= 1 /\ (Owners(r) # {} => inUse.memory[r])

\* A resource is not lost: one that is flagged has an owner.  After a search in vain it may
\* not be so, for Release then writes an old copy of all the flags.
NoResourceLost ==
    ~ exhausted => \A r \in Resources : inUse.memory[r] => Owners(r) # {}

\* The handle that an open has returned is good until its close: its object is there, is
\* the one its processor lists, counts exactly the threads that hold it, and stands for the
\* gate that is at the address, under that gate's resource.
HandlesLive ==
    ~ raced => \A t \in Threads : At(t, "opened") =>
        LET o == thread[t].obj
        IN /\ obj[o].live /\ obj[o].block = thread[t].addr
           /\ remoteSystemGates[On[t]][obj[o].resourceId] = o
           /\ obj[o].numOpens = Cardinality({u \in Threads : At(u, "opened") /\ thread[u].obj = o})
           /\ attrs[thread[t].addr] = [created |-> TRUE, arg |-> obj[o].resourceId]
=============================================================================
