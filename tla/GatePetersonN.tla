---------------------------- MODULE GatePetersonN ----------------------------
(***************************************************************************)
(* packages/ti/sdo/ipc/gates/GatePetersonN.c: the N-processor Peterson     *)
(* (filter) lock GateMP uses as its default remote gate.  Each processor   *)
(* has a local gate that its threads take first, a count of nested enters, *)
(* and one word of shared memory, enteredStage; each of the N - 1 stages   *)
(* has one shared word, lastProcEnteringStage.  A step reads or writes at  *)
(* most one shared word.                                                   *)
(*                                                                         *)
(* Abstracted: the cache.  The write-backs and invalidations around every  *)
(* shared access make the accesses sequentially consistent (external).     *)
(***************************************************************************)
EXTENDS Integers, FiniteSets

CONSTANTS N,            \* MultiProc_getNumProcsInCluster()
          Threads,      \* the threads of all processors that use the gate
          On,           \* the processor each thread runs on
          NoThread,     \* owner of a free local gate
          MaxNested     \* bound: the deepest nesting of enters explored

Procs  == 0 .. N - 1
Stages == 0 .. N - 2

ASSUME NAssumption == N \in Nat \ {0}
ASSUME ThreadsAssumption == On \in [Threads -> Procs] /\ NoThread \notin Threads
ASSUME MaxNestedAssumption == MaxNested \in Nat \ {0}

NOT_INTERESTED == -1

VARIABLES enteredStage,             \* shared: the stage each processor entered
          lastProcEnteringStage,    \* shared: the last to enter each stage
          localOwner,               \* the thread holding obj->localGate
          nested,                   \* obj->nested
          pc,                       \* where localOwner is in enter() or leave()
          curStage,                 \* enter()'s loop variables
          proc

shared == <<enteredStage, lastProcEnteringStage>>
local  == <<localOwner, nested>>
vars   == <<enteredStage, lastProcEnteringStage, localOwner, nested, pc,
            curStage, proc>>

\* Control points of enter() and leave(); "out" and "in" are between the calls.
Labels == {"out", "setEntered", "setLast", "readEntered", "readLast", "in",
           "leaveLocal"}

TypeOK ==
    /\ enteredStage \in [Procs -> Stages \cup {NOT_INTERESTED}]
    /\ lastProcEnteringStage \in [Stages -> Procs]
    /\ localOwner \in [Procs -> Threads \cup {NoThread}]
    /\ nested \in [Procs -> 0 .. MaxNested]
    /\ pc \in [Procs -> Labels]
    /\ curStage \in [Procs -> 0 .. N - 1]
    /\ proc \in [Procs -> 0 .. N]

\* Instance_init of the creator runs postInit before any opener attaches.
Init ==
    /\ enteredStage = [p \in Procs |-> NOT_INTERESTED]
    /\ lastProcEnteringStage = [s \in Stages |-> 0]
    /\ localOwner = [p \in Procs |-> NoThread]
    /\ nested = [p \in Procs |-> 0]
    /\ pc = [p \in Procs |-> "out"]
    /\ curStage = [p \in Procs |-> 0]
    /\ proc = [p \in Procs |-> 0]

-----------------------------------------------------------------------------
(* Faulty variants of the operators below: the mistakes the properties catch. *)

StageOrIn_oneMore(s) == IF s < N THEN "setEntered" ELSE "in"

\* The head of the stage loop: with one processor there is no stage.
StageOrIn(s) == IF s < N - 1 THEN "setEntered" ELSE "in"

ReadEntered_strictly(p) ==
    /\ pc[p] = "readEntered" /\ proc[p] < N
    /\ IF proc[p] # p /\ enteredStage[proc[p]] > curStage[p]
         THEN pc' = [pc EXCEPT ![p] = "readLast"] /\ UNCHANGED proc
         ELSE proc' = [proc EXCEPT ![p] = @ + 1] /\ UNCHANGED pc
    /\ UNCHANGED <<shared, local, curStage>>

NextStage_early(p) ==
    /\ pc[p] = "readEntered" /\ proc[p] = N - 1
    /\ curStage' = [curStage EXCEPT ![p] = @ + 1]
    /\ pc' = [pc EXCEPT ![p] = StageOrIn(curStage[p] + 1)]
    /\ UNCHANGED <<shared, local, proc>>

Leave_everyLevel(t) ==
    LET p == On[t] IN
    /\ pc[p] = "in" /\ localOwner[p] = t
    /\ nested' = [nested EXCEPT ![p] = @ - 1]
    /\ enteredStage' = [enteredStage EXCEPT ![p] = NOT_INTERESTED]
    /\ pc' = IF nested[p] = 1 THEN [pc EXCEPT ![p] = "leaveLocal"] ELSE pc
    /\ UNCHANGED <<lastProcEnteringStage, localOwner, curStage, proc>>

Leave_keepStage(t) ==
    LET p == On[t] IN
    /\ pc[p] = "in" /\ localOwner[p] = t
    /\ nested' = [nested EXCEPT ![p] = @ - 1]
    /\ pc' = IF nested[p] = 1 THEN [pc EXCEPT ![p] = "leaveLocal"] ELSE pc
    /\ UNCHANGED <<shared, localOwner, curStage, proc>>

-----------------------------------------------------------------------------
(* GatePetersonN_enter                                                     *)

\* The local gate is taken and this is the outermost enter.
Enter(t) ==
    LET p == On[t] IN
    /\ pc[p] = "out"
    /\ localOwner' = [localOwner EXCEPT ![p] = t]
    /\ nested' = [nested EXCEPT ![p] = 1]
    /\ curStage' = [curStage EXCEPT ![p] = 0]
    /\ pc' = [pc EXCEPT ![p] = StageOrIn(0)]
    /\ UNCHANGED <<shared, proc>>

\* The holder enters again: the early return for nested > 1.
Reenter(t) ==
    LET p == On[t] IN
    /\ pc[p] = "in" /\ localOwner[p] = t /\ nested[p] < MaxNested
    /\ nested' = [nested EXCEPT ![p] = @ + 1]
    /\ UNCHANGED <<shared, localOwner, pc, curStage, proc>>

SetEntered(p) ==
    /\ pc[p] = "setEntered"
    /\ enteredStage' = [enteredStage EXCEPT ![p] = curStage[p]]
    /\ pc' = [pc EXCEPT ![p] = "setLast"]
    /\ UNCHANGED <<lastProcEnteringStage, local, curStage, proc>>

SetLast(p) ==
    /\ pc[p] = "setLast"
    /\ lastProcEnteringStage' = [lastProcEnteringStage EXCEPT ![curStage[p]] = p]
    /\ pc' = [pc EXCEPT ![p] = "readEntered"]
    /\ proc' = [proc EXCEPT ![p] = 0]
    /\ UNCHANGED <<enteredStage, local, curStage>>

\* The first operand of the while condition: enteredStage[proc] >= curStage.
\* proc == myProcId is skipped; when it fails the loop is left.
ReadEntered(p) ==
    /\ pc[p] = "readEntered" /\ proc[p] < N
    /\ IF proc[p] # p /\ enteredStage[proc[p]] >= curStage[p]
         THEN pc' = [pc EXCEPT ![p] = "readLast"] /\ UNCHANGED proc
         ELSE proc' = [proc EXCEPT ![p] = @ + 1] /\ UNCHANGED pc
    /\ UNCHANGED <<shared, local, curStage>>

\* The second operand: lastProcEnteringStage[curStage] == myProcId.  While both
\* hold the processor spins; otherwise it goes on to the next proc.
ReadLast(p) ==
    /\ pc[p] = "readLast"
    /\ proc' = IF lastProcEnteringStage[curStage[p]] = p
                 THEN proc
                 ELSE [proc EXCEPT ![p] = @ + 1]
    /\ pc' = [pc EXCEPT ![p] = "readEntered"]
    /\ UNCHANGED <<shared, local, curStage>>

\* All processors were checked at this stage: the next stage, or the return.
NextStage(p) ==
    /\ pc[p] = "readEntered" /\ proc[p] = N
    /\ curStage' = [curStage EXCEPT ![p] = @ + 1]
    /\ pc' = [pc EXCEPT ![p] = StageOrIn(curStage[p] + 1)]
    /\ UNCHANGED <<shared, local, proc>>

-----------------------------------------------------------------------------
(* GatePetersonN_leave                                                     *)

\* Only the outermost leave gives up the shared gate.
Leave(t) ==
    LET p == On[t] IN
    /\ pc[p] = "in" /\ localOwner[p] = t
    /\ nested' = [nested EXCEPT ![p] = @ - 1]
    /\ IF nested[p] = 1
         THEN /\ enteredStage' = [enteredStage EXCEPT ![p] = NOT_INTERESTED]
              /\ pc' = [pc EXCEPT ![p] = "leaveLocal"]
         ELSE UNCHANGED <<enteredStage, pc>>
    /\ UNCHANGED <<lastProcEnteringStage, localOwner, curStage, proc>>

\* IGateProvider_leave(obj->localGate, key), after the shared word was reset.
LeaveLocal(p) ==
    /\ pc[p] = "leaveLocal"
    /\ localOwner' = [localOwner EXCEPT ![p] = NoThread]
    /\ pc' = [pc EXCEPT ![p] = "out"]
    /\ UNCHANGED <<shared, nested, curStage, proc>>

-----------------------------------------------------------------------------
\* The steps a processor inside enter() or leave() takes by itself.
Protocol(p) == \/ SetEntered(p) \/ SetLast(p) \/ ReadEntered(p) \/ ReadLast(p)
               \/ NextStage(p) \/ LeaveLocal(p)

Next == \/ \E t \in Threads : Enter(t) \/ Reenter(t) \/ Leave(t)
        \/ \E p \in Procs : Protocol(p)

Spec == Init /\ [][Next]_vars

\* The thread that owns the local gate keeps running, and a holder leaves the
\* gate in the end: what any user of a lock owes.  Threads need not enter.
OutermostLeave(t) == nested[On[t]] = 1 /\ Leave(t)

FairSpec == /\ Spec
            /\ \A p \in Procs : WF_vars(Protocol(p))
            /\ \A t \in Threads : WF_vars(Leave(t)) /\ SF_vars(OutermostLeave(t))

-----------------------------------------------------------------------------
(* Properties                                                              *)

Inside(p) == pc[p] = "in"

\* The processors whose claim on stage s, made by lastProcEnteringStage[s], stands.
At(s) == {p \in Procs :
            \/ pc[p] \in {"readEntered", "readLast"} /\ curStage[p] >= s
            \/ pc[p] \in {"setEntered", "setLast"} /\ curStage[p] > s
            \/ Inside(p)}

\* No two processors are between enter() and leave() of the gate: the filter
\* of N - 1 stages, each read one word at a time, lets at most one through.
MutualExclusion == \A p, q \in Procs : Inside(p) /\ Inside(q) => p = q

\* Each stage holds back at least one processor: at most N - s processors claim
\* stage s or a later one at the same time (the argument enter() rests on).
StageBound == \A s \in Stages : Cardinality(At(s)) <= N - s

\* The stage p stands at, as its control point tells.
StageOf(p) == CASE pc[p] \in {"out", "leaveLocal"} -> NOT_INTERESTED
                [] pc[p] = "setEntered" -> curStage[p] - 1
                [] Inside(p) -> N - 2
                [] OTHER -> curStage[p]

\* enteredStage is never behind the claim: what another processor reads of p is
\* exact from SetEntered to leave(), so a failed test really means "not at s".
EnteredStageExact == \A p \in Procs : enteredStage[p] = StageOf(p)

\* p went past q in the scan of stage s.
Checked(p, q, s) == p \in At(s) /\ (curStage[p] > s \/ proc[p] > q)

HeldBack(s) ==
    LET l == lastProcEnteringStage[s] IN
    /\ At(s) # {} => l \in At(s)
    /\ \A q \in At(s) \ {l} : ~ Checked(l, q, s)

\* The last processor to claim a stage is the one held back: while it is last it
\* cannot have passed any other claimant, and a claimed stage has such a one.
LastIsHeldBack == \A s \in Stages : HeldBack(s)

\* The filter: what others read of a processor is exact, each stage has a last one that
\* it holds back, and so each lets one processor fewer through than the one before.
Filter == EnteredStageExact /\ LastIsHeldBack /\ StageBound

\* A processor that began to enter gets in, however the others compete: no
\* processor spins in enter() for ever.
EntersEventually == \A p \in Procs : pc[p] = "setEntered" ~> Inside(p)

\* The gate is a recursive lock over the threads of all processors: the holder
\* is the thread whose processor passed every stage, its depth obj->nested.
Holders == {p \in Procs : Inside(p)}
Holder == IF Holders = {} THEN NoThread ELSE localOwner[CHOOSE p \in Holders : TRUE]
Depth  == IF Holders = {} THEN 0 ELSE nested[CHOOSE p \in Holders : TRUE]

G == INSTANCE Gate WITH holder <- Holder, depth <- Depth
GateRefinement == G!GateSpec
=============================================================================
