-------------------------------- MODULE Gate --------------------------------
(***************************************************************************)
(* What every IGateMPSupport implementation (GatePeterson, GatePetersonN,  *)
(* GateHWSpinlock, ...) promises to GateMP and to its users: a recursive   *)
(* lock over the threads of all processors.  A thread that holds the gate  *)
(* may enter it again; the gate is free once it was left as many times as  *)
(* it was entered.                                                         *)
(***************************************************************************)
EXTENDS Naturals

CONSTANTS Threads,      \* the threads of all processors
          NoThread      \* the holder of a free gate, not a thread

VARIABLES holder,       \* the thread inside the gate, or NoThread
          depth         \* how many enters of the holder are not yet left

gateVars == <<holder, depth>>

GateInit == holder = NoThread /\ depth = 0

\* IGateProvider_enter() returns to thread t.
GateEnter(t) ==
    /\ holder \in {NoThread, t}
    /\ holder' = t
    /\ depth' = depth + 1

\* IGateProvider_leave() by thread t, outermost or nested.
GateLeave(t) ==
    /\ holder = t
    /\ depth' = depth - 1
    /\ holder' = IF depth = 1 THEN NoThread ELSE t

GateNext == \E t \in Threads : GateEnter(t) \/ GateLeave(t)

GateSpec == GateInit /\ [][GateNext]_gateVars
=============================================================================
