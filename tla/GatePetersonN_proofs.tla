------------------------ MODULE GatePetersonN_proofs ------------------------
(***************************************************************************)
(* For every number of processors, every set of threads and every nesting: *)
(* GatePetersonN is type correct, mutually exclusive, and implements Gate. *)
(***************************************************************************)
EXTENDS GatePetersonN, FiniteSetTheorems, TLAPS

USE NAssumption, ThreadsAssumption, MaxNestedAssumption

-----------------------------------------------------------------------------
(* Control: what the program counter says of the processor's own variables. *)

ControlOf(p) ==
    /\ pc[p] \in {"setEntered", "setLast", "readEntered", "readLast"} =>
            curStage[p] \in Stages /\ nested[p] = 1
    /\ pc[p] = "readLast" => proc[p] < N /\ proc[p] # p
    /\ pc[p] = "in" => curStage[p] = N - 1 /\ nested[p] >= 1
    /\ pc[p] \in {"out", "leaveLocal"} => nested[p] = 0
    /\ pc[p] # "out" => localOwner[p] \in Threads

Control == \A p \in Procs : ControlOf(p)

\* The variables keep their types: enteredStage is a stage or NOT_INTERESTED,
\* obj->nested never goes below zero, the loop variables stay in their ranges.
THEOREM TypeCorrect == Spec => [](TypeOK /\ Control)
<1>1. Init => TypeOK /\ Control
  BY DEF Init, TypeOK, Control, ControlOf, Procs, Stages, Labels, NOT_INTERESTED
<1>2. TypeOK /\ Control /\ [Next]_vars => TypeOK' /\ Control'
  <2> SUFFICES ASSUME TypeOK, Control, [Next]_vars
               PROVE  TypeOK' /\ Control'
    OBVIOUS
  <2> USE DEF shared, local
  <2>1. ASSUME NEW t \in Threads, Enter(t) PROVE TypeOK' /\ Control'
    <3>1. On[t] \in Procs
      BY <2>1 DEF Enter, Procs
    <3>2. 1 \in 0 .. MaxNested
      BY <2>1, <3>1 DEF Enter, TypeOK, Control, ControlOf, Stages
    <3>3. 0 \in 0 .. N - 1
      BY <2>1, <3>1, <3>2 DEF Enter, TypeOK, Control, ControlOf, Stages
    <3>4. StageOrIn(0) \in Labels
      BY <2>1, <3>1, <3>2, <3>3 DEF Enter, StageOrIn, Labels
    <3>5. TypeOK'
      BY <2>1, <3>1, <3>2, <3>3, <3>4 DEF Enter, TypeOK, Labels
    <3>6. ASSUME NEW q \in Procs PROVE ControlOf(q)'
      <4>1. CASE q = On[t]
        BY <2>1, <3>1, <3>2, <3>3, <3>4, <4>1 DEF Enter, TypeOK, Control, ControlOf, StageOrIn, Stages
      <4>2. CASE q # On[t]
        BY <2>1, <3>1, <3>2, <3>3, <3>4, <4>2 DEF Enter, TypeOK, Control, ControlOf
      <4> QED BY <4>1, <4>2
    <3> QED BY <3>5, <3>6 DEF Control
  <2>2. ASSUME NEW t \in Threads, Reenter(t) PROVE TypeOK' /\ Control'
    <3>1. On[t] \in Procs
      BY <2>2 DEF Reenter, Procs
    <3>2. nested[On[t]] \in 0 .. MaxNested
      BY <2>2, <3>1 DEF Reenter, TypeOK, Control, ControlOf, Stages
    <3>3. nested[On[t]] + 1 \in 0 .. MaxNested
      BY <2>2, <3>1, <3>2 DEF Reenter, TypeOK, Control, ControlOf, Stages
    <3>4. TypeOK'
      BY <2>2, <3>1, <3>2, <3>3 DEF Reenter, TypeOK, Labels
    <3>5. ASSUME NEW q \in Procs PROVE ControlOf(q)'
      <4>1. CASE q = On[t]
        BY <2>2, <3>1, <3>2, <3>3, <4>1 DEF Reenter, TypeOK, Control, ControlOf, StageOrIn, Stages
      <4>2. CASE q # On[t]
        BY <2>2, <3>1, <3>2, <3>3, <4>2 DEF Reenter, TypeOK, Control, ControlOf
      <4> QED BY <4>1, <4>2
    <3> QED BY <3>4, <3>5 DEF Control
  <2>3. ASSUME NEW t \in Threads, Leave(t) PROVE TypeOK' /\ Control'
    <3>1. On[t] \in Procs
      BY <2>3 DEF Leave, Procs
    <3>2. nested[On[t]] \in 0 .. MaxNested
      BY <2>3, <3>1 DEF Leave, TypeOK, Control, ControlOf, Stages
    <3>3. ControlOf(On[t])
      BY <2>3, <3>1, <3>2 DEF Leave, TypeOK, Control, ControlOf, Stages
    <3>4. nested[On[t]] - 1 \in 0 .. MaxNested
      BY <2>3, <3>1, <3>2, <3>3 DEF Leave, TypeOK, Control, ControlOf, Stages
    <3>5. TypeOK'
      BY <2>3, <3>1, <3>2, <3>3, <3>4 DEF Leave, TypeOK, Labels
    <3>6. ASSUME NEW q \in Procs PROVE ControlOf(q)'
      <4>1. CASE q = On[t]
        BY <2>3, <3>1, <3>2, <3>3, <3>4, <4>1 DEF Leave, TypeOK, Control, ControlOf, StageOrIn, Stages
      <4>2. CASE q # On[t]
        BY <2>3, <3>1, <3>2, <3>3, <3>4, <4>2 DEF Leave, TypeOK, Control, ControlOf
      <4> QED BY <4>1, <4>2
    <3> QED BY <3>5, <3>6 DEF Control
  <2>4. ASSUME NEW p \in Procs, SetEntered(p) PROVE TypeOK' /\ Control'
    <3>1. curStage[p] \in Stages
      BY <2>4 DEF SetEntered, TypeOK, Control, ControlOf, Stages
    <3>2. TypeOK'
      BY <2>4, <3>1 DEF SetEntered, TypeOK, Labels
    <3>3. ASSUME NEW q \in Procs PROVE ControlOf(q)'
      <4>1. CASE q = p
        BY <2>4, <3>1, <4>1 DEF SetEntered, TypeOK, Control, ControlOf, StageOrIn, Stages
      <4>2. CASE q # p
        BY <2>4, <3>1, <4>2 DEF SetEntered, TypeOK, Control, ControlOf
      <4> QED BY <4>1, <4>2
    <3> QED BY <3>2, <3>3 DEF Control
  <2>5. ASSUME NEW p \in Procs, SetLast(p) PROVE TypeOK' /\ Control'
    <3>1. curStage[p] \in Stages
      BY <2>5 DEF SetLast, TypeOK, Control, ControlOf, Stages
    <3>2. 0 \in 0 .. N
      BY <2>5, <3>1 DEF SetLast, TypeOK, Control, ControlOf, Stages
    <3>3. TypeOK'
      BY <2>5, <3>1, <3>2 DEF SetLast, TypeOK, Labels
    <3>4. ASSUME NEW q \in Procs PROVE ControlOf(q)'
      <4>1. CASE q = p
        BY <2>5, <3>1, <3>2, <4>1 DEF SetLast, TypeOK, Control, ControlOf, StageOrIn, Stages
      <4>2. CASE q # p
        BY <2>5, <3>1, <3>2, <4>2 DEF SetLast, TypeOK, Control, ControlOf
      <4> QED BY <4>1, <4>2
    <3> QED BY <3>3, <3>4 DEF Control
  <2>6. ASSUME NEW p \in Procs, ReadEntered(p) PROVE TypeOK' /\ Control'
    <3>1. proc[p] \in 0 .. N
      BY <2>6 DEF ReadEntered, TypeOK, Control, ControlOf, Stages
    <3>2. proc[p] < N => proc[p] + 1 \in 0 .. N
      BY <3>1
    <3>3. TypeOK'
      BY <2>6, <3>1, <3>2 DEF ReadEntered, TypeOK, Labels
    <3>4. ASSUME NEW q \in Procs PROVE ControlOf(q)'
      <4>1. CASE q = p
        BY <2>6, <3>1, <3>2, <4>1 DEF ReadEntered, TypeOK, Control, ControlOf, StageOrIn, Stages
      <4>2. CASE q # p
        BY <2>6, <3>1, <3>2, <4>2 DEF ReadEntered, TypeOK, Control, ControlOf
      <4> QED BY <4>1, <4>2
    <3> QED BY <3>3, <3>4 DEF Control
  <2>7. ASSUME NEW p \in Procs, ReadLast(p) PROVE TypeOK' /\ Control'
    <3>1. proc[p] \in 0 .. N
      BY <2>7 DEF ReadLast, TypeOK, Control, ControlOf, Stages
    <3>2. ControlOf(p)
      BY <2>7, <3>1 DEF ReadLast, TypeOK, Control, ControlOf, Stages
    <3>3. pc[p] = "readLast" => proc[p] + 1 \in 0 .. N
      BY <3>1, <3>2 DEF ControlOf
    <3>4. TypeOK'
      BY <2>7, <3>1, <3>2, <3>3 DEF ReadLast, TypeOK, Labels
    <3>5. ASSUME NEW q \in Procs PROVE ControlOf(q)'
      <4>1. CASE q = p
        BY <2>7, <3>1, <3>2, <3>3, <4>1 DEF ReadLast, TypeOK, Control, ControlOf, StageOrIn, Stages
      <4>2. CASE q # p
        BY <2>7, <3>1, <3>2, <3>3, <4>2 DEF ReadLast, TypeOK, Control, ControlOf
      <4> QED BY <4>1, <4>2
    <3> QED BY <3>4, <3>5 DEF Control
  <2>8. ASSUME NEW p \in Procs, NextStage(p) PROVE TypeOK' /\ Control'
    <3>1. ControlOf(p) /\ curStage[p] \in 0 .. N - 1
      BY <2>8 DEF NextStage, TypeOK, Control, ControlOf, Stages
    <3>2. pc[p] = "readEntered" => curStage[p] + 1 \in 0 .. N - 1
      BY <3>1 DEF ControlOf, Stages
    <3>3. StageOrIn(curStage[p]+1) \in Labels
      BY <2>8, <3>1, <3>2 DEF NextStage, StageOrIn, Labels
    <3>4. TypeOK'
      BY <2>8, <3>1, <3>2, <3>3 DEF NextStage, TypeOK, Labels
    <3>5. ASSUME NEW q \in Procs PROVE ControlOf(q)'
      <4>1. CASE q = p
        <5>1. /\ curStage'[p] = curStage[p] + 1
              /\ pc'[p] = StageOrIn(curStage[p] + 1)
              /\ nested'[p] = 1 /\ localOwner'[p] \in Threads
          BY <2>8, <3>1 DEF NextStage, TypeOK, ControlOf
        <5> QED BY <2>8, <3>1, <3>2, <4>1, <5>1
                DEF NextStage, ControlOf, StageOrIn, Stages
      <4>2. CASE q # p
        BY <2>8, <3>1, <3>2, <3>3, <4>2 DEF NextStage, TypeOK, Control, ControlOf
      <4> QED BY <4>1, <4>2
    <3> QED BY <3>4, <3>5 DEF Control
  <2>9. ASSUME NEW p \in Procs, LeaveLocal(p) PROVE TypeOK' /\ Control'
    <3>1. TypeOK'
      BY <2>9 DEF LeaveLocal, TypeOK, Labels
    <3>2. ASSUME NEW q \in Procs PROVE ControlOf(q)'
      <4>1. CASE q = p
        BY <2>9, <4>1 DEF LeaveLocal, TypeOK, Control, ControlOf, StageOrIn, Stages
      <4>2. CASE q # p
        BY <2>9, <4>2 DEF LeaveLocal, TypeOK, Control, ControlOf
      <4> QED BY <4>1, <4>2
    <3> QED BY <3>1, <3>2 DEF Control
  <2>10. CASE UNCHANGED vars
    BY <2>10 DEF vars, TypeOK, Control, ControlOf
  <2> QED
    BY <2>1, <2>2, <2>3, <2>4, <2>5, <2>6, <2>7, <2>8, <2>9, <2>10
       DEF Next, Protocol
<1> QED BY <1>1, <1>2, PTL DEF Spec
-----------------------------------------------------------------------------
(* The filter: who claims a stage, and who has been past whom.              *)

\* The stage written to shared memory stays in step with the program counter.
LEMMA EnteredExactStep ==
  ASSUME TypeOK, Control, EnteredStageExact, [Next]_vars
  PROVE  EnteredStageExact'
<1> SUFFICES ASSUME NEW q \in Procs PROVE (enteredStage[q] = StageOf(q))'
  BY DEF EnteredStageExact
<1> USE DEF StageOf, Inside, NOT_INTERESTED, shared, local
<1>1. /\ ControlOf(q) /\ enteredStage[q] = StageOf(q) /\ curStage[q] \in Int
      /\ pc[q] \in Labels
  BY DEF Control, TypeOK, EnteredStageExact
<1>2. ASSUME NEW t \in Threads, Enter(t) PROVE (enteredStage[q] = StageOf(q))'
  <2>1. CASE q = On[t]
    BY <1>1, <1>2, <2>1 DEF Enter, TypeOK, ControlOf, StageOrIn, Stages
  <2>2. CASE q # On[t]
    BY <1>1, <1>2, <2>2 DEF Enter, TypeOK
  <2> QED BY <2>1, <2>2
<1>3. ASSUME NEW t \in Threads, Reenter(t) PROVE (enteredStage[q] = StageOf(q))'
  BY <1>1, <1>3 DEF Reenter, TypeOK, ControlOf
<1>4. ASSUME NEW t \in Threads, Leave(t) PROVE (enteredStage[q] = StageOf(q))'
  BY <1>1, <1>4 DEF Leave, TypeOK, ControlOf
<1>5. ASSUME NEW p \in Procs, SetEntered(p) PROVE (enteredStage[q] = StageOf(q))'
  BY <1>1, <1>5 DEF SetEntered, TypeOK, ControlOf
<1>6. ASSUME NEW p \in Procs, SetLast(p) PROVE (enteredStage[q] = StageOf(q))'
  BY <1>1, <1>6 DEF SetLast, TypeOK, ControlOf
<1>7. ASSUME NEW p \in Procs, ReadEntered(p) PROVE (enteredStage[q] = StageOf(q))'
  BY <1>1, <1>7 DEF ReadEntered, TypeOK, ControlOf
<1>8. ASSUME NEW p \in Procs, ReadLast(p) PROVE (enteredStage[q] = StageOf(q))'
  BY <1>1, <1>8 DEF ReadLast, TypeOK, ControlOf
<1>9. ASSUME NEW p \in Procs, NextStage(p) PROVE (enteredStage[q] = StageOf(q))'
  <2>1. CASE q = p
    BY <1>1, <1>9, <2>1 DEF NextStage, TypeOK, ControlOf, StageOrIn, Stages
  <2>2. CASE q # p
    BY <1>1, <1>9, <2>2 DEF NextStage, TypeOK
  <2> QED BY <2>1, <2>2
<1>10. ASSUME NEW p \in Procs, LeaveLocal(p) PROVE (enteredStage[q] = StageOf(q))'
  BY <1>1, <1>10 DEF LeaveLocal, TypeOK, ControlOf
<1>11. CASE UNCHANGED vars
  BY <1>1, <1>11 DEF vars
<1> QED
  BY <1>2, <1>3, <1>4, <1>5, <1>6, <1>7, <1>8, <1>9, <1>10, <1>11 DEF Next, Protocol
\* How a step changes the claimants of a stage: SetLast adds one, which becomes
\* the last; the outermost Leave removes one that was inside; no other step
\* changes them or the last.
SameClaims(s) == At(s)' = At(s) /\ lastProcEnteringStage'[s] = lastProcEnteringStage[s]

OneLeaves(s) == \E p \in Procs :
    /\ Inside(p) /\ At(s)' = At(s) \ {p}
    /\ lastProcEnteringStage'[s] = lastProcEnteringStage[s]

OneClaims(s) == \E p \in Procs :
    /\ SetLast(p) /\ curStage[p] = s
    /\ At(s)' = At(s) \cup {p} /\ lastProcEnteringStage'[s] = p

LEMMA ClaimsStep ==
  ASSUME TypeOK, Control, [Next]_vars, NEW s \in Stages
  PROVE  SameClaims(s) \/ OneLeaves(s) \/ OneClaims(s)
<1> USE DEF shared, local
<1>1. /\ s \in Int /\ s < N - 1
      /\ \A p \in Procs : ControlOf(p) /\ curStage[p] \in Int /\ pc[p] \in Labels
  BY DEF Control, TypeOK, Stages
<1>2. ASSUME NEW t \in Threads, Enter(t) PROVE SameClaims(s)
  BY <1>1, <1>2 DEF Enter, TypeOK, ControlOf, At, Inside, SameClaims, StageOrIn, Stages
<1>3. ASSUME NEW t \in Threads, Reenter(t) PROVE SameClaims(s)
  BY <1>1, <1>3 DEF Reenter, TypeOK, ControlOf, At, Inside, SameClaims, StageOrIn, Stages
<1>4. ASSUME NEW t \in Threads, Leave(t) PROVE SameClaims(s) \/ OneLeaves(s)
  <2>1. CASE nested[On[t]] = 1
    <3>1. /\ On[t] \in Procs /\ Inside(On[t])
          /\ lastProcEnteringStage'[s] = lastProcEnteringStage[s]
      BY <1>4, <2>1 DEF Leave, Inside
    <3>2. ~ (On[t] \in At(s)')
      BY <1>4, <2>1, <3>1 DEF Leave, TypeOK, At, Inside
    <3>3. ASSUME NEW q \in Procs, q # On[t] PROVE q \in At(s)' <=> q \in At(s)
      BY <1>4, <2>1, <3>1, <3>3 DEF Leave, TypeOK, At, Inside
    <3>4. At(s)' = At(s) \ {On[t]}
      BY <3>2, <3>3 DEF At
    <3> QED BY <3>1, <3>4 DEF OneLeaves
  <2>2. CASE nested[On[t]] # 1
    BY <1>4, <2>2 DEF Leave, At, Inside, SameClaims
  <2> QED BY <2>1, <2>2
<1>5. ASSUME NEW p \in Procs, SetEntered(p) PROVE SameClaims(s)
  BY <1>1, <1>5 DEF SetEntered, TypeOK, ControlOf, At, Inside, SameClaims, StageOrIn, Stages
<1>6. ASSUME NEW p \in Procs, SetLast(p) PROVE SameClaims(s) \/ OneClaims(s)
  <2>1. ASSUME NEW q \in Procs, q # p PROVE q \in At(s)' <=> q \in At(s)
    BY <1>6, <2>1 DEF SetLast, TypeOK, At, Inside
  <2>2. pc[p] = "setLast" /\ pc'[p] = "readEntered" /\ curStage'[p] = curStage[p]
    BY <1>6 DEF SetLast, TypeOK
  <2>3. CASE curStage[p] = s
    <3>1. p \in At(s)'
      BY <1>1, <2>2, <2>3 DEF At
    <3>2. At(s)' = At(s) \cup {p}
      BY <2>1, <3>1 DEF At
    <3>3. lastProcEnteringStage'[s] = p
      BY <1>6, <2>3 DEF SetLast, TypeOK
    <3> QED BY <1>6, <2>3, <3>2, <3>3 DEF OneClaims
  <2>4. CASE curStage[p] # s
    <3>1. p \in At(s)' <=> p \in At(s)
      BY <1>1, <2>2, <2>4 DEF At, Inside
    <3>2. At(s)' = At(s)
      BY <2>1, <3>1 DEF At
    <3>3. lastProcEnteringStage'[s] = lastProcEnteringStage[s]
      BY <1>6, <2>4 DEF SetLast, TypeOK
    <3> QED BY <3>2, <3>3 DEF SameClaims
  <2> QED BY <2>3, <2>4
<1>7. ASSUME NEW p \in Procs, ReadEntered(p) PROVE SameClaims(s)
  <2>1. ASSUME NEW q \in Procs
        PROVE  /\ curStage'[q] = curStage[q]
               /\ \/ pc'[q] = pc[q]
                  \/ pc[q] = "readEntered" /\ pc'[q] = "readLast"
    BY <1>7 DEF ReadEntered, TypeOK
  <2>2. ASSUME NEW q \in Procs PROVE q \in At(s)' <=> q \in At(s)
    BY <2>1 DEF At, Inside
  <2> QED BY <1>7, <2>2 DEF At, SameClaims, ReadEntered
<1>8. ASSUME NEW p \in Procs, ReadLast(p) PROVE SameClaims(s)
  BY <1>1, <1>8 DEF ReadLast, TypeOK, ControlOf, At, Inside, SameClaims, StageOrIn, Stages
<1>9. ASSUME NEW p \in Procs, NextStage(p) PROVE SameClaims(s)
  <2>1. ASSUME NEW q \in Procs, q # p PROVE q \in At(s)' <=> q \in At(s)
    BY <1>9, <2>1 DEF NextStage, TypeOK, At, Inside
  <2>2. pc[p] = "readEntered" /\ pc'[p] = StageOrIn(curStage[p] + 1)
        /\ curStage'[p] = curStage[p] + 1 /\ curStage[p] \in Stages
    BY <1>1, <1>9 DEF NextStage, TypeOK, ControlOf
  <2>3. p \in At(s)' <=> p \in At(s)
    BY <1>1, <2>2 DEF At, Inside, StageOrIn, Stages
  <2> QED BY <1>9, <2>1, <2>3 DEF At, SameClaims, NextStage
<1>10. ASSUME NEW p \in Procs, LeaveLocal(p) PROVE SameClaims(s)
  BY <1>1, <1>10 DEF LeaveLocal, TypeOK, ControlOf, At, Inside, SameClaims, StageOrIn, Stages
<1>11. CASE UNCHANGED vars
  BY <1>11 DEF vars, At, Inside, SameClaims
<1> QED
  BY <1>2, <1>3, <1>4, <1>5, <1>6, <1>7, <1>8, <1>9, <1>10, <1>11 DEF Next, Protocol
\* A claimant has really entered the stage, as another processor reads it.
LEMMA ClaimantEntered ==
  ASSUME TypeOK, Control, EnteredStageExact, NEW s \in Stages, NEW q \in At(s)
  PROVE  enteredStage[q] >= s
<1>1. /\ q \in Procs /\ ControlOf(q) /\ enteredStage[q] = StageOf(q)
      /\ curStage[q] \in Int /\ s \in Int /\ s <= N - 2
  BY DEF At, Control, EnteredStageExact, TypeOK, Stages
<1>2. CASE Inside(q)
  BY <1>1, <1>2 DEF StageOf, Inside
<1>3. CASE pc[q] = "setEntered" /\ curStage[q] > s
  BY <1>1, <1>3 DEF StageOf, Inside
<1>4. CASE pc[q] \in {"setLast", "readEntered", "readLast"} /\ curStage[q] >= s
  BY <1>1, <1>4 DEF StageOf, Inside
<1> QED BY <1>1, <1>2, <1>3, <1>4 DEF At

\* While it is the last to claim s, no step takes p past another claimant of s.
LEMMA CheckedStep ==
  ASSUME TypeOK, Control, EnteredStageExact, [Next]_vars, NEW s \in Stages,
         NEW p \in At(s), NEW q \in At(s), p # q,
         lastProcEnteringStage[s] = p, Checked(p, q, s)'
  PROVE  Checked(p, q, s)
<1> SUFFICES ASSUME ~ Checked(p, q, s) PROVE FALSE
  OBVIOUS
<1> USE DEF shared, local
<1>1. p \in Procs /\ q \in Procs /\ q \in Int /\ q < N /\ s \in Int
  BY DEF At, Procs, Stages
<1>2. /\ ControlOf(p) /\ curStage[p] \in Int /\ proc[p] \in Int
      /\ curStage[p] <= s /\ proc[p] <= q
  BY <1>1 DEF Control, TypeOK, Checked
<1>3. curStage[p] = s /\ pc[p] \in {"readEntered", "readLast"}
  BY <1>1, <1>2 DEF At, Inside, ControlOf, Stages
<1>4. curStage'[p] > s \/ proc'[p] > q
  BY DEF Checked
<1>5. enteredStage[q] >= s
  BY ClaimantEntered
<1>6. CASE /\ curStage'[p] = curStage[p] /\ proc'[p] = proc[p] + 1
           /\ proc[p] = p \/ ~ enteredStage[proc[p]] >= curStage[p]
  BY <1>1, <1>2, <1>3, <1>4, <1>5, <1>6
<1>7. CASE ReadLast(p)
  BY <1>1, <1>2, <1>3, <1>4, <1>7 DEF ReadLast, TypeOK
<1>8. CASE NextStage(p)
  BY <1>1, <1>2, <1>8 DEF NextStage
<1>9. CASE curStage'[p] = curStage[p] /\ proc'[p] = proc[p]
  BY <1>1, <1>2, <1>4, <1>9
<1>10. \/ /\ curStage'[p] = curStage[p] /\ proc'[p] = proc[p] + 1
          /\ proc[p] = p \/ ~ enteredStage[proc[p]] >= curStage[p]
       \/ ReadLast(p) \/ NextStage(p)
       \/ curStage'[p] = curStage[p] /\ proc'[p] = proc[p]
  <2>1. ASSUME NEW t \in Threads, Enter(t)
        PROVE curStage'[p] = curStage[p] /\ proc'[p] = proc[p]
    BY <1>1, <1>3, <2>1 DEF Enter, TypeOK
  <2>2. ASSUME NEW t \in Threads, Reenter(t)
        PROVE curStage'[p] = curStage[p] /\ proc'[p] = proc[p]
    BY <1>1, <1>3, <2>2 DEF Reenter, TypeOK
  <2>3. ASSUME NEW t \in Threads, Leave(t)
        PROVE curStage'[p] = curStage[p] /\ proc'[p] = proc[p]
    BY <1>1, <1>3, <2>3 DEF Leave, TypeOK
  <2>4. ASSUME NEW r \in Procs, SetEntered(r)
        PROVE curStage'[p] = curStage[p] /\ proc'[p] = proc[p]
    BY <1>1, <1>3, <2>4 DEF SetEntered, TypeOK
  <2>5. ASSUME NEW r \in Procs, SetLast(r)
        PROVE curStage'[p] = curStage[p] /\ proc'[p] = proc[p]
    BY <1>1, <1>3, <2>5 DEF SetLast, TypeOK
  <2>6. ASSUME NEW r \in Procs, ReadEntered(r)
        PROVE  /\ curStage'[p] = curStage[p]
               /\ \/ proc'[p] = proc[p]
                  \/ /\ proc'[p] = proc[p] + 1
                     /\ proc[p] = p \/ ~ enteredStage[proc[p]] >= curStage[p]
    BY <1>1, <1>3, <2>6 DEF ReadEntered, TypeOK
  <2>7. ASSUME NEW r \in Procs, ReadLast(r)
        PROVE ReadLast(p) \/ (curStage'[p] = curStage[p] /\ proc'[p] = proc[p])
    BY <1>1, <1>3, <2>7 DEF ReadLast, TypeOK
  <2>8. ASSUME NEW r \in Procs, NextStage(r)
        PROVE NextStage(p) \/ (curStage'[p] = curStage[p] /\ proc'[p] = proc[p])
    BY <1>1, <1>3, <2>8 DEF NextStage, TypeOK
  <2>9. ASSUME NEW r \in Procs, LeaveLocal(r)
        PROVE curStage'[p] = curStage[p] /\ proc'[p] = proc[p]
    BY <1>1, <1>3, <2>9 DEF LeaveLocal, TypeOK
  <2>10. CASE UNCHANGED vars
    BY <2>10 DEF vars
  <2> QED
    BY <2>1, <2>2, <2>3, <2>4, <2>5, <2>6, <2>7, <2>8, <2>9, <2>10
       DEF Next, Protocol
<1> QED BY <1>6, <1>7, <1>8, <1>9, <1>10

LEMMA LastIsHeldBackStep ==
  ASSUME TypeOK, Control, EnteredStageExact, LastIsHeldBack, [Next]_vars
  PROVE  LastIsHeldBack'
<1> SUFFICES ASSUME NEW s \in Stages PROVE HeldBack(s)'
  BY DEF LastIsHeldBack
<1>1. PICK l \in Procs : l = lastProcEnteringStage[s]
  BY DEF TypeOK
<1>2. /\ At(s) # {} => l \in At(s)
      /\ \A q \in At(s) \ {l} : ~ Checked(l, q, s)
  BY <1>1 DEF LastIsHeldBack, HeldBack
<1>3. ASSUME NEW q \in At(s), q # l PROVE ~ Checked(l, q, s)'
  BY <1>1, <1>2, <1>3, CheckedStep
<1>4. CASE SameClaims(s)
  BY <1>1, <1>2, <1>3, <1>4 DEF SameClaims, Checked, HeldBack
<1>5. CASE OneLeaves(s)
  <2>1. PICK p \in Procs : Inside(p) /\ At(s)' = At(s) \ {p} /\ lastProcEnteringStage'[s] = l
    BY <1>1, <1>5 DEF OneLeaves
  <2>2. p \in At(s) /\ curStage[p] > s
    BY <2>1 DEF At, Inside, Control, ControlOf, Stages, TypeOK
  <2>3. CASE p = l
    \* The last was inside, so it had passed every stage: it was alone.
    <3>1. At(s) = {p}
      BY <1>2, <2>2, <2>3 DEF Checked
    <3> QED BY <2>1, <3>1 DEF HeldBack
  <2>4. CASE p # l
    BY <1>2, <1>3, <2>1, <2>2, <2>4 DEF Checked, HeldBack
  <2> QED BY <2>3, <2>4
<1>6. CASE OneClaims(s)
  <2>1. PICK p \in Procs : /\ SetLast(p) /\ curStage[p] = s
                          /\ At(s)' = At(s) \cup {p} /\ lastProcEnteringStage'[s] = p
    BY <1>6 DEF OneClaims
  <2>2. curStage'[p] = s /\ proc'[p] = 0 /\ s \in Int
    BY <2>1 DEF SetLast, TypeOK, Stages
  <2>3. ASSUME NEW q \in Procs PROVE ~ (curStage'[p] > s \/ proc'[p] > q)
    BY <2>2 DEF Procs
  <2> QED BY <2>1, <2>3 DEF Checked, HeldBack, At
<1> QED BY <1>4, <1>5, <1>6, ClaimsStep
LEMMA AtFinite ==
  ASSUME NEW S \in SUBSET Procs
  PROVE  /\ IsFiniteSet(S)
         /\ Cardinality(S) \in Nat
         /\ Cardinality(S) <= N
<1>1. IsFiniteSet(Procs) /\ Cardinality(Procs) = N
  BY FS_Interval DEF Procs
<1> QED BY <1>1, FS_Subset, FS_CardinalityType

\* SetLast(p) at s > 0 cannot carry every claimant of s - 1 on to s: the last of
\* them is held back by any other.
LEMMA StageBoundStep ==
  ASSUME TypeOK, Control, LastIsHeldBack, StageBound, [Next]_vars
  PROVE  StageBound'
<1> SUFFICES ASSUME NEW s \in Stages PROVE Cardinality(At(s)') <= N - s
  BY DEF StageBound
<1>1. /\ s \in Int /\ 0 <= s /\ s <= N - 2 /\ N \in Int
      /\ At(s) \in SUBSET Procs /\ At(s)' \in SUBSET Procs
      /\ Cardinality(At(s)) <= N - s
  BY DEF Stages, At, StageBound
<1>2. CASE SameClaims(s)
  BY <1>1, <1>2 DEF SameClaims
<1>3. CASE OneLeaves(s)
  <2>1. At(s)' \in SUBSET At(s)
    BY <1>3 DEF OneLeaves
  <2>2. Cardinality(At(s)') <= Cardinality(At(s))
    BY <1>1, <2>1, AtFinite, FS_Subset
  <2> QED BY <1>1, <2>2, AtFinite
<1>4. CASE OneClaims(s)
  <2>1. PICK p \in Procs : /\ SetLast(p) /\ curStage[p] = s
                          /\ At(s)' = At(s) \cup {p}
    BY <1>4 DEF OneClaims
  <2>2. CASE s = 0
    BY <1>1, <2>2, AtFinite
  <2>3. CASE s # 0
    <3> DEFINE B == At(s - 1)
    <3>1. s - 1 \in Stages /\ B \in SUBSET Procs
      BY <1>1, <2>3 DEF Stages, At
    <3>2. Cardinality(B) <= N - s + 1
      BY <1>1, <3>1 DEF StageBound
    <3>3. ASSUME NEW q \in At(s) \cup {p} PROVE q \in B /\ curStage[q] > s - 1
      <4>1. CASE q = p
        BY <1>1, <2>1, <4>1 DEF SetLast, At
      <4>2. CASE q \in At(s)
        <5>1. q \in Procs /\ ControlOf(q) /\ curStage[q] \in Int
          BY <4>2 DEF At, Control, TypeOK
        <5> QED BY <1>1, <4>2, <5>1 DEF At, Inside, ControlOf
      <4> QED BY <3>3, <4>1, <4>2
    <3>4. At(s)' \in SUBSET B
      BY <2>1, <3>3
    <3>5. Cardinality(At(s)') <= Cardinality(B) /\ (Cardinality(At(s)') = Cardinality(B) => At(s)' = B)
      <4>1. IsFiniteSet(B)
        BY <3>1, AtFinite
      <4> QED BY <3>4, <4>1, FS_Subset
    <3>6. Cardinality(B) \in Nat /\ Cardinality(At(s)') \in Nat
      BY <1>1, <3>1, AtFinite
    <3>7. CASE At(s)' = B
      <4>1. HeldBack(s - 1)
        BY <3>1 DEF LastIsHeldBack
      <4>2. PICK l : l = lastProcEnteringStage[s - 1]
        OBVIOUS
      <4>3. l \in B /\ p \in B
        BY <2>1, <3>7, <4>1, <4>2 DEF HeldBack
      <4>4. ASSUME NEW q \in B PROVE Checked(l, q, s - 1)
        BY <2>1, <3>3, <3>7, <4>3 DEF Checked
      <4>5. B = {l}
        BY <4>1, <4>2, <4>3, <4>4 DEF HeldBack
      <4>6. Cardinality(B) = 1
        BY <4>5, FS_Singleton
      <4> QED BY <1>1, <3>7, <4>6
    <3>8. CASE At(s)' # B
      <4>1. Cardinality(At(s)') < Cardinality(B)
        BY <3>5, <3>6, <3>8
      <4> QED BY <1>1, <3>2, <3>6, <4>1
    <3> QED BY <3>7, <3>8
  <2> QED BY <2>2, <2>3
<1> QED BY <1>2, <1>3, <1>4, ClaimsStep

-----------------------------------------------------------------------------
(* The theorems.                                                            *)

FilterInv == /\ TypeOK /\ Control
             /\ EnteredStageExact /\ LastIsHeldBack /\ StageBound

\* The inductive invariant of the protocol: each stage holds back one processor,
\* the last to claim it.
THEOREM FilterInvariant == Spec => []FilterInv
<1>1. Init => EnteredStageExact /\ LastIsHeldBack /\ StageBound
  <2> SUFFICES ASSUME Init PROVE EnteredStageExact /\ LastIsHeldBack /\ StageBound
    OBVIOUS
  <2>1. EnteredStageExact
    BY DEF Init, EnteredStageExact, StageOf, Inside
  <2>2. \A s \in Stages : At(s) = {}
    BY DEF Init, At, Inside
  <2>3. LastIsHeldBack
    BY <2>2 DEF LastIsHeldBack, HeldBack
  <2>4. StageBound
    BY <2>2, FS_EmptySet DEF StageBound, Stages
  <2> QED BY <2>1, <2>3, <2>4
<1>2. /\ TypeOK /\ Control /\ EnteredStageExact /\ LastIsHeldBack /\ StageBound
      /\ [Next]_vars
      => EnteredStageExact' /\ LastIsHeldBack' /\ StageBound'
  BY EnteredExactStep, LastIsHeldBackStep, StageBoundStep
<1> QED BY <1>1, <1>2, TypeCorrect, PTL DEF Spec, FilterInv

\* In every state each stage of the filter lets one processor fewer through than the
\* one before, whatever the processors read of each other word by word.
THEOREM StagesFilter == Spec => []Filter
<1>1. FilterInv => Filter
  BY DEF FilterInv, Filter
<1> QED BY <1>1, FilterInvariant, PTL

LEMMA FilterExcludes == FilterInv => MutualExclusion
<1> SUFFICES ASSUME FilterInv, NEW p \in Procs, NEW q \in Procs,
                    Inside(p), Inside(q), p # q
             PROVE  FALSE
  BY DEF MutualExclusion
<1> DEFINE s == N - 2
<1>1. s \in Stages /\ N - s = 2
  BY DEF Procs, Stages
<1>2. p \in At(s) /\ q \in At(s) /\ At(s) \in SUBSET Procs
  BY DEF At
<1>3. PICK l : l = lastProcEnteringStage[s]
  OBVIOUS
<1>4. l \in At(s) /\ \A r \in At(s) \ {l} : ~ Checked(l, r, s)
  BY <1>1, <1>2, <1>3 DEF FilterInv, LastIsHeldBack, HeldBack
<1>5. l \in {p, q}
  <2> SUFFICES ASSUME l \notin {p, q} PROVE FALSE
    OBVIOUS
  <2>1. IsFiniteSet({p, q, l}) /\ Cardinality({p, q, l}) = 3
    <3>1. IsFiniteSet({p}) /\ Cardinality({p}) = 1
      BY FS_Singleton
    <3>2. IsFiniteSet({p} \cup {q}) /\ Cardinality({p} \cup {q}) = 2
      BY <3>1, FS_AddElement
    <3>3. IsFiniteSet({p} \cup {q} \cup {l}) /\ Cardinality({p} \cup {q} \cup {l}) = 3
      <4> DEFINE T == {p} \cup {q}
      <4>1. IsFiniteSet(T) /\ Cardinality(T) = 2 /\ l \notin T
        BY <3>2
      <4> HIDE DEF T
      <4>2. IsFiniteSet(T \cup {l}) /\ Cardinality(T \cup {l}) = 3
        BY <4>1, FS_AddElement
      <4> QED BY <4>2 DEF T
    <3>4. {p, q, l} = {p} \cup {q} \cup {l}
      OBVIOUS
    <3> QED BY <3>3, <3>4
  <2>2. {p, q, l} \in SUBSET At(s)
    BY <1>2, <1>4
  <2>3. Cardinality({p, q, l}) <= Cardinality(At(s))
    BY <1>2, <2>2, AtFinite, FS_Subset
  <2>4. Cardinality(At(s)) <= 2
    BY <1>1 DEF FilterInv, StageBound
  <2>5. Cardinality(At(s)) \in Nat
    BY <1>2, AtFinite
  <2> QED BY <2>1, <2>3, <2>4, <2>5
<1>6. curStage[l] > s
  BY <1>5 DEF FilterInv, Control, ControlOf, Inside
<1> QED BY <1>2, <1>4, <1>5, <1>6 DEF Checked

\* At most one processor is between enter() and leave(), for every number of
\* processors, of threads and of nested enters.
THEOREM MutuallyExclusive == Spec => []MutualExclusion
BY FilterInvariant, FilterExcludes, PTL
-----------------------------------------------------------------------------
(* Refinement: the protocol implements the abstract gate.                    *)

LEMMA HolderInside ==
  ASSUME MutualExclusion, NEW p \in Procs, Inside(p)
  PROVE  Holder = localOwner[p] /\ Depth = nested[p]
<1>1. Holders = {p}
  BY DEF MutualExclusion, Holders
<1> QED BY <1>1 DEF Holder, Depth

LEMMA HolderInsideNext ==
  ASSUME MutualExclusion', NEW p \in Procs, Inside(p)'
  PROVE  Holder' = localOwner'[p] /\ Depth' = nested'[p]
<1>1. Holders' = {p}
  BY DEF MutualExclusion, Holders
<1> QED BY <1>1 DEF Holder, Depth

LEMMA NobodyInside ==
  ASSUME \A p \in Procs : ~ Inside(p)
  PROVE  Holder = NoThread /\ Depth = 0
BY DEF Holders, Holder, Depth

LEMMA NobodyInsideNext ==
  ASSUME \A p \in Procs : ~ Inside(p)'
  PROVE  Holder' = NoThread /\ Depth' = 0
BY DEF Holders, Holder, Depth

\* A step that leaves the insiders, their owners and their counts alone is silent.
LEMMA SilentStep ==
  ASSUME MutualExclusion, MutualExclusion',
         \A p \in Procs : Inside(p)' <=> Inside(p),
         \A p \in Procs : Inside(p) => localOwner'[p] = localOwner[p] /\ nested'[p] = nested[p]
  PROVE  Holder' = Holder /\ Depth' = Depth
<1>1. CASE \E p \in Procs : Inside(p)
  BY <1>1, HolderInside, HolderInsideNext
<1>2. CASE \A p \in Procs : ~ Inside(p)
  BY <1>2, NobodyInside, NobodyInsideNext
<1> QED BY <1>1, <1>2

\* The processor p gets in: nobody was inside, since p is alone afterwards.
LEMMA GetsIn ==
  ASSUME MutualExclusion', NEW p \in Procs, ~ Inside(p), Inside(p)',
         \A q \in Procs \ {p} : Inside(q)' <=> Inside(q),
         localOwner'[p] \in Threads, nested'[p] = 1
  PROVE  G!GateNext
<1>1. \A q \in Procs : ~ Inside(q)
  BY DEF MutualExclusion
<1>2. Holder = NoThread /\ Depth = 0
  BY <1>1, NobodyInside
<1>3. Holder' = localOwner'[p] /\ Depth' = 1
  BY HolderInsideNext
<1>4. PICK t \in Threads : t = localOwner'[p]
  OBVIOUS
<1>5. G!GateEnter(t)
  BY <1>2, <1>3, <1>4 DEF G!GateEnter
<1> QED BY <1>5 DEF G!GateNext

LEMMA RefinementStep ==
  ASSUME TypeOK, Control, Control', MutualExclusion, MutualExclusion', [Next]_vars
  PROVE  [G!GateNext]_<<Holder, Depth>>
<1> USE DEF shared, local
<1>0. \A q \in Procs : ControlOf(q) /\ ControlOf(q)' /\ pc[q] \in Labels
  BY DEF Control, TypeOK
<1>1. ASSUME NEW t \in Threads, Enter(t) PROVE [G!GateNext]_<<Holder, Depth>>
  <2>1. On[t] \in Procs /\ ~ Inside(On[t])
    BY <1>1 DEF Enter, Inside
  <2>2. \A q \in Procs \ {On[t]} : /\ Inside(q)' <=> Inside(q)
                                   /\ localOwner'[q] = localOwner[q]
                                   /\ nested'[q] = nested[q]
    BY <1>1, <2>1 DEF Enter, Inside, TypeOK
  <2>3. localOwner'[On[t]] = t /\ nested'[On[t]] = 1
    BY <1>1, <2>1 DEF Enter, TypeOK
  <2>4. CASE Inside(On[t])'
    BY <2>1, <2>2, <2>3, <2>4, GetsIn
  <2>5. CASE ~ Inside(On[t])'
    BY <2>1, <2>2, <2>5, SilentStep
  <2> QED BY <2>4, <2>5
<1>2. ASSUME NEW t \in Threads, Reenter(t) PROVE [G!GateNext]_<<Holder, Depth>>
  <2>1. /\ On[t] \in Procs /\ Inside(On[t]) /\ Inside(On[t])'
        /\ localOwner[On[t]] = t /\ localOwner'[On[t]] = t
        /\ nested'[On[t]] = nested[On[t]] + 1
    BY <1>2 DEF Reenter, Inside, TypeOK
  <2>2. /\ Holder = t /\ Holder' = t /\ Depth' = Depth + 1
    BY <2>1, HolderInside, HolderInsideNext
  <2> QED BY <2>2 DEF G!GateEnter, G!GateNext
<1>3. ASSUME NEW t \in Threads, Leave(t) PROVE [G!GateNext]_<<Holder, Depth>>
  <2>1. /\ On[t] \in Procs /\ Inside(On[t])
        /\ localOwner[On[t]] = t /\ localOwner'[On[t]] = t
        /\ nested'[On[t]] = nested[On[t]] - 1
        /\ Inside(On[t])' <=> nested[On[t]] # 1
        /\ \A q \in Procs \ {On[t]} : Inside(q)' <=> Inside(q)
    BY <1>3 DEF Leave, Inside, TypeOK
  <2>2. Holder = t /\ Depth = nested[On[t]]
    BY <2>1, HolderInside
  <2>3. CASE nested[On[t]] = 1
    <3>1. \A q \in Procs : ~ Inside(q)'
      BY <2>1, <2>3 DEF MutualExclusion
    <3>2. Holder' = NoThread /\ Depth' = 0
      BY <3>1, NobodyInsideNext
    <3> QED BY <2>2, <2>3, <3>2 DEF G!GateLeave, G!GateNext
  <2>4. CASE nested[On[t]] # 1
    <3>1. Holder' = t /\ Depth' = nested[On[t]] - 1
      BY <2>1, <2>4, HolderInsideNext
    <3> QED BY <2>2, <2>4, <3>1 DEF G!GateLeave, G!GateNext
  <2> QED BY <2>3, <2>4
<1>4. ASSUME NEW p \in Procs, NextStage(p) PROVE [G!GateNext]_<<Holder, Depth>>
  <2>1. /\ ~ Inside(p)
        /\ \A q \in Procs \ {p} : Inside(q)' <=> Inside(q)
        /\ \A q \in Procs : localOwner'[q] = localOwner[q] /\ nested'[q] = nested[q]
    BY <1>4 DEF NextStage, Inside, TypeOK
  <2>2. localOwner'[p] \in Threads /\ nested'[p] = 1
    BY <1>0, <1>4, <2>1 DEF NextStage, ControlOf
  <2>3. CASE Inside(p)'
    BY <2>1, <2>2, <2>3, GetsIn
  <2>4. CASE ~ Inside(p)'
    BY <2>1, <2>4, SilentStep
  <2> QED BY <2>3, <2>4
<1>5. ASSUME NEW p \in Procs,
             SetEntered(p) \/ SetLast(p) \/ ReadEntered(p) \/ ReadLast(p) \/ LeaveLocal(p)
      PROVE  [G!GateNext]_<<Holder, Depth>>
  <2>1. \A q \in Procs : /\ Inside(q)' <=> Inside(q)
                         /\ Inside(q) => localOwner'[q] = localOwner[q]
                         /\ nested'[q] = nested[q]
    BY <1>5 DEF SetEntered, SetLast, ReadEntered, ReadLast, LeaveLocal, Inside, TypeOK
  <2> QED BY <2>1, SilentStep
<1>6. CASE UNCHANGED vars
  BY <1>6, SilentStep DEF vars, Inside
<1> QED BY <1>1, <1>2, <1>3, <1>4, <1>5, <1>6 DEF Next, Protocol

\* GatePetersonN keeps what GateMP relies on: a recursive lock over the threads of
\* all processors, whichever the order of the shared reads and writes.
THEOREM ImplementsGate == Spec => GateRefinement
<1>1. Init => G!GateInit
  BY NobodyInside DEF Init, Inside, G!GateInit
<1>2. /\ TypeOK /\ Control /\ MutualExclusion
      /\ Control' /\ MutualExclusion' /\ [Next]_vars
      => [G!GateNext]_<<Holder, Depth>>
  BY RefinementStep
<1> QED BY <1>1, <1>2, TypeCorrect, MutuallyExclusive, PTL
        DEF Spec, GateRefinement, G!GateSpec, G!gateVars
=============================================================================
