----------------------- MODULE NotifyDriverCirc_proofs -----------------------
(***************************************************************************)
(* Proofs about NotifyDriverCirc with one sending thread, for every size   *)
(* of the buffer.                                                          *)
(*                                                                         *)
(* Seen from the write index, the copies of the read index are ordered by  *)
(* age: the receiver's own, the one in memory, the one in the sender's     *)
(* cache, the one the sender compares with.  An older copy is further      *)
(* behind, so it can only make the sender more careful, as long as no two  *)
(* threads send: a slot free by the oldest copy is free.                   *)
(***************************************************************************)
EXTENDS NotifyDriverCirc, TLAPS

USE EventsAssumption, SendersAssumption, SlotsAssumption, BoundAssumption

LEMMA SuccInSlots == \A i \in Slots : Succ(i) \in Slots
BY DEF Slots, Succ

LEMMA BlankIsEntry == Blank \in Entries
BY DEF Blank, Entries, AnEvent, Payloads

\* The variables keep their types: the indexes stay in the buffer, the program
\* counters in their ranges.
THEOREM TypeCorrect == Spec => []TypeOK
<1>1. Init => TypeOK
  <2> SUFFICES ASSUME Init PROVE TypeOK
    OBVIOUS
  <2>1. 0 \in Slots /\ 0 \in 0 .. MaxSends /\ AnEvent \in Events
    BY DEF Slots, AnEvent
  <2>2. sentry \in [Senders -> Entries] /\ buffer \in [Slots -> Entries]
    BY BlankIsEntry DEF Init
  <2>3. <<>> \in Seq(Entries)
    OBVIOUS
  <2> QED BY <2>1, <2>2, <2>3 DEF Init, TypeOK, TaskLabels, IsrLabels, SendLabels
<1>2. TypeOK /\ [Next]_vars => TypeOK'
  <2> SUFFICES ASSUME TypeOK, [Next]_vars
               PROVE  TypeOK'
    OBVIOUS
  <2> USE DEF cache, regs, task, isr, sender
  <2>1. CASE WriteBack
    BY <2>1 DEF WriteBack, TypeOK
  <2>2. CASE Refill
    BY <2>2 DEF Refill, TypeOK
  <2>3. CASE Isr
    <3>1. CASE IsrEnter
      BY <3>1 DEF IsrEnter, isrFrame, TypeOK, IsrLabels
    <3>2. CASE IsrSnapshot
      BY <3>2 DEF IsrSnapshot, isrFrame, TypeOK, IsrLabels
    <3>3. CASE IsrExec
      BY <3>3 DEF IsrExec, isrFrame, TypeOK, IsrLabels
    <3>4. CASE IsrAdvance
      BY <3>4, SuccInSlots DEF IsrAdvance, isrFrame, TypeOK, IsrLabels
    <3>5. CASE IsrReturn
      BY <3>5 DEF IsrReturn, isrFrame, TypeOK, IsrLabels
    <3> QED BY <2>3, <3>1, <3>2, <3>3, <3>4, <3>5 DEF Isr
  <2>4. CASE Task
    <3>1. ASSUME NEW e \in Events, RegisterEvent(e) \/ UnregisterEvent(e) PROVE TypeOK'
      BY <3>1 DEF RegisterEvent, UnregisterEvent, taskFrame, TypeOK, TaskLabels
    <3>2. CASE SetRegBit \/ ClearCallback
      BY <3>2 DEF SetRegBit, ClearCallback, taskFrame, TypeOK, TaskLabels
    <3>3. CASE Disable
      <4>1. nesting' \in 0 .. 1
        BY <3>3 DEF Disable
      <4>2. lineEnabled' \in BOOLEAN
        BY <3>3 DEF Disable
      <4> QED BY <3>3, <4>1, <4>2 DEF Disable, taskFrame, TypeOK
    <3>4. CASE Restore
      BY <3>4 DEF Restore, taskFrame, TypeOK
    <3>5. CASE EnableEvent
      BY <3>5 DEF EnableEvent, taskFrame, TypeOK
    <3> QED BY <2>4, <3>1, <3>2, <3>3, <3>4, <3>5 DEF Task
  <2>5. ASSUME NEW s \in Senders, Send(s) PROVE TypeOK'
    <3>1. CASE SlotFree(s)
      BY <3>1 DEF SlotFree, sendFrame, TypeOK, SendLabels
    <3>2. CASE SlotTaken(s)
      BY <3>2 DEF SlotTaken, sendFrame, TypeOK, SendLabels
    <3>3. CASE Reread(s)
      BY <3>3 DEF Reread, sendFrame, TypeOK, SendLabels
    <3>4. CASE WriteEntry(s)
      BY <3>4 DEF WriteEntry, sendFrame, TypeOK, SendLabels
    <3>5. CASE WriteIndex(s)
      BY <3>5, SuccInSlots DEF WriteIndex, sendFrame, TypeOK, SendLabels
    <3>6. CASE IntSend(s)
      BY <3>6 DEF IntSend, sendFrame, TypeOK, SendLabels
    <3> QED BY <2>5, <3>1, <3>2, <3>3, <3>4, <3>5, <3>6 DEF Send
  <2>6. ASSUME NEW s \in Senders, NEW e \in Events, NEW w \in WaitClear, SendEvent(s, e, w)
        PROVE  TypeOK'
    <3>1. [eventid |-> e, payload |-> calls + 1] \in Entries
      BY <2>6 DEF SendEvent, TypeOK, Entries, Payloads
    <3>2. w \in BOOLEAN
      BY WaitClearAssumption
    <3>3. calls' \in 0 .. MaxSends
      BY <2>6 DEF SendEvent, TypeOK
    <3> QED BY <2>6, <3>1, <3>2, <3>3 DEF SendEvent, sendFrame, TypeOK, SendLabels
  <2>7. CASE UNCHANGED vars
    BY <2>7 DEF vars, TypeOK
  <2> QED BY <2>1, <2>2, <2>3, <2>4, <2>5, <2>6, <2>7 DEF Next
<1> QED BY <1>1, <1>2, PTL DEF Spec

-----------------------------------------------------------------------------
(* The ring. *)

OneSender == \A s, t \in Senders : s = t

\* How far the write index is ahead of x.
Behind(x) == Distance(x, writeIndex)

\* The copies of the read index, from the newest to the oldest.
CopiesByAge ==
    /\ Behind(getReadIndex) <= Behind(readIndex)
    /\ Behind(readIndex) <= Behind(putReadIndex)
    /\ \A s \in Senders : Behind(putReadIndex) <= Behind(rd[s])

\* Hwi_disable covers the writing of an entry, which the thread's copy allows.
SenderLocked ==
    \A s \in Senders :
        /\ spc[s] \in {"entry", "index"} <=> hwi = s
        /\ hwi = s => Succ(writeIndex) # rd[s]
        /\ spc[s] = "index" => buffer[writeIndex] = sentry[s]

\* The ISR never passes the write index.
IsrBehind ==
    ipc \in {"scan", "advance"} =>
        /\ Distance(getReadIndex, isrWrite) <= Behind(getReadIndex)
        /\ ipc = "advance" => getReadIndex # isrWrite

RingInv == CopiesByAge /\ SenderLocked /\ IsrBehind /\ Taken \in Nat /\ SlotsKept

LEMMA DistanceType == \A i, j \in Slots : Distance(i, j) \in Slots
BY DEF Distance, Slots

LEMMA DistanceSelf == \A i, j \in Slots : Distance(i, j) = 0 <=> i = j
BY DEF Distance, Slots

\* Moving the write index on puts every slot but the next one further behind.
LEMMA DistanceToNext ==
    \A i, j \in Slots : Succ(j) # i => Distance(i, Succ(j)) = Distance(i, j) + 1
BY DEF Distance, Slots, Succ

LEMMA DistanceToFull == \A i, j \in Slots : Succ(j) = i <=> Distance(i, j) = numMsgs - 1
BY DEF Distance, Slots, Succ

\* Moving a read index on brings it nearer.
LEMMA DistanceFromNext ==
    \A i, j \in Slots : i # j => Distance(Succ(i), j) = Distance(i, j) - 1
BY DEF Distance, Slots, Succ

LEMMA DistanceInjective ==
    \A i, j, k \in Slots : Distance(i, j) = Distance(i, k) => j = k
BY DEF Distance, Slots

-----------------------------------------------------------------------------
(* RingInv is inductive. *)

RingVars == <<buffer, writeIndex, getReadIndex, readIndex, putReadIndex, ipc, isrWrite,
              hwi, spc, sentry, rd, sent, got>>

LEMMA RingInit == Init => RingInv
<1> SUFFICES ASSUME Init PROVE RingInv
  OBVIOUS
<1>1. 0 \in Slots
  BY DEF Slots
<1>2. Distance(0, 0) = 0
  BY <1>1, DistanceSelf
<1>3. CopiesByAge
  BY <1>2 DEF Init, CopiesByAge, Behind
<1>4. SenderLocked
  BY DEF Init, SenderLocked
<1>5. IsrBehind
  BY DEF Init, IsrBehind
<1>6. Taken = 0 /\ Len(sent) = 0
  BY DEF Init, Taken
<1>7. SlotsKept
  <2>1. Distance(getReadIndex, writeIndex) = Len(sent) - Taken
    BY <1>2, <1>6 DEF Init
  <2>2. \A i \in Slots : ~ (Distance(getReadIndex, i) < 0)
    BY <1>1, DistanceType DEF Init, Slots
  <2> QED BY <1>6, <2>1, <2>2 DEF SlotsKept
<1> QED BY <1>3, <1>4, <1>5, <1>6, <1>7 DEF RingInv

LEMMA RingFrame == RingInv /\ UNCHANGED RingVars => RingInv'
BY DEF RingInv, RingVars, CopiesByAge, Behind, SenderLocked, IsrBehind, Taken, SlotsKept

LEMMA RingCaches == TypeOK /\ RingInv /\ (WriteBack \/ Refill) => RingInv'
<1> SUFFICES ASSUME TypeOK, RingInv, WriteBack \/ Refill PROVE RingInv'
  OBVIOUS
<1> USE DEF isr, sender
<1>1. \A i, j \in Slots : Distance(i, j) \in Nat
  BY DistanceType DEF Slots
<1>2. /\ Distance(getReadIndex, writeIndex) <= Distance(readIndex, writeIndex)
      /\ Distance(readIndex, writeIndex) <= Distance(putReadIndex, writeIndex)
      /\ \A s \in Senders : Distance(putReadIndex, writeIndex) <= Distance(rd[s], writeIndex)
  BY DEF RingInv, CopiesByAge, Behind
<1>3. /\ Distance(getReadIndex, writeIndex) \in Nat /\ Distance(readIndex, writeIndex) \in Nat
      /\ Distance(putReadIndex, writeIndex) \in Nat
      /\ \A s \in Senders : Distance(rd[s], writeIndex) \in Nat
  BY <1>1 DEF TypeOK
<1>4. getReadIndex' = getReadIndex /\ writeIndex' = writeIndex /\ rd' = rd
  BY DEF WriteBack, Refill
<1>5. CopiesByAge'
  <2>1. CASE WriteBack
    BY <1>2, <1>3, <1>4, <2>1 DEF CopiesByAge, Behind, WriteBack
  <2>2. CASE Refill
    BY <1>2, <1>3, <1>4, <2>2 DEF CopiesByAge, Behind, Refill
  <2> QED BY <2>1, <2>2
<1>6. SenderLocked' /\ IsrBehind'
  BY DEF RingInv, SenderLocked, IsrBehind, Behind, WriteBack, Refill
<1>7. Taken' \in Nat /\ SlotsKept'
  BY DEF RingInv, Taken, SlotsKept, WriteBack, Refill
<1> QED BY <1>5, <1>6, <1>7 DEF RingInv

LEMMA RingIsr == TypeOK /\ RingInv /\ Isr => RingInv'
<1> SUFFICES ASSUME TypeOK, RingInv, Isr PROVE RingInv'
  OBVIOUS
<1> USE DEF sender, isrFrame
<1>1. CASE IsrEnter \/ IsrReturn
  <2>1. Taken' = Taken
    BY <1>1 DEF IsrEnter, IsrReturn, Taken
  <2>2. CopiesByAge' /\ SenderLocked' /\ IsrBehind'
    BY <1>1 DEF IsrEnter, IsrReturn, RingInv, CopiesByAge, SenderLocked, IsrBehind, Behind
  <2>3. SlotsKept'
    BY <1>1, <2>1 DEF IsrEnter, IsrReturn, RingInv, SlotsKept
  <2> QED BY <2>1, <2>2, <2>3 DEF RingInv
<1>2. CASE IsrSnapshot
  <2>1. Taken' = Taken
    BY <1>2 DEF IsrSnapshot, Taken
  <2>2. CopiesByAge' /\ SenderLocked'
    BY <1>2 DEF IsrSnapshot, RingInv, CopiesByAge, SenderLocked, Behind
  <2>3. IsrBehind'
    <3>1. Distance(getReadIndex, writeIndex) \in Nat
      BY DistanceType DEF TypeOK, Slots
    <3> QED BY <1>2, <3>1 DEF IsrSnapshot, IsrBehind, Behind
  <2>4. SlotsKept'
    BY <1>2, <2>1 DEF IsrSnapshot, RingInv, SlotsKept
  <2> QED BY <2>1, <2>2, <2>3, <2>4 DEF RingInv
<1>3. CASE IsrExec
  <2>1. Taken' = Taken
    BY <1>3 DEF IsrExec, Taken, TypeOK
  <2>2. CopiesByAge' /\ SenderLocked' /\ IsrBehind'
    BY <1>3 DEF IsrExec, RingInv, CopiesByAge, SenderLocked, IsrBehind, Behind
  <2>3. SlotsKept'
    BY <1>3, <2>1 DEF IsrExec, RingInv, SlotsKept
  <2> QED BY <2>1, <2>2, <2>3 DEF RingInv
<1>4. CASE IsrAdvance
  <2> DEFINE g == getReadIndex
  <2>1. g \in Slots /\ Succ(g) \in Slots /\ getReadIndex' = Succ(g)
    BY <1>4, SuccInSlots DEF IsrAdvance, TypeOK
  <2>2. g # isrWrite /\ isrWrite \in Slots /\ writeIndex \in Slots
    BY <1>4 DEF IsrAdvance, RingInv, IsrBehind, TypeOK
  <2>3. Distance(g, isrWrite) >= 1 /\ Distance(g, isrWrite) <= Distance(g, writeIndex)
    <3>1. Distance(g, isrWrite) \in Nat
      BY <2>1, <2>2, DistanceType DEF Slots
    <3> QED BY <1>4, <2>1, <2>2, <3>1, DistanceSelf DEF IsrAdvance, RingInv, IsrBehind, Behind
  <2>4. g # writeIndex
    BY <2>1, <2>2, <2>3, DistanceSelf, DistanceType DEF Slots
  <2>5. Distance(Succ(g), writeIndex) = Distance(g, writeIndex) - 1
    BY <2>1, <2>2, <2>4, DistanceFromNext
  <2>6. Distance(Succ(g), isrWrite) = Distance(g, isrWrite) - 1
    BY <2>1, <2>2, DistanceFromNext
  <2>7. \A i, j \in Slots : Distance(i, j) \in Nat
    BY DistanceType DEF Slots
  <2>8. CopiesByAge'
    <3>1. Distance(g, writeIndex) <= Distance(readIndex, writeIndex)
      BY DEF RingInv, CopiesByAge, Behind
    <3>2. Distance(getReadIndex', writeIndex') <= Distance(readIndex', writeIndex')
      <4>1. Distance(g, writeIndex) \in Nat /\ Distance(readIndex, writeIndex) \in Nat
        BY <2>7 DEF TypeOK
      <4> QED BY <1>4, <2>1, <2>5, <3>1, <4>1 DEF IsrAdvance
    <3> QED BY <1>4, <3>2 DEF IsrAdvance, RingInv, CopiesByAge, Behind
  <2>9. SenderLocked'
    BY <1>4 DEF IsrAdvance, RingInv, SenderLocked
  <2>10. IsrBehind'
    BY <1>4, <2>1, <2>2, <2>3, <2>5, <2>6, <2>7 DEF IsrAdvance, IsrBehind, Behind
  <2>11. Taken' = Taken + 1
    BY <1>4 DEF IsrAdvance, Taken, TypeOK
  <2>12. Taken \in Nat /\ Len(sent) \in Nat /\ sent' = sent /\ buffer' = buffer
         /\ writeIndex' = writeIndex
    BY <1>4 DEF IsrAdvance, RingInv, TypeOK
  <2>13. SlotsKept'
    <3>1. Distance(getReadIndex', writeIndex') = Len(sent') - Taken'
      BY <2>1, <2>2, <2>5, <2>7, <2>11, <2>12 DEF RingInv, SlotsKept
    <3>2. ASSUME NEW i \in Slots, Distance(getReadIndex', i) < Len(sent') - Taken'
          PROVE  buffer'[i] = sent'[Taken' + 1 + Distance(getReadIndex', i)]
      <4>1. CASE i = g
        <5>1. Distance(Succ(g), g) = numMsgs - 1
          BY <2>1, DistanceToFull
        <5>2. Len(sent) - Taken <= numMsgs - 1
          BY <2>1, <2>2, DistanceType DEF RingInv, SlotsKept, Slots
        <5> QED BY <2>1, <2>11, <2>12, <3>2, <4>1, <5>1, <5>2, SlotsAssumption
      <4>2. CASE i # g
        <5>1. Distance(Succ(g), i) = Distance(g, i) - 1
          BY <2>1, <4>2, DistanceFromNext
        <5>2. Distance(g, i) < Len(sent) - Taken
          BY <2>1, <2>7, <2>11, <2>12, <3>2, <5>1
        <5>3. buffer[i] = sent[Taken + 1 + Distance(g, i)]
          BY <5>2 DEF RingInv, SlotsKept
        <5>4. Taken + 1 + Distance(g, i) = Taken' + 1 + Distance(getReadIndex', i)
          BY <2>1, <2>7, <2>11, <2>12, <5>1
        <5> QED BY <2>12, <5>3, <5>4
      <4> QED BY <4>1, <4>2
    <3> QED BY <3>1, <3>2 DEF SlotsKept
  <2> QED BY <2>8, <2>9, <2>10, <2>11, <2>12, <2>13 DEF RingInv
<1> QED BY <1>1, <1>2, <1>3, <1>4 DEF Isr

LEMMA RingSend ==
    ASSUME OneSender, TypeOK, RingInv, NEW s \in Senders, Send(s)
    PROVE  RingInv'
<1> USE DEF cache, regs, task, isr, sendFrame
<1>1. \A t \in Senders : t = s
  BY DEF OneSender
<1>2. \A i, j \in Slots : Distance(i, j) \in Nat
  BY DistanceType DEF Slots
<1>3. writeIndex \in Slots /\ rd[s] \in Slots /\ getReadIndex \in Slots
      /\ readIndex \in Slots /\ putReadIndex \in Slots
  BY DEF TypeOK
<1>4. CASE SlotFree(s)
  <2>1. CopiesByAge' /\ IsrBehind'
    BY <1>4 DEF SlotFree, RingInv, CopiesByAge, IsrBehind, Behind
  <2>2. SenderLocked'
    BY <1>1, <1>4 DEF SlotFree, RingInv, SenderLocked, TypeOK
  <2>3. Taken' \in Nat /\ SlotsKept'
    BY <1>4 DEF SlotFree, RingInv, Taken, SlotsKept
  <2> QED BY <2>1, <2>2, <2>3 DEF RingInv
<1>5. CASE SlotTaken(s) \/ IntSend(s)
  <2>1. CopiesByAge' /\ IsrBehind'
    BY <1>5 DEF SlotTaken, IntSend, RingInv, CopiesByAge, IsrBehind, Behind
  <2>2. SenderLocked'
    BY <1>1, <1>5 DEF SlotTaken, IntSend, RingInv, SenderLocked, TypeOK
  <2>3. Taken' \in Nat /\ SlotsKept'
    BY <1>5 DEF SlotTaken, IntSend, RingInv, Taken, SlotsKept
  <2> QED BY <2>1, <2>2, <2>3 DEF RingInv
<1>6. CASE Reread(s)
  <2>1. CopiesByAge'
    <3>1. rd'[s] = readIndex /\ putReadIndex' = readIndex
      BY <1>6 DEF Reread, TypeOK
    <3>2. Distance(readIndex, writeIndex) <= Distance(readIndex, writeIndex)
      BY <1>2, <1>3
    <3> QED BY <1>1, <1>6, <3>1, <3>2 DEF Reread, RingInv, CopiesByAge, Behind
  <2>2. SenderLocked' /\ IsrBehind'
    BY <1>1, <1>6 DEF Reread, RingInv, SenderLocked, IsrBehind, Behind, TypeOK
  <2>3. Taken' \in Nat /\ SlotsKept'
    BY <1>6 DEF Reread, RingInv, Taken, SlotsKept
  <2> QED BY <2>1, <2>2, <2>3 DEF RingInv
<1>7. CASE WriteEntry(s)
  <2>1. CopiesByAge' /\ IsrBehind'
    BY <1>7 DEF WriteEntry, RingInv, CopiesByAge, IsrBehind, Behind
  <2>2. SenderLocked'
    BY <1>1, <1>3, <1>7 DEF WriteEntry, RingInv, SenderLocked, TypeOK
  <2>3. Taken' = Taken /\ Taken' \in Nat
    BY <1>7 DEF WriteEntry, RingInv, Taken
  <2>4. SlotsKept'
    <3>1. ASSUME NEW i \in Slots, Distance(getReadIndex, i) < Len(sent) - Taken
          PROVE  buffer'[i] = buffer[i]
      <4>1. i # writeIndex
        BY <1>2, <1>3, <3>1 DEF RingInv, SlotsKept
      <4> QED BY <1>7, <4>1 DEF WriteEntry, TypeOK
    <3> QED BY <1>7, <2>3, <3>1 DEF WriteEntry, RingInv, SlotsKept
  <2> QED BY <2>1, <2>2, <2>3, <2>4 DEF RingInv
<1>8. CASE WriteIndex(s)
  <2>1. hwi = s /\ Succ(writeIndex) # rd[s] /\ buffer[writeIndex] = sentry[s]
    BY <1>8 DEF WriteIndex, RingInv, SenderLocked
  <2>2. /\ Distance(getReadIndex, writeIndex) <= Distance(readIndex, writeIndex)
        /\ Distance(readIndex, writeIndex) <= Distance(putReadIndex, writeIndex)
        /\ Distance(putReadIndex, writeIndex) <= Distance(rd[s], writeIndex)
    BY DEF RingInv, CopiesByAge, Behind
  <2>3. Distance(rd[s], writeIndex) < numMsgs - 1
    <3>1. Distance(rd[s], writeIndex) # numMsgs - 1
      BY <1>3, <2>1, DistanceToFull
    <3>2. Distance(rd[s], writeIndex) \in Slots
      BY <1>3, DistanceType
    <3> QED BY <3>1, <3>2, SlotsAssumption DEF Slots
  <2>4. ASSUME NEW i \in Slots, Distance(i, writeIndex) <= Distance(rd[s], writeIndex)
        PROVE  Distance(i, Succ(writeIndex)) = Distance(i, writeIndex) + 1
    <3>1. Distance(i, writeIndex) # numMsgs - 1
      BY <1>2, <1>3, <2>3, <2>4, SlotsAssumption
    <3> QED BY <1>3, <3>1, DistanceToFull, DistanceToNext
  <2>5. /\ Distance(getReadIndex, Succ(writeIndex)) = Distance(getReadIndex, writeIndex) + 1
        /\ Distance(readIndex, Succ(writeIndex)) = Distance(readIndex, writeIndex) + 1
        /\ Distance(putReadIndex, Succ(writeIndex)) = Distance(putReadIndex, writeIndex) + 1
        /\ Distance(rd[s], Succ(writeIndex)) = Distance(rd[s], writeIndex) + 1
    <3>1. /\ Distance(getReadIndex, writeIndex) \in Nat /\ Distance(readIndex, writeIndex) \in Nat
          /\ Distance(putReadIndex, writeIndex) \in Nat /\ Distance(rd[s], writeIndex) \in Nat
      BY <1>2, <1>3
    <3> QED BY <1>3, <2>2, <2>4, <3>1
  <2>6. CopiesByAge'
    <3>1. /\ Distance(getReadIndex, writeIndex) \in Nat /\ Distance(readIndex, writeIndex) \in Nat
          /\ Distance(putReadIndex, writeIndex) \in Nat /\ Distance(rd[s], writeIndex) \in Nat
      BY <1>2, <1>3
    <3>2. /\ Distance(getReadIndex, Succ(writeIndex)) <= Distance(readIndex, Succ(writeIndex))
          /\ Distance(readIndex, Succ(writeIndex)) <= Distance(putReadIndex, Succ(writeIndex))
          /\ Distance(putReadIndex, Succ(writeIndex)) <= Distance(rd[s], Succ(writeIndex))
      BY <2>2, <2>5, <3>1
    <3> QED BY <1>1, <1>8, <3>2 DEF WriteIndex, CopiesByAge, Behind
  <2>7. SenderLocked'
    BY <1>1, <1>8 DEF WriteIndex, SenderLocked, TypeOK
  <2>8. IsrBehind'
    <3>1. ipc \in {"scan", "advance"}
            => Distance(getReadIndex, isrWrite) <= Distance(getReadIndex, writeIndex)
      BY DEF RingInv, IsrBehind, Behind
    <3>2. Distance(getReadIndex, isrWrite) \in Nat /\ Distance(getReadIndex, writeIndex) \in Nat
      BY <1>2, <1>3 DEF TypeOK
    <3>3. ipc \in {"scan", "advance"}
            => Distance(getReadIndex, isrWrite) <= Distance(getReadIndex, Succ(writeIndex))
      BY <2>5, <3>1, <3>2
    <3> QED BY <1>8, <3>3 DEF WriteIndex, RingInv, IsrBehind, Behind
  <2>9. Taken' = Taken /\ Taken \in Nat
    BY <1>8 DEF WriteIndex, RingInv, Taken
  <2>10. sentry[s] \in Entries /\ sent \in Seq(Entries) /\ sent' = Append(sent, sentry[s])
    BY <1>8 DEF WriteIndex, TypeOK
  <2>11. Len(sent') = Len(sent) + 1 /\ Len(sent) \in Nat
    BY <2>10
  <2>12. SlotsKept'
    <3>1. Distance(getReadIndex, writeIndex) = Len(sent) - Taken
      BY DEF RingInv, SlotsKept
    <3>2. Distance(getReadIndex', writeIndex') = Len(sent') - Taken'
      BY <1>8, <2>5, <2>9, <2>11, <3>1 DEF WriteIndex
    <3>3. ASSUME NEW i \in Slots, Distance(getReadIndex', i) < Len(sent') - Taken'
          PROVE  buffer'[i] = sent'[Taken' + 1 + Distance(getReadIndex', i)]
      <4>1. getReadIndex' = getReadIndex /\ buffer' = buffer
        BY <1>8 DEF WriteIndex
      <4>2. Distance(getReadIndex, i) \in Nat
        BY <1>2, <1>3
      <4>3. CASE i = writeIndex
        <5>1. Taken' + 1 + Distance(getReadIndex', i) = Len(sent) + 1
          BY <2>9, <2>11, <3>1, <4>1, <4>3
        <5>2. sent'[Len(sent) + 1] = sentry[s]
          BY <2>10
        <5> QED BY <2>1, <4>1, <4>3, <5>1, <5>2
      <4>4. CASE i # writeIndex
        <5>1. Distance(getReadIndex, i) # Distance(getReadIndex, writeIndex)
          BY <1>3, <4>4, DistanceInjective
        <5>2. Distance(getReadIndex, i) < Len(sent) - Taken
          BY <2>9, <2>11, <3>1, <3>3, <4>1, <4>2, <5>1
        <5>3. buffer[i] = sent[Taken + 1 + Distance(getReadIndex, i)]
          BY <5>2 DEF RingInv, SlotsKept
        <5>4. Taken + 1 + Distance(getReadIndex, i) \in 1 .. Len(sent)
          BY <2>9, <2>11, <4>2, <5>2
        <5>5. sent'[Taken + 1 + Distance(getReadIndex, i)]
                = sent[Taken + 1 + Distance(getReadIndex, i)]
          BY <2>10, <5>4
        <5> QED BY <2>9, <4>1, <5>3, <5>5
      <4> QED BY <4>3, <4>4
    <3> QED BY <3>2, <3>3 DEF SlotsKept
  <2> QED BY <2>6, <2>7, <2>8, <2>9, <2>12 DEF RingInv
<1> QED BY <1>4, <1>5, <1>6, <1>7, <1>8 DEF Send

LEMMA RingSendEvent ==
    ASSUME OneSender, TypeOK, RingInv,
           NEW s \in Senders, NEW e \in Events, NEW w \in WaitClear, SendEvent(s, e, w)
    PROVE  RingInv'
<1> USE DEF cache, regs, task, isr, sendFrame
<1>1. \A t \in Senders : t = s
  BY DEF OneSender
<1>2. CopiesByAge'
  <2>1. rd'[s] = putReadIndex
    BY DEF SendEvent, TypeOK
  <2>2. Distance(putReadIndex, writeIndex) \in Slots
    BY DistanceType DEF TypeOK
  <2>3. Distance(putReadIndex, writeIndex) <= Distance(putReadIndex, writeIndex)
    BY <2>2 DEF Slots
  <2> QED BY <1>1, <2>1, <2>3 DEF SendEvent, RingInv, CopiesByAge, Behind
<1>3. SenderLocked' /\ IsrBehind'
  BY <1>1 DEF SendEvent, RingInv, SenderLocked, IsrBehind, Behind, TypeOK
<1>4. Taken' \in Nat /\ SlotsKept'
  BY DEF SendEvent, RingInv, Taken, SlotsKept
<1> QED BY <1>2, <1>3, <1>4 DEF RingInv

LEMMA RingTask == RingInv /\ Task => RingInv'
<1>1. Task => UNCHANGED RingVars
  BY DEF Task, RegisterEvent, UnregisterEvent, SetRegBit, ClearCallback, Disable, Restore,
         EnableEvent, taskFrame, RingVars, cache, isr, sender
<1> QED BY <1>1, RingFrame

THEOREM RingInvariant == OneSender /\ Spec => [](TypeOK /\ RingInv)
<1>1. ASSUME OneSender, TypeOK, RingInv, [Next]_vars PROVE RingInv'
  <2>1. CASE UNCHANGED vars
    <3>1. UNCHANGED RingVars
      BY <2>1 DEF vars, RingVars, cache, isr, sender
    <3> QED BY <1>1, <3>1, RingFrame
  <2>2. CASE Next
    <3>1. ASSUME NEW s \in Senders, NEW e \in Events, NEW w \in WaitClear, SendEvent(s, e, w)
          PROVE  RingInv'
      BY <1>1, <3>1, RingSendEvent
    <3>2. ASSUME NEW s \in Senders, Send(s) PROVE RingInv'
      BY <1>1, <3>2, RingSend
    <3> QED BY <1>1, <2>2, <3>1, <3>2, RingCaches, RingIsr, RingTask DEF Next
  <2> QED BY <1>1, <2>1, <2>2
<1>2. CASE OneSender
  <2>1. RingInv /\ TypeOK /\ [Next]_vars => RingInv'
    BY <1>1, <1>2
  <2> QED BY <2>1, RingInit, TypeCorrect, PTL DEF Spec
<1>3. CASE ~ OneSender
  BY <1>3
<1> QED BY <1>2, <1>3

\* With one sending thread no slot is reused before the receiver has given it back:
\* the buffer always holds what is under way, in order.
THEOREM SlotsAreKept == OneSender /\ Spec => []SlotsKept
<1>1. RingInv => SlotsKept
  BY DEF RingInv
<1> QED BY <1>1, RingInvariant, PTL

-----------------------------------------------------------------------------
(* The line implements the abstract channel.                               *)

LEMMA StepRefines ==
    ASSUME OneSender, TypeOK, RingInv, [Next]_vars
    PROVE  [C!ChannelNext]_(C!channelVars)
<1> USE DEF cache, regs, task, isr, sender
<1> \A i, j \in Slots : Distance(i, j) \in Nat /\ Distance(i, j) <= numMsgs - 1
  BY DistanceType, SlotsAssumption DEF Slots
<1> sent \in Seq(Entries) /\ got \in Seq(Entries)
  BY DEF TypeOK
<1> Len(sent) \in Nat /\ Len(got) \in Nat
  OBVIOUS
<1>1. ASSUME NEW s \in Senders, WriteIndex(s) PROVE C!Send("line", sentry[s])
  <2>1. sentry[s] \in Entries /\ hwi = s /\ Succ(writeIndex) # rd[s]
    BY <1>1 DEF WriteIndex, RingInv, SenderLocked, TypeOK
  <2>2. Len(sent) - Len(got) < numMsgs - 1
    <3>1. /\ getReadIndex \in Slots /\ readIndex \in Slots /\ putReadIndex \in Slots
          /\ rd[s] \in Slots /\ writeIndex \in Slots
      BY DEF TypeOK
    <3>2. /\ Distance(getReadIndex, writeIndex) \in Nat /\ Distance(readIndex, writeIndex) \in Nat
          /\ Distance(putReadIndex, writeIndex) \in Nat
          /\ Distance(rd[s], writeIndex) \in Nat /\ Distance(rd[s], writeIndex) <= numMsgs - 1
      BY <3>1
    <3>3. /\ Distance(getReadIndex, writeIndex) <= Distance(readIndex, writeIndex)
          /\ Distance(readIndex, writeIndex) <= Distance(putReadIndex, writeIndex)
          /\ Distance(putReadIndex, writeIndex) <= Distance(rd[s], writeIndex)
      BY DEF RingInv, CopiesByAge, Behind
    <3>4. Distance(rd[s], writeIndex) # numMsgs - 1
      BY <2>1, <3>1, DistanceToFull
    <3>5. Distance(getReadIndex, writeIndex) < numMsgs - 1
      BY <3>2, <3>3, <3>4, SlotsAssumption
    <3> QED BY <3>2, <3>5, SlotsAssumption DEF RingInv, SlotsKept, Taken
  <2>3. sent' = Append(sent, sentry[s]) /\ got' = got
    BY <1>1 DEF WriteIndex, sendFrame
  <2> QED BY <2>2, <2>3 DEF C!Send, C!UnderWay
<1>2. ASSUME IsrExec PROVE C!Receive("line")
  <2>1. got' = Append(got, buffer[getReadIndex]) /\ sent' = sent
    BY <1>2 DEF IsrExec, isrFrame
  <2>2. /\ getReadIndex \in Slots /\ isrWrite \in Slots /\ writeIndex \in Slots
        /\ getReadIndex # isrWrite /\ ipc = "scan" /\ Taken = Len(got)
    BY <1>2 DEF IsrExec, TypeOK, Taken
  <2>3. Distance(getReadIndex, isrWrite) <= Distance(getReadIndex, writeIndex)
    BY <2>2 DEF RingInv, IsrBehind, Behind
  <2>4. /\ Distance(getReadIndex, isrWrite) \in Nat /\ Distance(getReadIndex, writeIndex) \in Nat
        /\ Distance(getReadIndex, isrWrite) # 0
    BY <2>2, DistanceSelf
  <2>6. Distance(getReadIndex, writeIndex) = Len(sent) - Len(got)
    BY <2>2 DEF RingInv, SlotsKept
  <2>7. Len(sent) - Len(got) > 0
    BY <2>3, <2>4, <2>6
  <2>8. Distance(getReadIndex, getReadIndex) = 0
    BY <2>2, DistanceSelf
  <2>9. buffer[getReadIndex] = sent[Len(got) + 1]
    <3>1. buffer[getReadIndex] = sent[Taken + 1 + Distance(getReadIndex, getReadIndex)]
      BY <2>2, <2>7, <2>8 DEF RingInv, SlotsKept
    <3> QED BY <2>2, <2>8, <3>1
  <2> QED BY <2>1, <2>7, <2>9 DEF C!Receive, C!UnderWay
<1>3. ASSUME UNCHANGED <<sent, got>> PROVE UNCHANGED C!channelVars
  BY <1>3 DEF C!channelVars
<1>4. CASE UNCHANGED vars
  BY <1>3, <1>4 DEF vars
<1>5. CASE WriteBack \/ Refill \/ Task
  BY <1>3, <1>5 DEF WriteBack, Refill, Task, RegisterEvent, UnregisterEvent, SetRegBit,
                    ClearCallback, Disable, Restore, EnableEvent, taskFrame
<1>6. CASE Isr
  <2>1. CASE IsrExec
    BY <1>2, <2>1 DEF C!ChannelNext
  <2>2. CASE ~ IsrExec
    BY <1>3, <1>6, <2>2 DEF Isr, IsrEnter, IsrSnapshot, IsrAdvance, IsrReturn, isrFrame
  <2> QED BY <2>1, <2>2
<1>7. ASSUME NEW s \in Senders, Send(s) PROVE [C!ChannelNext]_(C!channelVars)
  <2>1. CASE WriteIndex(s)
    <3>1. sentry[s] \in Entries
      BY DEF TypeOK
    <3> QED BY <1>1, <2>1, <3>1 DEF C!ChannelNext
  <2>2. CASE ~ WriteIndex(s)
    BY <1>3, <1>7, <2>2 DEF Send, SlotFree, SlotTaken, Reread, WriteEntry, IntSend, sendFrame
  <2> QED BY <2>1, <2>2
<1>8. ASSUME NEW s \in Senders, NEW e \in Events, NEW w \in WaitClear, SendEvent(s, e, w)
      PROVE  UNCHANGED C!channelVars
  BY <1>3, <1>8 DEF SendEvent, sendFrame
<1> QED BY <1>4, <1>5, <1>6, <1>7, <1>8 DEF Next

\* With one sending thread the circular buffer is a channel: exactly once, in order,
\* at most numMsgs - 1 entries under way, whatever the caches hold.
THEOREM ImplementsChannel == OneSender /\ Spec => ChannelRefinement
<1>1. Init => C!ChannelInit
  BY DEF Init, C!ChannelInit
<1>2. CASE OneSender
  <2>1. TypeOK /\ RingInv /\ [Next]_vars => [C!ChannelNext]_(C!channelVars)
    BY <1>2, StepRefines
  <2> QED BY <1>1, <1>2, <2>1, RingInvariant, PTL DEF Spec, ChannelRefinement, C!ChannelSpec
<1>3. CASE ~ OneSender
  BY <1>3
<1> QED BY <1>2, <1>3
=============================================================================
