-------------------------- MODULE NotifyDriverCirc --------------------------
(***************************************************************************)
(* packages/ti/sdo/ipc/notifyDrivers/NotifyDriverCirc.c, one direction of  *)
(* one interrupt line: a circular buffer that the threads of one processor *)
(* fill and the ISR of the other drains, with the callers in Notify.c.     *)
(*                                                                         *)
(* A step is one access to shared memory, or one operation that            *)
(* Hwi_disable makes atomic.  The read index is modelled with its caches:  *)
(* the receiver's copy reaches the memory when it is written back, the     *)
(* sender's copy is refreshed when it is invalidated, and a cache may      *)
(* write or refill a line by itself at any time.  The buffer and the write *)
(* index are written back before the interrupt and invalidated before they *)
(* are read, and taken to be coherent.                                     *)
(***************************************************************************)
EXTENDS Naturals, Sequences

CONSTANTS Events,       \* event ids
          Senders,      \* threads of the sending processor
          None,         \* no thread
          Calls,        \* the receiver's API calls that its task makes
          WaitClear,    \* the values of waitClear the senders use
          RegisteredAtStart,    \* events registered before the first step
          numMsgs,      \* slots of the buffer
          modIndex,     \* the read index is written back at its multiples
          MaxSends      \* bound: calls of Notify_sendEvent

ASSUME EventsAssumption == Events # {} /\ RegisteredAtStart \subseteq Events
ASSUME SendersAssumption == None \notin Senders
\* NotifyDriverCirc.xs sets modIndex to numMsgs \div 4; up to half of the slots will do.
ASSUME SlotsAssumption == numMsgs \in Nat /\ numMsgs >= 2
                          /\ modIndex \in 1 .. numMsgs \div 2
ASSUME WaitClearAssumption == WaitClear \subseteq BOOLEAN
ASSUME BoundAssumption == MaxSends \in Nat

Slots    == 0 .. numMsgs - 1
Payloads == 0 .. MaxSends
Entries  == [eventid : Events, payload : Payloads]
AnEvent  == CHOOSE e \in Events : TRUE
Blank    == [eventid |-> AnEvent, payload |-> 0]

\* (i + 1) & maxIndex
Succ(i) == IF i = numMsgs - 1 THEN 0 ELSE i + 1

VARIABLES buffer,       \* putBuffer: the entries
          writeIndex,   \* putWriteIndex
          getReadIndex, \* the receiver's copy of the read index
          readIndex,    \* the read index in the memory
          putReadIndex, \* the copy of the read index in the sender's cache
          writeBack,    \* a Cache_wb of the read index was started
          intPending, lineEnabled,              \* the interrupt line
          evtRegMask, callbacks, nesting,       \* receiver: registration
          tpc, tev,                             \* receiver: the task
          ipc, isrWrite,                        \* receiver: NotifyDriverCirc_isr
          hwi, spc, sentry, rd, loop, wait,     \* sender: Hwi_disable and threads
          calls,                                \* sends started so far
          sent, got     \* history: entries put in the buffer, and taken out

cache  == <<getReadIndex, readIndex, putReadIndex, writeBack>>
regs   == <<evtRegMask, callbacks>>
task   == <<tpc, tev>>
isr    == <<ipc, isrWrite>>
sender == <<spc, sentry, rd, loop, wait>>
vars   == <<buffer, writeIndex, cache, intPending, lineEnabled, regs, nesting, task,
            isr, hwi, sender, calls, sent, got>>

TaskLabels == {"idle", "regMask", "unregCallback"}
IsrLabels  == {"off", "snapshot", "scan", "advance"}
SendLabels == {"idle", "test", "reread", "entry", "index", "int"}

TypeOK ==
    /\ buffer \in [Slots -> Entries] /\ writeIndex \in Slots
    /\ getReadIndex \in Slots /\ readIndex \in Slots /\ putReadIndex \in Slots
    /\ writeBack \in BOOLEAN
    /\ intPending \in BOOLEAN /\ lineEnabled \in BOOLEAN
    /\ evtRegMask \subseteq Events /\ callbacks \subseteq Events /\ nesting \in 0 .. 1
    /\ tpc \in TaskLabels /\ tev \in Events
    /\ ipc \in IsrLabels /\ isrWrite \in Slots
    /\ hwi \in Senders \cup {None} /\ spc \in [Senders -> SendLabels]
    /\ sentry \in [Senders -> Entries] /\ rd \in [Senders -> Slots]
    /\ loop \in [Senders -> BOOLEAN] /\ wait \in [Senders -> BOOLEAN]
    /\ calls \in 0 .. MaxSends
    /\ sent \in Seq(Entries) /\ got \in Seq(Entries)

Init ==
    /\ buffer = [i \in Slots |-> Blank] /\ writeIndex = 0
    /\ getReadIndex = 0 /\ readIndex = 0 /\ putReadIndex = 0 /\ writeBack = FALSE
    /\ intPending = FALSE /\ lineEnabled = TRUE
    /\ evtRegMask = RegisteredAtStart /\ callbacks = RegisteredAtStart /\ nesting = 0
    /\ tpc = "idle" /\ tev = AnEvent
    /\ ipc = "off" /\ isrWrite = 0
    /\ hwi = None /\ spc = [s \in Senders |-> "idle"]
    /\ sentry = [s \in Senders |-> Blank] /\ rd = [s \in Senders |-> 0]
    /\ loop = [s \in Senders |-> FALSE] /\ wait = [s \in Senders |-> FALSE]
    /\ calls = 0
    /\ sent = <<>> /\ got = <<>>

-----------------------------------------------------------------------------
(* The caches of the read index                                            *)

\* The receiver's line of the read index reaches the memory.
WriteBack ==
    /\ readIndex' = getReadIndex /\ writeBack' = FALSE
    /\ UNCHANGED <<buffer, writeIndex, getReadIndex, putReadIndex, intPending,
                   lineEnabled, regs, nesting, task, isr, hwi, sender, calls, sent, got>>

\* The sender's line of the read index is evicted and read again.
Refill ==
    /\ putReadIndex' = readIndex
    /\ UNCHANGED <<buffer, writeIndex, getReadIndex, readIndex, writeBack, intPending,
                   lineEnabled, regs, nesting, task, isr, hwi, sender, calls, sent, got>>

-----------------------------------------------------------------------------
(* NotifyDriverCirc_sendEvent, on the sending processor                     *)

sendFrame == <<getReadIndex, readIndex, writeBack, lineEnabled, regs, nesting, task,
               isr, got>>

\* The read index is read before interrupts are disabled.
SendEvent(s, e, w) ==
    /\ spc[s] = "idle" /\ calls < MaxSends
    /\ calls' = calls + 1
    /\ sentry' = [sentry EXCEPT ![s] = [eventid |-> e, payload |-> calls + 1]]
    /\ rd' = [rd EXCEPT ![s] = putReadIndex]
    /\ loop' = [loop EXCEPT ![s] = FALSE] /\ wait' = [wait EXCEPT ![s] = w]
    /\ spc' = [spc EXCEPT ![s] = "test"]
    /\ UNCHANGED <<sendFrame, buffer, writeIndex, putReadIndex, intPending, hwi, sent>>

\* Faulty variants, here and below: the mistakes the properties catch.
SlotFree_unchecked(s) ==
    /\ spc[s] = "test" /\ hwi = None
    /\ hwi' = s
    /\ spc' = [spc EXCEPT ![s] = "entry"]
    /\ UNCHANGED <<sendFrame, buffer, writeIndex, putReadIndex, intPending, sentry, rd,
                   loop, wait, calls, sent>>

\* Hwi_disable, and a slot is available: the loop is left with interrupts disabled.
SlotFree(s) ==
    /\ spc[s] = "test" /\ hwi = None /\ Succ(writeIndex) # rd[s]
    /\ hwi' = s
    /\ spc' = [spc EXCEPT ![s] = "entry"]
    /\ UNCHANGED <<sendFrame, buffer, writeIndex, putReadIndex, intPending, sentry, rd,
                   loop, wait, calls, sent>>

\* No slot: interrupts are restored, and the second time without waitClear the call
\* fails with Notify_E_FAIL.
SlotTaken(s) ==
    /\ spc[s] = "test" /\ hwi = None /\ Succ(writeIndex) = rd[s]
    /\ spc' = [spc EXCEPT ![s] = IF loop[s] /\ ~ wait[s] THEN "idle" ELSE "reread"]
    /\ UNCHANGED <<sendFrame, buffer, writeIndex, putReadIndex, intPending, hwi, sentry,
                   rd, loop, wait, calls, sent>>

\* Cache_inv of the read index, and it is read again.
Reread(s) ==
    /\ spc[s] = "reread"
    /\ putReadIndex' = readIndex
    /\ rd' = [rd EXCEPT ![s] = readIndex]
    /\ loop' = [loop EXCEPT ![s] = TRUE]
    /\ spc' = [spc EXCEPT ![s] = "test"]
    /\ UNCHANGED <<sendFrame, buffer, writeIndex, intPending, hwi, sentry, wait, calls,
                   sent>>

WriteEntry(s) ==
    /\ spc[s] = "entry"
    /\ buffer' = [buffer EXCEPT ![writeIndex] = sentry[s]]
    /\ spc' = [spc EXCEPT ![s] = "index"]
    /\ UNCHANGED <<sendFrame, writeIndex, putReadIndex, intPending, hwi, sentry, rd, loop,
                   wait, calls, sent>>

\* The write index moves on, which is when the entry is sent; Hwi_restore.
WriteIndex(s) ==
    /\ spc[s] = "index"
    /\ writeIndex' = Succ(writeIndex)
    /\ sent' = Append(sent, sentry[s])
    /\ hwi' = None
    /\ spc' = [spc EXCEPT ![s] = "int"]
    /\ UNCHANGED <<sendFrame, buffer, putReadIndex, intPending, sentry, rd, loop, wait,
                   calls>>

\* intSend, with interrupts enabled.
IntSend(s) ==
    /\ spc[s] = "int"
    /\ intPending' = TRUE
    /\ spc' = [spc EXCEPT ![s] = "idle"]
    /\ UNCHANGED <<sendFrame, buffer, writeIndex, putReadIndex, hwi, sentry, rd, loop,
                   wait, calls, sent>>

-----------------------------------------------------------------------------
(* NotifyDriverCirc_isr, on the receiving processor                         *)

isrFrame == <<buffer, writeIndex, readIndex, putReadIndex, lineEnabled, regs, nesting,
              task, hwi, sender, calls, sent>>

\* The interrupt is taken and cleared.
IsrEnter ==
    /\ ipc = "off" /\ intPending /\ lineEnabled
    /\ intPending' = FALSE
    /\ ipc' = "snapshot"
    /\ UNCHANGED <<isrFrame, getReadIndex, writeBack, isrWrite, got>>

\* The write index is read once, after the interrupt was cleared.
IsrSnapshot ==
    /\ ipc = "snapshot"
    /\ isrWrite' = writeIndex
    /\ ipc' = "scan"
    /\ UNCHANGED <<isrFrame, getReadIndex, writeBack, intPending, got>>

\* The callback of the next entry runs if its event is registered; an entry of
\* an event that is not is lost.
IsrExec ==
    /\ ipc = "scan" /\ getReadIndex # isrWrite
    /\ got' = Append(got, buffer[getReadIndex])
    /\ ipc' = "advance"
    /\ UNCHANGED <<isrFrame, getReadIndex, writeBack, intPending, isrWrite>>

IsrAdvance_noWrap ==
    /\ ipc = "advance"
    /\ getReadIndex' = getReadIndex + 1
    /\ writeBack' = (writeBack \/ getReadIndex' % modIndex = 0)
    /\ ipc' = "scan"
    /\ UNCHANGED <<isrFrame, intPending, isrWrite, got>>

IsrAdvance_atWrap ==
    /\ ipc = "advance"
    /\ getReadIndex' = Succ(getReadIndex)
    /\ writeBack' = (writeBack \/ getReadIndex' = 0)
    /\ ipc' = "scan"
    /\ UNCHANGED <<isrFrame, intPending, isrWrite, got>>

\* The slot is given back, and every modIndex slots the read index is written back.
IsrAdvance ==
    /\ ipc = "advance"
    /\ getReadIndex' = Succ(getReadIndex)
    /\ writeBack' = (writeBack \/ getReadIndex' % modIndex = 0)
    /\ ipc' = "scan"
    /\ UNCHANGED <<isrFrame, intPending, isrWrite, got>>

IsrReturn ==
    /\ ipc = "scan" /\ getReadIndex = isrWrite
    /\ ipc' = "off"
    /\ UNCHANGED <<isrFrame, getReadIndex, writeBack, intPending, isrWrite, got>>

-----------------------------------------------------------------------------
(* The receiver's task: Notify.c and the driver below it                    *)

taskFrame == <<buffer, writeIndex, cache, intPending, isr, hwi, sender, calls, sent, got>>

\* Notify_registerEventSingle stores the callback, the driver sets the bit.
RegisterEvent(e) ==
    /\ "registerEvent" \in Calls /\ ipc = "off" /\ tpc = "idle" /\ e \notin callbacks
    /\ callbacks' = callbacks \cup {e}
    /\ tpc' = "regMask" /\ tev' = e
    /\ UNCHANGED <<taskFrame, lineEnabled, evtRegMask, nesting>>

SetRegBit ==
    /\ ipc = "off" /\ tpc = "regMask"
    /\ evtRegMask' = evtRegMask \cup {tev}
    /\ tpc' = "idle"
    /\ UNCHANGED <<taskFrame, lineEnabled, callbacks, nesting, tev>>

\* Notify_unregisterEventSingle: the driver clears the bit, then the callback goes.
UnregisterEvent(e) ==
    /\ "unregisterEvent" \in Calls /\ ipc = "off" /\ tpc = "idle" /\ e \in callbacks
    /\ evtRegMask' = evtRegMask \ {e}
    /\ tpc' = "unregCallback" /\ tev' = e
    /\ UNCHANGED <<taskFrame, lineEnabled, callbacks, nesting>>

ClearCallback ==
    /\ ipc = "off" /\ tpc = "unregCallback"
    /\ callbacks' = callbacks \ {tev}
    /\ tpc' = "idle"
    /\ UNCHANGED <<taskFrame, lineEnabled, evtRegMask, nesting, tev>>

\* Notify_disable switches the line off.
Disable ==
    /\ "disable" \in Calls /\ ipc = "off" /\ tpc = "idle" /\ nesting = 0
    /\ nesting' = 1 /\ lineEnabled' = FALSE
    /\ UNCHANGED <<taskFrame, regs, task>>

\* Notify_restore calls NotifyDriverCirc_enable, which only asserts "not supported".
Restore ==
    /\ ipc = "off" /\ tpc = "idle" /\ nesting = 1
    /\ nesting' = 0
    /\ UNCHANGED <<taskFrame, lineEnabled, regs, task>>

\* Notify_enableEvent calls NotifyDriverCirc_enableEvent, which switches the line on.
EnableEvent ==
    /\ "enableEvent" \in Calls /\ ipc = "off" /\ tpc = "idle"
    /\ lineEnabled' = TRUE
    /\ UNCHANGED <<taskFrame, regs, nesting, task>>

-----------------------------------------------------------------------------
Send(s) == \/ SlotFree(s) \/ SlotTaken(s) \/ Reread(s) \/ WriteEntry(s)
           \/ WriteIndex(s) \/ IntSend(s)

Isr == IsrEnter \/ IsrSnapshot \/ IsrExec \/ IsrAdvance \/ IsrReturn

Task == \/ \E e \in Events : RegisterEvent(e) \/ UnregisterEvent(e)
        \/ SetRegBit \/ ClearCallback \/ Disable \/ Restore \/ EnableEvent

Next == \/ WriteBack \/ Refill \/ Isr \/ Task
        \/ \E s \in Senders : Send(s) \/ \E e \in Events, w \in WaitClear : SendEvent(s, e, w)

Spec == Init /\ [][Next]_vars

\* Threads inside the driver and the ISR keep running, an interrupt is taken when the
\* line is enabled, since it preempts the task, and a write-back that was started ends.
\* The caches do nothing by themselves, and nobody has to call anything.
FairSpec == /\ Spec
            /\ SF_vars(Isr) /\ WF_vars(writeBack /\ WriteBack)
            /\ \A s \in Senders : WF_vars(Send(s))

-----------------------------------------------------------------------------
(* Properties                                                              *)

\* The line is one channel: every entry is taken out exactly once, in order, and the
\* slots a sender may fill never exceed the ones the receiver has given back.
C == INSTANCE Channel WITH Channels <- {"line"}, Messages <- Entries,
                           Capacity <- numMsgs - 1,
                           sent <- [c \in {"line"} |-> sent],
                           got  <- [c \in {"line"} |-> got]
ChannelRefinement == C!ChannelSpec

\* Slots from r up to w, around the buffer.
Distance(r, w) == IF r <= w THEN w - r ELSE w - r + numMsgs

\* What the two indexes say is what is under way, no more than the buffer holds, and
\* those slots hold it in order: the sender never fills a slot that is still in use,
\* however old its copy of the read index.
Taken == IF ipc = "advance" THEN Len(got) - 1 ELSE Len(got)
SlotsKept ==
    /\ Distance(getReadIndex, writeIndex) = Len(sent) - Taken
    /\ \A i \in Slots :
        Distance(getReadIndex, i) < Len(sent) - Taken
            => buffer[i] = sent[Taken + 1 + Distance(getReadIndex, i)]

\* Nothing stays in the buffer: an interrupt that comes while the ISR drains it, or
\* is about to return, is not lost; the sends are bounded, so in the end all is taken
\* unless the line is off.
Delivered == <>[](got = sent \/ ~ lineEnabled)

\* A thread that finds the buffer full gets its slot or its error, although the read index is
\* written back only every modIndex slots.
SendersReleased ==
    \A s \in Senders : spc[s] = "reread" ~> spc[s] \in {"entry", "idle"} \/ ~ lineEnabled

\* Neither end waits for ever for the other while the line is on.
LineServed == Delivered /\ SendersReleased
=============================================================================
