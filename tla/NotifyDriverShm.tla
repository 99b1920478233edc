-------------------------- MODULE NotifyDriverShm --------------------------
(***************************************************************************)
(* packages/ti/sdo/ipc/notifyDrivers/NotifyDriverShm.c, one direction of   *)
(* one interrupt line, with the part of packages/ti/sdo/ipc/Notify.c that  *)
(* drives it.  On the sending processor several threads call               *)
(* Notify_sendEvent; on the receiving processor the ISR preempts several   *)
(* tasks that register, unregister, disable and enable events and disable  *)
(* and restore the whole line.  Between the two is one entry (flag and     *)
(* payload) of shared memory for each event.                               *)
(*                                                                         *)
(* A step is one access to shared memory, or one operation that            *)
(* Hwi_disable or the module gate makes atomic.  Abstracted: the cache,    *)
(* and the number of polls before a timeout (any number may be the last).  *)
(***************************************************************************)
EXTENDS Naturals, Sequences, SequencesExt

CONSTANTS Events,       \* event ids, 0 being the highest priority
          Senders,      \* threads of the sending processor
          Tasks,        \* threads of the receiving processor
          None,         \* no thread
          NoWaitClear,  \* events that are sent with waitClear FALSE
          MayTimeout,   \* sendEventPollCount is finite
          Registrable,  \* events that the tasks register and unregister
          Switchable,   \* events that the tasks disable and enable
          ChartAtStart, \* the events registered before the first step, in order
          MaxSends,     \* bound: calls of Notify_sendEvent
          MaxNesting    \* bound: nested calls of Notify_disable, 0 for none

\* Ascending event ids, which is descending priority.
InOrder(chart) == \A i, j \in DOMAIN chart : i < j => chart[i] < chart[j]

ASSUME EventsAssumption ==
    /\ Events \subseteq Nat /\ Events # {}
    /\ NoWaitClear \subseteq Events /\ Registrable \subseteq Events /\ Switchable \subseteq Events
    /\ ChartAtStart \in Seq(Events) /\ InOrder(ChartAtStart)
ASSUME ThreadsAssumption == None \notin Senders \cup Tasks
ASSUME BoundsAssumption == MaxSends \in Nat /\ MaxNesting \in Nat

Payloads == 1 .. MaxSends

VARIABLES recvInitStatus, eventEnableMask, eventRegMask,   \* selfProcCtrl
          flag, payload,        \* selfEventChart: is the event UP, with what
          intPending, lineEnabled,      \* the interrupt line to the receiver
          regChart, callbacks, nesting, \* receiver: registered events
          gate, tpc, tev, keys,         \* receiver: module gate and tasks
          ipc, index, ipayload,         \* receiver: NotifyDriverShm_isr
          hwi, spc, sev, spayload,      \* sender: Hwi_disable and threads
          calls,                        \* sends started so far
          sent, got,            \* history: flags set UP, payloads given to callbacks
          noticed               \* history: how many were sent before the last callback

procCtrl == <<recvInitStatus, eventEnableMask, eventRegMask>>
chart    == <<flag, payload>>
line     == <<intPending, lineEnabled>>
regs     == <<regChart, callbacks>>
tasks    == <<gate, tpc, tev, keys>>
isr      == <<ipc, index, ipayload>>
sender   == <<hwi, spc, sev, spayload, calls>>
history  == <<sent, got, noticed>>
vars     == <<procCtrl, chart, line, regs, nesting, tasks, isr, sender, history>>

TaskLabels == {"idle", "regDisable", "regChart", "regFlag", "regMask", "regEnable",
               "unregDisable", "unregMask", "unregFlag", "unregChart",
               "unregEnable", "unregCallback",
               "evtDisable", "evtTest", "evtExec", "evtEnable"}
IsrLabels  == {"off", "scan", "payload", "ack", "exec"}
SendLabels == {"idle", "poll", "lock", "payload", "flag", "int"}

TypeOK ==
    /\ recvInitStatus \in BOOLEAN /\ eventEnableMask \subseteq Events
    /\ eventRegMask \subseteq Events
    /\ flag \in [Events -> BOOLEAN] /\ payload \in [Events -> {0} \cup Payloads]
    /\ intPending \in BOOLEAN /\ lineEnabled \in BOOLEAN
    /\ regChart \in Seq(Events) /\ callbacks \subseteq Events
    /\ nesting \in 0 .. MaxNesting
    /\ gate \in Tasks \cup {None} /\ tpc \in [Tasks -> TaskLabels]
    /\ tev \in [Tasks -> Events] /\ keys \in [Tasks -> SUBSET (1 .. MaxNesting)]
    /\ ipc \in IsrLabels /\ index \in 1 .. Len(regChart) + 1
    /\ ipayload \in {0} \cup Payloads
    /\ hwi \in Senders \cup {None} /\ spc \in [Senders -> SendLabels]
    /\ sev \in [Senders -> Events] /\ spayload \in [Senders -> {0} \cup Payloads]
    /\ calls \in 0 .. MaxSends
    /\ sent \in [Events -> Seq(Payloads)] /\ got \in [Events -> Seq(Payloads)]
    /\ noticed \in [Events -> Nat]

\* Both sides ran NotifyDriverShm_Instance_init; the receiver has yet to run
\* NotifyDriverShm_setNotifyHandle.
Init ==
    /\ recvInitStatus = FALSE /\ eventEnableMask = Events
    /\ eventRegMask = ToSet(ChartAtStart)
    /\ flag = [e \in Events |-> FALSE] /\ payload = [e \in Events |-> 0]
    /\ intPending = FALSE /\ lineEnabled = TRUE
    /\ regChart = ChartAtStart /\ callbacks = ToSet(ChartAtStart)
    /\ nesting = 0
    /\ gate = None /\ tpc = [t \in Tasks |-> "idle"]
    /\ tev \in [Tasks -> {CHOOSE e \in Events : TRUE}] /\ keys = [t \in Tasks |-> {}]
    /\ ipc = "off" /\ index = 1 /\ ipayload = 0
    /\ hwi = None /\ spc = [s \in Senders |-> "idle"]
    /\ sev \in [Senders -> {CHOOSE e \in Events : TRUE}]
    /\ spayload = [s \in Senders |-> 0]
    /\ calls = 0
    /\ sent = [e \in Events |-> <<>>] /\ got = sent
    /\ noticed = [e \in Events |-> 0]

\* NotifyDriverShm_setNotifyHandle: the sender sees the driver initialized.
SetNotifyHandle ==
    /\ ~ recvInitStatus /\ recvInitStatus' = TRUE
    /\ UNCHANGED <<eventEnableMask, eventRegMask, chart, line, regs, nesting, tasks,
                   isr, sender, history>>

-----------------------------------------------------------------------------
(* NotifyDriverShm_sendEvent, on the sending processor                      *)

sendFrame == <<procCtrl, lineEnabled, regs, nesting, tasks, isr, got,
               noticed>>

\* The three checks against the remote ProcCtrl pass; otherwise an error returns
\* and nothing changes.  They are not repeated later.
SendEvent(s, e) ==
    /\ spc[s] = "idle" /\ calls < MaxSends
    /\ recvInitStatus /\ e \in eventEnableMask /\ e \in eventRegMask
    /\ spc' = [spc EXCEPT ![s] = IF e \in NoWaitClear THEN "lock" ELSE "poll"]
    /\ sev' = [sev EXCEPT ![s] = e]
    /\ calls' = calls + 1
    /\ spayload' = [spayload EXCEPT ![s] = calls + 1]
    /\ UNCHANGED <<sendFrame, chart, intPending, hwi, sent>>

\* Faulty variants, here and below: the mistakes the properties catch.
Poll_unlocked(s) ==
    /\ spc[s] = "poll" /\ hwi = None /\ ~ flag[sev[s]]
    /\ spc' = [spc EXCEPT ![s] = "payload"]
    /\ UNCHANGED <<sendFrame, chart, intPending, hwi, sev, spayload, calls, sent>>

\* Hwi_disable and the test of the flag; UP restores and polls again.
Poll(s) ==
    /\ spc[s] = "poll" /\ hwi = None /\ ~ flag[sev[s]]
    /\ hwi' = s
    /\ spc' = [spc EXCEPT ![s] = "payload"]
    /\ UNCHANGED <<sendFrame, chart, intPending, sev, spayload, calls, sent>>

\* The last poll of sendEventPollCount finds the flag UP: Notify_E_TIMEOUT.
PollTimeout(s) ==
    /\ MayTimeout /\ spc[s] = "poll" /\ hwi = None /\ flag[sev[s]]
    /\ spc' = [spc EXCEPT ![s] = "idle"]
    /\ UNCHANGED <<sendFrame, chart, intPending, hwi, sev, spayload, calls, sent>>

\* waitClear is FALSE: Hwi_disable only.
Lock(s) ==
    /\ spc[s] = "lock" /\ hwi = None
    /\ hwi' = s
    /\ spc' = [spc EXCEPT ![s] = "payload"]
    /\ UNCHANGED <<sendFrame, chart, intPending, sev, spayload, calls, sent>>

WritePayload(s) ==
    /\ spc[s] = "payload"
    /\ payload' = [payload EXCEPT ![sev[s]] = spayload[s]]
    /\ spc' = [spc EXCEPT ![s] = "flag"]
    /\ UNCHANGED <<sendFrame, flag, intPending, hwi, sev, spayload, calls, sent>>

WriteFlag(s) ==
    /\ spc[s] = "flag"
    /\ flag' = [flag EXCEPT ![sev[s]] = TRUE]
    /\ sent' = [sent EXCEPT ![sev[s]] = Append(@, spayload[s])]
    /\ spc' = [spc EXCEPT ![s] = "int"]
    /\ UNCHANGED <<sendFrame, payload, intPending, hwi, sev, spayload, calls>>

\* intSend, then Hwi_restore.
IntSend(s) ==
    /\ spc[s] = "int"
    /\ intPending' = TRUE /\ hwi' = None
    /\ spc' = [spc EXCEPT ![s] = "idle"]
    /\ UNCHANGED <<sendFrame, chart, sev, spayload, calls, sent>>

-----------------------------------------------------------------------------
(* NotifyDriverShm_isr, on the receiving processor                          *)

\* Notify_exec calls the callback registered to event e.
Callback(e, p) == /\ got' = [got EXCEPT ![e] = Append(@, p)]
                  /\ noticed' = [noticed EXCEPT ![e] = Len(sent[e])]

isrFrame == <<procCtrl, lineEnabled, regs, nesting, tasks, sender, sent>>

\* The interrupt is taken: intClear, and the scan starts.
IsrEnter ==
    /\ ipc = "off" /\ intPending /\ lineEnabled
    /\ intPending' = FALSE
    /\ ipc' = "scan" /\ index' = 1
    /\ UNCHANGED <<isrFrame, chart, ipayload, got, noticed>>

\* One round of the loop that finds no event: disabled, or not UP.
IsrSkip ==
    /\ ipc = "scan" /\ index <= Len(regChart)
    /\ LET e == regChart[index] IN e \notin eventEnableMask \/ ~ flag[e]
    /\ index' = index + 1
    /\ UNCHANGED <<isrFrame, chart, intPending, ipc, ipayload, got, noticed>>

IsrFound_anyMask ==
    /\ ipc = "scan" /\ index <= Len(regChart) /\ flag[regChart[index]]
    /\ ipc' = "payload"
    /\ UNCHANGED <<isrFrame, chart, intPending, index, ipayload, got, noticed>>

IsrFound ==
    /\ ipc = "scan" /\ index <= Len(regChart)
    /\ regChart[index] \in eventEnableMask /\ flag[regChart[index]]
    /\ ipc' = "payload"
    /\ UNCHANGED <<isrFrame, chart, intPending, index, ipayload, got, noticed>>

IsrReturn_clearsLate ==
    /\ ipc = "scan" /\ index > Len(regChart)
    /\ ipc' = "off" /\ index' = 1
    /\ intPending' = FALSE
    /\ UNCHANGED <<isrFrame, chart, ipayload, got, noticed>>

IsrReturn_atDisabled ==
    /\ ipc = "scan"
    /\ index <= Len(regChart) => regChart[index] \notin eventEnableMask
    /\ ipc' = "off" /\ index' = 1
    /\ UNCHANGED <<isrFrame, chart, intPending, ipayload, got, noticed>>

\* A whole loop without an asserted event ends the ISR.
IsrReturn ==
    /\ ipc = "scan" /\ index > Len(regChart)
    /\ ipc' = "off" /\ index' = 1
    /\ UNCHANGED <<isrFrame, chart, intPending, ipayload, got, noticed>>

\* The payload is saved before the event is acknowledged.
IsrPayload ==
    /\ ipc = "payload"
    /\ ipayload' = payload[regChart[index]]
    /\ ipc' = "ack"
    /\ UNCHANGED <<isrFrame, chart, intPending, index, got, noticed>>

IsrAck_missing ==
    /\ ipc = "ack" /\ ipc' = "exec"
    /\ UNCHANGED <<isrFrame, chart, intPending, index, ipayload, got, noticed>>

IsrAck ==
    /\ ipc = "ack"
    /\ flag' = [flag EXCEPT ![regChart[index]] = FALSE]
    /\ ipc' = "exec"
    /\ UNCHANGED <<isrFrame, payload, intPending, index, ipayload, got, noticed>>

\* Notify_exec, and the scan starts again from the highest priority.
IsrExec ==
    /\ ipc = "exec"
    /\ Callback(regChart[index], ipayload)
    /\ ipc' = "scan" /\ index' = 1
    /\ UNCHANGED <<isrFrame, chart, intPending, ipayload>>

-----------------------------------------------------------------------------
(* Notify_registerEventSingle and Notify_unregisterEventSingle              *)

\* A task runs only while the ISR does not.
At(t, label) == ipc = "off" /\ tpc[t] = label
Goto(t, label) == tpc' = [tpc EXCEPT ![t] = label]
Begin(t, e, label) == tpc' = [tpc EXCEPT ![t] = label] /\ tev' = [tev EXCEPT ![t] = e]

taskFrame == <<recvInitStatus, payload, intPending, isr, sender, sent, keys>>

RegisterEvent(t, e) ==
    /\ e \in Registrable /\ At(t, "idle") /\ gate = None /\ e \notin callbacks
    /\ gate' = t
    /\ callbacks' = callbacks \cup {e}
    /\ Begin(t, e, "regDisable")
    /\ UNCHANGED <<taskFrame, eventEnableMask, eventRegMask, flag, lineEnabled,
                   regChart, nesting, got, noticed>>

UnregisterEvent_callbackFirst(t, e) ==
    /\ e \in Registrable /\ At(t, "idle") /\ gate = None /\ e \in callbacks
    /\ gate' = t
    /\ callbacks' = callbacks \ {e}
    /\ Begin(t, e, "unregDisable")
    /\ UNCHANGED <<taskFrame, eventEnableMask, eventRegMask, flag, lineEnabled,
                   regChart, nesting, got, noticed>>

UnregisterEvent(t, e) ==
    /\ e \in Registrable /\ At(t, "idle") /\ gate = None /\ e \in callbacks
    /\ gate' = t
    /\ Begin(t, e, "unregDisable")
    /\ UNCHANGED <<taskFrame, eventEnableMask, eventRegMask, flag, lineEnabled, regs,
                   nesting, got, noticed>>

LineOff_forgotten(t) ==
    /\ \/ At(t, "regDisable") /\ Goto(t, "regChart")
       \/ At(t, "unregDisable") /\ Goto(t, "unregMask")
       \/ At(t, "evtDisable") /\ Goto(t, "evtTest")
    /\ UNCHANGED <<taskFrame, eventEnableMask, eventRegMask, flag, lineEnabled, regs,
                   nesting, gate, tev, got, noticed>>

\* NotifyDriverShm_disable and NotifyDriverShm_enable at the ends of the driver's
\* operations: the line is switched off and on, without counting.
LineOff(t) ==
    /\ \/ At(t, "regDisable") /\ Goto(t, "regChart")
       \/ At(t, "unregDisable") /\ Goto(t, "unregMask")
       \/ At(t, "evtDisable") /\ Goto(t, "evtTest")
    /\ lineEnabled' = FALSE
    /\ UNCHANGED <<taskFrame, eventEnableMask, eventRegMask, flag, regs, nesting,
                   gate, tev, got, noticed>>

LineOn(t) ==
    /\ \/ At(t, "regEnable") /\ Goto(t, "idle") /\ gate' = None
       \/ At(t, "unregEnable") /\ Goto(t, "unregCallback") /\ UNCHANGED gate
       \/ At(t, "evtEnable") /\ Goto(t, "idle") /\ UNCHANGED gate
    /\ lineEnabled' = TRUE
    /\ UNCHANGED <<taskFrame, eventEnableMask, eventRegMask, flag, regs, nesting,
                   tev, got, noticed>>

\* The registration chart: a new event goes behind those of a higher priority, and the
\* place of one that leaves is closed.
Insert(e) ==
    \E k \in 0 .. Len(regChart) :
        /\ \A i \in DOMAIN regChart : i <= k <=> regChart[i] <= e
        /\ regChart' = InsertAt(regChart, k + 1, e)

Delete(e) ==
    \E k \in DOMAIN regChart : regChart[k] = e /\ regChart' = RemoveAt(regChart, k)

EditChart(t) ==
    /\ \/ At(t, "regChart") /\ Goto(t, "regFlag") /\ Insert(tev[t])
       \/ At(t, "unregChart") /\ Goto(t, "unregEnable") /\ Delete(tev[t])
    /\ UNCHANGED <<taskFrame, eventEnableMask, eventRegMask, flag, lineEnabled,
                   callbacks, nesting, gate, tev, got, noticed>>

\* A pending unserviced event is dropped.
ClearFlag(t) ==
    /\ \/ At(t, "regFlag") /\ Goto(t, "regMask")
       \/ At(t, "unregFlag") /\ Goto(t, "unregChart")
    /\ flag' = [flag EXCEPT ![tev[t]] = FALSE]
    /\ UNCHANGED <<taskFrame, eventEnableMask, eventRegMask, lineEnabled, regs,
                   nesting, gate, tev, got, noticed>>

WriteRegMask(t) ==
    /\ \/ /\ At(t, "regMask") /\ Goto(t, "regEnable")
          /\ eventRegMask' = eventRegMask \cup {tev[t]}
       \/ /\ At(t, "unregMask") /\ Goto(t, "unregFlag")
          /\ eventRegMask' = eventRegMask \ {tev[t]}
    /\ UNCHANGED <<taskFrame, eventEnableMask, flag, lineEnabled, regs, nesting,
                   gate, tev, got, noticed>>

\* Notify.c clears the callback once the driver has unregistered the event.
ClearCallback(t) ==
    /\ At(t, "unregCallback") /\ Goto(t, "idle")
    /\ gate' = None
    /\ callbacks' = callbacks \ {tev[t]}
    /\ UNCHANGED <<taskFrame, eventEnableMask, eventRegMask, flag, lineEnabled,
                   regChart, nesting, tev, got, noticed>>

-----------------------------------------------------------------------------
(* Notify_disableEvent and Notify_enableEvent: not under the module gate    *)

DisableEvent(t, e) ==
    /\ e \in Switchable /\ At(t, "idle")
    /\ eventEnableMask' = eventEnableMask \ {e}
    /\ Begin(t, e, "evtDisable")
    /\ UNCHANGED <<taskFrame, eventRegMask, flag, lineEnabled, regs, nesting, gate, got, noticed>>

\* An event that is UP is acknowledged; its payload stays in the chart.
DisableEventAck(t) ==
    /\ At(t, "evtTest")
    /\ Goto(t, IF flag[tev[t]] THEN "evtExec" ELSE "evtEnable")
    /\ flag' = [flag EXCEPT ![tev[t]] = FALSE]
    /\ UNCHANGED <<taskFrame, eventEnableMask, eventRegMask, lineEnabled, regs,
                   nesting, gate, tev, got, noticed>>

\* Notify_exec is called with the payload the chart holds now.
DisableEventExec(t) ==
    /\ At(t, "evtExec") /\ Goto(t, "evtEnable")
    /\ Callback(tev[t], payload[tev[t]])
    /\ UNCHANGED <<taskFrame, eventEnableMask, eventRegMask, flag, lineEnabled, regs,
                   nesting, gate, tev>>

EnableEvent(t, e) ==
    /\ e \in Switchable /\ At(t, "idle") /\ e \notin eventEnableMask
    /\ eventEnableMask' = eventEnableMask \cup {e}
    /\ UNCHANGED <<taskFrame, eventRegMask, flag, lineEnabled, regs, nesting, gate,
                   tpc, tev, got, noticed>>

-----------------------------------------------------------------------------
(* Notify_disable and Notify_restore, atomic under the module gate          *)

lineFrame == <<recvInitStatus, eventEnableMask, eventRegMask, chart, intPending, regs,
               isr, sender, history, gate, tpc, tev>>

Disable(t) ==
    /\ At(t, "idle") /\ gate = None /\ nesting < MaxNesting
    /\ nesting' = nesting + 1
    /\ keys' = [keys EXCEPT ![t] = @ \cup {nesting + 1}]
    /\ lineEnabled' = (lineEnabled /\ nesting # 0)
    /\ UNCHANGED lineFrame

\* The caller owes the key: nested disables are restored in the opposite order.
Restore(t) ==
    /\ At(t, "idle") /\ gate = None /\ nesting \in keys[t]
    /\ nesting' = nesting - 1
    /\ keys' = [keys EXCEPT ![t] = @ \ {nesting}]
    /\ lineEnabled' = (lineEnabled \/ nesting = 1)
    /\ UNCHANGED lineFrame

-----------------------------------------------------------------------------
Send(s) == \/ Poll(s) \/ PollTimeout(s) \/ Lock(s) \/ WritePayload(s)
           \/ WriteFlag(s) \/ IntSend(s)

Isr == \/ IsrEnter \/ IsrSkip \/ IsrFound \/ IsrReturn \/ IsrPayload \/ IsrAck
       \/ IsrExec

\* The steps a task inside one of the calls takes by itself.
Task(t) == \/ LineOff(t) \/ LineOn(t) \/ EditChart(t) \/ ClearFlag(t)
           \/ WriteRegMask(t) \/ ClearCallback(t)
           \/ DisableEventAck(t) \/ DisableEventExec(t)

Call(t) == \/ \E e \in Events : \/ RegisterEvent(t, e) \/ UnregisterEvent(t, e)
                                \/ DisableEvent(t, e) \/ EnableEvent(t, e)
           \/ Disable(t)

Next == \/ SetNotifyHandle
        \/ \E s \in Senders : Send(s) \/ \E e \in Events : SendEvent(s, e)
        \/ Isr
        \/ \E t \in Tasks : Task(t) \/ Call(t) \/ Restore(t)

Spec == Init /\ [][Next]_vars

\* Threads inside the driver keep running; a pending interrupt is taken when the line
\* is enabled, since it preempts the tasks; and who disabled the line restores it,
\* the outermost disable included.  Nobody has to send, to register or to enable anything.
FairSpec == /\ Spec
            /\ SF_vars(Isr)
            /\ \A s \in Senders : WF_vars(Send(s))
            /\ \A t \in Tasks : /\ WF_vars(Task(t)) /\ SF_vars(Restore(t))
                              /\ SF_vars(nesting = 1 /\ Restore(t))

-----------------------------------------------------------------------------
(* Properties                                                              *)

\* With waitClear, an event that stays registered and enabled is a channel: its payloads
\* reach the callback exactly once and in order, whatever the sending threads, the ISR and
\* the calls for other events overlap (one may be acknowledged and not yet executed while the
\* next is already UP).
Waited == Events \ (NoWaitClear \cup Registrable \cup Switchable)
C == INSTANCE Channel WITH Channels <- Waited, Messages <- Payloads, Capacity <- 2,
                           sent <- [e \in Waited |-> sent[e]],
                           got  <- [e \in Waited |-> got[e]]
ChannelRefinement == C!ChannelSpec

\* Everything sent with waitClear on an enabled line is executed in the end: no event stays UP
\* because its interrupt came while the ISR was ending or the line was disabled.
Delivered == \A e \in Waited, n \in 1 .. MaxSends : Len(sent[e]) >= n ~> Len(got[e]) >= n

\* After the last send of an event its callback runs once more, also when waitClear
\* is FALSE and the send overwrote a pending one: what TransportShm counts on.
Noticed == \A e \in Events : <>[](noticed[e] = Len(sent[e]))

\* Nothing that was sent is left: with waitClear every send, without it the last one.
SendsServed == Delivered /\ Noticed

\* The ISR never sees the driver's state half changed by registerEvent,
\* unregisterEvent or disableEvent, which switch the line off for that.
IsrExcludesDriver ==
    ipc # "off" => \A t \in Tasks :
        tpc[t] \notin {"regChart", "regFlag", "regMask", "unregMask", "unregFlag",
                      "unregChart", "evtTest", "evtExec"}

\* The tables of the driver and of Notify are well formed, the chart in the order of the
\* priorities, and only one of the ISR and the calls that switch the line off works on them.
DriverConsistent == TypeOK /\ InOrder(regChart) /\ IsrExcludesDriver

\* Once Notify_disableEvent has returned the callback of the event does not run until
\* it is enabled again, whatever the other processor sent in between.
DisabledStaysSilent ==
    \A e \in Events \ eventEnableMask :
        (\A t \in Tasks : tev[t] = e => tpc[t] \notin {"evtDisable", "evtTest", "evtExec"})
            => ~ (ipc \in {"payload", "ack", "exec"} /\ regChart[index] = e)

\* An interrupt serves every enabled and registered event that is UP, also those behind a disabled
\* one or behind one that is sent again and again.
InterruptServesEvent ==
    \A e \in Events :
        flag[e] /\ intPending ~> ~ flag[e] \/ e \notin eventEnableMask \cap eventRegMask

\* Notify_exec never meets a NULL callback (the assertion of Notify.c:874).
ExecHasCallback ==
    /\ ipc = "exec" => regChart[index] \in callbacks
    /\ \A t \in Tasks : tpc[t] = "evtExec" => tev[t] \in callbacks

\* Sequence a is found, in its order, among the first n elements of b.
Embeds(a, b, n) ==
    \E place \in [1 .. Len(a) -> 1 .. n] :
        /\ \A i \in 1 .. Len(a) : a[i] = b[place[i]]
        /\ \A i, j \in 1 .. Len(a) : i < j => place[i] < place[j]

\* With waitClear, what a callback receives was sent for its event, in order and at most once:
\* a registration may drop an event but not repeat or reorder one (disableEvent may: it
\* executes the payload that the chart holds after the acknowledgement).
ExecutedOnceInOrder ==
    \A e \in Events \ (Switchable \cup NoWaitClear) : Embeds(got[e], sent[e], Len(sent[e]))
=============================================================================
