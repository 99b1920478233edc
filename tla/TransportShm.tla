---------------------------- MODULE TransportShm ----------------------------
(***************************************************************************)
(* packages/ti/sdo/ipc/transports/TransportShm.c between two processors,   *)
(* with the message queues of both: a list of messages in shared memory    *)
(* for each direction, one GateMP for both lists, a Notify event, and on   *)
(* each side the Swi that empties the list into the local queues.          *)
(*                                                                         *)
(* The gate is the default remote gate of GateMP.c: a GateSwi on each      *)
(* processor, then a lock between the processors.  The ListMP operations   *)
(* take the same gate again, so inside it each of them is one step.        *)
(* NotifyDriverShm is modelled by what its own module shows: an event that *)
(* is registered is noted, a second one before the ISR ran is the same     *)
(* event, and the ISR runs the callback.                                   *)
(***************************************************************************)
EXTENDS MessageQ, FiniteSets

CONSTANTS creator, opener,      \* the two processors
          None                  \* no task, nobody

ASSUME TwoProcsAssumption == creator # opener /\ Procs = {creator, opener}
ASSUME NoneAssumption == None \notin Threads
ASSUME MessagesAssumption == IsFiniteSet(Messages)

Peer(p) == IF p = creator THEN opener ELSE creator

VARIABLES link,         \* of each processor: how far its transport object is created
          list,         \* localList of each processor, the remoteList of the other
          gate,         \* the thread inside the gate, then the other processor's that waits
          gateSwi,      \* of each processor: the task that disabled its Swis
          event,        \* of each processor: its Notify event is UP
          posted        \* of each processor: its Swi is posted

transportVars == <<link, list, gate, gateSwi, event, posted>>
vars == <<queueVars, transportVars>>

TaskLabels == {"idle", "enqueue", "signal", "getNormal", "wait", "woken",
               "enter", "spin", "insert", "notify", "remove", "leave"}
SwiLabels  == {"off", "enter", "spin", "take", "leave", "enqueue", "signal"}

\* One type invariant for the transport and its queues.
TypeOK ==
    /\ QueueTypeOK
    /\ \A t \in Tasks : pc[t] \in TaskLabels
    /\ \A p \in Procs : pc[p] \in SwiLabels
    /\ DOMAIN pc = Threads
    /\ link \in [Procs -> {"down", "registered", "up"}]
    /\ list \in [Procs -> Seq(Messages)]
    /\ gate \in Seq(Threads) /\ gateSwi \in [Procs -> Tasks \cup {None}]
    /\ event \in [Procs -> BOOLEAN] /\ posted \in [Procs -> BOOLEAN]

Init ==
    /\ QueueInit
    /\ link = [p \in Procs |-> "down"]
    /\ list = [p \in Procs |-> <<>>]
    /\ gate = <<>> /\ gateSwi = [p \in Procs |-> None]
    /\ event = [p \in Procs |-> FALSE] /\ posted = [p \in Procs |-> FALSE]

\* A posted Swi preempts the tasks of its processor and runs to its end, unless a task
\* has disabled the Swis: then no other task runs either.
SwiRuns(p)  == pc[p] # "off"
TaskRuns(t) == LET p == home[t] IN
    /\ ~SwiRuns(p) /\ (posted[p] => gateSwi[p] # None)
    /\ gateSwi[p] \in {None, t}
Runs(th) == IF th \in Procs THEN SwiRuns(th) ELSE TaskRuns(th)

-----------------------------------------------------------------------------
(* TransportShm_Instance_init: the creator's, then the opener's             *)

\* The lists are there.  TransportShm_openByAddr finds the creator's flag UP.
RegisterEvent(p) ==
    /\ link[p] = "down" /\ (p = opener => link[creator] = "up")
    /\ link' = [link EXCEPT ![p] = "registered"]
    /\ UNCHANGED <<queueVars, list, gate, gateSwi, event, posted>>

\* MessageQ_registerTransport, and the flag in shared memory.
RegisterTransport(p) ==
    /\ link[p] = "registered"
    /\ link' = [link EXCEPT ![p] = "up"]
    /\ UNCHANGED <<queueVars, list, gate, gateSwi, event, posted>>

-----------------------------------------------------------------------------
(* GateMP_enter and GateMP_leave                                            *)

gateFrame == <<owns, held, lists, synchronizer, unblocked, history, link, list, event, posted>>

\* Mutant: the gate has no local protection.
Enter_noGateSwi(th) ==
    /\ pc[th] = "enter"
    /\ gate' = Append(gate, th) /\ Goto(th, "spin")
    /\ UNCHANGED <<gateFrame, gateSwi>>

\* GateSwi_enter, which a Swi does not need, then the lock between the processors: the
\* Peterson gate lets the processor in that came first.
Enter(th) ==
    /\ pc[th] = "enter"
    /\ gate' = Append(gate, th) /\ Goto(th, "spin")
    /\ gateSwi' = IF th \in Procs THEN gateSwi ELSE [gateSwi EXCEPT ![home[th]] = th]
    /\ UNCHANGED gateFrame

Acquire(th) ==
    /\ pc[th] = "spin" /\ Head(gate) = th
    /\ Goto(th, IF th \in Procs THEN "take" ELSE "insert")
    /\ UNCHANGED <<gateFrame, gate, gateSwi>>

\* The Swi has a message to put, or it ends.  A put returns: MessageQ_S_SUCCESS, or
\* MessageQ_E_FAIL when it still has its message, which stays its caller's.
Leave(th) ==
    /\ pc[th] = "leave"
    /\ gate' = Tail(gate)
    /\ \/ /\ th \in Procs
          /\ Goto(th, IF held[th] = NoMsg THEN "off" ELSE "enqueue")
          /\ UNCHANGED <<owns, held, gateSwi>>
       \/ /\ th \in Tasks
          /\ Goto(th, "idle") /\ Hold(th, NoMsg)
          /\ owns' = [owns EXCEPT ![th] = @ \cup ({held[th]} \ {NoMsg})]
          /\ gateSwi' = [gateSwi EXCEPT ![home[th]] = None]
    /\ UNCHANGED <<lists, synchronizer, unblocked, history, link, list, event, posted>>

-----------------------------------------------------------------------------
(* MessageQ_put to a queue of the other processor: TransportShm_put         *)

\* MessageQ_put finds the transport to the other processor.
PutRemote(t) ==
    /\ link[home[t]] = "up"
    /\ \E m \in Messages : MaySend(t, m) /\ queueId[m] # home[t] /\ GiveAway(t, m)
    /\ Goto(t, "enter")
    /\ UNCHANGED <<lists, synchronizer, unblocked, history, transportVars>>

\* ListMP_putTail
Insert(t) ==
    /\ pc[t] = "insert"
    /\ list' = [list EXCEPT ![Peer(home[t])] = Append(@, held[t])]
    /\ Goto(t, "notify")
    /\ UNCHANGED <<owns, held, lists, synchronizer, unblocked, history,
                   link, gate, gateSwi, event, posted>>

\* Notify_sendEvent: the event is UP on the other side, which registered it.
Notify(t) ==
    /\ pc[t] = "notify" /\ link[Peer(home[t])] # "down"
    /\ event' = [event EXCEPT ![Peer(home[t])] = TRUE]
    /\ Sent(held[t], "remote")
    /\ Hold(t, NoMsg) /\ Goto(t, "leave")
    /\ UNCHANGED <<owns, lists, synchronizer, unblocked,
                   link, list, gate, gateSwi, posted>>

\* Notify_E_EVTNOTREGISTERED
NotifyFails(t) ==
    /\ pc[t] = "notify" /\ link[Peer(home[t])] = "down"
    /\ Goto(t, "remove")
    /\ UNCHANGED <<owns, held, lists, synchronizer, unblocked, history, transportVars>>

\* Mutant: a put that fails forgets its message on the list.
RemoveFromList_forgets(t) ==
    /\ pc[t] = "remove"
    /\ Goto(t, "leave")
    /\ UNCHANGED <<owns, held, lists, synchronizer, unblocked, history, transportVars>>

\* ListMP_remove, wherever the message is on the list; the put returns MessageQ_E_FAIL and
\* its caller still has the message.
RemoveFromList(t) ==
    /\ pc[t] = "remove"
    /\ LET s == list[Peer(home[t])] IN
       \E i \in DOMAIN s : /\ s[i] = held[t]
                           /\ list' = [list EXCEPT ![Peer(home[t])] =
                                          SubSeq(s, 1, i - 1) \o SubSeq(s, i + 1, Len(s))]
    /\ Goto(t, "leave")
    /\ UNCHANGED <<owns, held, lists, synchronizer, unblocked, history,
                   link, gate, gateSwi, event, posted>>

-----------------------------------------------------------------------------
(* TransportShm_notifyFxn and TransportShm_swiFxn                           *)

\* The ISR of the Notify driver clears the flag, then calls notifyFxn: Swi_post.
Isr(p) ==
    /\ event[p]
    /\ event' = [event EXCEPT ![p] = FALSE]
    /\ posted' = [posted EXCEPT ![p] = TRUE]
    /\ UNCHANGED <<queueVars, link, list, gate, gateSwi>>

SwiStart(p) ==
    /\ posted[p] /\ pc[p] = "off" /\ gateSwi[p] = None
    /\ posted' = [posted EXCEPT ![p] = FALSE]
    /\ Goto(p, "enter")
    /\ UNCHANGED <<owns, held, lists, synchronizer, unblocked, history,
                   link, list, gate, gateSwi, event>>

\* ListMP_getHead: the next message, or NULL.
Take(p) ==
    /\ pc[p] = "take"
    /\ \/ list[p] = <<>> /\ UNCHANGED <<held, list>>
       \/ /\ list[p] # <<>> /\ Hold(p, Head(list[p]))
          /\ list' = [list EXCEPT ![p] = Tail(@)]
    /\ Goto(p, "leave")
    /\ UNCHANGED <<owns, lists, synchronizer, unblocked, history,
                   link, gate, gateSwi, event, posted>>

-----------------------------------------------------------------------------
\* What a thread does once it has started a call, and a reader always starts another.
Reads(t)    == Get(t) \/ GetNormal(t) \/ Wake(t) \/ WokenUnblocked(t) \/ WokenGet(t)
Puts(th)    == Enqueue(th) \/ Signal(th)
InQueue(th) == Puts(th) \/ (th \in Tasks /\ Reads(th))
InTransport(th) ==
    \/ Enter(th) \/ Acquire(th) \/ Leave(th)
    \/ th \in Tasks /\ (Insert(th) \/ Notify(th) \/ NotifyFails(th) \/ RemoveFromList(th))
    \/ th \in Procs /\ Take(th)

Step(th) == Runs(th) /\ (InTransport(th) \/ (InQueue(th) /\ UNCHANGED transportVars))
Start(t) == TaskRuns(t) /\ \/ PutRemote(t)
                           \/ (PutLocal(t) \/ Unblock(t)) /\ UNCHANGED transportVars
Attach(p) == RegisterEvent(p) \/ RegisterTransport(p)

Next ==
    \/ \E th \in Threads : Step(th)
    \/ \E t \in Tasks : Start(t) \/ (TaskRuns(t) /\ Timeout(t) /\ UNCHANGED transportVars)
    \/ \E p \in Procs : Attach(p) \/ Isr(p) \/ SwiStart(p)

Spec == Init /\ [][Next]_vars

\* Interrupts are taken, posted Swis run, threads that may run do, and the processors
\* attach.  Nobody has to send anything.
FairSpec == /\ Spec
            /\ \A th \in Threads : WF_vars(Step(th))
            /\ \A p \in Procs : WF_vars(Attach(p) \/ Isr(p) \/ SwiStart(p))

-----------------------------------------------------------------------------
(* Properties                                                              *)

\* Where a message is: a task's own, in a thread's hands, or at a place of a list.  The
\* caller of a put that is not decided has it on the list too: that is one place.
Undecided(t) == t \in Tasks /\ pc[t] \in {"notify", "remove"}
ListOf == [transport |-> list, normal |-> normalList, high |-> highList]
Places(m) ==
    {<<"owned", t, 0>> : t \in {x \in Tasks : m \in owns[x]}}
    \cup {<<"held", th, 0>> : th \in {x \in Threads : held[x] = m /\ ~Undecided(x)}}
    \cup UNION {{<<k, p, i>> : i \in {j \in DOMAIN ListOf[k][p] : ListOf[k][p][j] = m}} :
                 k \in DOMAIN ListOf, p \in Procs}

\* A message is always in one place, once, whatever the writers, Swis and readers of
\* both processors do together: it is never lost nor delivered twice, and a put that fails
\* leaves it with its caller alone.
OneOwner == \A m \in Messages : Cardinality(Places(m)) = 1

\* A message in shared memory is never forgotten: its sender is about to notify, the
\* event is UP, or the Swi is posted or will look at the list again, although a new event
\* is no event when the last one was not taken yet.
NoneStranded ==
    \A p \in Procs : list[p] # <<>> =>
        \/ event[p] \/ posted[p]
        \/ pc[p] # "off"
        \/ \E t \in Tasks : Undecided(t) /\ Peer(home[t]) = p

\* Every message is accounted for: in one place, and where someone will look for it.
MessagesAccounted == TypeOK /\ OneOwner /\ NoneStranded

\* The messages that one side sends with one priority to a queue arrive once each and in
\* order, although two tasks send them, a Swi moves them and one reader takes them.
C == INSTANCE Channel WITH Capacity <- Cardinality(Messages)
ImplementsChannel == C!ChannelSpec

\* A message that is accepted reaches its queue and the reader of that queue, unless the
\* queue is shut down; the sends are bounded, so in the end all have.
Reached(m) == LET p == queueId[m] IN
    IF \E r \in Readers : home[r] = p THEN \E r \in Readers : home[r] = p /\ m \in owns[r]
    ELSE m \in Queued(p)
Delivered ==
    <>[](\A m \in Messages : via[m] = NoPath \/ unblocked[queueId[m]] \/ Reached(m))

\* A reader does not stay asleep on a queue that is unblocked.
UnblockReturns == \A r \in Readers : unblocked[home[r]] ~> pc[r] = "idle"

\* A reader sleeps for ever only when there is nothing for it: no message and no unblock.
NoWakeUpLost == Delivered /\ UnblockReturns
=============================================================================
