------------------------------ MODULE MessageQ ------------------------------
(***************************************************************************)
(* packages/ti/sdo/ipc/MessageQ.c: one message queue on each processor, a  *)
(* high and a normal priority list (packages/ti/sdo/utils/List.c, whose    *)
(* operations Hwi_disable makes atomic) with a binary synchronizer, its    *)
(* one reader, and the threads that put messages on it: the tasks of its   *)
(* processor and the Swi that brings the messages of the other processors. *)
(* Nothing here says which thread runs when: the composing module does.    *)
(***************************************************************************)
EXTENDS Naturals, Sequences

CONSTANTS Procs,        \* processors; one stands for its transport's Swi too
          Tasks,        \* tasks
          home,         \* the processor of each task
          Readers,      \* the tasks that own a queue
          Sends,        \* the messages that each task allocates, to send them
          ShutDown,     \* the processors whose queue is unblocked some day
          NormalPri, HighPri, UrgentPri,    \* the messages, by their priority
          queueId,      \* of each message: the processor whose queue it is put to
          NoMsg,        \* no message
          NoPath        \* not sent yet

Messages == NormalPri \cup HighPri \cup UrgentPri
Threads  == Tasks \cup Procs
Cpu(th)  == IF th \in Procs THEN th ELSE home[th]

ASSUME TasksAssumption == /\ home \in [Tasks -> Procs] /\ Tasks \cap Procs = {}
                          /\ Readers \subseteq Tasks /\ Sends \in [Tasks -> SUBSET Messages]
ASSUME SendsAssumption == \A m \in Messages : \E t \in Tasks : \A s \in Tasks : m \in Sends[s] <=> s = t
ASSUME OneReaderAssumption == \A r, s \in Readers : home[r] = home[s] => r = s
ASSUME PriorityAssumption ==
    /\ NormalPri \cap HighPri = {} /\ UrgentPri \cap (NormalPri \cup HighPri) = {}
    /\ queueId \in [Messages -> Procs] /\ NoMsg \notin Messages /\ NoPath \notin {"local", "remote"}

\* The streams of messages that stay in order: how they come, and their priority.
\* Urgent messages overtake each other.
Paths == {"local", "remote"}
Channels == [queue : Procs, path : Paths, high : BOOLEAN]
ChannelOf(m, path) == [queue |-> queueId[m], path |-> path, high |-> m \in HighPri]

VARIABLES owns,         \* the messages each task has allocated or received
          pc,           \* where each thread is
          held,         \* the message each thread is putting
          normalList, highList,     \* of each queue
          synchronizer, \* of each queue: has been signalled
          unblocked,    \* of each queue
          via,          \* history: the path on which each message was sent
          sent, got     \* history: what was sent and received on each channel

lists   == <<normalList, highList>>
history == <<via, sent, got>>
queueVars == <<owns, pc, held, lists, synchronizer, unblocked, history>>

Queued(p) == {normalList[p][i] : i \in DOMAIN normalList[p]}
             \cup {highList[p][i] : i \in DOMAIN highList[p]}

QueueTypeOK ==
    /\ owns \in [Tasks -> SUBSET Messages]
    /\ held \in [Threads -> Messages \cup {NoMsg}]
    /\ normalList \in [Procs -> Seq(Messages)] /\ highList \in [Procs -> Seq(Messages)]
    /\ synchronizer \in [Procs -> BOOLEAN] /\ unblocked \in [Procs -> BOOLEAN]
    /\ via \in [Messages -> Paths \cup {NoPath}]
    /\ sent \in [Channels -> Seq(Messages)] /\ got \in [Channels -> Seq(Messages)]

QueueInit ==
    /\ owns = Sends
    /\ pc = [th \in Threads |-> IF th \in Procs THEN "off" ELSE "idle"]
    /\ held = [th \in Threads |-> NoMsg]
    /\ normalList = [p \in Procs |-> <<>>] /\ highList = [p \in Procs |-> <<>>]
    /\ synchronizer = [p \in Procs |-> FALSE] /\ unblocked = [p \in Procs |-> FALSE]
    /\ via = [m \in Messages |-> NoPath]
    /\ sent = [c \in Channels |-> <<>>] /\ got = [c \in Channels |-> <<>>]

Goto(th, label) == pc' = [pc EXCEPT ![th] = label]
Hold(th, m) == held' = [held EXCEPT ![th] = m]

\* Urgent messages are on no channel: nothing is recorded of them.
Record(log, m, path) ==
    IF m \in UrgentPri THEN log
    ELSE [log EXCEPT ![ChannelOf(m, path)] = Append(@, m)]

\* A put is accepted: the message is sent.  Each message is sent once: a bound.
Sent(m, path) ==
    /\ via' = [via EXCEPT ![m] = path]
    /\ sent' = Record(sent, m, path)
    /\ UNCHANGED got
MaySend(t, m) == pc[t] = "idle" /\ m \in owns[t] /\ via[m] = NoPath

\* The task gives a message away, to the put it starts.
GiveAway(t, m) ==
    /\ owns' = [owns EXCEPT ![t] = @ \ {m}]
    /\ Hold(t, m)

-----------------------------------------------------------------------------
(* MessageQ_put to a queue of the same processor                            *)

PutLocal(t) ==
    /\ \E m \in Messages : MaySend(t, m) /\ queueId[m] = home[t] /\ GiveAway(t, m)
    /\ Goto(t, "enqueue")
    /\ UNCHANGED <<lists, synchronizer, unblocked, history>>

\* Mutant: every message of the high list is put at its head.
OnLists_alwaysHead(p, m) ==
    \/ /\ m \in UrgentPri \cup HighPri
       /\ highList' = [highList EXCEPT ![p] = <<m>> \o @] /\ UNCHANGED normalList
    \/ /\ m \in NormalPri
       /\ normalList' = [normalList EXCEPT ![p] = Append(@, m)] /\ UNCHANGED highList

\* List_putHead for an urgent message, List_put for the others.
OnLists(p, m) ==
    \/ /\ m \in UrgentPri
       /\ highList' = [highList EXCEPT ![p] = <<m>> \o @] /\ UNCHANGED normalList
    \/ /\ m \in NormalPri
       /\ normalList' = [normalList EXCEPT ![p] = Append(@, m)] /\ UNCHANGED highList
    \/ /\ m \in HighPri
       /\ highList' = [highList EXCEPT ![p] = Append(@, m)] /\ UNCHANGED normalList

\* The Swi puts what another processor has sent.
Enqueue(th) ==
    /\ pc[th] = "enqueue"
    /\ OnLists(Cpu(th), held[th])
    /\ IF th \in Procs THEN UNCHANGED history ELSE Sent(held[th], "local")
    /\ Hold(th, NoMsg) /\ Goto(th, "signal")
    /\ UNCHANGED <<owns, synchronizer, unblocked>>

\* ISync_signal, at the end of MessageQ_put and of MessageQ_unblock.  The Swi goes
\* on with the next message.
Signal(th) ==
    /\ pc[th] = "signal"
    /\ synchronizer' = [synchronizer EXCEPT ![Cpu(th)] = TRUE]
    /\ Goto(th, IF th \in Procs THEN "enter" ELSE "idle")
    /\ UNCHANGED <<owns, held, lists, unblocked, history>>

\* MessageQ_unblock, called once to shut the queue down, by a task that has sent all it
\* had to send: a bound.  The other writers may go on.
Unblock(t) ==
    /\ t \notin Readers /\ home[t] \in ShutDown /\ owns[t] = {}
    /\ pc[t] = "idle" /\ ~unblocked[home[t]]
    /\ unblocked' = [unblocked EXCEPT ![home[t]] = TRUE]
    /\ Goto(t, "signal")
    /\ UNCHANGED <<owns, held, lists, synchronizer, history>>

-----------------------------------------------------------------------------
(* MessageQ_get                                                             *)

\* MessageQ_S_SUCCESS
Receive(t, m) ==
    /\ owns' = [owns EXCEPT ![t] = @ \cup {m}] /\ Goto(t, "idle")
    /\ got' = Record(got, m, via[m])
    /\ UNCHANGED <<held, synchronizer, unblocked, via, sent>>

\* List_get(highList), then List_get(normalList): two steps.
LookHigh(t) ==
    \/ /\ highList[home[t]] # <<>>
       /\ Receive(t, Head(highList[home[t]]))
       /\ highList' = [highList EXCEPT ![home[t]] = Tail(@)] /\ UNCHANGED normalList
    \/ /\ highList[home[t]] = <<>>
       /\ Goto(t, "getNormal")
       /\ UNCHANGED <<owns, held, lists, synchronizer, unblocked, history>>

\* There is no new call on a queue that is shut down.
Get(t) ==
    /\ t \in Readers /\ pc[t] = "idle" /\ ~unblocked[home[t]]
    /\ LookHigh(t)

GetNormal(t) ==
    /\ pc[t] = "getNormal"
    /\ \/ /\ normalList[home[t]] # <<>>
          /\ Receive(t, Head(normalList[home[t]]))
          /\ normalList' = [normalList EXCEPT ![home[t]] = Tail(@)] /\ UNCHANGED highList
       \/ /\ normalList[home[t]] = <<>>
          /\ Goto(t, "wait")
          /\ UNCHANGED <<owns, held, lists, synchronizer, unblocked, history>>

\* ISync_wait takes the signal ...
Wake(t) ==
    /\ pc[t] = "wait" /\ synchronizer[home[t]]
    /\ synchronizer' = [synchronizer EXCEPT ![home[t]] = FALSE]
    /\ Goto(t, "woken")
    /\ UNCHANGED <<owns, held, lists, unblocked, history>>

\* ... or its time is over: MessageQ_E_TIMEOUT.
Timeout(t) ==
    /\ pc[t] = "wait" /\ ~synchronizer[home[t]]
    /\ Goto(t, "idle")
    /\ UNCHANGED <<owns, held, lists, synchronizer, unblocked, history>>

\* MessageQ_E_UNBLOCKED, or the lists are looked at again.
WokenUnblocked(t) ==
    /\ pc[t] = "woken" /\ unblocked[home[t]]
    /\ Goto(t, "idle")
    /\ UNCHANGED <<owns, held, lists, synchronizer, unblocked, history>>

WokenGet(t) ==
    /\ pc[t] = "woken" /\ ~unblocked[home[t]]
    /\ LookHigh(t)
=============================================================================
