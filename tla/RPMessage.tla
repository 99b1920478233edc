----------------------------- MODULE RPMessage -----------------------------
(***************************************************************************)
(* packages/ti/ipc/rpmsg/RPMessage.c on the slave, and its counterpart     *)
(* MessageQCopy.c on a QNX host, over the two virtqueues: tasks that send  *)
(* to the host or to an endpoint of their own processor, tasks that        *)
(* receive, the Swi that brings the host's messages and the Hwi that posts *)
(* it; and the host's interrupt thread and its senders.  The slave has one *)
(* core: an operation under a GateHwi lets nothing else of the slave run,  *)
(* but the host runs all the time.                                         *)
(***************************************************************************)
EXTENDS VirtQueue, Sequences, FiniteSets

CONSTANTS Senders,      \* tasks of the slave that send
          Sends,        \* the messages each of them may send
          Endpoints,    \* endpoints of the slave, each with a task that receives from it
          Callbacks,    \* endpoints of the slave with a callback, there from the start
          dstEndpt,     \* of a message that is not for the host: its endpoint
          ToHost,       \* the messages that are for the host
          Unknown,      \* those of them for which the host has no endpoint
          FromHost,     \* the messages of the host
          Loads,        \* sets of messages: one of them is what is sent, a bound
          HeapBlocks,   \* the blocks of the heap that received messages are copied to
          MboxSize,     \* entries of the mailbox FIFOs
          MaxDeletes,   \* bound: endpoints deleted
          DeleteLoads,  \* the loads with which there are deletions, a bound
          Asserts,      \* whether the slave is built with its assertions on
          NoToken

Swi       == "swi"              \* RPMessage_swiFxn
HostIsr   == "hostIsr"          \* _MessageQCopy_callback_bufReady
HostTasks == "hostTasks"        \* MessageQCopy_send: its gate lets one of them run
Tasks     == Senders \cup Endpoints
Slave     == Tasks \cup {Swi}
Host      == {HostIsr, HostTasks}
Threads   == Slave \cup Host

ASSUME ThreadsAssumption ==
    /\ Senders \cap (Endpoints \cup Callbacks) = {} /\ Endpoints \cap Callbacks = {}
    /\ Tasks \cap {Swi, HostIsr, HostTasks} = {} /\ IsFiniteSet(Tasks)
ASSUME SendsAssumption ==
    /\ Sends \in [Senders -> SUBSET Messages] /\ ToHost \subseteq Messages
    /\ Loads \subseteq SUBSET Messages
    /\ FromHost \subseteq Messages \ ToHost /\ Unknown \subseteq ToHost
    /\ dstEndpt \in [Messages \ ToHost -> Endpoints \cup Callbacks]
ASSUME SizesAssumption == HeapBlocks \in Nat /\ MboxSize \in Nat \ {0} /\ MaxDeletes \in Nat
                          /\ NoToken \notin Tokens
ASSUME AssertsAssumption == Asserts \in BOOLEAN

VARIABLES pc,           \* where each thread is
          token,        \* the buffer it has
          msg,          \* the message it sends or delivers
          added,        \* usedBufAdded of the Swi, availBufAdded of the host's thread
          toSend,       \* the messages no one has begun to send
          objects,      \* msgqObjects: the endpoints that exist
          queue,        \* of each endpoint: the messages copied
          semHandle,    \* of each endpoint: its counting semaphore
          unblocked,    \* of each endpoint
          heap,         \* free blocks
          semHandle_toHost,     \* the binary semaphore of senders without a buffer
          posted,       \* the Swi has been posted
          slaveMbox, hostMbox,  \* the mailbox FIFOs: ids of kicked queues
          deletesLeft,  \* endpoints that may still be deleted
          stale,        \* history: a message was brought to an endpoint that was being deleted
          leaked,       \* history: buffers of unknown endpoints, which the host keeps
          sent, got     \* history: what was sent and taken on each virtqueue

local   == <<objects, queue, semHandle, unblocked, heap, deletesLeft, stale>>
signals == <<semHandle_toHost, posted>>
mboxes  == <<slaveMbox, hostMbox>>
history == <<leaked, sent, got>>
vars == <<vq, pc, token, msg, added, toSend, local, signals, mboxes, history>>

TypeOK ==
    /\ VirtQueueTypeOK
    /\ token \in [Threads -> Tokens \cup {NoToken}]
    /\ msg \in [Threads -> Messages \cup {NoMsg}]
    /\ objects \subseteq Endpoints \cup Callbacks
    /\ queue \in [Endpoints -> Seq(Messages)] /\ semHandle \in [Endpoints -> Nat]
    /\ heap \in 0 .. HeapBlocks /\ deletesLeft \in 0 .. MaxDeletes /\ stale \in BOOLEAN
    /\ slaveMbox \in Seq(VirtQueues) /\ hostMbox \in Seq(VirtQueues)
    /\ sent \in [VirtQueues -> Seq(Messages)] /\ got \in [VirtQueues -> Seq(Messages)]

Init ==
    /\ VirtQueueInit
    /\ pc = [th \in Threads |-> "idle"]
    /\ token = [th \in Threads |-> NoToken]
    /\ msg = [th \in Threads |-> NoMsg]
    /\ added = [th \in {Swi, HostIsr} |-> FALSE]
    /\ toSend \in Loads
    /\ objects = Callbacks
    /\ queue = [e \in Endpoints |-> <<>>] /\ semHandle = [e \in Endpoints |-> 0]
    /\ unblocked = [e \in Endpoints |-> FALSE]
    /\ heap = HeapBlocks /\ stale = FALSE
    /\ deletesLeft = IF toSend \in DeleteLoads THEN MaxDeletes ELSE 0
    /\ semHandle_toHost = FALSE /\ posted = FALSE
    /\ slaveMbox = <<>> /\ hostMbox = <<>>
    /\ leaked = {}
    /\ sent = [q \in VirtQueues |-> <<>>] /\ got = sent

Goto(th, label) == pc' = [pc EXCEPT ![th] = label]
Carry(th, t, m) == token' = [token EXCEPT ![th] = t] /\ msg' = [msg EXCEPT ![th] = m]

\* The queue a thread works on.
QueueOf(th) == IF th \in Senders \cup {HostIsr} THEN "toHost" ELSE "fromHost"

\* An assertion has failed: the slave's program ends.
Aborted == \E e \in Endpoints : pc[e] = "aborted"

\* GateHwi: interrupts are off, so that no other thread of the slave runs.
Masked(th) == Aborted \/ \E other \in Slave \ {th} : pc[other] \in {"test", "publish"}
Runs(th)   == ~Masked(th) /\ (th = Swi \/ (pc[Swi] = "idle" /\ ~posted))

At(th, label) == pc[th] = label /\ (th \in Slave => Runs(th))

-----------------------------------------------------------------------------
(* RPMessage_send: to an endpoint of the slave                              *)

Begin(s, m) == pc[s] = "idle" /\ Runs(s) /\ m \in Sends[s] \cap toSend /\ toSend' = toSend \ {m}

SendLocal(s) ==
    /\ \E m \in Messages \ ToHost : Begin(s, m) /\ Carry(s, NoToken, m)
    /\ Goto(s, "lookup")
    /\ UNCHANGED <<vq, added, local, signals, mboxes, history>>

\* The Swi goes on to give the buffer back.
SendReturns(th) == Goto(th, IF th = Swi THEN "add" ELSE "idle")

\* E_NOENDPT or E_MEMORY: the message is dropped; a callback has it when it is called.
NotQueued(th) ==
    LET e == dstEndpt[msg[th]] IN
    /\ At(th, "lookup")
    /\ e \notin objects \/ e \in Callbacks \/ heap = 0
    /\ SendReturns(th)
    /\ UNCHANGED <<vq, token, msg, added, toSend, local, signals, mboxes, history>>

Alloc(th) ==
    /\ At(th, "lookup")
    /\ dstEndpt[msg[th]] \in objects \ Callbacks /\ heap > 0
    /\ heap' = heap - 1
    /\ Goto(th, IF pc[dstEndpt[msg[th]]] = "deleted" THEN "freed" ELSE "put")
    /\ UNCHANGED <<vq, token, msg, added, toSend, objects, queue, semHandle, unblocked,
                   deletesLeft, stale, signals, mboxes, history>>

Put(th) ==
    /\ At(th, "put")
    /\ queue' = [queue EXCEPT ![dstEndpt[msg[th]]] = Append(@, msg[th])]
    /\ Goto(th, "post")
    /\ UNCHANGED <<vq, token, msg, added, toSend, objects, semHandle, unblocked, heap,
                   deletesLeft, stale, signals, mboxes, history>>

Post(th) ==
    /\ At(th, "post")
    /\ semHandle' = [semHandle EXCEPT ![dstEndpt[msg[th]]] = @ + 1]
    /\ SendReturns(th)
    /\ UNCHANGED <<vq, token, msg, added, toSend, objects, queue, unblocked, heap,
                   deletesLeft, stale, signals, mboxes, history>>

\* The queue and the semaphore are those of an endpoint that has been deleted since: what
\* is put there is lost, as long as nobody has got that memory.
PutStale(th) ==
    /\ At(th, "freed")
    /\ stale' = TRUE
    /\ SendReturns(th)
    /\ UNCHANGED <<vq, token, msg, added, toSend, objects, queue, semHandle, unblocked, heap,
                   deletesLeft, signals, mboxes, history>>

-----------------------------------------------------------------------------
(* RPMessage_send: to the host.  The Swi takes the steps of the virtqueue   *)
(* in the same way, on the other queue.                                     *)

SendRemote(s) ==
    /\ \E m \in ToHost : Begin(s, m) /\ Carry(s, NoToken, m)
    /\ Goto(s, "clear")
    /\ UNCHANGED <<vq, added, local, signals, mboxes, history>>

\* VirtQueue_getAvailBuf turns notifications on before it looks.
Clear(th) ==
    /\ At(th, "clear")
    /\ ClearNoNotify(QueueOf(th))
    /\ Goto(th, "test")
    /\ UNCHANGED <<token, msg, added, toSend, local, signals, mboxes, history>>

\* Mutant: it turns them off whether there is a buffer or not.
NoAvail_stillOff(th) ==
    /\ At(th, "test") /\ ~HasAvail(QueueOf(th))
    /\ vq' = [vq EXCEPT ![QueueOf(th)].noNotify = TRUE]
    /\ Goto(th, IF th # Swi THEN "pend" ELSE IF added[Swi] THEN "kick" ELSE "idle")
    /\ UNCHANGED <<token, msg, added, toSend, local, signals, mboxes, history>>

NoAvail(th) ==
    /\ At(th, "test") /\ ~HasAvail(QueueOf(th))
    /\ Goto(th, IF th # Swi THEN "pend" ELSE IF added[Swi] THEN "kick" ELSE "idle")
    /\ UNCHANGED <<vq, token, msg, added, toSend, local, signals, mboxes, history>>

\* Semaphore_pend on the binary semaphore, then the loop tries again.
Pend(s) ==
    /\ s \in Senders /\ At(s, "pend") /\ semHandle_toHost
    /\ semHandle_toHost' = FALSE
    /\ Goto(s, "clear")
    /\ UNCHANGED <<vq, token, msg, added, toSend, local, posted, mboxes, history>>

GetToSend(s) ==
    /\ s \in Senders /\ At(s, "test") /\ HasAvail("toHost")
    /\ Carry(s, NextAvail("toHost"), msg[s])
    /\ TakeAvail("toHost")
    /\ Goto(s, "add")
    /\ UNCHANGED <<added, toSend, local, signals, mboxes, history>>

\* A message of the host: RPMessage_send to its endpoint comes next.
GetReceived ==
    LET t == NextAvail("fromHost")
        m == vq["fromHost"].buf[t] IN
    /\ At(Swi, "test") /\ HasAvail("fromHost")
    /\ Carry(Swi, t, m)
    /\ TakeAvail("fromHost")
    /\ got' = [got EXCEPT !["fromHost"] = Append(@, m)]
    /\ Goto(Swi, "lookup")
    /\ UNCHANGED <<added, toSend, local, signals, mboxes, leaked, sent>>

AddUsed(th) ==
    /\ th \in Slave /\ At(th, "add")
    /\ WriteUsed(QueueOf(th), token[th], msg[th])
    /\ Goto(th, "publish")
    /\ UNCHANGED <<token, msg, added, toSend, local, signals, mboxes, history>>

UsedAdded(s) ==
    /\ s \in Senders /\ At(s, "publish")
    /\ PublishUsed("toHost")
    /\ sent' = [sent EXCEPT !["toHost"] = Append(@, msg[s])]
    /\ Carry(s, NoToken, NoMsg)
    /\ Goto(s, "kick")
    /\ UNCHANGED <<added, toSend, local, signals, mboxes, leaked, got>>

GivenBack ==
    /\ At(Swi, "publish")
    /\ PublishUsed("fromHost")
    /\ Carry(Swi, NoToken, NoMsg)
    /\ added' = [added EXCEPT ![Swi] = TRUE]
    /\ Goto(Swi, "clear")
    /\ UNCHANGED <<toSend, local, signals, mboxes, history>>

\* VirtQueue_kick: the host never sets NO_INTERRUPT; intSend waits for room in the FIFO.
KickHost(th) ==
    /\ th \in Slave /\ At(th, "kick") /\ Len(hostMbox) < MboxSize
    /\ hostMbox' = Append(hostMbox, QueueOf(th))
    /\ Goto(th, "idle")
    /\ UNCHANGED <<vq, token, msg, added, toSend, local, signals, slaveMbox, history>>

-----------------------------------------------------------------------------
(* Interrupts of the slave: VirtQueue_isr and callback_availBufReady        *)

Isr ==
    /\ slaveMbox # <<>> /\ ~Masked("isr")
    /\ \/ Head(slaveMbox) = "fromHost" /\ posted' = TRUE /\ UNCHANGED semHandle_toHost
       \/ Head(slaveMbox) = "toHost" /\ semHandle_toHost' = TRUE /\ UNCHANGED posted
    /\ slaveMbox' = Tail(slaveMbox)
    /\ UNCHANGED <<vq, pc, token, msg, added, toSend, local, hostMbox, history>>

SwiStart ==
    /\ posted /\ pc[Swi] = "idle" /\ ~Masked(Swi)
    /\ posted' = FALSE
    /\ added' = [added EXCEPT ![Swi] = FALSE]
    /\ Goto(Swi, "clear")
    /\ UNCHANGED <<vq, token, msg, toSend, local, semHandle_toHost, mboxes, history>>

-----------------------------------------------------------------------------
(* RPMessage_create, RPMessage_delete, RPMessage_recv and RPMessage_unblock *)

Create(e) ==
    /\ e \notin objects /\ \A th \in Tasks : Runs(th)
    /\ objects' = objects \cup {e}
    /\ unblocked' = [unblocked EXCEPT ![e] = FALSE]
    /\ UNCHANGED <<vq, pc, token, msg, added, toSend, queue, semHandle, heap, deletesLeft, stale,
                   signals, mboxes, history>>

\* The semaphore goes, the messages on the queue, the queue, and after them the slot by which
\* a sender finds the endpoint.  Who has found it before has pointers to both.
Delete(e) ==
    /\ e \in objects /\ At(e, "idle") /\ deletesLeft > 0
    /\ deletesLeft' = deletesLeft - 1
    /\ heap' = heap + Len(queue[e])
    /\ queue' = [queue EXCEPT ![e] = <<>>]
    /\ semHandle' = [semHandle EXCEPT ![e] = 0]
    /\ pc' = [th \in Threads |->
               IF th = e THEN "deleted"
               ELSE IF pc[th] \in {"put", "post"} /\ dstEndpt[msg[th]] = e THEN "freed"
               ELSE pc[th]]
    /\ UNCHANGED <<vq, token, msg, added, toSend, objects, unblocked, stale, signals, mboxes,
                   history>>

DeleteSlot(e) ==
    /\ At(e, "deleted")
    /\ objects' = objects \ {e}
    /\ Goto(e, "idle")
    /\ UNCHANGED <<vq, token, msg, added, toSend, queue, semHandle, unblocked, heap, deletesLeft,
                   stale, signals, mboxes, history>>

\* Swi_post first: "Check vring for pending messages before we block".
Recv(e) ==
    /\ e \in objects /\ At(e, "idle")
    /\ posted' = TRUE
    /\ Goto(e, "recv")
    /\ UNCHANGED <<vq, token, msg, added, toSend, local, semHandle_toHost, mboxes, history>>

Woken(e) ==
    /\ At(e, "recv") /\ semHandle[e] > 0
    /\ semHandle' = [semHandle EXCEPT ![e] = @ - 1]
    /\ Goto(e, "woken")
    /\ UNCHANGED <<vq, token, msg, added, toSend, objects, queue, unblocked, heap, deletesLeft,
                   stale, signals, mboxes, history>>

\* Mutant: the result of Semaphore_pend is not looked at.
RecvTimeout_unchecked(e) ==
    /\ At(e, "recv") /\ semHandle[e] = 0
    /\ Goto(e, "woken")
    /\ UNCHANGED <<vq, token, msg, added, toSend, local, signals, mboxes, history>>

RecvTimeout(e) ==
    /\ At(e, "recv") /\ semHandle[e] = 0
    /\ Goto(e, "idle")
    /\ UNCHANGED <<vq, token, msg, added, toSend, local, signals, mboxes, history>>

RecvUnblocked(e) ==
    /\ At(e, "woken") /\ unblocked[e]
    /\ Goto(e, "idle")
    /\ UNCHANGED <<vq, token, msg, added, toSend, local, signals, mboxes, history>>

\* List_get, the assertion that it found nothing (which is the wrong way round), the copy to
\* the client, and HeapBuf_free.
RecvPayload(e) ==
    /\ At(e, "woken") /\ ~unblocked[e] /\ queue[e] # <<>>
    /\ queue' = [queue EXCEPT ![e] = Tail(@)]
    /\ heap' = IF Asserts THEN heap ELSE heap + 1
    /\ Goto(e, IF Asserts THEN "aborted" ELSE "idle")
    /\ UNCHANGED <<vq, token, msg, added, toSend, objects, semHandle, unblocked, deletesLeft,
                   stale, signals, mboxes, history>>

\* Once for each endpoint: a bound.
Unblock(e) ==
    /\ e \in objects /\ pc[e] # "deleted" /\ ~unblocked[e] /\ \A th \in Tasks : Runs(th)
    /\ unblocked' = [unblocked EXCEPT ![e] = TRUE]
    /\ semHandle' = [semHandle EXCEPT ![e] = @ + 1]
    /\ UNCHANGED <<vq, pc, token, msg, added, toSend, objects, queue, heap, deletesLeft, stale,
                   signals, mboxes, history>>

-----------------------------------------------------------------------------
(* The host: its interrupt thread                                           *)

HostInterrupt ==
    /\ hostMbox # <<>> /\ pc[HostIsr] = "idle"
    /\ hostMbox' = Tail(hostMbox)
    /\ \/ /\ Head(hostMbox) = "toHost"
          /\ added' = [added EXCEPT ![HostIsr] = FALSE]
          /\ Goto(HostIsr, "take")
       \/ Head(hostMbox) = "fromHost" /\ UNCHANGED <<pc, added>>
    /\ UNCHANGED <<vq, token, msg, toSend, local, signals, slaveMbox, history>>

Taken(m) ==
    /\ TakeUsed("toHost")
    /\ got' = [got EXCEPT !["toHost"] = Append(@, m)]

\* The callback of the endpoint has the message before the buffer is offered again.
HostTake ==
    LET t == NextUsed("toHost")
        m == vq["toHost"].buf[t] IN
    /\ pc[HostIsr] = "take" /\ HasUsed("toHost") /\ m \notin Unknown
    /\ Taken(m)
    /\ Carry(HostIsr, t, m)
    /\ Goto(HostIsr, "add")
    /\ UNCHANGED <<added, toSend, local, signals, mboxes, leaked, sent>>

\* "no object for endpoint": the buffer is not offered again.
HostLeaks ==
    LET t == NextUsed("toHost")
        m == vq["toHost"].buf[t] IN
    /\ pc[HostIsr] = "take" /\ HasUsed("toHost") /\ m \in Unknown
    /\ Taken(m)
    /\ leaked' = leaked \cup {t}
    /\ UNCHANGED <<pc, token, msg, added, toSend, local, signals, mboxes, sent>>

HostTakenAll ==
    /\ pc[HostIsr] = "take" /\ ~HasUsed("toHost")
    /\ Goto(HostIsr, IF added[HostIsr] THEN "kick" ELSE "idle")
    /\ UNCHANGED <<vq, token, msg, added, toSend, local, signals, mboxes, history>>

-----------------------------------------------------------------------------
(* The host: MessageQCopy_send, and the steps both of its threads take      *)

HostSend ==
    /\ pc[HostTasks] = "idle" /\ HasUsed("fromHost")
    /\ \E m \in FromHost \cap toSend :
        /\ toSend' = toSend \ {m}
        /\ Carry(HostTasks, NextUsed("fromHost"), m)
    /\ TakeUsed("fromHost")
    /\ Goto(HostTasks, "add")
    /\ UNCHANGED <<added, local, signals, mboxes, history>>

\* E_FAIL, and the client gives up.
HostSendFails ==
    /\ pc[HostTasks] = "idle" /\ ~HasUsed("fromHost")
    /\ \E m \in FromHost \cap toSend : toSend' = toSend \ {m}
    /\ UNCHANGED <<vq, pc, token, msg, added, local, signals, mboxes, history>>

AddAvail(th) ==
    /\ th \in Host /\ pc[th] = "add"
    /\ WriteAvail(QueueOf(th), token[th], msg[th])
    /\ Goto(th, "publish")
    /\ UNCHANGED <<token, msg, added, toSend, local, signals, mboxes, history>>

Offered ==
    /\ pc[HostIsr] = "publish"
    /\ PublishAvail("toHost")
    /\ Carry(HostIsr, NoToken, NoMsg)
    /\ added' = [added EXCEPT ![HostIsr] = TRUE]
    /\ Goto(HostIsr, "take")
    /\ UNCHANGED <<toSend, local, signals, mboxes, history>>

HostSent ==
    /\ pc[HostTasks] = "publish"
    /\ PublishAvail("fromHost")
    /\ sent' = [sent EXCEPT !["fromHost"] = Append(@, msg[HostTasks])]
    /\ Carry(HostTasks, NoToken, NoMsg)
    /\ Goto(HostTasks, "kick")
    /\ UNCHANGED <<added, toSend, local, signals, mboxes, leaked, got>>

\* VirtQueue_kick: nothing when the slave has NO_NOTIFY set.  The host writes to the
\* FIFO without a look at its fill: a kick is lost when it is full.
KickSlave(th) ==
    /\ th \in Host /\ pc[th] = "kick"
    /\ slaveMbox' = IF vq[QueueOf(th)].noNotify \/ Len(slaveMbox) >= MboxSize THEN slaveMbox
                    ELSE Append(slaveMbox, QueueOf(th))
    /\ Goto(th, "idle")
    /\ UNCHANGED <<vq, token, msg, added, toSend, local, signals, hostMbox, history>>

-----------------------------------------------------------------------------

SenderStep(s) ==
    \/ NotQueued(s) \/ Alloc(s) \/ Put(s) \/ Post(s) \/ PutStale(s)
    \/ Clear(s) \/ NoAvail(s) \/ Pend(s) \/ GetToSend(s) \/ AddUsed(s) \/ UsedAdded(s) \/ KickHost(s)
SwiStep ==
    \/ SwiStart \/ Clear(Swi) \/ NoAvail(Swi) \/ GetReceived
    \/ NotQueued(Swi) \/ Alloc(Swi) \/ Put(Swi) \/ Post(Swi) \/ PutStale(Swi)
    \/ AddUsed(Swi) \/ GivenBack \/ KickHost(Swi)
RecvStep(e) == Woken(e) \/ RecvUnblocked(e) \/ RecvPayload(e) \/ DeleteSlot(e)
HostIsrStep ==
    \/ HostInterrupt \/ HostTake \/ HostLeaks \/ HostTakenAll
    \/ AddAvail(HostIsr) \/ Offered \/ KickSlave(HostIsr)
HostTasksStep == AddAvail(HostTasks) \/ HostSent \/ KickSlave(HostTasks)

Next ==
    \/ \E s \in Senders : SendLocal(s) \/ SendRemote(s) \/ SenderStep(s)
    \/ \E e \in Endpoints : Create(e) \/ Delete(e) \/ Recv(e) \/ RecvTimeout(e) \/ RecvStep(e)
                            \/ Unblock(e)
    \/ Isr \/ SwiStep
    \/ HostSend \/ HostSendFails \/ HostIsrStep \/ HostTasksStep

Spec == Init /\ [][Next]_vars

\* A Swi and the threads of the host run.  An interrupt is taken as soon as it is not
\* masked, however often it is masked again; and a receiver that polls, posting the Swi
\* each time, leaves the processor to the other tasks for a while (it waits for its
\* timeout).  Nobody has to send or to receive.
Fairness ==
    /\ \A s \in Senders : SF_vars(SenderStep(s))
    /\ \A e \in Endpoints : WF_vars(RecvStep(e))
    /\ SF_vars(Isr) /\ WF_vars(SwiStep)
    /\ WF_vars(HostIsrStep) /\ WF_vars(HostTasksStep)

FairSpec == Spec /\ Fairness

-----------------------------------------------------------------------------

\* Every buffer of a queue has one owner: a ring, or the thread that took it.  A block of
\* the heap is free, on a queue, a sender's or a stopped receiver's, until a message meets a
\* deletion.  The host loses a buffer only to an endpoint it does not have, and has room for
\* what it gives.
Owners(q, t) ==
    {o \in {"avail", "used", "leaked"} :
        \/ o = "avail" /\ t \in InAvail(q)
        \/ o = "used" /\ t \in InUsed(q)
        \/ o = "leaked" /\ q = "toHost" /\ t \in leaked}
    \cup {th \in Threads : token[th] = t /\ QueueOf(th) = q}

Copied == Cardinality({th \in Threads : pc[th] \in {"put", "aborted"}})
          + Cardinality(UNION {{<<e, i>> : i \in DOMAIN queue[e]} : e \in Endpoints})
LateIsLost == stale \/ \E th \in Threads : pc[th] = "freed"

BuffersConserved ==
    /\ TypeOK
    /\ \A q \in VirtQueues, t \in Tokens : Cardinality(Owners(q, t)) = 1
    /\ \A th \in Host : pc[th] = "add" => vq[QueueOf(th)].numFree > 0
    /\ LateIsLost \/ heap + Copied = HeapBlocks

\* A receiver that was woken for a message finds one: the semaphore is never ahead of
\* the queue, whoever puts, and an unblock does not pass for a message.  (The code asserts
\* that it finds none, at the line where it then uses the one it found: with assertions on
\* that receive stops the slave.)
RecvFindsPayload ==
    \A e \in Endpoints : pc[e] = "woken" /\ ~unblocked[e] => queue[e] # <<>>

\* Each virtqueue delivers what was sent on it, once and in order.
C == INSTANCE Channel WITH Channels <- VirtQueues, Capacity <- Num
ImplementsChannel == C!ChannelSpec

\* Whatever was sent arrives, no sender waits for ever for a buffer, and no receiver
\* for a message that is there, unless it was unblocked: no interrupt and no post is lost,
\* in a slave without assertions, when one sender at a time is short of buffers.
Delivered ==
    <>[](/\ sent = got
         /\ \A s \in Senders : pc[s] = "idle"
         /\ \A e \in Endpoints : pc[e] = "recv" /\ ~unblocked[e] => queue[e] = <<>>)
=============================================================================
