----------------------- MODULE NameServerRemoteNotify -----------------------
(***************************************************************************)
(* packages/ti/sdo/ipc/nsremote/NameServerRemoteNotify.c between any two   *)
(* processors, with NameServer_get of NameServer.c that calls it and the   *)
(* tables of NameServer.tla that it looks up.  Every processor is client   *)
(* and server of every other: for the ordered pair p, q there is one slot  *)
(* msg[p][q] of shared memory for the queries of p to q, and one notify    *)
(* event that carries requests and responses from p to q.                  *)
(*                                                                         *)
(* The event is what NotifyDriverShm.tla shows it to be: sent with         *)
(* waitClear, it holds one message and loses none.  Threads, Swis and the  *)
(* ISR interleave freely (also as on an SMP kernel), except that the Swis  *)
(* of a processor, which have one priority, run one after the other.       *)
(***************************************************************************)
EXTENDS NameServer

CONSTANTS Clients,          \* threads that call NameServer_get
          None,
          OsFailure,        \* NameServer_E_OSFAILURE
          AttachedAtStart   \* pairs whose instance exists before the first step

Results == Values \cup {NotFound, OsFailure}

ASSUME ClientsAssumption ==
    /\ home \in [Clients \cup Owners -> Procs]
    /\ AttachedAtStart \in [Procs -> SUBSET Procs]
    /\ None \notin Results /\ None \notin [from : Procs, to : Procs, name : Names]
    /\ OsFailure \notin Values \cup {NotFound}

VARIABLES attached,         \* Instance_init of p for q: nothing, event, driver registered
          msg,              \* the slots: requestStatus, name, value
          event,            \* the notify event from p to q: none, or its payload
          posted,           \* the Swis posted on p, in order: for whom, and which
          swiPc, swiFor, swiFound,  \* swiFxnRequest running on p
          semRemoteWait,    \* semaphore of p for q: its count
          semMultiBlock,    \* semaphore of p for q: who holds it, and who waits
          cpc, cname, cproc, cresult        \* clients

clients == <<cpc, cname, cproc, cresult>>
swis    == <<posted, swiPc, swiFor, swiFound>>
sems    == <<semRemoteWait, semMultiBlock>>
vars    == <<table, attached, msg, event, swis, sems, clients>>

Labels == {"idle", "pend", "write", "send", "wait", "read", "post"}

TypeOK ==
    /\ TableTypeOK
    /\ attached \in [Procs -> [Procs -> {"no", "event", "driver"}]]
    /\ msg \in [Procs -> [Procs -> [requestStatus : BOOLEAN, name : Names, value : Values]]]
    /\ event \in [Procs -> [Procs -> {"none", "Request", "Response"}]]
    /\ posted \in [Procs -> Seq(Procs \X {"Request", "Response"})]
    /\ swiPc \in [Procs -> {"idle", "status", "send"}] /\ swiFor \in [Procs -> Procs]
    /\ swiFound \in [Procs -> BOOLEAN]
    /\ semRemoteWait \in [Procs -> [Procs -> Nat]]
    /\ semMultiBlock \in [Procs -> [Procs -> Seq(Clients)]]
    /\ cpc \in [Clients -> Labels] /\ cname \in [Clients -> Names]
    /\ cproc \in [Clients -> Procs] /\ cresult \in [Clients -> Results]

AnySlot == [requestStatus |-> FALSE, name |-> AnyName,
            value |-> <<AnyName, CHOOSE v \in Versions : TRUE>>]

\* Every ordered pair of processors.
Pairs(x) == [p \in Procs |-> [q \in Procs |-> x]]

Init ==
    /\ TableInit
    /\ attached = [p \in Procs |-> [q \in Procs |->
                                    IF q \in AttachedAtStart[p] THEN "driver" ELSE "no"]]
    /\ msg = Pairs(AnySlot) /\ event = Pairs("none")
    /\ posted = [p \in Procs |-> <<>>] /\ swiPc = [p \in Procs |-> "idle"]
    /\ swiFor = [p \in Procs |-> p] /\ swiFound = [p \in Procs |-> FALSE]
    /\ semRemoteWait = Pairs(0) /\ semMultiBlock = Pairs(<<>>)
    /\ cpc = [c \in Clients |-> "idle"] /\ cname = [c \in Clients |-> AnyName]
    /\ cproc = [c \in Clients |-> 0] /\ cresult = [c \in Clients |-> NotFound]

-----------------------------------------------------------------------------
(* NameServerRemoteNotify_Instance_init of p for q                          *)

\* The own slot is cleared, the notify event registered.
AttachEvent(p, q) ==
    /\ p # q /\ attached[p][q] = "no"
    /\ attached' = [attached EXCEPT ![p][q] = "event"]
    /\ msg' = [msg EXCEPT ![p][q] = AnySlot]
    /\ UNCHANGED <<table, event, swis, sems, clients>>

\* NameServer_registerRemoteDriver: from now on NameServer_get finds it.
AttachDriver(p, q) ==
    /\ attached[p][q] = "event"
    /\ attached' = [attached EXCEPT ![p][q] = "driver"]
    /\ UNCHANGED <<table, msg, event, swis, sems, clients>>

-----------------------------------------------------------------------------
(* NameServer_get with procId NULL: the local table, then the others in     *)
(* ascending order, going on only while the name is not found               *)

clientFrame == <<table, attached, swis>>
Goto(c, label) == cpc' = [cpc EXCEPT ![c] = label]

\* NameServer_get returns, and its local variables are gone.
Return(c) ==
    /\ Goto(c, "idle") /\ cname' = [cname EXCEPT ![c] = AnyName]
    /\ cproc' = [cproc EXCEPT ![c] = 0] /\ cresult' = [cresult EXCEPT ![c] = NotFound]

\* INameServerRemote_get of q: Semaphore_pend(semMultiBlock), in turn.
Pend(c, n, q, sem) ==
    /\ Goto(c, "pend") /\ cname' = [cname EXCEPT ![c] = n] /\ cproc' = [cproc EXCEPT ![c] = q]
    /\ semMultiBlock' = [sem EXCEPT ![home[c]][q] = Append(@, c)]
    /\ UNCHANGED cresult

\* The loop of the look-up of n, from processor i on: the next one that has a driver is
\* queried, this processor itself is not asked; when there is none the name is not found.
QueryFrom(c, n, i, sem) ==
    LET Remote == {q \in Procs : q >= i /\ q # home[c] /\ attached[home[c]][q] = "driver"}
    IN  \/ Remote # {} /\ Pend(c, n, FirstOf(Remote), sem)
        \/ Remote = {} /\ Return(c) /\ semMultiBlock' = sem

\* A name found in the local table is returned at once, and nothing changes.
Get(c, n) ==
    /\ cpc[c] = "idle" /\ GetLocal(home[c], n) = NotFound
    /\ QueryFrom(c, n, 0, semMultiBlock)
    /\ UNCHANGED <<clientFrame, msg, event, semRemoteWait>>

-----------------------------------------------------------------------------
(* NameServerRemoteNotify_get of client c                                   *)

\* One thread of this processor at a time.
Enter(c) ==
    /\ cpc[c] = "pend" /\ Head(semMultiBlock[home[c]][cproc[c]]) = c
    /\ Goto(c, "write")
    /\ UNCHANGED <<clientFrame, msg, event, sems, cname, cproc, cresult>>

WriteRequest_keepsStatus(c) ==
    /\ cpc[c] = "write"
    /\ msg' = [msg EXCEPT ![home[c]][cproc[c]].name = cname[c]]
    /\ Goto(c, "send")
    /\ UNCHANGED <<clientFrame, event, sems, cname, cproc, cresult>>

WriteRequest(c) ==
    /\ cpc[c] = "write"
    /\ msg' = [msg EXCEPT ![home[c]][cproc[c]] =
                  [@ EXCEPT !.requestStatus = FALSE, !.name = cname[c]]]
    /\ Goto(c, "send")
    /\ UNCHANGED <<clientFrame, event, sems, cname, cproc, cresult>>

\* Notify_sendEvent of a RequestMsg, waiting until the event is clear.
SendRequest(c) ==
    LET p == home[c]  q == cproc[c]
    IN  /\ cpc[c] = "send" /\ attached[q][p] # "no" /\ event[p][q] = "none"
        /\ event' = [event EXCEPT ![p][q] = "Request"]
        /\ Goto(c, "wait")
        /\ UNCHANGED <<clientFrame, msg, sems, cname, cproc, cresult>>

\* Notify_sendEvent fails: q has not registered its event yet.  NotFound is returned.
RefusedRequest(c) ==
    /\ cpc[c] = "send" /\ attached[cproc[c]][home[c]] = "no"
    /\ cresult' = [cresult EXCEPT ![c] = NotFound]
    /\ Goto(c, "post")
    /\ UNCHANGED <<clientFrame, msg, event, sems, cname, cproc>>

Wait_keepsPost(c) ==
    /\ cpc[c] = "wait" /\ semRemoteWait[home[c]][cproc[c]] > 0
    /\ Goto(c, "read")
    /\ UNCHANGED <<clientFrame, msg, event, sems, cname, cproc, cresult>>

\* Semaphore_pend(semRemoteWait) returns TRUE.
Wait(c) ==
    /\ cpc[c] = "wait" /\ semRemoteWait[home[c]][cproc[c]] > 0
    /\ semRemoteWait' = [semRemoteWait EXCEPT ![home[c]][cproc[c]] = @ - 1]
    /\ Goto(c, "read")
    /\ UNCHANGED <<clientFrame, msg, event, semMultiBlock, cname, cproc, cresult>>

\* It returns FALSE, after the timeout.
WaitTimeout(c) ==
    /\ cpc[c] = "wait" /\ semRemoteWait[home[c]][cproc[c]] = 0
    /\ cresult' = [cresult EXCEPT ![c] = OsFailure]
    /\ Goto(c, "post")
    /\ UNCHANGED <<clientFrame, msg, event, sems, cname, cproc>>

ReadAnswer(c) ==
    LET m == msg[home[c]][cproc[c]]
    IN  /\ cpc[c] = "read"
        /\ cresult' = [cresult EXCEPT ![c] = IF m.requestStatus THEN m.value ELSE NotFound]
        /\ Goto(c, "post")
        /\ UNCHANGED <<clientFrame, msg, event, sems, cname, cproc>>

Finish(c, sem) ==
    \/ cresult[c] = NotFound /\ QueryFrom(c, cname[c], cproc[c] + 1, sem)
    \/ cresult[c] # NotFound /\ Return(c) /\ semMultiBlock' = sem

\* Semaphore_post(semMultiBlock), and NameServer_get goes on if the name was not found.
Post(c) ==
    /\ cpc[c] = "post"
    /\ Finish(c, [semMultiBlock EXCEPT ![home[c]][cproc[c]] = Tail(@)])
    /\ UNCHANGED <<clientFrame, msg, event, semRemoteWait>>

-----------------------------------------------------------------------------
(* cbFxn and the Swis of p for q                                            *)

serverFrame == <<table, attached, sems, clients>>

Posted(p, q, kind) == \E i \in DOMAIN posted[p] : posted[p][i] = <<q, kind>>

\* The ISR of p takes the event of q, and cbFxn posts the Swi of its payload: once.
CbFxn(p, q) ==
    /\ event[q][p] # "none"
    /\ event' = [event EXCEPT ![q][p] = "none"]
    /\ posted' = IF Posted(p, q, event[q][p]) THEN posted
                 ELSE [posted EXCEPT ![p] = Append(@, <<q, event[q][p]>>)]
    /\ UNCHANGED <<serverFrame, msg, swiPc, swiFor, swiFound>>

\* The Swis of p have one priority: they run in the order of posting, none preempts another.
StartSwi(p, q, kind) ==
    /\ swiPc[p] = "idle" /\ posted[p] # <<>> /\ Head(posted[p]) = <<q, kind>>
    /\ posted' = [posted EXCEPT ![p] = Tail(@)]

\* swiFxnRequest starts; the value goes straight into the slot of q.
SwiRequestLookup(p, q) ==
    LET r == GetLocal(p, msg[q][p].name)
    IN  /\ StartSwi(p, q, "Request")
        /\ swiPc' = [swiPc EXCEPT ![p] = "status"] /\ swiFor' = [swiFor EXCEPT ![p] = q]
        /\ swiFound' = [swiFound EXCEPT ![p] = (r # NotFound)]
        /\ msg' = [msg EXCEPT ![q][p].value = IF r = NotFound THEN @ ELSE r]
        /\ UNCHANGED <<serverFrame, event>>

SwiRequestStatus(p) ==
    /\ swiPc[p] = "status" /\ swiPc' = [swiPc EXCEPT ![p] = "send"]
    /\ msg' = [msg EXCEPT ![swiFor[p]][p].requestStatus = @ \/ swiFound[p]]
    /\ UNCHANGED <<serverFrame, event, posted, swiFor, swiFound>>

SwiRequestSend_noWaitClear(p) ==
    LET q == swiFor[p]
    IN  /\ swiPc[p] = "send" /\ attached[q][p] # "no"
        /\ event' = [event EXCEPT ![p][q] = "Response"]
        /\ swiPc' = [swiPc EXCEPT ![p] = "idle"] /\ swiFound' = [swiFound EXCEPT ![p] = FALSE]
        /\ UNCHANGED <<serverFrame, msg, posted, swiFor>>

\* Notify_sendEvent of a ResponseMsg, spinning in the Swi until the event is clear.
SwiRequestSend(p) ==
    LET q == swiFor[p]
    IN  /\ swiPc[p] = "send" /\ attached[q][p] # "no" /\ event[p][q] = "none"
        /\ event' = [event EXCEPT ![p][q] = "Response"]
        /\ swiPc' = [swiPc EXCEPT ![p] = "idle"] /\ swiFound' = [swiFound EXCEPT ![p] = FALSE]
        /\ UNCHANGED <<serverFrame, msg, posted, swiFor>>

SwiResponse(p, q) ==
    /\ StartSwi(p, q, "Response")
    /\ semRemoteWait' = [semRemoteWait EXCEPT ![p][q] = @ + 1]
    /\ UNCHANGED <<table, attached, msg, event, swiPc, swiFor, swiFound, semMultiBlock, clients>>

-----------------------------------------------------------------------------
Client(c) == \/ Enter(c) \/ WriteRequest(c) \/ SendRequest(c) \/ RefusedRequest(c)
             \/ Wait(c) \/ ReadAnswer(c) \/ Post(c)

Swi(p) == \/ \E q \in Procs : SwiRequestLookup(p, q) \/ SwiResponse(p, q)
          \/ SwiRequestStatus(p) \/ SwiRequestSend(p)

TableNext == /\ \E o \in Owners : OwnerStep(o)
             /\ UNCHANGED <<attached, msg, event, swis, sems, clients>>

Next ==
    \/ TableNext
    \/ \E p, q \in Procs : AttachEvent(p, q) \/ AttachDriver(p, q) \/ CbFxn(p, q)
    \/ \E c \in Clients : (\E n \in Names : Get(c, n)) \/ Client(c)
    \/ \E p \in Procs : Swi(p)

Spec == Init /\ [][Next]_vars

\* NameServerRemoteNotify_timeout is finite; by default get waits for ever.
TimeoutNext == Next \/ \E c \in Clients : WaitTimeout(c)
TimeoutSpec == Init /\ [][TimeoutNext]_vars

\* Threads keep running, interrupts are taken and Swis run.  Who spins for the event sees
\* it clear before other threads of the processor have filled it again for ever.
FairSpec ==
    /\ Spec
    /\ \A c \in Clients : WF_vars(Client(c))
    /\ \A p, q \in Procs : WF_vars(CbFxn(p, q))
    /\ \A p \in Procs : /\ WF_vars(Swi(p)) /\ SF_vars(SwiRequestSend(p))
                      /\ SF_vars(\E c \in Clients : home[c] = p /\ SendRequest(c))

-----------------------------------------------------------------------------
(* Properties                                                              *)

\* The forms the query of p to q takes, from the request to the post of semRemoteWait.
UnderWay(p, q) ==
    {s \in {"request", "posted", "served", "response", "back", "post"} :
        \/ s = "request"  /\ event[p][q] = "Request"
        \/ s = "posted"   /\ Posted(q, p, "Request")
        \/ s = "served"   /\ swiPc[q] # "idle" /\ swiFor[q] = p
        \/ s = "response" /\ event[q][p] = "Response"
        \/ s = "back"     /\ Posted(p, q, "Response")
        \/ s = "post"     /\ semRemoteWait[p][q] > 0}

Waiting(c, p, q) == home[c] = p /\ cproc[c] = q /\ cpc[c] = "wait"

\* While a client waits its query is under way in exactly one form, and while none waits
\* nothing is: no Swi is coalesced, no post is left over for the next query.
OneAnswerPerQuery ==
    \A p, q \in Procs :
        /\ semRemoteWait[p][q] <= 1
        /\ \A s, t \in UnderWay(p, q) : s = t
        /\ UnderWay(p, q) # {} <=> \E c \in Clients : Waiting(c, p, q)

\* The assertion of swiFxnRequest that the reply is never refused: who asks has registered
\* the event of the response.
ReplyIsAccepted == \A p \in Procs : swiPc[p] = "send" => attached[swiFor[p]][p] # "no"

\* Tables and slots are well formed, and every query is accounted for: under way in one
\* form, to a processor that will take its answer.
QueriesAccounted == TypeOK /\ OneAnswerPerQuery /\ ReplyIsAccepted

\* A value that NameServer_get returns was stored under the name it was asked for.
AnswerIsForName ==
    \A c \in Clients : cpc[c] = "post" /\ cresult[c] \in Values => cresult[c][1] = cname[c]

\* Every NameServer_get returns, also when the processors query each other.
GetReturns == \A c \in Clients : cpc[c] # "idle" ~> cpc[c] = "idle"

\* A remote query is an atomic look-up in the other processor's table: the step of the Swi
\* between the call and the return, or a refusal while the other is not attached.
Unanswered(c) ==
    LET p == home[c]  q == cproc[c]
    IN  \/ cpc[c] \in {"pend", "write", "send"}
        \/ cpc[c] = "wait" /\ (event[p][q] = "Request" \/ Posted(q, p, "Request"))

InSlot(p, q) == IF swiPc[q] = "status" /\ swiFor[q] = p
                THEN IF swiFound[q] THEN msg[p][q].value ELSE NotFound
                ELSE IF msg[p][q].requestStatus THEN msg[p][q].value ELSE NotFound

L == INSTANCE Lookup WITH
        Unknown <- None,
        table   <- [p \in Procs |-> [n \in Names |-> GetLocal(p, n)]],
        listens <- {pq \in Procs \X Procs : attached[pq[1]][pq[2]] # "no"},
        query   <- [c \in Clients |->
                      IF cpc[c] = "idle" THEN None
                      ELSE [from |-> home[c], to |-> cproc[c], name |-> cname[c]]],
        answer  <- [c \in Clients |->
                      IF cpc[c] = "idle" \/ Unanswered(c) THEN None
                      ELSE IF cpc[c] = "post" THEN cresult[c] ELSE InSlot(home[c], cproc[c])]
ImplementsLookup == L!LookupSpec
=============================================================================
