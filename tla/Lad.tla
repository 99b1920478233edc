---------------------------------- MODULE Lad ----------------------------------
(***************************************************************************)
(* LAD, the daemon that owns the MessageQ and NameServer tables of a Linux *)
(* host (linux/src/daemon/lad.c), and the library its clients reach it by  *)
(* (linux/src/utils/LAD_client.c).  All clients write commands to one      *)
(* named pipe; each has a response pipe of its own, named after its pid,   *)
(* that LAD makes when the client connects and opens for writing.  A       *)
(* client process may die at any point, and LAD finds that out when it     *)
(* reads the next command.                                                 *)
(*                                                                         *)
(* MessageQ_create and MessageQ_delete stand for all the commands LAD      *)
(* answers; the table of queues and its owners are MessageQ_daemon.c.      *)
(* Opening a pipe blocks until its other end is opened; a process that     *)
(* writes to a pipe nobody can read any more is killed (SIGPIPE).          *)
(*                                                                         *)
(* LadInit, LadNext and LadSpec have a prefix because IpcLad_proofs        *)
(* extends Ipc as well.                                                    *)
(***************************************************************************)
EXTENDS Integers, FiniteSets, Sequences, FiniteSetsExt

CONSTANTS Clients,      \* client processes, by pid
          NumClients,   \* LAD_MAXNUMCLIENTS
          NoClient,     \* no process
          MaxCommands,  \* bound: commands sent
          MaxDeaths     \* bound: clients that die

ASSUME LadAssumption ==
    /\ NoClient \notin Clients
    /\ NumClients \in Nat \ {0} /\ {MaxCommands, MaxDeaths} \subseteq Nat

Handles == 0 .. NumClients - 1
NoHandle == -1

VARIABLES lad,          \* the daemon: where it is, the command, the handle or queue it found
          slots,        \* clientConnected, clientPID and responseFIFOFilePtr, by handle
          queues,       \* the MessageQ objects
          commandFIFO,  \* commands not read yet
          responseFIFO, \* the response pipes, by pid
          client,       \* the client processes
          orphaned,     \* history: a client died, or gave up, with a command on its way
          abandoned,    \* history: clients that disconnected and left a queue behind
          commands, deaths      \* counters

allVars == <<lad, slots, queues, commandFIFO, responseFIFO, client, orphaned, abandoned,
             commands, deaths>>

-----------------------------------------------------------------------------
Command == [cmd : {"CONNECT", "DISCONNECT", "CREATE", "DELETE"}, pid : Clients,
            clientId : Handles \cup {NoHandle}, queue : 0 .. MaxCommands,
            n : 1 .. MaxCommands]
Response == [n : 1 .. MaxCommands, status : {"SUCCESS", "ACCESSDENIED"},
             value : Int]
Idle == [pc |-> "closed"]

LadTypeOK ==
    /\ lad.pc \in {"closed", "ready", "eof", "process", "open", "connect", "respond", "killed"}
    /\ slots \in [Handles -> [connected : BOOLEAN, pid : Clients \cup {NoClient},
                              open : BOOLEAN]]
    /\ queues \subseteq [id : 1 .. MaxCommands, owner : Clients]
    /\ commandFIFO \in Seq(Command)
    /\ responseFIFO \in [Clients -> [made : BOOLEAN, reader : BOOLEAN, writer : BOOLEAN,
                                     data : Seq(Response)]]
    /\ client \in [Clients -> [state : {"off", "connecting", "opened", "connected",
                                        "waiting", "leaving", "failed", "dead"},
                               started : BOOLEAN, handle : Handles \cup {NoHandle},
                               queue : 0 .. MaxCommands, sent : 0 .. MaxCommands,
                               got : 0 .. MaxCommands]]
    /\ orphaned \in BOOLEAN /\ abandoned \subseteq Clients
    /\ commands \in 0 .. MaxCommands /\ deaths \in 0 .. MaxDeaths

NoPipe == [made |-> FALSE, reader |-> FALSE, writer |-> FALSE, data |-> <<>>]

\* LAD has made the command pipe and is about to open it.
LadInit ==
    /\ lad = Idle
    /\ slots = [i \in Handles |-> [connected |-> FALSE, pid |-> NoClient, open |-> FALSE]]
    /\ queues = {} /\ commandFIFO = <<>>
    /\ responseFIFO = [p \in Clients |-> NoPipe]
    /\ client = [p \in Clients |-> [state |-> "off", started |-> FALSE, handle |-> NoHandle,
                                    queue |-> 0, sent |-> 0, got |-> 0]]
    /\ orphaned = FALSE /\ abandoned = {} /\ commands = 0 /\ deaths = 0

\* The processes that hold the command pipe open for writing.
Writers == {p \in Clients : client[p].started /\ client[p].state # "dead"}
Alive == lad.pc # "killed"
Gone(p) == client[p].state = "dead"

clientVars == <<client, commands, deaths, orphaned, abandoned>>
ladVars == <<lad, slots, queues>>

-----------------------------------------------------------------------------
(* The client library                                                       *)

State(p, s) == client' = [client EXCEPT ![p].state = s]

\* LAD_putCommand: without a reader the process is killed.  (`abandoned' is the caller's.)
Put(p, state, cmd, queue) ==
    /\ commands < MaxCommands
    /\ commands' = commands + 1
    /\ IF lad.pc \in {"closed", "killed"}
       THEN /\ client' = [client EXCEPT ![p].state = "dead"]
            /\ responseFIFO' = [responseFIFO EXCEPT ![p].reader = FALSE]
            /\ UNCHANGED commandFIFO
       ELSE /\ client' = [client EXCEPT ![p].state = state, ![p].sent = commands']
            /\ commandFIFO' = Append(commandFIFO,
                 [cmd |-> cmd, pid |-> p, clientId |-> client[p].handle, queue |-> queue,
                  n |-> commands'])
            /\ responseFIFO' = [responseFIFO EXCEPT ![p].reader = @ /\ cmd # "DISCONNECT"]
    /\ UNCHANGED <<lad, slots, queues, orphaned, deaths>>

\* initWrappers, on the first connect: the open returns when LAD has the other end.
OpenCommandFIFO(p) ==
    /\ client[p].state = "off" /\ ~ client[p].started /\ Alive
    /\ client' = [client EXCEPT ![p].started = TRUE]
    /\ lad' = IF lad.pc = "closed" THEN [pc |-> "ready"] ELSE lad
    /\ UNCHANGED <<slots, queues, commandFIFO, responseFIFO, orphaned, abandoned, commands,
                   deaths>>

\* LAD_connect, refused at once when the response pipe exists.
Connect(p) ==
    /\ client[p].state = "off" /\ client[p].started /\ ~ responseFIFO[p].made
    /\ Put(p, "connecting", "CONNECT", 0)
    /\ UNCHANGED abandoned

\* LAD waits for the other end of a pipe that nobody will open: the client that wanted to
\* connect is dead or has given up.
Blocked == lad.pc = "open" /\ client[lad.cmd.pid].state # "connecting"

\* A client's patience of five seconds is enough for LAD unless it is stuck.
TimesOut == Blocked \/ ~ Alive

\* While the pipe does not exist the client tries again, for LAD_CONNECTTIMEOUT.
ConnectTimeout(p) ==
    /\ client[p].state = "connecting" /\ ~ responseFIFO[p].made
    /\ TimesOut
    /\ State(p, "off")
    /\ orphaned' = TRUE
    /\ UNCHANGED <<ladVars, commandFIFO, responseFIFO, abandoned, commands, deaths>>

Answer(p) == Head(responseFIFO[p].data)
TakeAnswer(p, stays) ==
    responseFIFO' = [responseFIFO EXCEPT ![p].data = Tail(@), ![p].reader = stays]

ReadConnect(p) ==
    /\ client[p].state = "opened" /\ responseFIFO[p].data # <<>>
    /\ LET ok == Answer(p).status = "SUCCESS"
       IN /\ client' = [client EXCEPT ![p].state = IF ok THEN "connected" ELSE "off",
                                      ![p].got = Answer(p).n,
                                      ![p].handle = IF ok THEN Answer(p).value ELSE @]
          /\ TakeAnswer(p, ok)
    /\ UNCHANGED <<ladVars, commandFIFO, commands, deaths, orphaned, abandoned>>

\* LAD_getResponse.  The answer to MessageQ_create is a handle, to MessageQ_delete 0.
ReadResponse(p) ==
    /\ client[p].state = "waiting" /\ responseFIFO[p].data # <<>>
    /\ client' = [client EXCEPT ![p].state = "connected", ![p].got = Answer(p).n,
                                ![p].queue = Answer(p).value]
    /\ TakeAnswer(p, TRUE)
    /\ UNCHANGED <<ladVars, commandFIFO, commands, deaths, orphaned, abandoned>>

\* The other end was closed: LAD_IOFAILURE.
EndOfFile(p) ==
    /\ client[p].state \in {"opened", "waiting"}
    /\ responseFIFO[p].data = <<>> /\ ~ responseFIFO[p].writer
    /\ State(p, "failed")
    /\ UNCHANGED <<ladVars, commandFIFO, responseFIFO, commands, deaths, orphaned, abandoned>>

\* A client has one queue at a time: a bound.
CreateQueue(p) ==
    /\ client[p].state = "connected" /\ client[p].queue = 0
    /\ Put(p, "waiting", "CREATE", 0)
    /\ UNCHANGED abandoned

DeleteQueue(p) ==
    /\ client[p].state = "connected" /\ client[p].queue # 0
    /\ Put(p, "waiting", "DELETE", client[p].queue)
    /\ UNCHANGED abandoned

\* LAD_disconnect closes the client's end, then waits until LAD has removed the pipe.  A queue
\* that the client has not deleted stays, with LAD and with the client.
Disconnect(p) ==
    /\ client[p].state = "connected"
    /\ Put(p, "leaving", "DISCONNECT", 0)
    /\ abandoned' = IF client[p].queue = 0 THEN abandoned ELSE abandoned \cup {p}

Disconnected(p) ==
    /\ client[p].state = "leaving" /\ ~ responseFIFO[p].made
    /\ client' = [client EXCEPT ![p].state = "off", ![p].handle = NoHandle]
    /\ UNCHANGED <<ladVars, commandFIFO, responseFIFO, commands, deaths, orphaned, abandoned>>

DisconnectTimeout(p) ==
    /\ client[p].state = "leaving" /\ responseFIFO[p].made
    /\ TimesOut
    /\ State(p, "failed")
    /\ UNCHANGED <<ladVars, commandFIFO, responseFIFO, commands, deaths, orphaned, abandoned>>

\* Whether a command of p has not been answered.
Pending(p) ==
    \/ \E i \in DOMAIN commandFIFO : commandFIFO[i].pid = p
    \/ lad.pc \in {"process", "open", "connect", "respond"} /\ lad.cmd.pid = p

\* The process dies: its ends of the pipes are closed, its command is still on its way.
Die(p) ==
    /\ client[p].started /\ ~ Gone(p) /\ deaths < MaxDeaths
    /\ deaths' = deaths + 1
    /\ State(p, "dead")
    /\ responseFIFO' = [responseFIFO EXCEPT ![p].reader = FALSE]
    /\ orphaned' = (orphaned \/ Pending(p))
    /\ UNCHANGED <<ladVars, commandFIFO, abandoned, commands>>

-----------------------------------------------------------------------------
(* The daemon                                                               *)

Reopen ==
    /\ lad.pc = "closed" /\ Writers # {}
    /\ lad' = [pc |-> "ready"]
    /\ UNCHANGED <<slots, queues, commandFIFO, responseFIFO, clientVars>>

\* The last client has closed the pipe: LAD closes it as well and opens it again.
Eof ==
    /\ lad.pc = "ready" /\ commandFIFO = <<>> /\ Writers = {}
    /\ lad' = [pc |-> "eof"]
    /\ UNCHANGED <<slots, queues, commandFIFO, responseFIFO, clientVars>>

ClosePipe_retried ==
    /\ lad.pc = "eof"
    /\ UNCHANGED allVars

ClosePipe ==
    /\ lad.pc = "eof"
    /\ lad' = [pc |-> "closed"]
    /\ UNCHANGED <<slots, queues, commandFIFO, responseFIFO, clientVars>>

\* What doDisconnect leaves of the slots D and of the pipes of their clients.
DisconnectSlots(D) ==
    /\ slots' = [i \in Handles |->
                    IF i \in D THEN [slots[i] EXCEPT !.connected = FALSE, !.open = FALSE]
                    ELSE slots[i]]
    /\ responseFIFO' = [p \in Clients |->
                    IF \E i \in D : slots[i].pid = p
                    THEN [responseFIFO[p] EXCEPT !.made = FALSE, !.writer = FALSE]
                    ELSE responseFIFO[p]]

Departed == {i \in Handles : slots[i].connected /\ Gone(slots[i].pid)}

Read_queuesKept ==
    /\ lad.pc = "ready" /\ commandFIFO # <<>>
    /\ lad' = [pc |-> "process", cmd |-> Head(commandFIFO)]
    /\ commandFIFO' = Tail(commandFIFO)
    /\ DisconnectSlots(Departed)
    /\ UNCHANGED <<clientVars, queues>>

\* The next command, and cleanupDepartedClients.
Read ==
    /\ lad.pc = "ready" /\ commandFIFO # <<>>
    /\ lad' = [pc |-> "process", cmd |-> Head(commandFIFO)]
    /\ commandFIFO' = Tail(commandFIFO)
    /\ DisconnectSlots(Departed)
    /\ queues' = {q \in queues : \A i \in Departed : q.owner # slots[i].pid}
    /\ UNCHANGED clientVars

Doing(cmd) == lad.pc = "process" /\ lad.cmd.cmd = cmd

Free == {i \in Handles : ~ slots[i].connected}

Assigned_inUse == IF Free = {} THEN NoHandle ELSE Min(Handles)

\* assignClientId
Assigned == IF Free = {} THEN NoHandle ELSE Min(Free)

\* connectToLAD as far as the open of the response pipe.  When the pipe is there already
\* nobody is answered.
ConnectToLAD ==
    /\ Doing("CONNECT")
    /\ LET p == lad.cmd.pid
       IN IF responseFIFO[p].made
          THEN lad' = [pc |-> "ready"] /\ UNCHANGED responseFIFO
          ELSE /\ lad' = [pc |-> "open", cmd |-> lad.cmd, id |-> Assigned]
               /\ responseFIFO' = [responseFIFO EXCEPT ![p] = [NoPipe EXCEPT !.made = TRUE]]
    /\ UNCHANGED <<slots, queues, commandFIFO, clientVars>>

\* LAD's open and the client's return together.
ResponseOpen ==
    /\ lad.pc = "open" /\ client[lad.cmd.pid].state = "connecting"
    /\ lad' = [lad EXCEPT !.pc = "connect"]
    /\ responseFIFO' = [responseFIFO EXCEPT ![lad.cmd.pid].reader = TRUE,
                                            ![lad.cmd.pid].writer = TRUE]
    /\ State(lad.cmd.pid, "opened")
    /\ UNCHANGED <<slots, queues, commandFIFO, commands, deaths, orphaned, abandoned>>

\* Killed, with all its pipes closed.
Killed ==
    /\ lad' = [pc |-> "killed"]
    /\ responseFIFO' = [p \in Clients |-> [responseFIFO[p] EXCEPT !.writer = FALSE]]

ConnectDone_answeredTwice ==
    /\ lad.pc = "connect"
    /\ LET p      == lad.cmd.pid
           denied == lad.id = NoHandle
           status == IF denied THEN "ACCESSDENIED" ELSE "SUCCESS"
           answer == [n |-> lad.cmd.n, status |-> status, value |-> lad.id]
       IN /\ slots' = [i \in Handles |->
                         IF i = lad.id THEN [connected |-> TRUE, pid |-> p, open |-> TRUE]
                         ELSE slots[i]]
          /\ lad' = [pc |-> "ready"]
          /\ responseFIFO' = [responseFIFO EXCEPT
               ![p].data = @ \o <<answer, answer>>, ![p].made = ~ denied,
               ![p].writer = ~ denied]
          /\ abandoned' = IF denied THEN abandoned ELSE abandoned \ {p}
    /\ UNCHANGED <<queues, commandFIFO, client, commands, deaths, orphaned>>

\* The slot is the client's and the answer is sent; a client that is refused loses the pipe.
\* With a slot the client's queues are found again when it dies.
ConnectDone ==
    /\ lad.pc = "connect"
    /\ LET p      == lad.cmd.pid
           denied == lad.id = NoHandle
           status == IF denied THEN "ACCESSDENIED" ELSE "SUCCESS"
           answer == [n |-> lad.cmd.n, status |-> status, value |-> lad.id]
       IN /\ slots' = [i \in Handles |->
                         IF i = lad.id THEN [connected |-> TRUE, pid |-> p, open |-> TRUE]
                         ELSE slots[i]]
          /\ IF responseFIFO[p].reader
             THEN /\ lad' = [pc |-> "ready"]
                  /\ responseFIFO' = [responseFIFO EXCEPT
                       ![p].data = Append(@, answer), ![p].made = ~ denied,
                       ![p].writer = ~ denied]
             ELSE Killed
          /\ abandoned' = IF denied THEN abandoned ELSE abandoned \ {p}
    /\ UNCHANGED <<queues, commandFIFO, client, commands, deaths, orphaned>>

\* A slot that is not connected has been closed before: closing it again is undefined.
DisconnectFromLAD ==
    /\ Doing("DISCONNECT")
    /\ \/ /\ lad' = [pc |-> "ready"]
          /\ DisconnectSlots({lad.cmd.clientId})
       \/ /\ ~ slots[lad.cmd.clientId].open
          /\ Killed /\ UNCHANGED slots
    /\ UNCHANGED <<queues, commandFIFO, clientVars>>

\* MessageQ_create, and the client's pid becomes the owner.
MessageQCreate ==
    /\ Doing("CREATE")
    /\ queues' = queues \cup {[id |-> lad.cmd.n, owner |-> slots[lad.cmd.clientId].pid]}
    /\ lad' = [pc |-> "respond", cmd |-> lad.cmd, value |-> lad.cmd.n]
    /\ UNCHANGED <<slots, commandFIFO, responseFIFO, clientVars>>

\* MessageQ_delete frees what the handle points to: undefined when that was freed before.
MessageQDelete ==
    /\ Doing("DELETE")
    /\ \/ /\ queues' = {q \in queues : q.id # lad.cmd.queue}
          /\ lad' = [pc |-> "respond", cmd |-> lad.cmd, value |-> 0]
          /\ UNCHANGED responseFIFO
       \/ /\ \A q \in queues : q.id # lad.cmd.queue
          /\ Killed /\ UNCHANGED queues
    /\ UNCHANGED <<slots, commandFIFO, clientVars>>

\* The answer goes to whoever has the slot; to a closed file it goes astray.
Respond ==
    /\ lad.pc = "respond"
    /\ LET slot == slots[lad.cmd.clientId]
       IN \/ /\ slot.open /\ responseFIFO[slot.pid].reader
             /\ lad' = [pc |-> "ready"]
             /\ responseFIFO' = [responseFIFO EXCEPT ![slot.pid].data =
                   Append(@, [n |-> lad.cmd.n, status |-> "SUCCESS", value |-> lad.value])]
          \/ ~ slot.open /\ lad' = [pc |-> "ready"] /\ UNCHANGED responseFIFO
          \/ ~ (slot.open /\ responseFIFO[slot.pid].reader) /\ Killed
    /\ UNCHANGED <<slots, queues, commandFIFO, clientVars>>

-----------------------------------------------------------------------------
LadStep ==
    \/ Reopen \/ Eof \/ ClosePipe \/ Read \/ ConnectToLAD \/ ResponseOpen \/ ConnectDone
    \/ DisconnectFromLAD \/ MessageQCreate \/ MessageQDelete \/ Respond

Library(p) == ReadConnect(p) \/ ReadResponse(p) \/ EndOfFile(p) \/ Disconnected(p)

Application(p) ==
    OpenCommandFIFO(p) \/ Connect(p) \/ CreateQueue(p) \/ DeleteQueue(p) \/ Disconnect(p)

Fault(p) == ConnectTimeout(p) \/ DisconnectTimeout(p) \/ Die(p)

LadNext == LadStep \/ \E p \in Clients : Library(p) \/ Application(p) \/ Fault(p)

\* LAD runs, and a client that waits in the library goes on when it can or when its time
\* is up.
LadSpec ==
    /\ LadInit /\ [][LadNext]_allVars /\ WF_allVars(LadStep)
    /\ \A p \in Clients : WF_allVars(Library(p) \/ ConnectTimeout(p) \/ DisconnectTimeout(p))

-----------------------------------------------------------------------------
(* Properties.  They say what LAD promises until a client dies, or stops     *)
(* waiting, between sending a command and reading the answer: after that a   *)
(* command with the handle of one client may be carried out for another.     *)

InSession(p) == client[p].state \in {"connected", "waiting"}
Holds(p) == client[p].state = "connected"

\* A client that is connected has a slot that is its own, with its pipe, and so it keeps
\* the queue it was given; no two slots are one client's, and a slot in use belongs to a
\* client that has connected and not left, or that has died.
SessionsSound ==
    /\ LadTypeOK
    /\ Alive /\ ~ orphaned =>
        /\ \A p \in Clients : InSession(p) =>
              LET slot == slots[client[p].handle]
              IN /\ slot.connected /\ slot.open /\ slot.pid = p
                 /\ responseFIFO[p].made /\ responseFIFO[p].writer
        /\ \A p \in Clients : Holds(p) /\ client[p].queue # 0 =>
              [id |-> client[p].queue, owner |-> p] \in queues
        /\ \A i, j \in Handles : slots[i].connected /\ slots[j].connected /\ i # j
              => slots[i].pid # slots[j].pid
        /\ \A i \in Handles : slots[i].connected =>
              client[slots[i].pid].state \notin {"off", "connecting"}

\* The answer a client reads is the answer to the command it sent.
AnswersOwn ==
    ~ orphaned => \A p \in Clients : Holds(p) => client[p].got = client[p].sent

\* When LAD reads a command, the clients that have died are forgotten, with their queues; but
\* LAD's disconnect leaves the queues of a client, and its clean-up looks at those in a slot
\* only, so that a client that died when it had left a queue so has it in LAD for ever.
DepartedCleanedUp ==
    [][Read /\ ~ orphaned =>
        \A p \in Clients : Gone(p) =>
            /\ \A q \in queues' : q.owner = p => p \in abandoned
            /\ \A i \in Handles : ~ (slots'[i].connected /\ slots'[i].pid = p)
            /\ ~ responseFIFO'[p].made]_allVars

\* A client that waits for LAD does not wait for ever; only the answer to a command may
\* fail to come, when LAD itself waits for a client that died while it was connecting.
Answered ==
    \A p \in Clients :
        /\ client[p].state \in {"connecting", "opened", "leaving"}
            ~> client[p].state \notin {"connecting", "opened", "leaving"}
        /\ client[p].state = "waiting" ~> client[p].state # "waiting" \/ Blocked
=============================================================================
