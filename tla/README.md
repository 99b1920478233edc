# A verification of TI IPC

TI IPC is the inter-processor communication package of TI's multi-core SoCs: lightweight
processors ("slaves", running SYS/BIOS) and a general-purpose host (Linux, QNX or BIOS)
that share memory and interrupt one another. These TLA+ modules model its concurrent core,
TLC checks them on small instances, and TLAPS proves the results that matter for instances
of every size. File names below are relative to the repository; `IPC/` stands for
`packages/ti/sdo/ipc/`, `UTILS/` for `packages/ti/sdo/utils/`.

1. [The system](#1-the-system): components, state, operations, how they interact
2. [Modules](#2-modules): which module models what, and how it corresponds to the code
3. [Runs](#3-runs): what TLC checks, on which bounds, under which fairness
4. [Proofs](#4-proofs)
5. [Where the code and its documentation disagree](#5-where-the-code-and-its-documentation-disagree)
6. [What is not modelled](#6-what-is-not-modelled)
7. [Plan](#7-plan)

To repeat a run: `tlc -config ShmLine.cfg MCNotifyDriverShm.tla`; a proof: `tlapm
GatePetersonN_proofs.tla`. `PROJECT.json` lists the runs, the lines each definition stands
for, for every property one mutant of the code's behaviour that violates it, and the
hazards the properties were chosen for.

## 1. The system

### 1.1 Between processors that share memory (`IPC/`)

```
   application:   MessageQ      NameServer        Notify clients
                     |               |                 |
                TransportShm   NameServerRemoteNotify  |
                  |   |  \           |                 |
             ListMP  GateMP \________|_________________|
               |       |                  Notify
            SharedRegion/heaps   NotifyDriverShm | NotifyDriverCirc
                       |                  |
                  GatePetersonN ...   interrupt line, shared memory
   Ipc_start/attach/detach/stop brings all of it up and down, pair by pair
```

| component | state | operations | what is hard | what makes it correct |
|---|---|---|---|---|
| **GatePetersonN** `IPC/gates/` | per processor: local gate, `nested`, shared `enteredStage`; per stage: shared `lastProcEnteringStage` | `enter`, `leave`, nested | no atomic instruction: the wait reads words one by one while others write them | exclusion, no starvation, nesting |
| **NotifyDriverShm** | per event: shared flag and payload; receiver: `regChart`, two masks, the interrupt line | `sendEvent`, `isr`, `registerEvent`, `unregisterEvent`, `disable`, `enable`, `disableEvent`, `enableEvent` | sender, ISR and tasks overlap; an event is acknowledged before its callback runs; a send can be in flight across any call | exactly-once and in order, no lost interrupt, a callback exists when it is called |
| **NotifyDriverCirc** | shared ring with read and write index, each index cached by the other side | the same | the read index is written back only every N/4 slots, each side acts on old copies | no slot is overwritten, nothing is lost, nobody waits for ever |
| **Notify** | callbacks, `nesting` per line | registration, `sendEvent`, `exec` | two-step updates beside the driver's | the callback is there as long as the driver may call it |
| **NameServer** `UTILS/` | per instance: name list, free list | `add`, `remove`, `get`, `getLocal` | `add` leaves the gate in the middle | a look-up returns what is in the table |
| **NameServerRemoteNotify** | per ordered pair: one slot and one event; per client side: two semaphores | `get`, event callback, two Swis | queries of both sides cross, threads share one slot, timeouts | an answer belongs to its query; every query returns |
| **MessageQ** | per queue: high and normal list, synchronizer, `unblocked` | `put`, `get`, `unblock` | binary synchronizer shared by all writers, woken for old news | one owner per message, order per priority, no lost wake-up |
| **TransportShm** | two shared lists, one gate, an event, a Swi per side | create, `put`, notify callback, Swi | a put may fail after the message is visible; the Swi wants a gate that its processor holds | as above, across processors |
| **Ipc** | one key per side of a pair; memory of the pair's instances; `attached` counts | `start`, `attach`, `detach`, `stop` | two-sided start-up and shutdown that may fail half way and be repeated | memory outlives its users; everybody gets through |
| **GateMP** | shared attributes and resource flags; per processor a table of objects with reference counts, and names | create, open (by name, by address), close, delete | open racing close and delete; creations that fail half way; flags in caches that are not coherent | no two gates have one resource; an open handle stands for the gate that is there |
| **ListMP** | head and links in shared memory | put, get, insert, remove, at both ends | which links are in which cache | the list is whole in memory between two operations |
| **HeapBufMP, HeapMemMP** | list of free blocks, counters, in shared memory | `alloc`, `free` | headers of free blocks and the data of messages in the same cache lines | free memory and messages never overlap, nothing is lost, data arrives as written |
| HeapMultiBufMP, SharedRegion | buckets of HeapBufMP; regions and their addresses | | | |
| GatePeterson, hardware gates, TransportShmNotify, TransportShmCirc, NameServerMessageQ | alternatives of the above | | | |

### 1.2 Between a slave and its host (`packages/ti/ipc/`, `qnx/`, `linux/`)

| component | state | operations | what is hard | what makes it correct |
|---|---|---|---|---|
| **VirtQueue** (slave: `family/omap54xx/`, host: `qnx/.../transports/virtio/`) | two rings with 16-bit free-running indices, `NO_NOTIFY` flag | `getAvailBuf`, `addUsedBuf`, `getUsedBuf`, `addAvailBuf`, `kick`, ISRs | both sides run at once without a lock; notifications are suppressed by a flag | every buffer has one owner, no wake-up is lost |
| **RPMessage** `rpmsg/RPMessage.c` | endpoints: queue, counting semaphore, `unblocked`; one binary semaphore of senders | create, `send`, `recv`, `unblock`, Swi | tasks compete for few buffers; the flag is theirs together | messages arrive in order; senders wake |
| **MessageQCopy** (QNX host) | endpoints with callbacks | `send`, buffer interrupt | the ring is primed and refilled by an interrupt thread | as above |
| TransportRpmsg, NameServerRemoteRpmsg | MessageQ and NameServer over endpoints | | requests with timeouts | |
| **LAD** (`linux/src/daemon/lad.c`) and its client library | table of clients, one command FIFO, one response FIFO per client, queues with owners | connect, disconnect, create and delete a queue, one command at a time; clean-up | clients die or give up at any moment, handles are used again | a client has its own slot, pipe, queues and answers; a dead client's state goes away unless it left it behind at a disconnect; nobody waits for ever |
| Linux MessageQ, NameServer and their daemons | sockets per processor; tables with one reply buffer | | late replies | |
| QNX resource manager, user libraries, loader | | | tied to the platform | |
| RcmServer/RcmClient, ServiceMgr/OmapRpc, MmRpc, IpcPower | servers over messages | | worker pools, power states | |

### 1.3 How they interact

* *Calls.* MessageQ calls a transport's `put`; the transport calls GateMP, ListMP and
  Notify; NameServer calls its remote driver; Notify calls its driver with its own module
  gate or with interrupts disabled.
* *Shared memory.* Everything two processors exchange is in shared region 0: gates, rings,
  event entries, keys, lists of messages.
* *Interrupts and callbacks.* The driver's ISR calls `Notify_exec`, which calls the
  transport's or name server's callback, which posts a Swi; the Swi calls `MessageQ_put`
  or sends the response. A Swi preempts tasks, an ISR preempts Swis: nothing that they
  need may be held by what they preempt.
* *Order.* `Ipc_attach` creates the pair's instances in the order Notify, NameServer,
  MessageQ, and `Ipc_detach` removes them in the opposite order.

Every component the sources name, with the reason when it is not modelled, is in
`PROJECT.json`.

## 2. Modules

Three abstract specifications say what a component promises; the detailed modules are shown
to implement them.

| abstract | promise | implemented by |
|---|---|---|
| `Gate` | a recursive lock over the threads of all processors | `GatePetersonN` |
| `Channel` | streams that deliver once and in order, with at most `Capacity` under way | `NotifyDriverShm`, `NotifyDriverCirc`, `TransportShm`, `RPMessage` |
| `Lookup` | an answer is what the table held at one moment of the query | `NameServerRemoteNotify` |

They are composed the way the code is layered, each module using of the one below what that
module shows: `NotifyDriverShm` contains the `Notify.c` that drives it;
`NameServerRemoteNotify` extends `NameServer`, whose tables it looks up; `TransportShm`
extends `MessageQ`, whose queues it fills; `RPMessage` extends `VirtQueue`. Each `MC...`
module gives the constants that a configuration cannot express. `SharedHeaps` puts
`HeapBufMP`, `HeapMemMP` and `ListMP` on one `SharedMemory`; `Lad` contains the daemon, the
library and the pipes between them.

A step is one access to memory that another thread or processor can see at that point, or
one section that the code makes atomic (a gate, `Hwi_disable`). A task's program counter is
named for the step it is about to take. Common abstractions: caches are coherent (the code
writes back and invalidates around every shared access; where that is what could go wrong,
in `NotifyDriverCirc`, `SharedHeaps` and `GateMP`, the model has them), memory is sequentially consistent, payloads are numbers or
model values, and creation of an object is its initial state unless said otherwise.

* **`GatePetersonN`**: `enter` is `Enter` (or `Reenter`, nested), `SetEntered`, `SetLast`,
  then for each stage and each other processor `ReadEntered` and `ReadLast`, the two
  operands of the wait; `NextStage`; `Leave` and `LeaveLocal` are `leave`. The local gate
  is `localOwner`.
* **`NotifyDriverShm`**: one direction of one line. Sender threads: `SendEvent` (the tests
  of `Notify_sendEvent` and the driver), `Poll`, `PollTimeout`, `Lock`, `WritePayload`,
  `WriteFlag`, `IntSend`. The ISR: `IsrEnter` to `IsrReturn`, one event of `regChart` per
  round. Tasks: register (`LineOff`, `EditChart`, `ClearFlag`, `WriteRegMask`, `LineOn`),
  unregister, `DisableEvent` with its acknowledgement and callback, `EnableEvent`,
  `Disable` and `Restore` of the line. `SetNotifyHandle` sets `recvInitStatus`.
* **`NotifyDriverCirc`**: the same line over a ring. `putReadIndex`, `readIndex` and
  `getReadIndex` are the sender's cached copy, the memory, and the receiver's copy;
  `WriteBack` and `Refill` are what a cache does when told, or by itself.
* **`NameServer`**: `AddCheck`, `AddGet`, `AddPut` are the three parts of `NameServer_add`,
  between which the gate is left; `Remove`; `GetLocal`.
* **`NameServerRemoteNotify`**: a client's `NameServer_get` is `Get`, `Enter`,
  `WriteRequest`, `SendRequest` (or `RefusedRequest`), `Wait` (or `WaitTimeout`),
  `ReadAnswer`, `Post`; the server's Swi is `SwiRequestLookup`, `SwiRequestStatus`,
  `SwiRequestSend`, the client's `SwiResponse`; `CbFxn` is the event's callback;
  `AttachEvent` and `AttachDriver` are `Instance_init`.
* **`MessageQ`**: `PutLocal`, `Enqueue`, `Signal` are `MessageQ_put`; `Get`, `GetNormal`,
  `Wake`, `Timeout`, `WokenUnblocked`, `WokenGet` are `MessageQ_get`; `Unblock`. Which
  thread may run is left to the composing module.
* **`TransportShm`**: `PutRemote`, `Enter`, `Acquire`, `Insert`, `Notify` (or
  `NotifyFails`, `RemoveFromList`), `Leave` are `TransportShm_put`; `Isr`, `SwiStart`,
  `Take` the receiving side; `RegisterEvent` and `RegisterTransport` the creation of the
  two objects. ListMP operations are single steps, since they enter the gate that is
  already held. The lock between the two processors is first come, first served, which
  Peterson's algorithm for two processors provides (a hardware spinlock need not).
* **`Ipc`**: one task per processor. `Start`, `Create`, `Stop`; `AttachCall`,
  `MasterStarts`, `SyncStart` (`procSyncStart`), `Open`, `AttachStage`, `AttachUser`,
  `SyncFinish` (`procSyncFinish`); `DetachCall` to `Detached`. `AttachFails` is a return
  with an error and what the caller does then: with `procSync` ALL, `Ipc_start` repeats
  NOTREADY and gives up on anything else; with PAIR the application goes round.
* **`VirtQueue`, `RPMessage`**: both rings with the owner of each index; `Clear`, `NoAvail`
  or `GetToSend`, `AddUsed`, `UsedAdded`, `KickHost` are a send to the host, and the same
  steps of the other ring the Swi's; `Alloc`, `Put`, `Post` bring a message to an
  endpoint; `Recv`, `Woken`, `RecvTimeout`, `RecvUnblocked`, `RecvPayload` are
  `RPMessage_recv`. Its assertion that the queue is *empty* (`RPMessage.c:530`) is in the model
  when `Asserts` is TRUE, for a slave built with assertions on: who finds its payload then ends
  the slave's program (`Aborted`), and no thread of it runs any more (section 5). The run has
  `Asserts = FALSE`. `Delete` and `DeleteSlot` are `RPMessage_delete`, which no task calls
  that is receiving: what a sender finds in between, or has found before, is gone when it
  puts the message there (`PutStale`; freed memory is taken not to be in use again yet, so
  that only the message and its block are lost). `HostInterrupt` to `KickSlave` are `MessageQCopy.c`. A thread inside a
  GateHwi keeps all others of the slave out (a single core), never the host.
* **`SharedMemory`**: memory in lines and a write-back cache per processor that nothing
  keeps coherent. A load takes the line into the cache, a store changes the copy, `Inv` and
  `WbInv` are `Cache_inv` and `Cache_wbInv`, and a cache may evict a line, written back if
  dirty, at any time (`CacheEvicts`).
* **`ListMP`, `HeapBufMP`, `HeapMemMP`**: each operation as a function of memory and caches,
  with the loads, stores and cache operations of the code in its order. The walks over
  HeapMemMP's free list (`AllocEnter`, `AllocNext`; `FreeEnter`, `FreeNext`) are a step per
  header, since caches evict in between; the rest of an operation runs in its gate.
* **`SharedHeaps`**: the life of a message: allocated, written, flushed and put on a ListMP
  by the sender (`TransportShm_put`), taken off (`TransportShm_swiFxn`) or taken back,
  read, and freed by whoever has it.
* **`GateMP`**: `Create`, `CreateProxy`, `Publish` are `GateMP_create`; `Open` and
  `OpenByAddr` read the status, `OpenLocal` and `OpenRemote` do the rest with interrupts
  off; `Close`; `Delete`; `Unpublish`, `Unlist`, `Release` and `Free` are the steps of
  `Instance_finalize`. A creation that fails takes the same way out.
* **`Lad`**: the daemon is `Read` (with the clean-up after departed clients), then the
  command's action, then `Respond`; connecting is `ConnectToLAD`, `ResponseOpen` (two opens
  that wait for each other), `ConnectDone`; `Eof`, `ClosePipe` and `Reopen` are the end of the
  command pipe. The library is `Connect`, `ReadConnect`, `ReadResponse`, `Disconnect` and
  their timeouts. `Die` may come anywhere. A write to a pipe without a reader kills the
  writer (SIGPIPE has no handler), and so does, possibly, what the code leaves undefined: a
  second `fclose` of a slot, the deletion of a queue that was freed.

## 3. Runs

All passing runs explore their whole state space. The distinct states are in parentheses.

| run | question | instance |
|---|---|---|
| `petersonn` (18,917) | does the N-processor lock exclude, filter, nest and let everybody in? | 3 processors (2 stages, so that one processor can be between them), 4 threads of which 2 share a processor, nesting 2 |
| `shm_line` (56,112) | is an event an exactly-once channel when the line is switched but registrations stay? | 2 events, one sent without `waitClear`, 2 sending threads, 3 sends, a task nesting `Notify_disable` twice |
| `shm_calls` (137,086) | do registrations and switched events stay consistent while sends are in flight? | 3 events: one registered and unregistered, one disabled and enabled, one left alone; 2 sending threads, timeouts, 2 sends |
| `circ_buffer` (313,216) | is the ring an exactly-once channel of N − 1 entries? | 4 slots, write-back at every second, one sender, 6 sends: once round and a half; all receiver calls |
| `nameserver_remote` (37,016) | is a remote query an atomic look-up, and does it return? | 2 processors, 2 clients on one and 1 on the other, 2 names, an owner that adds and removes; one side attaches late |
| `nameserver_late_answer` (violation) | also when queries time out? | the same with a finite timeout |
| `messageq_transport` (174,638) | is every message in one place, is order kept, is nobody forgotten? | 2 processors, 3 tasks, 4 messages of three priorities sent locally and remotely while both sides attach; one queue is shut down |
| `ipc_attach` (157,184) | does shared memory outlive its users, and does everybody get through? | 3 processors, two sessions each, 2 stages, attach counts to 2, one failing call, both modes |
| `rpmessage` (244,378) | does every buffer have one owner, and does all that is sent arrive? | rings of 2 buffers with indices modulo 4 (they wrap), 2 senders, endpoints with queue and with callback, a heap of 1 block, 4 loads, 1 deletion of an endpoint in 2 of them; assertions off |
| `shared_heaps` (798,721) | are free memory, list and messages whole although the caches are not coherent? | 2 processors, one sends and one receives; HeapMemMP of 4 lines with 2 sizes and 2 alignments, or HeapBufMP of 2 blocks of 2 lines; 3 allocations, 1 eviction |
| `lad` (198,858) | do sessions, answers and clean-up hold when clients die? | 3 clients for 2 slots, 5 commands, 1 death |
| `gatemp` (992,507) | are resources and handles sound when creations fail and opens race deletions? | 2 threads on one processor and 1 on another, 2 resources, 3 addresses |

### What the passing runs show

* `petersonn`: `MutualExclusion`; `Filter`, the argument behind it, that stage *s* lets at
  most N − s − 1 processors through; `EntersEventually`; `GateRefinement`.
* `shm_line`: `ChannelRefinement` with capacity 2 (an event may be acknowledged and not yet
  executed while the next is UP); `Delivered`; `Noticed`, that after the last of several
  sends which overwrote each other the callback runs once more: `TransportShm` counts on it.
  `SendsServed` is both.
* `shm_calls`: `ExecHasCallback`; `DriverConsistent`, that the ISR never finds the tables
  half changed (`IsrExcludesDriver`); `DisabledStaysSilent`; `ExecutedOnceInOrder`;
  `InterruptServesEvent`. An event that is both registered and
  switched is left out here because that mixture breaks them (section 5).
* `circ_buffer`: `SlotsKept`, that the indices account for what is under way and the slots
  hold it, however old the copies of the read index; `ChannelRefinement`; `LineServed`:
  everything is taken (`Delivered`), and the rare write-backs of the read index are frequent
  enough (`SendersReleased`).
* `nameserver_remote`: `QueriesAccounted`: a query under way has exactly one form and an
  idle pair has none, so nothing is left for the next query (`OneAnswerPerQuery`), and who
  asks can receive the answer (`ReplyIsAccepted`); `ImplementsLookup`; `GetReturns`, though both Swis may spin for each other's event.
* `messageq_transport`: `MessagesAccounted`: each message is in one place (`OneOwner`), and
  someone will look there (`NoneStranded`); `ImplementsChannel`, a stream from one
  side with one priority to one queue stays in order (urgent messages overtake, by
  design); `NoWakeUpLost`, everything arrives and an unblock ends a `get`.
* `ipc_attach`: `MemoryIsSound`: neither side has an instance whose memory was freed or
  belongs to another (`SharesLiveMemory`), nor a heap that was deleted
  (`HeapOutlivesUsers`); `PeerIsReady`: a processor that is attached to another finds the
  other's instances there, unless it is the slave, which may still count a master that has
  detached or is about to (it has unwound some of its stages, or a detach of it has failed
  half way); `AllReturn`.
* `rpmessage`: `BuffersConserved`, each buffer is in one ring or with one thread, or was
  lost to an endpoint the host does not have, and the blocks of the heap are free, queued or
  a sender's until a message meets a deletion (section 5); `RecvFindsPayload`, a woken receiver never
  finds an empty queue; `ImplementsChannel`; `Delivered`, for loads that starve one sender at
  a time and a slave built without assertions. The first three hold with `Asserts = TRUE`
  as well, `Delivered` does not (section 5).
* `shared_heaps`: `HeapIntact`, between two operations the free blocks in memory, the
  messages and the counters make up the heap exactly, and no cache holds a dirty line that
  would undo that; `ListIntact`, the same of the list; `ReadsLastWrite`, what a receiver
  reads is what the sender wrote, in the lines the code takes care of;
  `AllocFailsOnlyWhenFull`, `HeapMemMP_alloc` overlooks no gap.
* `lad`: `SessionsSound`; `AnswersOwn`; `DepartedCleanedUp`; `Answered`. The first three are
  stated until a client dies, or gives up, with a command on its way (the history variable
  `orphaned`): after that they fail (section 5). `DepartedCleanedUp` leaves out the queues
  that a client left behind when it disconnected (`abandoned`, until it has a slot again):
  they stay with LAD when it dies (section 5). `Answered` leaves out the commands that are
  sent while LAD is stuck in the open of a dead client's pipe.
* `gatemp`: `ResourcesUnshared`; `NoResourceLost`, until a creation has searched the flags in
  vain (`exhausted`); `HandlesLive`, unless a gate was opened while it was being closed or
  deleted (`raced`). Without these conditions they fail (section 5).

### Bounds, and why they are enough

Every bound is a constant: `MaxNested`, `MaxSends`, `MaxNesting`, `Sessions`,
`MaxAttached`, `MaxFailures`, `Loads`, `MaxAllocs`, `MaxMemMessages`, `MaxBufMessages`,
`MaxEvictions`, `MaxCommands`, `MaxDeaths`, `MaxDeletes` and `DeleteLoads`, `Bound` (`gatemp`
stops where both histories its properties leave out have happened), "each message is sent once", "one unblock per
endpoint". Three processors are the smallest number with a stage between the first and the
last, and with a pair that is not the owner's. Two senders and one message more than fits
exercise each competition; a third sender only queues behind the second. Six sends pass the
ring's end and fill it again; the proofs cover every ring. Indices modulo 4 with two buffers
wrap in a run as 16-bit ones do in days; what the code needs is that the width is a multiple
of the ring size, which `RingAssumption` states. One failure reaches every stage of attach
and detach with every state of the other side; two sessions repeat them on what is left.
Four lines with sizes of one and two lines leave a gap before, behind, on both sides and on
none of an allocation; one eviction in addition to those the code's operations cause falls
into each of their steps. Three clients for two slots refuse one, and give the slot of one
that left to another; one death reaches every point of a session. Two resources for three
gates are used up and given back, by either processor.

`CHECK_DEADLOCK FALSE` is set where a system may stop: after the last session
(`ipc_attach`), when everything that may be sent was sent (`messageq_transport`, `rpmessage`,
`shared_heaps`), and with all commands used up or LAD killed (`lad`).

### Fairness

Nobody is ever obliged to call an operation. What is assumed:

* a thread inside an operation, a Swi and an ISR go on (weak): they run on processors that
  do not stop, at priorities their module models where it matters;
* a pending interrupt is taken if it is unmasked again and again (strong): it preempts
  tasks the moment it is unmasked;
* a lock's holder leaves it, and who disabled a line restores it (weak, and strong for the
  outermost): what users of these calls owe;
* `NotifyDriverCirc`: a write-back that was started ends; a cache does nothing by itself;
* `NameServerRemoteNotify`: who spins for an event sees it clear at some time (strong): the
  other processor cannot refill it faster for ever, since each refill is a query;
* `RPMessage`: a sender is not overtaken for ever (strong), and a receiver that polls lets
  other tasks run, since it sleeps until its timeout;
* `TransportShm`: the gate is first come, first served (section 2);
* `Ipc`: each processor's task runs; its loops sleep or yield;
* `Lad`: the daemon runs, and a client that waits goes on when it can. Its five seconds of
  patience are enough for LAD unless LAD is stuck or dead: a timeout is possible only then.

## 4. Proofs

`tlapm` proves the theorems below for every value of the constants that satisfies the named
assumptions; a run checks the same formula on the small instance.

### `GatePetersonN_proofs` (916 obligations)

Assumptions: N is a positive natural, each thread runs on a processor, nesting is allowed at
least once.

* `TypeCorrect` proves `TypeOK` with `Control`, what a program counter says of the
  processor's own variables.
* `FilterInvariant` proves the inductive invariant, which adds to these:
  `EnteredStageExact`, what others read of a processor is where it is; `LastIsHeldBack`,
  the last processor to claim a stage claims it still and has not passed any other
  claimant; `StageBound`, at most N − s processors claim stage s. Mutual exclusion alone is
  not inductive: that a processor past the last stage is alone rests on each stage having
  held one back. A processor goes past a stage when it has seen every other one behind it,
  or another one last; in both cases the last claimant is not among those who pass
  (`LastIsHeldBack`), so that those who do are one fewer than those who claimed
  (`StageBound`, by cardinality of finite sets).
* `StagesFilter`, `MutuallyExclusive` follow. `ImplementsGate` maps the holder to the
  thread whose processor is inside, and each step to an enter, a leave or a stutter.

### `NotifyDriverCirc_proofs` (706 obligations)

Assumptions: at least 2 slots, `modIndex` at most half of them; for the last three,
`OneSender`: one thread sends.

* `TypeCorrect`, for any number of senders.
* `RingInvariant`: the inductive invariant. Seen from the write index, the receiver's read
  index, the memory's, the sender's cache's and the one the sender compares with are
  ordered by age (`CopiesByAge`); the sender's section is closed (`SenderLocked`); the ISR
  is behind what it has seen of the write index (`IsrBehind`). `SlotsKept` alone says
  nothing of the copies, and it is an old copy that lets a sender overwrite a slot. The
  lemmas on `Distance` are the arithmetic of the ring.
* `SlotsAreKept` and `ImplementsChannel`, the refinement with capacity `numMsgs - 1`.
  `OneSender` is necessary (section 5).

### `NameServerRemoteNotify_proofs` (2920 obligations)

Assumptions: positive number of processors; finitely many owners; initial tables within their
entries; the markers of "nothing" are no values. The run has two processors. The theorems hold
for any number, and so cover what the run cannot reach: `NameServer_get` goes on to the next
processor after a `NotFound`, so that one call is several queries (`Lookup` lets a client that
was told "not found" ask elsewhere before it returns).

* `TypeCorrect`, of `TimeoutSpec`, which contains `Spec`: types, that the entries of a table
  are free, on their way to the list or on it (`EntriesCounted`), and `Turns`: whoever queries
  has its place in `semMultiBlock` of the pair, and who is inside is the first there.
* `QueryInvariant`, of `Spec`. `OneAnswerPerQuery` alone is not inductive. It rests on
  `Turns`: one client at a time uses the slot of a pair, so that a request, a Swi or an answer
  under way can only be its; on `PostedOnce`: no Swi is queued twice; and on what the slot
  holds: its client's name and no answer until the look-up (`SlotsAsked`), the status clear
  until the Swi that looked up sets it (`StatusClear`). With timeouts it fails at
  the first step that gives the slot to another client while an answer is under way, which is
  what `nameserver_late_answer` shows.
* `QueriesAreAccounted` follows. `LookupIsAtomic` maps an answer to the moment the server's
  Swi looks the name up (`Told`), each step to one of `Lookup` or a stutter.

### `GateMP_proofs` (3594 obligations)

Assumptions: finitely many threads, each on a processor; at least one resource; `Nothing` is
none of the things it stands for the absence of.

* `GateInvariant` is always kept: threads, objects, flags, attributes and tables agree
  (`ThreadsSound`, `ObjectsSound`, `FlagsSound`, `AttrsSound`, `TableSound`). A created object
  is in one thread's hands and its resource is flagged in memory; a copy of the flags that a
  cache holds is one that a search in vain has left, so all are set there: who searches it
  takes nothing, and who clears one flag in it and writes it back leaves flags set that nobody
  owns, never one clear that somebody does. `ResourcesAreUnshared` follows, with no condition: the missing
  invalidation loses resources, but never gives one to two gates. A reference count is the
  number of threads that have the object open (`Openers`, by cardinality), and memory for a new
  object is always found, because every object in use is in the hands of a thread, and the
  thread that asks has none (a pigeonhole argument).
* `NoResourceIsLost`: until `exhausted`, no cache keeps a copy (`FlagsOwned`).
* `HandlesStayLive`: until `raced`, an object that an open has made is served by the gate at
  its address (`Serves`), also between the two halves of an open and while the last close
  takes it out of the table (`HandlesSound`). These two conditions are the histories that
  section 5 is about; each step lemma proves `GateInv` first, without them.

### `RPMessage_proofs` (4130 obligations)

Assumptions: the width of the indices is a multiple of the number of buffers and larger;
finitely many tasks; senders, endpoints and callbacks are different things; a message goes one
way. The theorems hold for any number of buffers, senders, endpoints, messages and deletions,
and whether the slave's assertions are on or off.

* `TypeCorrect` states the types; the invariant that proves it has three parts, and each
  step's lemma one section per part it disturbs. `ThreadInv`: who has a buffer at which point,
  and that one thread of the slave is inside a GateHwi. `RingInv`: between its two
  indices a ring holds different buffers, none of which a thread or the other ring has, and
  the messages in them are those that were sent and not yet taken, in order (`Delivers`).
  `EndpointInv`: the semaphore counts the queue, but for the woken receiver and the senders
  about to post; the heap's free blocks, those queued and those being filled are all there
  are.
* The lemmas on `Count` and `Place` are the arithmetic of free-running indices; that adding at
  an index that wraps meets the right place of the ring is where `Width % Num = 0` is used.
  That a ring has room for what is added (`RingRoom`) is a pigeonhole argument:
  entries and the buffer in the thread's hand are different members of `0 .. Num - 1`.
* `ReceiversFindPayload`, `BuffersAreConserved` and `ChannelImplemented`, the refinement with
  capacity `Num`, follow.

### `TransportShm_proofs` (3884 obligations)

Assumptions: two processors, each task on one; finitely many messages, each allocated by one
task and of one priority; the markers of "nothing" are no values. The theorems hold for any
number of tasks, readers and messages.

* `InvAlways` proves the invariant of transport and queues. `ThreadsSound`: what a thread may
  have in its hands at which point; a task's message is not sent yet, a Swi's was. `GateSound`:
  the gate's list has the threads that asked for it, the first is inside, and a task there keeps the
  Swi of its processor away. `PlacesSound`: each message has one spot (`OneSpot`; a list has
  nothing twice, so positions need not be mentioned), and a put that is not decided has its
  message last on the list. `OneOwner` alone is not inductive: that a failed put takes its own
  message back, and no other is stranded by it, rests on `MailSound`: nothing else can be on
  the list of a processor that has not registered the event.
* `RecordSound` is about order. `Ahead(m, n)`: m is nearer to the reader than n, before it on a
  list, in the Swi's hands while n is on the transport's list, or on the queue's. No message of
  a channel is ahead of one sent before it, and those received are the first ones. Putting an
  urgent message at the head of a list disturbs only pairs with an urgent message.
* `MessagesAreAccounted` and `ChannelsImplemented`, the refinement of `Channel`, follow.
  `GateHasOnePerProcessor` is what `GatePetersonN` takes for granted: one thread of a processor
  at a time asks for the lock between the processors.

### `NotifyDriverShm_proofs` (2409 obligations)

Assumptions: event ids are naturals; the chart at the start is in order; no event is a
thread's marker. The theorems hold for any number of events, senders, tasks and nested
disables; `OneSwitcher`: one task calls `disableEvent` and `enableEvent`, or none does, however
many register and unregister (necessary: section 5).

* `DriverInvariant`: who is in charge of what. `CallsInv`: one task at a time is in the module
  gate, and whoever has switched the line off finds it off, with the ISR out. `ChartInv`:
  chart and callbacks hold the same events, but for the one that is being changed; the lemmas
  `InsertKeepsOrder` and `DeleteKeepsOrder` are the two shifting loops of the driver.
  `IsrInv`: the event the ISR has found stays registered, enabled and UP until it is
  acknowledged. `SendInv`: one sender at a time has disabled the interrupts.
* `TablesAreConsistent`, `CallbacksAreFound` and `DisabledEventsStaySilent` follow;
  `CallbacksAreFound` for events that are not both registered late and switched (section 5).
* `HistoryInvariant`, for an event sent with waitClear. `EveryStepMoves` says what a step can
  mean for one event: a sender prepares the entry or raises the flag, the ISR takes, acknowledges
  or executes, a task drops or executes it; the invariants are kept by each. A payload is in one
  of three places: in the entry while the flag is UP, in the ISR's hands after the
  acknowledgement, or with the callback (`OrderInv`; `StreamInv` when nothing is dropped).
  `ExecutedOnceInOrder` alone is not inductive: it says nothing of the payload that the ISR still
  has to hand over while the next one is UP.
* `PayloadsInOrder` and `DriverIsChannel`, the refinement with capacity 2, follow.

### `IpcLad_proofs` (6970 obligations): `Ipc`

Assumption: `LowestOwns`, the owner of region 0 is processor 0 ("usually the processor with
id = 0", `Ipc.xdc:135`), so that it is the slave of all its pairs; otherwise the heap may go
before its users (section 5). The theorems hold for any number of processors, stages, sessions,
nested attachments and failures; the run has three processors.

* `KeysTellTheInstances` proves the inductive invariant. The keys of a pair, the slave's first,
  go through (START, DETACH), (START, START), (FINISH, START), (FINISH, FINISH),
  (FINISH, DETACH), (DETACH, DETACH) in every session again, and these six say which instances
  each side has and which labels each may be at (`KeysInv`, `InstancesInv`): the slave has its own
  from the second to the fifth, the master in the third and the fourth only. What a key of an
  earlier session says is never mistaken for one of this session, since both are DETACH, or
  never written, before the slave starts. `OwnerFirst`: region 0's owner is the first to be attached and the last to be
  detached. `MemoryIsSound` alone is not inductive: that the slave may free its memory rests on
  the master's key, and that the heap may go on every other processor's attachments.
* `MemoryStaysSound` and `PeersStayReady` follow.
* TLC checked the invariant first, with three processors and for the detaching phase of four
  (537,500 states). The proof of `PeerIsReady` failed in an earlier statement of it, for a
  reason that needs a fourth processor and which the run therefore could not show: a master whose
  detach from one slave failed half way goes on to detach from the next and so is not at the
  pair that it has left half taken down. `Leaving` now says so.

### `IpcLad_proofs`: `Lad`

The theorems hold for any number of clients, slots, commands and deaths.

* `LadAlwaysSafe` proves the inductive invariant, which has two parts. `LadTyped` is always
  kept, whoever dies: handles, names and answers are what they can be, and, as long as LAD is
  not stuck, no client that is alive has two CONNECTs on their way (`OneConnect`), so that the
  first answer it reads in a new session is the one to its CONNECT. `Sound` is kept until a
  command is orphaned: a client that waits has exactly one command or one answer on its way
  (`FifoSound`, `ClientSound`), with its handle, its number and its queue; a slot in use is one
  client's, who knows its handle, is about to read it, or is dead (`SlotsSound`); a pipe is
  there for a slot or for a connection that LAD is making (`PipesSound`); the owner of a queue
  has a slot or left the queue behind when it disconnected (`QueuesSound`).
* `LadSessionsStaySound`, `LadAnswersStayOwn` and `LadDepartedAreCleanedUp` follow.
  `AnswersOwn` alone is not inductive: answers carry no number, and that the answer in the pipe is the
  right one rests on the client having had one command under way, which is served by
  the slot with that client's pipe. `DepartedCleanedUp` needs `PipesSound` and `QueuesSound`:
  the clean-up goes over the slots, and finds every pipe, and every queue that was not left
  behind at a disconnect, only if each has one.

### What stays with TLC

Liveness under fairness and what computes `ENABLED` (`EntersEventually`, `SendsServed`,
`InterruptServesEvent`, `LineServed`, `GetReturns`, `NoWakeUpLost`, `AllReturn`, `Delivered`,
`Answered`); induction over data (`ListIntact`, `HeapIntact` and `AllocFailsOnlyWhenFull` walk a
linked list, so that what they say of a list of any length has no proof here; `ReadsLastWrite` rests on them: that
the lines of a message are in no other's hands is what the free list and the ListMP say).

## 5. Where the code and its documentation disagree

### Shown by a run

`nameserver_late_answer`: the answer to a query that timed out is taken for the answer to the
next one, which returns another name's value (`NameServerRemoteNotify.c:396`).

### Counterexamples to a property without its condition

TLC gives each of these when the condition named is lifted; the passing runs keep it.

* **NotifyDriverShm**, one event both registered and switched (`Registrable = {0}`,
  `Switchable = {0}` in `ShmCalls.cfg`): a send that passed its tests before
  `unregisterEvent` sets the flag UP after it; `disableEvent` executes whatever is UP without
  a look at the registration (`NotifyDriverShm.c:531`), and `Notify_exec` meets the NULL
  callback that it asserts never to meet (`Notify.c:873-874`): `ExecHasCallback`.
* **NotifyDriverShm**, two tasks (`Tasks = {t1, t2}` in `ShmCalls.cfg`): `Notify_disableEvent`
  does not enter the module gate (`Notify.c:176`), and the driver's `enable` at its end
  (`NotifyDriverShm.c:535`) switches the line on while the other task shifts the chart:
  `DriverConsistent`.
* **NotifyDriverCirc**, two sending threads (`Senders = {s1, s2}` in `CircBuffer.cfg`): the
  read index is read before interrupts are disabled and compared after
  (`NotifyDriverCirc.c:303`). A thread preempted in between fills the last slot: a full ring
  looks empty, against "the remote core will not use a slot until it sees that the event has
  been processed" (575-577): `SlotsKept`.
* **RPMessage**, a ring of one buffer and two tasks that need it (`Num = 1`, `Width = 2`,
  `Loads = {{a1, a2, a3}}` in `RPMessage.cfg`): the first that wakes switches the
  notifications off that the second needs (`VirtQueue.c:391`, against 379-382):
  `Delivered`.
* **RPMessage**, without `LateIsLost`: the gate that is to "protect from RPMessage_delete"
  (`RPMessage.c:601`) is left before the object is used, and the deletion (466-473) frees
  semaphore and queue outside it: `BuffersConserved`.
* **RPMessage**, with assertions on (`Asserts = TRUE` in `RPMessage.cfg`): `RPMessage.c:530`
  asserts `(!payload)` of the payload it has just taken off the queue and is about to copy, the
  opposite of `RecvFindsPayload`, so that the first receive that finds its message ends the
  slave: `Delivered`. The tests' configurations have `Main.common$.diags_ASSERT =
  Diags.ALWAYS_ON` (`packages/ti/ipc/tests/ping_rpmsg_common.cfg.xs:222`); the module registers
  a mask of its own (`RPMessage.c:276`), which decides whether the assertion is evaluated. The
  assertion is the wrong way round: `RecvFindsPayload` holds, on or off, and is proved.
* **HeapMemMP**, `ReadsLastWrite` stated of all lines of a message: `HeapMemMP_free`
  invalidates the upper neighbour's header, reads it and leaves the copy in the cache
  (`HeapMemMP.c:835`), as the walks do. When the line becomes the inside of another
  processor's message, neither `ListMP_getHead`, which invalidates the first line, nor
  `TransportShm_swiFxn` (98-109) invalidates it, and the receiver reads the old header;
  "a cache invalidate is performed before any read" (`packages/ti/ipc/SharedRegion.h:226`).
* **GateMP**, without `exhausted`: a search in vain leaves the line of flags in the cache
  (`GateMP.c:1538-1564`); a later deletion clears its flag in that copy and writes it back
  (1460-1467), so that a resource another processor freed meanwhile is flagged for ever:
  `NoResourceLost`. Without `raced`: an open has read the status (381) or is about to find
  the object, and the deletion or the last close (182) goes on: `HandlesLive`; the comments
  at 295 and 406 say "need to track number of opens atomically".
* **LAD**, without `orphaned`: a command names its client by handle. The command of a client
  that died is read after the clean-up freed its slot, or after the next client has it; the
  answer goes to that client, or to a closed file (`lad.c:499`): `AnswersOwn`,
  `SessionsSound`.
* **LAD**, without `abandoned`: a client disconnects with a queue and dies. Neither
  `LAD_disconnect` (`LAD_client.c:227-253`) nor LAD (`lad.c:714-742`) looks at its queues, and
  `cleanupDepartedClients` (551-573), which calls `MessageQ_cleanupOwner`, looks at connected
  clients only, so that the queue stays with LAD for ever: `DepartedCleanedUp`. `Ipc_stop` and
  the SIGINT handler of `linux/src/api/Ipc.c` (137-192) disconnect so; `MessageQ_destroy`
  deletes queues only when the last client calls it (`MessageQ_daemon.c:246-254`).

### Met while modelling, without a run

* **Notify.** `registerEvent`, `unregisterEvent` and `disableEvent` switch the line on at
  their end although `Notify_disable` has it off (`Notify.h:294-296`), or another task's
  call is half done; a send can leave a flag UP for an event that was unregistered
  (`NotifyDriverShm.c:307-309`); the payload that `disableEvent` executes after its
  acknowledgement may be the next one's (514-517); an event may stay UP after
  `enableEvent` until the next interrupt (508-509); a sender may poll for ever once its
  event is switched off. A second `unregisterEvent` leaves with the module gate held
  (`Notify.c:645`). `Notify_restore` asserts the order of keys outside the gate (456).
* **NotifyDriverCirc.** The driver's `enable` asserts that it is not supported (420-424),
  while `enableEvent` switches the line on (438-443).
* **NameServer.** Two owners may add one name twice although `checkExisting` is set: the
  gate is left between the look-up and the insertion (`NameServer.c:193`).
* **MessageQ.** `MessageQ_unblock` is said to make every later `get` return at once
  (`MessageQ.h:910-912`); `get` looks at the flag only after a wait.
* **Ipc.** `Ipc_stop` asks only that the processor be detached first (`Ipc.h:315-316`); if
  the owner of region 0 is the master of a pair it may delete the heap before the slave has
  freed its blocks. `HeapOutlivesUsers` holds when the lowest processor is the owner. If
  `Ipc_start` gives up, its peer spins in `procSyncFinish`; `AllReturn` excludes that. A
  processor that attaches before the owner has cleared the keys of a run that was cut off
  takes the old memory for the slave's (`Ipc.c:710`).
* **GateMP.** A creation that fails for want of memory for the attributes ends in
  `Instance_finalize`, which writes their status through the null pointer (`GateMP.c:1376`).
* **LAD.** One client that dies between its CONNECT and its open of the response pipe stops
  the daemon in `fopen` (`lad.c:659`) until a process with the same pid opens it. A client
  that writes a command while LAD has closed the command pipe and not opened it again (240-247,
  215) is killed by SIGPIPE.
* **RcmServer.** In the build of this tree the packets in all queues are the server's one
  receive buffer, with one reply address that the next receive overwrites
  (`RcmServer.c:2137`, 2171); a worker goes on with a packet it has answered already
  (2433-2481).
* **RPMessage.** A send from a Swi to a
  starved host pends inside the Swi; the host loses the buffer of a message for an endpoint
  it does not have (`MessageQCopy.c:1531`); a kick into a full mailbox is lost
  (`Omap5430IpcInt.c:1183`).

## 6. What is not modelled

* **Initialization and finalization of instances**: except where they interleave with use
  (`NameServerRemoteNotify`, `TransportShm`, `Ipc`, `GateMP`). Deletion of queues
  and drivers in use is not modelled; nor is the creation of lists and heaps.
* **Memory ordering**: sequential consistency is assumed. The code has no barriers beyond
  its cache operations.
* **Notify's loopback** path and its lists of listeners; **MessageQ's** table of queues,
  heaps of messages and names; **NameServer's** growth and prefix matching.
* **Ipc**: `readConfig`/`writeConfig`, `procSync` NONE, the host's set-up word, regions
  other than 0. Two calls of one processor at a time: the documentation has one task attach.
* **RPMessage**: an SMP slave, endpoints deleted that have a callback; QNX creation and detachment.
* **GateMP**: local gates, gates in a region's heap, the custom proxies (the same tables once
  more), the host's copies. **ListMP**: `next` and `prev`, whose callers hold the gate.
  **HeapMultiBufMP**, which chooses a bucket and does what HeapBufMP does.
* **LAD**: the other commands (the same loop), MessageQ's set-up and its reference count (some
  client always has MessageQ set up, so that `MessageQ_destroy` deletes no queues), a second
  queue of one client, the protocol version (refused like a full
  table), zombie processes, which `kill(pid, 0)` finds alive; **MessageQ** and **NameServer**
  on Linux: sockets of a kernel protocol that is not in the repository.
* **RcmServer**: worker pools and job streams. With one buffer under all queued packets
  (section 5) no property of them would hold of the code as it is built.
* **Hardware gates**, interrupt controllers, the mailboxes of each device: a register
  decides. GatePeterson is `GatePetersonN` with one stage.
* **Loaders, resource manager glue, build and configuration, tests**: no protocol of their
  own, or the platform's. Vendored code.

## 7. Plan

Done, in this order: `GatePetersonN` and its proofs; `NotifyDriverShm`;
`NotifyDriverCirc` and its proofs; `NameServer` with `NameServerRemoteNotify`; `MessageQ`
with `TransportShm`; `Ipc`; `VirtQueue` with `RPMessage`; `ListMP` with the shared heaps;
`Lad`; `GateMP`.

Candidates that are left: RPMessage's clients TransportRpmsg and
NameServerRemoteRpmsg, whose timeout path leaves with the gate held; NameServer on Linux
(one reply buffer for all queries); NameServerMessageQ; TransportShmCirc (the reading of the
index as in NotifyDriverCirc); IpcPower; ServiceMgr.

Proofs done: `GatePetersonN`, `NotifyDriverCirc`, `NameServerRemoteNotify`, `GateMP`,
`RPMessage`, `TransportShm` with `MessageQ`, `NotifyDriverShm`, `Ipc`, `Lad` (section 4). What
is left to TLC is named at the end of section 4.
