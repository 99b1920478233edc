----------------------------- MODULE SharedHeaps -----------------------------
(***************************************************************************)
(* Messages in shared memory: a processor allocates a block from a shared  *)
(* heap (HeapMemMP or HeapBufMP, through IHeap), writes a message into it, *)
(* writes the block back (TransportShm_put) and puts it on a ListMP;       *)
(* another takes it off the list, reads it where it lies, may write to it, *)
(* and frees the block, which anyone may then be given.  Nobody            *)
(* invalidates what it receives: a block must come without stale copies.   *)
(***************************************************************************)
EXTENDS HeapMemMP, HeapBufMP, FiniteSets, FiniteSetsExt, Sequences, SequencesExt

CONSTANTS Senders, Receivers,   \* processors that put on the list, that take from it
          ListHead,             \* line of the list's head
          Heaps,                \* which heaps: "HeapMemMP", "HeapBufMP"
          Sizes, Aligns,        \* of the requests
          MaxMemMessages,       \* bound: messages written into blocks of HeapMemMP,
          MaxBufMessages,       \* and of HeapBufMP
          MaxAllocs,            \* bound: blocks allocated
          MaxEvictions          \* bound: lines a cache gives up by itself

ASSUME HeapsAssumption ==
    /\ Heaps \subseteq {"HeapMemMP", "HeapBufMP"}
    /\ Cardinality({HeapHead, FreeList, BufAttrs, ListHead} \cup Buffer) = HeapLines + 4
    /\ Lines = {HeapHead, FreeList, BufAttrs, ListHead} \cup Buffer
    /\ NumBlocks * BlockLines = HeapLines

VARIABLES heap,         \* the heap in use
          held,         \* the blocks each processor has
          asked,        \* the request of the processor in HeapMemMP_alloc
          listed,       \* history: the blocks on the list, in order
          written, allocs, evictions    \* counters

vars == <<shm, gate, walk, heap, held, asked, listed, written, allocs, evictions>>

Mem == heap = "HeapMemMP"
MaxMessages == IF Mem THEN MaxMemMessages ELSE MaxBufMessages

\* A block: its address, the size that was asked for, the message in it and who wrote
\* that (0 and None before the first), and how far its holder has come.
Stages == {"own", "flushed", "dropped"}
Block == [addr : Buffer, size : Sizes, msg : 0 .. MaxMessages, writer : Procs \cup {None},
          stage : Stages]

LinesOf(b) == IF Mem THEN BlockOf(b.addr, b.size) ELSE BlockOf(b.addr, BlockLines * LineSize)
Holder(p, b, stage) == b \in held[p] /\ b.stage = stage
Change(p, b, c) == held' = [held EXCEPT ![p] = (@ \ {b}) \cup {c}]
Blocks == UNION {held[p] : p \in Procs} \cup ToSet(listed)

TypeOK ==
    /\ SharedMemoryTypeOK
    /\ walk \in Walks /\ (walk = NoWalk <=> gate = None)
    /\ heap \in Heaps
    /\ held \in [Procs -> SUBSET Block] /\ asked \in [Procs -> Sizes]
    /\ listed \in Seq(Block)
    /\ written \in 0 .. MaxMessages /\ allocs \in 0 .. MaxAllocs
    /\ evictions \in 0 .. MaxEvictions

Blank == [next |-> Null, word |-> 0, data |-> 0]

\* The heap and the list have been created and every processor has opened them.
Init ==
    /\ heap \in Heaps
    /\ LET blank == [a \in Lines |-> Blank]
           made  == IF Mem THEN MemPostInit(blank) ELSE BufPostInit(blank)
       IN shm = ElemClear([memory |-> made,
                           cache |-> [p \in Procs |-> [a \in Lines |-> Miss]]], ListHead)
    /\ gate = None /\ walk = NoWalk
    /\ held = [p \in Procs |-> {}] /\ asked \in [Procs -> {Min(Sizes)}]
    /\ listed = <<>>
    /\ written = 0 /\ allocs = 0 /\ evictions = 0

-----------------------------------------------------------------------------
(* The heap                                                                 *)

Given(p, addr, size) ==
    held' = [held EXCEPT ![p] = @ \cup {[addr |-> addr, size |-> size, msg |-> 0,
                                         writer |-> None, stage |-> "own"]}]

counters == <<written, allocs, evictions>>

MemAllocCall(p, size, align) ==
    /\ Mem /\ allocs < MaxAllocs
    /\ AllocEnter(p, size, align)
    /\ asked' = [asked EXCEPT ![p] = size]
    /\ allocs' = allocs + 1
    /\ UNCHANGED <<heap, held, listed, written, evictions>>

MemAllocNext(p) == AllocNext(p) /\ UNCHANGED <<heap, held, asked, listed, counters>>
MemAllocTake(p) ==
    /\ AllocTake(p)
    /\ Given(p, AllocAddr, asked[p])
    /\ UNCHANGED <<heap, asked, listed, counters>>
MemAllocFail(p) == AllocFail(p) /\ UNCHANGED <<heap, held, asked, listed, counters>>

\* Larger requests, and larger alignments, are refused.
BufAllocCall(p, size) ==
    /\ ~ Mem /\ allocs < MaxAllocs /\ RoundUp(size) <= BlockLines
    /\ BufAlloc(p)
    /\ Given(p, NextBlock(p), size)
    /\ allocs' = allocs + 1
    /\ UNCHANGED <<walk, heap, asked, listed, written, evictions>>

FreeCall(p, b) ==
    /\ Holder(p, b, "own")
    /\ IF Mem THEN MemFreeInv(p, LinesOf(b))
              ELSE BufFreeInv(p, LinesOf(b)) /\ UNCHANGED walk
    /\ Change(p, b, [b EXCEPT !.stage = "dropped"])
    /\ UNCHANGED <<heap, asked, listed, counters>>

MemFreeEnter(p, b) ==
    /\ Mem /\ Holder(p, b, "dropped")
    /\ FreeEnter(p, b.addr, b.size)
    /\ UNCHANGED <<heap, held, asked, listed, counters>>
MemFreeNext(p) == FreeNext(p) /\ UNCHANGED <<heap, held, asked, listed, counters>>
MemFreeLink(p) ==
    /\ FreeLink(p)
    /\ held' = [held EXCEPT ![p] = {b \in @ : b.addr # walk.addr}]
    /\ UNCHANGED <<heap, asked, listed, counters>>

BufFreeEnter(p, b) ==
    /\ ~ Mem /\ Holder(p, b, "dropped")
    /\ BufFree(p, b.addr)
    /\ held' = [held EXCEPT ![p] = @ \ {b}]
    /\ UNCHANGED <<walk, heap, asked, listed, counters>>

-----------------------------------------------------------------------------
(* The messages                                                             *)

\* The holder writes a message over the whole block, its first words apart.
Write(p, b) ==
    /\ Holder(p, b, "own") /\ written < MaxMessages
    /\ written' = written + 1
    /\ shm' = FoldSet(LAMBDA a, m : Store(m, p, a, [Seen(m, p, a) EXCEPT !.data = written']),
                      shm, LinesOf(b))
    /\ Change(p, b, [b EXCEPT !.msg = written', !.writer = p])
    /\ UNCHANGED <<gate, walk, heap, asked, listed, allocs, evictions>>

Flush_forgotten(p, b) ==
    /\ Holder(p, b, "own") /\ p \in Senders /\ b.writer = p
    /\ Change(p, b, [b EXCEPT !.stage = "flushed"])
    /\ UNCHANGED <<shm, gate, walk, heap, asked, listed, counters>>

\* TransportShm_put writes the message back and invalidates it, before it is listed.
Flush(p, b) ==
    /\ Holder(p, b, "own") /\ p \in Senders /\ b.writer = p
    /\ shm' = WbInv(shm, p, LinesOf(b))
    /\ Change(p, b, [b EXCEPT !.stage = "flushed"])
    /\ UNCHANGED <<gate, walk, heap, asked, listed, counters>>

listFrame == <<gate, walk, heap, asked, counters>>
Listed(b) == [b EXCEPT !.stage = "own"]

Put(p, b) ==
    /\ Holder(p, b, "flushed") /\ gate = None
    /\ \/ /\ shm' = PutTail(shm, p, ListHead, b.addr)
          /\ listed' = Append(listed, Listed(b))
       \/ /\ shm' = PutHead(shm, p, ListHead, b.addr)
          /\ listed' = <<Listed(b)>> \o listed
       \/ \E i \in DOMAIN listed :
            /\ shm' = InsertElem(shm, p, b.addr, listed[i].addr)
            /\ listed' = InsertAt(listed, i, Listed(b))
    /\ held' = [held EXCEPT ![p] = @ \ {b}]
    /\ UNCHANGED listFrame

Get(p) ==
    /\ p \in Receivers /\ gate = None /\ ~ IsEmpty(shm, p, ListHead)
    /\ \/ /\ shm' = GetHead(shm, p, ListHead)
          /\ held' = [held EXCEPT ![p] = @ \cup {Listed(Head(listed))}]
          /\ listed' = Tail(listed)
       \/ /\ shm' = GetTail(shm, p, ListHead)
          /\ held' = [held EXCEPT ![p] = @ \cup {Listed(Last(listed))}]
          /\ listed' = Front(listed)
    /\ UNCHANGED listFrame

\* The sender takes back what it put: TransportShm_put, when the event cannot be sent.
Retract(p, i) ==
    /\ p \in Senders /\ gate = None /\ i \in DOMAIN listed
    /\ shm' = RemoveElem(shm, p, listed[i].addr)
    /\ held' = [held EXCEPT ![p] = @ \cup {listed[i]}]
    /\ listed' = RemoveAt(listed, i)
    /\ UNCHANGED listFrame

\* The holder reads the message: its lines are in the cache.
Read(p, b) ==
    /\ Holder(p, b, "own") /\ b.msg # 0
    /\ shm' = FoldSet(LAMBDA a, m : Load(m, p, a), shm, LinesOf(b))
    /\ UNCHANGED <<gate, walk, heap, held, asked, listed, counters>>

CacheEvicts(p, a) ==
    /\ evictions < MaxEvictions
    /\ evictions' = evictions + 1
    /\ Evict(p, a)
    /\ UNCHANGED <<walk, heap, held, asked, listed, written, allocs>>

\* A processor opens the list, without the gate, or asks whether it is empty.
Peek(p) ==
    /\ \/ shm' = OpenByAddr(shm, p, ListHead)
       \/ gate = None /\ shm' = Empty(shm, p, ListHead)
    /\ UNCHANGED <<gate, walk, heap, held, asked, listed, counters>>

-----------------------------------------------------------------------------
HeapStep(p) ==
    \/ \E size \in Sizes, align \in Aligns : MemAllocCall(p, size, align)
    \/ MemAllocNext(p) \/ MemAllocTake(p) \/ MemAllocFail(p)
    \/ \E size \in Sizes : BufAllocCall(p, size)
    \/ \E b \in held[p] : FreeCall(p, b) \/ MemFreeEnter(p, b) \/ BufFreeEnter(p, b)
    \/ MemFreeNext(p) \/ MemFreeLink(p)

MessageStep(p) ==
    \/ \E b \in held[p] : Write(p, b) \/ Flush(p, b) \/ Put(p, b) \/ Read(p, b)
    \/ Get(p)
    \/ \E i \in DOMAIN listed : Retract(p, i)

CacheStep(p) == \E a \in Lines : CacheEvicts(p, a)

Next == \E p \in Procs : HeapStep(p) \/ MessageStep(p) \/ CacheStep(p) \/ Peek(p)

Spec == Init /\ [][Next]_vars

-----------------------------------------------------------------------------
(* Properties                                                               *)

Taken == UNION {LinesOf(b) : b \in Blocks}
Free == Buffer \ Taken

\* What memory holds of a list: from line a, at most n links on, until the line end.
Chain(a, end, link(_), n) ==
    LET walked[i \in 0 .. n] ==
          IF i = 0 THEN <<a>>
          ELSE IF Last(walked[i - 1]) = end THEN walked[i - 1]
          ELSE Append(walked[i - 1], link(Last(walked[i - 1])))
    IN Front(walked[n])

Starts == {a \in Free : a - 1 \notin Free}
Run(a) == CHOOSE n \in 1 .. HeapLines : a .. a + n - 1 \subseteq Free /\ a + n \notin Free

\* No two blocks overlap, and between two operations memory describes what is free: the
\* list of HeapMemMP has one header for each gap between the blocks, in the order of their
\* addresses and with its size, two free blocks that touch having been joined; the list
\* of HeapBufMP has the free blocks, and as many as its counter says.
HeapIntact ==
    LET Next1(a) == shm.memory[a].next
        gaps     == Chain(shm.memory[HeapHead].next, Null, Next1, HeapLines + 1)
        blocks   == Chain(shm.memory[FreeList].next, FreeList, Next1, NumBlocks + 1)
    IN /\ TypeOK
       /\ \A b, c \in Blocks : b # c => LinesOf(b) \cap LinesOf(c) = {}
       /\ gate = None =>
             IF Mem
             THEN /\ gaps = SetToSortSeq(Starts, <)
                  /\ \A a \in Starts : shm.memory[a].word = Run(a)
             ELSE /\ ToSet(blocks) = BlockAddrs \cap Free
                  /\ TrackAllocs => /\ shm.memory[BufAttrs].data = Len(blocks)
                                    /\ allocs > 0 => shm.memory[BufAttrs].word <= Len(blocks)

\* The list of messages is whole both ways in memory between two operations, and holds
\* exactly the blocks that were put and not taken, in that order.
ListIntact ==
    LET Next1(a) == shm.memory[a].next
        Prev1(a) == shm.memory[a].word
        addrs    == [i \in DOMAIN listed |-> listed[i].addr]
    IN /\ Chain(Next1(ListHead), ListHead, Next1, HeapLines + 1) = addrs
       /\ Chain(Prev1(ListHead), ListHead, Prev1, HeapLines + 1) = Reverse(addrs)

\* The lines of a message that its holder can rely on: all of them in a block of HeapBufMP
\* or in one it wrote itself; the first one, which the list invalidates, in a block of
\* HeapMemMP that came from another processor.
Coherent(p, b) == IF ~ Mem \/ b.writer = p THEN LinesOf(b) ELSE {b.addr}

\* A processor that has a message reads what was last written to it.
ReadsLastWrite ==
    \A p \in Procs : \A b \in held[p] :
        b.msg # 0 /\ b.stage # "dropped"
            => \A a \in Coherent(p, b) : Seen(shm, p, a).data = b.msg

\* HeapMemMP_alloc returns NULL only if no gap has room for the block.
AllocFailsOnlyWhenFull ==
    [][\A p \in Procs : MemAllocFail(p) =>
        ~ \E a \in Buffer : a % walk.align = 0 /\ a .. a + walk.lines - 1 \subseteq Free]_vars
=============================================================================
