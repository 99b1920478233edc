------------------------------ MODULE HeapBufMP ------------------------------
(***************************************************************************)
(* packages/ti/sdo/ipc/heaps/HeapBufMP.c: a heap of NumBlocks blocks of    *)
(* BlockLines lines each, the free ones on a ListMP.  With trackAllocs the *)
(* line of the attributes counts the free blocks and the fewest there      *)
(* ever were: numFreeBlocks is kept in data, minFreeBlocks in word.        *)
(***************************************************************************)
EXTENDS ListMP

CONSTANTS NumBlocks, BlockLines,        \* the blocks
          FreeList, BufAttrs,           \* line of the free list's head, of the counters
          TrackAllocs                   \* whether the heap counts

NeverTracked == NumBlocks + 1           \* (UInt)-1: above every count

BlockAddr(i) == IF i \in 1 .. NumBlocks THEN 1 + (i - 1) * BlockLines ELSE FreeList
BlockAddrs == {BlockAddr(i) : i \in 1 .. NumBlocks}

\* postInit puts the blocks on the free list in the order of their addresses.
BufPostInit(memory) ==
    [a \in DOMAIN memory |->
        IF a = BufAttrs THEN [next |-> Null, word |-> NeverTracked, data |-> NumBlocks]
        ELSE IF a = FreeList
             THEN [next |-> BlockAddr(1), word |-> BlockAddr(NumBlocks), data |-> 0]
        ELSE IF a \in BlockAddrs
             THEN LET i == CHOOSE i \in 1 .. NumBlocks : a = BlockAddr(i)
                  IN [next |-> BlockAddr(i + 1), word |-> BlockAddr(i - 1), data |-> 0]
        ELSE memory[a]]

\* The counters are invalidated, changed and written back.
Recount(m, p, num) ==
    LET m1   == Inv(m, p, {BufAttrs})
        old  == Seen(m1, p, BufAttrs)
        free == old.data + num
        line == [old EXCEPT !.data = free,
                            !.word = IF num < 0 /\ free < @ THEN free ELSE @]
    IN IF TrackAllocs THEN WbInv(Store(m1, p, BufAttrs, line), p, {BufAttrs}) ELSE m

\* HeapBufMP_alloc of at most BlockLines lines: the first free block, address NextBlock.
NextBlock(p) == FirstElem(shm, p, FreeList)

BufAlloc(p) ==
    /\ gate = None /\ ~ IsEmpty(shm, p, FreeList)
    /\ shm' = Recount(GetHead(shm, p, FreeList), p, 0 - 1)
    /\ UNCHANGED gate

\* HeapBufMP_free: the whole block leaves the cache before the gate is entered.  Its
\* size is read from the attributes, which brings them into the cache.
BufFreeInv(p, A) ==
    /\ shm' = Inv(Load(shm, p, BufAttrs), p, A)
    /\ UNCHANGED gate

BufFree(p, addr) ==
    /\ gate = None
    /\ shm' = Recount(PutTail(shm, p, FreeList, addr), p, 1)
    /\ UNCHANGED gate
=============================================================================
