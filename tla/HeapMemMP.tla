------------------------------ MODULE HeapMemMP ------------------------------
(***************************************************************************)
(* packages/ti/sdo/ipc/heaps/HeapMemMP.c: a heap of blocks of any size.    *)
(* Each free block begins with a header; the headers form a list in the    *)
(* order of their addresses, and two free blocks that touch are joined.    *)
(* An operation walks the list inside the gate, one header a step.         *)
(***************************************************************************)
EXTENDS SharedMemory, Integers

CONSTANTS HeapLines,    \* lines of the buffer, 1 .. HeapLines
          HeapHead,     \* line of the attributes, with the head of the list
          LineSize      \* requests are not multiples of the line (minAlign)

VARIABLES walk          \* the operation in the gate

Buffer == 1 .. HeapLines

NoWalk == [op |-> "none"]
Walks == {NoWalk}
         \cup [op : {"alloc"}, prev : Lines, cur : Buffer \cup {Null},
               lines : Nat, align : Nat]
         \cup [op : {"free"}, prev : Lines, cur : Buffer \cup {Null},
               addr : Buffer, lines : Nat]

\* A size in lines, and the lines of a block.
RoundUp(size) == (size + LineSize - 1) \div LineSize
BlockOf(addr, size) == addr .. addr + RoundUp(size) - 1

\* HeapMemMP_restore: the buffer is one free block.
MemPostInit(memory) ==
    [memory EXCEPT ![HeapHead] = [next |-> 1, word |-> HeapLines, data |-> 0],
                   ![1] = [next |-> Null, word |-> HeapLines, data |-> 0]]

Leave == gate' = None /\ walk' = NoWalk

-----------------------------------------------------------------------------
(* HeapMemMP_alloc                                                          *)

AllocEnter(p, size, align) ==
    /\ gate = None
    /\ gate' = p
    /\ LET m == Load(Inv(shm, p, {HeapHead}), p, HeapHead)
       IN /\ shm' = m
          /\ walk' = [op |-> "alloc", prev |-> HeapHead, cur |-> Seen(m, p, HeapHead).next,
                      lines |-> RoundUp(size), align |-> align]

\* What alignment makes of the front of the block at a, and what is left behind.
Offset(a, align) == (align - (a % align)) % align
Remain(m, p) == Seen(m, p, walk.cur).word - walk.lines - Offset(walk.cur, walk.align)

Walking(p, op) == gate = p /\ walk.op = op
CurInv(p) == Load(Inv(shm, p, {walk.cur}), p, walk.cur)

AllocNext_exactMissed(p) ==
    /\ Walking(p, "alloc") /\ walk.cur # Null
    /\ LET m == CurInv(p)
       IN /\ Remain(m, p) <= 0
          /\ shm' = m
          /\ walk' = [walk EXCEPT !.prev = walk.cur, !.cur = Seen(m, p, walk.cur).next]
    /\ UNCHANGED gate

\* Too small.
AllocNext(p) ==
    /\ Walking(p, "alloc") /\ walk.cur # Null
    /\ LET m == CurInv(p)
       IN /\ Remain(m, p) < 0
          /\ shm' = m
          /\ walk' = [walk EXCEPT !.prev = walk.cur, !.cur = Seen(m, p, walk.cur).next]
    /\ UNCHANGED gate

AllocAddr == walk.cur + Offset(walk.cur, walk.align)

\* The block is cut out: what is in front of it stays on the list with its header, what
\* is behind gets a header of its own.
AllocTake(p) ==
    /\ Walking(p, "alloc") /\ walk.cur # Null
    /\ LET m0     == CurInv(p)
           next   == Seen(m0, p, walk.cur).next
           remain == Remain(m0, p)
           offset == Offset(walk.cur, walk.align)
           new    == AllocAddr + walk.lines
           m1     == IF remain = 0 THEN m0
                     ELSE WbInv(SetWord(SetNext(m0, p, new, next), p, new, remain), p, {new})
           after  == IF remain = 0 THEN next ELSE new
       IN /\ remain >= 0
          /\ shm' = IF offset = 0 THEN WbInv(SetNext(m1, p, walk.prev, after), p, {walk.prev})
                    ELSE WbInv(SetWord(SetNext(m1, p, walk.cur, after), p, walk.cur, offset),
                               p, {walk.cur})
    /\ Leave

\* The end of the list: NULL.
AllocFail(p) ==
    /\ Walking(p, "alloc") /\ walk.cur = Null
    /\ UNCHANGED shm
    /\ Leave

-----------------------------------------------------------------------------
(* HeapMemMP_free                                                           *)

\* Before the gate: the whole block leaves the cache.
MemFreeInv(p, A) ==
    /\ shm' = Inv(shm, p, A)
    /\ UNCHANGED <<gate, walk>>

FreeEnter(p, addr, size) ==
    /\ gate = None
    /\ gate' = p
    /\ LET m == Load(Inv(shm, p, {HeapHead}), p, HeapHead)
       IN /\ shm' = m
          /\ walk' = [op |-> "free", prev |-> HeapHead, cur |-> Seen(m, p, HeapHead).next,
                      addr |-> addr, lines |-> RoundUp(size)]

FreeNext(p) ==
    /\ Walking(p, "free") /\ walk.cur # Null /\ walk.cur < walk.addr
    /\ LET m == CurInv(p)
       IN /\ shm' = m
          /\ walk' = [walk EXCEPT !.prev = walk.cur, !.cur = Seen(m, p, walk.cur).next]
    /\ UNCHANGED gate

JoinUpper_forgotten(m, p) == m

\* Join with the upper block, whose header is read and stays in the cache.
JoinUpper(m, p) ==
    LET m1 == Load(Inv(m, p, {walk.cur}), p, walk.cur)
    IN IF walk.cur = Null \/ walk.addr + walk.lines # walk.cur THEN m
       ELSE SetWord(SetNext(m1, p, walk.addr, Seen(m1, p, walk.cur).next), p, walk.addr,
                    walk.lines + Seen(m1, p, walk.cur).word)

JoinLower(m, p) ==
    IF walk.prev = HeapHead \/ walk.prev + Seen(m, p, walk.prev).word # walk.addr THEN m
    ELSE SetWord(SetNext(m, p, walk.prev, Seen(m, p, walk.addr).next), p, walk.prev,
                 Seen(m, p, walk.prev).word + Seen(m, p, walk.addr).word)

FreeLink(p) ==
    /\ Walking(p, "free") /\ (walk.cur = Null \/ walk.cur > walk.addr)
    /\ LET m1 == SetWord(SetNext(shm, p, walk.addr, walk.cur), p, walk.addr, walk.lines)
           m2 == SetNext(m1, p, walk.prev, walk.addr)
       IN shm' = WbInv(JoinLower(JoinUpper(m2, p), p), p, {walk.prev, walk.addr})
    /\ Leave
=============================================================================
