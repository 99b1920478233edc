------------------------------- MODULE ListMP -------------------------------
(***************************************************************************)
(* packages/ti/sdo/ipc/ListMP.c: a doubly linked list of lines in shared   *)
(* memory around a head line.  An operation runs inside the gate of the    *)
(* list; it is given the state m of memory and caches on entry and the     *)
(* processor p, and yields the state when it leaves the gate.              *)
(*                                                                         *)
(* The head is never invalidated before it is read: every operation and    *)
(* every open leaves it out of the cache.                                  *)
(***************************************************************************)
EXTENDS SharedMemory

\* The head points to itself.
ElemClear(m, l) == [m EXCEPT !.memory[l].next = l, !.memory[l].word = l]

\* A processor that opens the list reads status and gate, which lie in the line of the
\* head, and invalidates it again.
OpenByAddr(m, p, l) == Inv(Load(Inv(m, p, {l}), p, l), p, {l})

IsEmpty(m, p, l) == Seen(m, p, l).next = l

Empty(m, p, l) == Inv(Load(m, p, l), p, {l})

FirstElem(m, p, l) == Seen(m, p, l).next
LastElem(m, p, l)  == Seen(m, p, l).word

GetHead(m, p, l) ==
    LET first  == FirstElem(m, p, l)
        m1     == Load(Inv(Load(m, p, l), p, {first}), p, first)
        second == Seen(m1, p, first).next
        m2     == Inv(m1, p, {second})
        m3     == SetNext(m2, p, l, second)
        m4     == SetWord(m3, p, second, Seen(m3, p, first).word)
    IN IF first = l THEN WbInv(Load(m, p, l), p, {l})
       ELSE WbInv(m4, p, {second, l})

GetTail(m, p, l) ==
    LET last == LastElem(m, p, l)
        m1   == Load(Inv(Load(m, p, l), p, {last}), p, last)
        prev == Seen(m1, p, last).word
        m2   == Inv(m1, p, {prev})
        m3   == SetWord(m2, p, l, prev)
        m4   == SetNext(m3, p, prev, Seen(m3, p, last).next)
    IN IF last = l THEN WbInv(Load(m, p, l), p, {l})
       ELSE WbInv(m4, p, {prev, l})

Link_unwritten(m, p, prev, e, next) ==
    LET m1 == SetWord(SetNext(m, p, e, next), p, e, prev)
        m2 == SetWord(SetNext(m1, p, prev, e), p, next, e)
    IN WbInv(m2, p, {prev, next})

\* The element is written between its neighbours and all three are written back.
Link(m, p, prev, e, next) ==
    LET m1 == SetWord(SetNext(m, p, e, next), p, e, prev)
        m2 == SetWord(SetNext(m1, p, prev, e), p, next, e)
    IN WbInv(m2, p, {prev, e, next})

PutTail(m, p, l, e) ==
    LET prev == LastElem(m, p, l) IN Link(Inv(Load(m, p, l), p, {prev}), p, prev, e, l)

PutHead(m, p, l, e) ==
    LET next == FirstElem(m, p, l) IN Link(Inv(Load(m, p, l), p, {next}), p, l, e, next)

\* Before cur.
InsertElem(m, p, e, cur) ==
    LET m1   == Load(Inv(m, p, {cur}), p, cur)
        prev == Seen(m1, p, cur).word
    IN Link(Inv(m1, p, {prev}), p, prev, e, cur)

\* The neighbours are read from the element as the processor sees it.
RemoveElem(m, p, e) ==
    LET prev == Seen(m, p, e).word
        next == Seen(m, p, e).next
        m1   == Inv(Load(m, p, e), p, {prev, next})
        m2   == SetWord(SetNext(m1, p, prev, next), p, next, prev)
    IN WbInv(m2, p, {prev, next})
=============================================================================
