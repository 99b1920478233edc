---------------------------- MODULE SharedMemory ----------------------------
(***************************************************************************)
(* A shared region with cacheEnable set, as the modules of                 *)
(* packages/ti/sdo/ipc use it: the processors have write-back caches that  *)
(* no hardware keeps coherent, so a module invalidates before it reads and *)
(* writes back after it writes, by Cache_inv and Cache_wbInv.              *)
(*                                                                         *)
(* Blocks are multiples of the cache line (minAlign), so a line is the     *)
(* unit.  Its first two words are next and prev of a ListMP_Elem, or next  *)
(* and size of a HeapMemMP_Header; data is the rest.  A line enters a      *)
(* cache when the processor touches it, and may leave it at any time.      *)
(***************************************************************************)
EXTENDS Naturals

CONSTANTS Procs,        \* the processors
          Lines,        \* addresses of the lines; Null is none of them
          Miss,         \* what a cache holds of a line it does not hold
          None          \* no processor

Null == 0
ASSUME LinesAssumption == Lines \subseteq Nat \ {Null} /\ None \notin Procs

VARIABLES shm,          \* the memory, and a cache for each processor
          gate          \* who is in the default gate, that heaps and lists share

Line == [next : Lines \cup {Null}, word : Nat, data : Nat]
Copy == [line : Line, dirty : BOOLEAN]

SharedMemoryTypeOK ==
    /\ shm \in [memory : [Lines -> Line], cache : [Procs -> [Lines -> Copy \cup {Miss}]]]
    /\ gate \in Procs \cup {None}

-----------------------------------------------------------------------------
(* The operators take and return a state m of the memory and the caches.    *)

Cached(m, p, a) == m.cache[p][a] # Miss

\* What processor p reads at line a.
Seen(m, p, a) == IF Cached(m, p, a) THEN m.cache[p][a].line ELSE m.memory[a]

\* The line is in the cache once it has been read.
Load(m, p, a) ==
    IF Cached(m, p, a) THEN m
    ELSE [m EXCEPT !.cache[p][a] = [line |-> m.memory[a], dirty |-> FALSE]]

Store(m, p, a, line) == [m EXCEPT !.cache[p][a] = [line |-> line, dirty |-> TRUE]]
SetNext(m, p, a, next) == Store(m, p, a, [Seen(m, p, a) EXCEPT !.next = next])
SetWord(m, p, a, word) == Store(m, p, a, [Seen(m, p, a) EXCEPT !.word = word])

\* Cache_inv: the copies of the lines of A are dropped, dirty or not.
Inv(m, p, A) ==
    [m EXCEPT !.cache[p] = [a \in Lines |-> IF a \in A THEN Miss ELSE m.cache[p][a]]]

\* Cache_wbInv: the dirty ones are written to memory first.
WbInv(m, p, A) ==
    [Inv(m, p, A) EXCEPT !.memory =
        [a \in Lines |-> IF a \in A /\ Cached(m, p, a) /\ m.cache[p][a].dirty
                         THEN m.cache[p][a].line ELSE m.memory[a]]]

\* The cache makes room: the line leaves it, a dirty one to memory.
Evict(p, a) ==
    /\ Cached(shm, p, a)
    /\ shm' = WbInv(shm, p, {a})
    /\ UNCHANGED gate
=============================================================================
