SPECIFICATION Spec
CONSTANTS
    p1 = p1
    p2 = p2
    Procs = {p1, p2}
    Lines = {1, 2, 3, 4, 5, 6, 7, 8}
    Miss = Miss
    None = None
    NumBlocks = 2
    BlockLines = 2
    FreeList = 6
    BufAttrs = 7
    TrackAllocs = TRUE
    HeapLines = 4
    HeapHead = 5
    LineSize = 2
    Senders = {p1}
    Receivers = {p2}
    ListHead = 8
    Heaps = {"HeapMemMP", "HeapBufMP"}
    Sizes = {2, 4}
    Aligns = {1, 2}
    MaxMemMessages = 1
    MaxBufMessages = 2
    MaxAllocs = 3
    MaxEvictions = 1
INVARIANTS HeapIntact ListIntact ReadsLastWrite
PROPERTIES AllocFailsOnlyWhenFull
CHECK_DEADLOCK FALSE
