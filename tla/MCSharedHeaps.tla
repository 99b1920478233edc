---------------------------- MODULE MCSharedHeaps ----------------------------
(* A buffer of four lines, as two blocks of two lines in HeapBufMP.         *)
EXTENDS SharedHeaps

CONSTANTS p1, p2

=============================================================================
