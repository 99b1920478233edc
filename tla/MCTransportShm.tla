--------------------------- MODULE MCTransportShm ---------------------------
\* One processor has a writer, the other a reader with a writer beside it.
EXTENDS TransportShm, TLC

CONSTANTS p0, p1, t0, r1, w1, n1, h1, h2, u1

MCHome    == (t0 :> p0) @@ (r1 :> p1) @@ (w1 :> p1)
MCSends   == (t0 :> {h1, h2}) @@ (r1 :> {}) @@ (w1 :> {n1, u1})
MCQueueId == (n1 :> p0) @@ (h1 :> p1) @@ (h2 :> p1) @@ (u1 :> p1)
=============================================================================
