---------------------------- MODULE MCRPMessage ----------------------------
\* Two senders, one endpoint with a queue and one with a callback.
EXTENDS RPMessage, TLC

CONSTANTS s1, s2, e1, c1, a1, a2, a3, a4, l1, b1, b2, b3

MCSends    == (s1 :> {a1, a2}) @@ (s2 :> {a3, a4, l1})
MCDstEndpt == (b1 :> e1) @@ (b2 :> c1) @@ (b3 :> e1) @@ (l1 :> e1)
=============================================================================
