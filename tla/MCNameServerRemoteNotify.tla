---------------------- MODULE MCNameServerRemoteNotify ----------------------
\* Two processors that query each other: the first holds nothing, the second a static
\* name and one that its owner adds and removes.
EXTENDS NameServerRemoteNotify, TLC

CONSTANTS c1, c2, c3, o1, n1, n2, v1

MCClients  == {c1, c2, c3}
MCOwners   == {o1}
MCHome     == (c1 :> 0) @@ (c2 :> 0) @@ (c3 :> 1) @@ (o1 :> 1)
MCAttached == (0 :> {}) @@ (1 :> {0})
MCStatic   == (0 :> << >>) @@ (1 :> <<[name |-> n1, value |-> <<n1, v1>>]>>)
=============================================================================
