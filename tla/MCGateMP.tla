------------------------------- MODULE MCGateMP -------------------------------
(* Two threads on one processor and one on another; addresses are alike.    *)
EXTENDS GateMP, TLC

CONSTANTS p1, p2, t1, t2, u1, b1, b2, b3

MCOn == (t1 :> p1) @@ (t2 :> p1) @@ (u1 :> p2)
\* Bound: not both of the conditions the properties leave out, in one behaviour.
Bound == ~(raced /\ exhausted)
Alike == Permutations(Blocks) \cup Permutations({t1, t2})
=============================================================================
