--------------------------- MODULE MCGatePetersonN ---------------------------
(* Three processors, so two stages; two threads compete inside processor 0. *)
EXTENDS GatePetersonN, TLC

CONSTANTS t1, t2, t3, t4

MCThreads == {t1, t2, t3, t4}
MCOn == (t1 :> 0) @@ (t2 :> 0) @@ (t3 :> 1) @@ (t4 :> 2)
=============================================================================
