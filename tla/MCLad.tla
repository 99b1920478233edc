-------------------------------- MODULE MCLad --------------------------------
(* Three clients for two slots.                                             *)
EXTENDS Lad

CONSTANTS c1, c2, c3
=============================================================================
