-------------------------- MODULE MCNotifyDriverCirc --------------------------
(* The sending threads, for the configurations of NotifyDriverCirc. *)
EXTENDS NotifyDriverCirc

CONSTANTS s1, s2
=============================================================================
