-------------------------- MODULE MCNotifyDriverShm --------------------------
(* The threads of the two processors and the events registered at the start, for the
   configurations of NotifyDriverShm. *)
EXTENDS NotifyDriverShm

CONSTANTS s1, s2, t1

LineChart  == <<0, 1>>
CallsChart == <<0, 2>>
=============================================================================
