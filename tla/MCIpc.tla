------------------------------- MODULE MCIpc -------------------------------
(* The stages of Ipc_attach, for TLC. *)
EXTENDS Ipc

MCStages == <<"notify", "messageq">>
=============================================================================
