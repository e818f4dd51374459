----------------------------- MODULE MCClients -----------------------------
(***************************************************************************)
(* Five requests of two workers, a shell, or a monitor; one restart.       *)
(***************************************************************************)
EXTENDS Clients, TLC
=============================================================================
