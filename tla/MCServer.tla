------------------------------ MODULE MCServer ------------------------------
(***************************************************************************)
(* Two clients, both workers, and sockets that hold one answer.            *)
(***************************************************************************)
EXTENDS Server, TLC

CONSTANTS a, b
=============================================================================
