----------------------------- MODULE MCPmodCan ------------------------------
(* A small instance of PmodCan for TLC; the .cfg file gives the values. *)
EXTENDS PmodCan
=============================================================================
