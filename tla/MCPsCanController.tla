------------------------- MODULE MCPsCanController --------------------------
(* A small instance of PsCanController for TLC; the .cfg file gives the values. *)
EXTENDS PsCanController
=============================================================================
