--------------------------- MODULE MCCborTransfer ---------------------------
(* A small instance of CborTransfer for TLC; the .cfg file gives the values. *)
EXTENDS CborTransfer
=============================================================================
