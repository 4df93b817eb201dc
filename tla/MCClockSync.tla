----------------------------- MODULE MCClockSync ----------------------------
(* Small instances of ClockSync for TLC; the .cfg files give the values. *)
EXTENDS ClockSync
=============================================================================
