----------------------------- MODULE MCNoteLock -----------------------------
(* The instance of NoteLock for TLC: its constants are numbers. *)
EXTENDS NoteLock, TLC
=============================================================================
