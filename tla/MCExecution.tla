---------------------------- MODULE MCExecution ----------------------------
(* Small instances of Execution for TLC; the constants are in the .cfg. *)
EXTENDS Execution
=============================================================================
