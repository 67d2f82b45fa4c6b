------------------------------- MODULE MCWords -------------------------------
(***************************************************************************)
(* Constants for checking Words.tla: every byte type of the table.         *)
(***************************************************************************)
EXTENDS Words

AllBytes == 0..Space
=============================================================================
