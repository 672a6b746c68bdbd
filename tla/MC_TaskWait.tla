---------------------------- MODULE MC_TaskWait ----------------------------
(***************************************************************************)
(* Model-checking instance of TaskWait: the constants are model values     *)
(* given in the .cfg files.                                                *)
(***************************************************************************)
EXTENDS TaskWait
=============================================================================
