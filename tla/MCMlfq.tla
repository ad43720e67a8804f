------------------------------- MODULE MCMlfq --------------------------------
(*****************************************************************************)
(* Small instances of Mlfq.                                                  *)
(*****************************************************************************)
EXTENDS Mlfq
==============================================================================
