------------------------------ MODULE MCMemLib -------------------------------
(***************************************************************************)
(* Small instances of MemLib.                                              *)
(***************************************************************************)
EXTENDS MemLib

(* The properties that end with the first harmful merge need no state after *)
(* it.                                                                      *)
Unmerged == ~merged
==============================================================================
