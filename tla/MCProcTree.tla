----------------------------- MODULE MCProcTree ------------------------------
(***************************************************************************)
(* Small instances of ProcTree.                                            *)
(***************************************************************************)
EXTENDS ProcTree
==============================================================================
