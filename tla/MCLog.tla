-------------------------------- MODULE MCLog --------------------------------
(*****************************************************************************)
(* A small instance of Log.                                                  *)
(*****************************************************************************)
EXTENDS Log
==============================================================================
