------------------------------ MODULE MCBcache -------------------------------
(*****************************************************************************)
(* A small instance of Bcache.                                               *)
(*****************************************************************************)
EXTENDS Bcache
==============================================================================
