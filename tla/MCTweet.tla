------------------------------- MODULE MCTweet -------------------------------
(***************************************************************************)
(* Small instances of Tweet.                                               *)
(***************************************************************************)
EXTENDS Tweet
==============================================================================
