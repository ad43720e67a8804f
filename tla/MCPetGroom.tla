----------------------------- MODULE MCPetGroom ------------------------------
(***************************************************************************)
(* A small instance of PetGroom.                                           *)
(***************************************************************************)
EXTENDS PetGroom
==============================================================================
