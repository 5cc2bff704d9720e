----------------------------- MODULE MCRecovery -----------------------------
(***************************************************************************)
(* Recovery with two interchangeable clients.                              *)
(***************************************************************************)
EXTENDS Recovery, TLC

ClientSymmetry == Permutations(Clients)
=============================================================================
