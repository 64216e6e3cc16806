------------------------------ MODULE MCMerkle ------------------------------
(***************************************************************************)
(* MerkleWindows with its bounds, for TLC.                                 *)
(***************************************************************************)
EXTENDS MerkleWindows
=============================================================================
