------------------------------ MODULE MCJournal ------------------------------
(***************************************************************************)
(* Small instances of Journal for TLC: two commands, a snapshot every two. *)
(***************************************************************************)
EXTENDS Journal, TLC

Symmetry == Permutations(Commands)
=============================================================================
