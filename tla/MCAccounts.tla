----------------------------- MODULE MCAccounts -----------------------------
(***************************************************************************)
(* A small instance of Accounts for TLC: two users, one with an address    *)
(* the other one wants, events under a name before it registers, a restart *)
(* of either service and a failed statement.                               *)
(***************************************************************************)
EXTENDS Accounts

MCRegistrants ==
  {[name |-> "alice", email |-> "a@x"], [name |-> "bob", email |-> "b@x"],
   [name |-> "bob", email |-> "a@x"]}
=============================================================================
