----------------------------- MODULE AccountBook -----------------------------
(***************************************************************************)
(* What the ledger promises to the services that hand it trades and        *)
(* credits, without postings: each transfer moves the funds of all its     *)
(* accounts at once, and it does so once, however often it is delivered.   *)
(***************************************************************************)
EXTENDS Integers

CONSTANTS LedgerAccounts,
          Transfers,  \* set of [id, delta], delta a function of the accounts
          Opening     \* the funds before the first transfer
VARIABLES applied,    \* the ids of the transfers made
          funds       \* what each account holds

vars == <<applied, funds>>

Init == applied = {} /\ funds = Opening

Apply(t) ==
  /\ t.id \notin applied
  /\ applied' = applied \cup {t.id}
  /\ funds' = [a \in LedgerAccounts |-> funds[a] + t.delta[a]]

Next == \E t \in Transfers : Apply(t)

Spec == Init /\ [][Next]_vars
=============================================================================
