------------------------------ MODULE MCLedger ------------------------------
(***************************************************************************)
(* A small ledger for TLC: two users, three trades between them (two at    *)
(* prices whose notional is truncated), a deposit and a withdrawal, and    *)
(* four orders asking for holds, two of them under the same order id.      *)
(***************************************************************************)
EXTENDS Ledger

CONSTANTS Alice, Bob

MCAccounts == {Alice, Bob}

MCOpening == [a \in LedgerAccounts |-> IF a[1] = Sink THEN -10 ELSE 2]

MCTrades ==
  {[id |-> "t1", buyer |-> Alice, seller |-> Bob, price |-> 3, qty |-> 1],
   [id |-> "t2", buyer |-> Bob, seller |-> Alice, price |-> 1, qty |-> 1],
   [id |-> "t3", buyer |-> Alice, seller |-> Bob, price |-> 2, qty |-> 3]}

MCCredits ==
  {[id |-> "c1", account |-> Alice, asset |-> "quote", amount |-> 2],
   [id |-> "c2", account |-> Bob, asset |-> "base", amount |-> -1]}

MCReservations ==
  {[order |-> "o1", account |-> Alice, asset |-> "quote", amount |-> 2],
   [order |-> "o2", account |-> Alice, asset |-> "quote", amount |-> 1],
   [order |-> "o2", account |-> Bob, asset |-> "base", amount |-> 2],
   [order |-> "o3", account |-> Bob, asset |-> "base", amount |-> 0]}
=============================================================================
