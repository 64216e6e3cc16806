----------------------------- MODULE MCMatching -----------------------------
(***************************************************************************)
(* A small instance of MatchingEngine for TLC: two accounts, two prices,   *)
(* quantities of one and two, every time in force, market orders, and one  *)
(* request for each way validate refuses an order.                         *)
(***************************************************************************)
EXTENDS MatchingEngine, TLC

CONSTANTS Alice, Bob

MCAccounts == {Alice, Bob}
Symmetry == Permutations(MCAccounts)

Limit(tifs, quantities) ==
  [account : MCAccounts, side : Sides, type : {"limit"}, tif : tifs,
   price : {1, 2}, qty : quantities]

MarketRequests ==
  [account : MCAccounts, side : Sides, type : {"market"}, tif : {"gtc"},
   price : {0}, qty : {2}]

Refused ==
  {[account |-> a, side |-> "buy", type |-> "stop_limit", tif |-> "gtc",
    price |-> 1, qty |-> 1] : a \in MCAccounts}
  \cup {[account |-> a, side |-> "buy", type |-> "limit", tif |-> "gtc",
         price |-> 0, qty |-> 1] : a \in MCAccounts}
  \cup {[account |-> a, side |-> "sell", type |-> "market", tif |-> "fok",
         price |-> 0, qty |-> 0] : a \in MCAccounts}

MCRequests ==
  Limit({"gtc"}, {1, 2}) \cup Limit({"ioc", "fok"}, {2})
  \cup MarketRequests \cup Refused
=============================================================================
