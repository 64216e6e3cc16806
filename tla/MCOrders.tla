------------------------------ MODULE MCOrders ------------------------------
(***************************************************************************)
(* A small instance of OrderManagement for TLC: two users, one of whom     *)
(* trades against its own bid, GTC, IOC and fill-or-kill orders, and a     *)
(* withdrawal.                                                             *)
(***************************************************************************)
EXTENDS OrderManagement

CONSTANTS Alice, Bob

MCAccounts == {Alice, Bob}

MCOpening == [a \in (MCAccounts \cup {Sink}) \X {"base", "quote"} |->
                IF a[1] = Sink \/ a = <<Alice, "base">> THEN 0 ELSE 4]

Req(coid, account, side, tif, price, qty) ==
  [coid |-> coid, account |-> account, side |-> side, market |-> FALSE, tif |-> tif,
   price |-> price, reference |-> price, qty |-> qty]

MCRequests ==
  {Req("a1", Alice, "buy", "gtc", 3, 2),
   Req("b1", Bob, "sell", "fok", 3, 1),
   Req("a2", Alice, "sell", "ioc", 3, 1)}

\* Alice has what one of her two orders costs.
TwoPurchases ==
  {Req("b1", Bob, "sell", "gtc", 3, 4),
   Req("a1", Alice, "buy", "gtc", 3, 2),
   Req("a2", Alice, "buy", "gtc", 3, 2)}

\* Bob gives two orders the same client order id.
OneIdTwice ==
  {Req("b1", Bob, "buy", "gtc", 3, 1),
   Req("b1", Bob, "buy", "gtc", 2, 2),
   Req("a1", Alice, "buy", "gtc", 3, 1)}

MCWithdrawals == {[id |-> 0, account |-> Bob, asset |-> "quote", amount |-> -1]}

Outcomes(list) ==
  {o \in [enqueued : BOOLEAN, confirmed : BOOLEAN] : <<o.enqueued, o.confirmed>> \in list}

\* Confirmed, or refused by the broker.
Answered == Outcomes({<<TRUE, TRUE>>, <<FALSE, FALSE>>})
Confirmed == Outcomes({<<TRUE, TRUE>>})
=============================================================================
