----------------------------- MODULE MCDelivery -----------------------------
(* A trade, a credit and two books; and the two events of one order.       *)
EXTENDS EventDelivery

E(rk, tx) == [rk |-> rk, tx |-> tx]
Book(seq) == [rk |-> "book.updated", tx |-> "", seq |-> seq]

MCTrades == <<E("trade.executed", "t1"), E("faucet.credit", "f1"), Book(1), Book(2)>>
MCOrder == <<E("order.accepted", "o1"), E("order.filled", "o1")>>
MCMaxLength == [ledger |-> 1, market |-> 2]
=============================================================================
