--------------------------- MODULE PriceTimeMarket ---------------------------
(***************************************************************************)
(* What a matching engine with price-time priority promises, without the   *)
(* book's data structures: a set of resting orders and at most one active  *)
(* (taker) order. Whatever the active order trades with is the best        *)
(* counterparty, at the counterparty's price; it never trades with its own *)
(* account; and it stops only when nothing resting can be traded with.     *)
(***************************************************************************)
EXTENDS Integers, Sequences

CONSTANTS None,   \* no active order
          Orders  \* every order an instance may receive
VARIABLES resting,  \* set of [id, account, side, market, price, open]
          active,   \* an order of the same shape, or None
          tape      \* the trades of the order received last

vars == <<resting, active, tape>>

Against(o) == {m \in resting : m.side # o.side}

\* m is served before n: better price for the counterparty, then arrival.
Before(m, n) ==
  \/ IF m.side = "buy" THEN m.price > n.price ELSE m.price < n.price
  \/ m.price = n.price /\ m.id < n.id

\* The counterparty with the highest priority.
IsBest(m, o) == m \in Against(o) /\ \A n \in Against(o) \ {m} : Before(m, n)

Tradable(o, m) ==
  \/ o.market
  \/ IF o.side = "buy" THEN o.price >= m.price ELSE o.price <= m.price

Init == resting = {} /\ active = None /\ tape = <<>>

\* A new order becomes active; its id is later than every resting order's.
Arrive(o) ==
  /\ active = None
  /\ o.open > 0
  /\ \A m \in resting : m.id < o.id
  /\ active' = o
  /\ tape' = <<>>
  /\ UNCHANGED resting

Refuse ==
  /\ active = None
  /\ tape' = <<>>
  /\ UNCHANGED <<resting, active>>

\* A trade: as much as both sides have open. A filled maker leaves.
Execute(m) ==
  LET q == IF active.open <= m.open THEN active.open ELSE m.open
  IN  /\ active # None
      /\ active.open > 0
      /\ IsBest(m, active)
      /\ Tradable(active, m)
      /\ m.account # active.account
      /\ active' = [active EXCEPT !.open = @ - q]
      /\ resting' = (resting \ {m}) \cup
                    {l \in {[m EXCEPT !.open = @ - q]} : l.open > 0}
      /\ tape' = Append(tape, [taker |-> active.id, maker |-> m.id,
                               price |-> m.price, qty |-> q])

\* The best counterparty is the active order's own account: it is removed.
PreventSelfTrade(m) ==
  /\ active # None
  /\ active.open > 0
  /\ IsBest(m, active)
  /\ Tradable(active, m)
  /\ m.account = active.account
  /\ resting' = resting \ {m}
  /\ UNCHANGED <<active, tape>>

\* The active order is done: filled, or nothing left that it can trade with.
\* What is open of a limit order may rest; a market order never does.
Leave ==
  /\ active # None
  /\ active.open = 0 \/ \A m \in Against(active) : ~Tradable(active, m)
  /\ active' = None
  /\ \/ UNCHANGED resting
     \/ active.open > 0 /\ ~active.market /\ resting' = resting \cup {active}
  /\ UNCHANGED tape

Withdraw(m) ==
  /\ active = None
  /\ resting' = resting \ {m}
  /\ tape' = <<>>
  /\ UNCHANGED active

Next ==
  \/ \E o \in Orders : Arrive(o)
  \/ Refuse
  \/ \E m \in resting : Execute(m) \/ PreventSelfTrade(m) \/ Withdraw(m)
  \/ Leave

Spec == Init /\ [][Next]_vars
=============================================================================
