--------------------------- MODULE MatchingEngine ---------------------------
(***************************************************************************)
(* The matching engine of one pair (pkg/matching/engine.go) over its book. *)
(*                                                                         *)
(* The engine is called by one goroutine at a time (the service holds the  *)
(* pair's lock), so a call of Process is a run of steps nothing can come   *)
(* between: Begin (the checks before the loop), one step per iteration of  *)
(* the matching loop, and Finalize. taker is the order of the call in      *)
(* progress; every other operation waits for taker = NoOrder.              *)
(*                                                                         *)
(* order is the heap of Order objects still referenced: the resting ones   *)
(* and those of the last call. An order's id is its position in the input  *)
(* (Order.Sequence), which the sequencer assigns and never reuses.         *)
(***************************************************************************)
EXTENDS OrderBook, FiniteSetsExt

CONSTANTS Accounts,
          Requests,  \* the orders clients may submit: see RequestType
          MaxOrders  \* bound on how many are submitted

\* What a client chooses of an order. tif matters to limit orders only in
\* Finalize, and to both types in Begin. Types other than limit and market
\* exist in exchange.OrderType and are refused by validate.
RequestType ==
  [account : Accounts, side : Sides, type : {"limit", "market", "stop_limit"},
   tif : {"gtc", "ioc", "fok"}, price : Nat, qty : Nat]

ASSUME RequestsAssumption == Requests \subseteq RequestType
ASSUME BoundAssumption == MaxOrders \in Nat
ASSUME NoOrderAssumption == NoOrder \notin Nat

VARIABLES order,     \* heap: id -> request, filled, status
          levels,    \* bookSide.levels of each side
          index,     \* OrderBook.index: the ids that can be canceled
          tradeSeq,  \* Engine.tradeSeq
          nextSeq,   \* the sequencer's next number
          taker,     \* the order Process is working on
          trades,    \* Result.Trades of the last call
          fills,     \* Result.Fills of the last call
          canceledMakers  \* Result.CanceledMakers of the last call

result == <<trades, fills, canceledMakers>>
vars == <<order, levels, index, tradeSeq, nextSeq, taker, result>>

Remaining(o) == o.qty - o.filled

\* updateStatus
WithStatus(o) ==
  [o EXCEPT !.status = IF Remaining(o) = 0 THEN "filled"
                       ELSE IF o.filled > 0 THEN "partially_filled" ELSE "new"]

\* validate. The service routes an order to the engine of its pair, so the
\* pair check cannot fail; the gateway admits only the two sides.
Valid(r) ==
  /\ r.qty > 0
  /\ \/ r.type = "limit" /\ r.price > 0
     \/ r.type = "market"

\* crosses
Crosses(t, price) ==
  \/ t.type = "market"
  \/ IF t.side = "buy" THEN t.price >= price ELSE t.price <= price

\* What is left of each order.
OpenQty == [id \in DOMAIN order |-> Remaining(order[id])]

\* priceLevel.totalQty of each level, as L2 reports it
LevelQty(lv) == [i \in DOMAIN lv |-> SumFunctionOnSet(OpenQty, ToSet(lv[i].orders))]

\* canFullyFill: walk the aggregated levels in priority order while they
\* cross, whoever owns the orders in them.
WrongCanFullyFill(t) ==
  LET opposite == levels[Opposite(t.side)]
  IN  SumFunctionOnSet(LevelQty(opposite), DOMAIN opposite) >= t.qty

CanFullyFill(t) ==
  LET opposite == levels[Opposite(t.side)]
      crossing == {i \in DOMAIN opposite : Crosses(t, opposite[i].price)}
  IN  SumFunctionOnSet(LevelQty(opposite), crossing) >= t.qty

-----------------------------------------------------------------------------

Init ==
  /\ order = <<>>
  /\ levels = [s \in Sides |-> <<>>]
  /\ index = {}
  /\ tradeSeq = 0
  /\ nextSeq = 1
  /\ taker = NoOrder
  /\ trades = <<>> /\ fills = <<>> /\ canceledMakers = <<>>

NewOrder(r, status) ==
  [account |-> r.account, side |-> r.side, type |-> r.type, tif |-> r.tif,
   price |-> r.price, qty |-> r.qty, filled |-> 0, status |-> status]

\* A sequenced order reaches Process with a fresh Result; orders no longer in
\* the book are garbage.
Receive(r, status) ==
  /\ taker = NoOrder
  /\ nextSeq <= MaxOrders
  /\ nextSeq' = nextSeq + 1
  /\ order' = [i \in index \cup {nextSeq} |->
                 IF i = nextSeq THEN NewOrder(r, status) ELSE order[i]]
  /\ trades' = <<>> /\ fills' = <<>> /\ canceledMakers' = <<>>
  /\ UNCHANGED <<levels, index, tradeSeq>>

\* Process refuses an invalid order, and a fill-or-kill order the book cannot
\* fill, without touching the book.
Reject(r) ==
  /\ ~Valid(r) \/ (r.tif = "fok" /\ ~CanFullyFill(r))
  /\ Receive(r, "rejected")
  /\ UNCHANGED taker

Begin(r) ==
  /\ Valid(r)
  /\ r.tif = "fok" => CanFullyFill(r)
  /\ Receive(r, "new")
  /\ taker' = nextSeq

-----------------------------------------------------------------------------
(* The matching loop. *)

Maker == FrontOrder(levels[Opposite(order[taker].side)])

\* The loop's condition and its two breaks.
Matching ==
  /\ taker # NoOrder
  /\ Remaining(order[taker]) > 0
  /\ Maker # NoOrder
  /\ Crosses(order[taker], order[Maker].price)

PopMaker ==
  /\ levels' = [levels EXCEPT ![Opposite(order[taker].side)] = PopFront(@)]
  /\ index' = index \ {Maker}

\* Self-trade prevention: the resting order of the same account is canceled
\* and the loop goes on with the next one.
CancelOwnMaker ==
  /\ Matching
  /\ order[Maker].account = order[taker].account
  /\ PopMaker
  /\ order' = [order EXCEPT ![Maker].status = "canceled"]
  /\ canceledMakers' = Append(canceledMakers, Maker)
  /\ UNCHANGED <<tradeSeq, nextSeq, taker, trades, fills>>

\* fillOf: an execution report is a snapshot of the order after the trade.
WrongFillOf(id, o, price, qty) ==
  [id |-> id, price |-> price, qty |-> qty, filled |-> qty,
   remaining |-> Remaining(o), status |-> o.status]

FillOf(id, o, price, qty) ==
  [id |-> id, price |-> price, qty |-> qty, filled |-> o.filled,
   remaining |-> Remaining(o), status |-> o.status]

\* minAmount of what both sides still want
TradeQty(t, m) == Min({Remaining(t), Remaining(m)})

\* A trade at the maker's price for what both sides still want; a filled
\* maker leaves the book.
Trade ==
  /\ Matching
  /\ order[Maker].account # order[taker].account
  /\ LET qty == TradeQty(order[taker], order[Maker])
         price == order[Maker].price
         t == WithStatus([order[taker] EXCEPT !.filled = @ + qty])
         m == WithStatus([order[Maker] EXCEPT !.filled = @ + qty])
     IN  /\ order' = [order EXCEPT ![taker] = t, ![Maker] = m]
         /\ tradeSeq' = tradeSeq + 1
         /\ trades' = Append(trades, [id |-> tradeSeq', taker |-> taker,
                                      maker |-> Maker, price |-> price, qty |-> qty])
         /\ fills' = fills \o <<FillOf(taker, t, price, qty), FillOf(Maker, m, price, qty)>>
         /\ IF Remaining(m) = 0 THEN PopMaker ELSE UNCHANGED <<levels, index>>
  /\ UNCHANGED <<nextSeq, taker, canceledMakers>>

-----------------------------------------------------------------------------
(* finalize: what becomes of the remainder. *)

Finalize(status, rests) ==
  LET o == order[taker]
  IN  /\ taker # NoOrder /\ ~Matching
      /\ order' = [order EXCEPT ![taker].status = status]
      /\ levels' = IF rests
                   THEN [levels EXCEPT ![o.side] = Add(o.side, @, taker, o.price)]
                   ELSE levels
      /\ index' = IF rests THEN index \cup {taker} ELSE index
      /\ taker' = NoOrder
      /\ UNCHANGED <<tradeSeq, nextSeq, result>>

FinishFilled ==
  /\ taker # NoOrder
  /\ Remaining(order[taker]) = 0
  /\ Finalize("filled", FALSE)

\* Market and immediate-or-cancel orders do not rest.
Immediate(o) == o.type = "market" \/ o.tif = "ioc"

FinishImmediate ==
  /\ taker # NoOrder
  /\ LET o == order[taker]
     IN  /\ Remaining(o) > 0 /\ Immediate(o)
         /\ Finalize(IF o.filled = 0 THEN "canceled" ELSE "partially_filled", FALSE)

\* Every other remainder rests, whatever its time in force.
Rest ==
  /\ taker # NoOrder
  /\ LET o == order[taker]
     IN  /\ Remaining(o) > 0 /\ ~Immediate(o)
         /\ Finalize(WithStatus(o).status, TRUE)

-----------------------------------------------------------------------------

WrongCancel(id) ==
  /\ taker = NoOrder
  /\ index' = index \ {id}
  /\ order' = [i \in index |-> IF i = id THEN [order[i] EXCEPT !.status = "canceled"]
                               ELSE order[i]]
  /\ trades' = <<>> /\ fills' = <<>> /\ canceledMakers' = <<>>
  /\ UNCHANGED <<levels, tradeSeq, nextSeq, taker>>

\* Engine.Cancel of a resting order; an id not in the index is answered
\* ORDER_NOT_FOUND and changes nothing.
Cancel(id) ==
  /\ taker = NoOrder
  /\ id \in index
  /\ LET o == order[id]
     IN  /\ Holds(o.side, levels[o.side], id, o.price)
         /\ levels' = [levels EXCEPT ![o.side] = RemoveOrder(o.side, @, id, o.price)]
         /\ index' = index \ {id}
         /\ order' = [i \in index |-> IF i = id THEN [o EXCEPT !.status = "canceled"]
                                      ELSE order[i]]
  /\ trades' = <<>> /\ fills' = <<>> /\ canceledMakers' = <<>>
  /\ UNCHANGED <<tradeSeq, nextSeq, taker>>

Next ==
  \/ \E r \in Requests : Reject(r) \/ Begin(r)
  \/ CancelOwnMaker
  \/ Trade
  \/ FinishFilled \/ FinishImmediate \/ Rest
  \/ \E id \in index : Cancel(id)

Spec == Init /\ [][Next]_vars
-----------------------------------------------------------------------------
(* Snapshots: the resting orders of both sides in priority order, and the  *)
(* book that Engine.Restore builds by reinserting them one by one.         *)

AllOrders == InPriorityOrder(levels["buy"]) \o InPriorityOrder(levels["sell"])

\* AddResting: an order joins its side of a book, behind those of its price.
AddResting(book, id) ==
  [book EXCEPT ![order[id].side] = Add(order[id].side, @, id, order[id].price)]

Restore(ids) == FoldLeft(AddResting, [s \in Sides |-> <<>>], ids)

-----------------------------------------------------------------------------
(* Properties. *)

OrderType ==
  [account : Accounts, side : Sides, type : {"limit", "market", "stop_limit"},
   tif : {"gtc", "ioc", "fok"}, price : Nat, qty : Nat, filled : Nat,
   status : {"new", "partially_filled", "filled", "canceled", "rejected"}]

Level == [price : Nat, orders : Seq(Nat)]

\* The shape of the state: every order is a known object that is filled at
\* most once over, every order the index or the loop refers to is on the heap.
TypeOK ==
  /\ nextSeq \in Nat \ {0} /\ tradeSeq \in Nat
  /\ DOMAIN order \subseteq 1..(nextSeq - 1)
  /\ \A i \in DOMAIN order : order[i] \in OrderType /\ order[i].filled <= order[i].qty
  /\ levels \in [Sides -> Seq(Level)]
  /\ index \subseteq DOMAIN order
  /\ taker \in (DOMAIN order \ index) \cup {NoOrder}

\* The slices that locate's binary search and front's blind [0] depend on
\* (orderbook.go): levels strictly in priority order, none empty, every order
\* at its own side and price, and each level in order of arrival.
BookWellFormed ==
  \A s \in Sides :
    /\ \A i, j \in DOMAIN levels[s] :
         i < j => Better(s, levels[s][i].price, levels[s][j].price)
    /\ \A i \in DOMAIN levels[s] :
         LET queue == levels[s][i].orders
         IN  /\ queue # <<>>
             /\ \A k \in DOMAIN queue :
                  /\ order[queue[k]].side = s
                  /\ order[queue[k]].price = levels[s][i].price
             /\ \A k, l \in DOMAIN queue : k < l => queue[k] < queue[l]

\* The index and the slices hold the same orders, each once: an order that
\* has left the book cannot be canceled, and one that is in it can.
IndexCoversBook ==
  /\ index = Resting(levels["buy"]) \cup Resting(levels["sell"])
  /\ \A s, t \in Sides : \A i \in DOMAIN levels[s], j \in DOMAIN levels[t] :
       \A k \in DOMAIN levels[s][i].orders, l \in DOMAIN levels[t][j].orders :
         levels[s][i].orders[k] = levels[t][j].orders[l] => s = t /\ i = j /\ k = l

\* Only open limit orders rest, with the status their fills give them; an
\* immediate-or-cancel remainder is never left in the book.
OnlyOpenOrdersRest ==
  \A i \in index :
    /\ Remaining(order[i]) > 0
    /\ order[i].status = WithStatus(order[i]).status
    /\ ~Immediate(order[i])

\* Between calls the book is not crossed: nothing rests that could trade,
\* self-trade prevention and fill-or-kill remainders included.
NotCrossed ==
  taker = NoOrder =>
    \A b \in Resting(levels["buy"]), a \in Resting(levels["sell"]) :
      order[b].price < order[a].price

\* What every call of the engine depends on, in the middle of its loop too: no
\* order is filled more than once over, what the loop refers to exists, and the
\* slices, the queues and the index of the book agree, whatever order the
\* trades, self-trade cancellations and cancels of a history come in.
BookConsistent ==
  TypeOK /\ BookWellFormed /\ IndexCoversBook /\ OnlyOpenOrdersRest /\ NotCrossed

\* The last report of an order in a call tells its real fill ...
LastReportsTrue ==
  \A i \in DOMAIN fills :
    (\A j \in DOMAIN fills : j > i => fills[j].id # fills[i].id) =>
      /\ fills[i].filled = order[fills[i].id].filled
      /\ fills[i].remaining = Remaining(order[fills[i].id])

\* ... the trades add up to the taker's ...
TradesAddUp ==
  fills # <<>> =>
    order[fills[1].id].filled =
      SumFunctionOnSet([i \in DOMAIN trades |-> trades[i].qty], DOMAIN trades)

\* ... so that the execution reports of a call (from which the gateway releases
\* holds) agree with the orders they report and with the trades.
ReportsAgree == LastReportsTrue /\ TradesAddUp

\* A fill-or-kill order that met no order of its own account ends filled or
\* was refused: the check before the loop and the loop agree on liquidity.
FOKFillsWithoutOwnOrders ==
  [][(/\ taker # NoOrder /\ taker' = NoOrder
      /\ order[taker].tif = "fok" /\ canceledMakers = <<>>)
     => order'[taker].status = "filled"]_vars

\* exchange.FOK, "casa tudo ou nada": between calls a fill-or-kill order has
\* executed all of its quantity or none.
FOKAllOrNothing ==
  taker = NoOrder =>
    \A i \in DOMAIN order :
      order[i].tif = "fok" => order[i].filled \in {0, order[i].qty}

\* AllOrders' promise: reinserting a snapshot's orders into an empty book
\* rebuilds the very same levels, so a restored engine matches identically.
RestoreRebuilds == taker = NoOrder => Restore(AllOrders) = levels

\* Price-time priority: the engine implements PriceTimeMarket.
MarketOrder(id) ==
  [id |-> id, account |-> order[id].account, side |-> order[id].side,
   market |-> order[id].type = "market", price |-> order[id].price,
   open |-> Remaining(order[id])]

\* Go's nil is no order.
ASSUME NoOrderIsNone ==
  NoOrder \notin [id : Nat, account : Accounts, side : Sides, market : BOOLEAN,
                  price : Nat, open : Nat]

MarketOrders ==
  [id : 1..MaxOrders, account : Accounts, side : Sides, market : BOOLEAN,
   price : {r.price : r \in Requests}, open : {r.qty : r \in Requests}]

MarketResting ==
  {MarketOrder(id) : id \in Resting(levels["buy"]) \cup Resting(levels["sell"])}
MarketActive == IF taker = NoOrder THEN NoOrder ELSE MarketOrder(taker)
MarketTape ==
  [i \in DOMAIN trades |->
     [taker |-> trades[i].taker, maker |-> trades[i].maker,
      price |-> trades[i].price, qty |-> trades[i].qty]]

Market == INSTANCE PriceTimeMarket WITH
  None <- NoOrder, Orders <- MarketOrders,
  resting <- MarketResting, active <- MarketActive, tape <- MarketTape

ImplementsMarket == Market!Spec
=============================================================================
