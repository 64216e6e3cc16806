----------------------------- MODULE OrderBook -----------------------------
(***************************************************************************)
(* The central limit order book of one pair (pkg/orderbook): the levels of *)
(* one side and the operations on them, as operators on values.            *)
(*                                                                         *)
(* A side is a slice of price levels in priority order, best price first;  *)
(* a level is a price and the FIFO of the orders resting at it. The Go     *)
(* slices hold pointers to Order objects: here they hold order ids, and    *)
(* the objects are a heap kept by the module that uses the book            *)
(* (MatchingEngine). Amounts and prices are natural numbers: the int64     *)
(* fixed-point representation of pkg/money is not modelled here.           *)
(*                                                                         *)
(* Operators named Wrong... are seeded faults, used only to test that the  *)
(* properties notice them.                                                 *)
(***************************************************************************)
EXTENDS Integers, SequencesExt

CONSTANT NoOrder   \* Go's nil *Order

Sides == {"buy", "sell"}

\* exchange.Side.Opposite
Opposite(s) == IF s = "buy" THEN "sell" ELSE "buy"

\* Price p has strictly better priority than q on side s: bids are kept in
\* descending price order and asks in ascending order.
Better(s, p, q) == IF s = "buy" THEN p > q ELSE p < q

\* bookSide.locate: sort.Search finds the first level whose price is not
\* strictly better than `price`, or the position after the last level.
Locate(s, levels, price) ==
  Min({i \in 1..Len(levels) : ~Better(s, levels[i].price, price)}
        \cup {Len(levels) + 1})

\* locate's second result: a level for exactly this price exists.
HasLevel(s, levels, price) ==
  LET i == Locate(s, levels, price)
  IN  i <= Len(levels) /\ levels[i].price = price

\* bookSide.add: append to the level of this price, or insert a new level
\* where locate says.
Add(s, levels, id, price) ==
  LET i == Locate(s, levels, price)
  IN  IF HasLevel(s, levels, price)
      THEN [levels EXCEPT ![i].orders = Append(@, id)]
      ELSE InsertAt(levels, i, [price |-> price, orders |-> <<id>>])

\* bookSide.front: the oldest order of the best level.
FrontOrder(levels) == IF levels = <<>> THEN NoOrder ELSE levels[1].orders[1]

\* bookSide.popFront: drop the oldest order of the best level, and the level
\* with it when that leaves the level empty.
WrongPopNewest(levels) ==
  IF levels = <<>> THEN levels
  ELSE IF Len(levels[1].orders) = 1 THEN Tail(levels)
  ELSE [levels EXCEPT ![1].orders = Front(@)]

PopFront(levels) ==
  IF levels = <<>> THEN levels
  ELSE IF Len(levels[1].orders) = 1 THEN Tail(levels)
  ELSE [levels EXCEPT ![1].orders = Tail(@)]

\* bookSide.remove reports whether it found the order at its price ...
Holds(s, levels, id, price) ==
  /\ HasLevel(s, levels, price)
  /\ Contains(levels[Locate(s, levels, price)].orders, id)

\* ... and takes it out of its level, dropping a level left empty.
RemoveOrder(s, levels, id, price) ==
  LET i == Locate(s, levels, price)
  IN  IF ~Holds(s, levels, id, price) THEN levels
      ELSE IF Len(levels[i].orders) = 1 THEN RemoveAt(levels, i)
      ELSE [levels EXCEPT ![i].orders = RemoveFirst(@, id)]

\* The ids resting on a side, and the same ids in priority order (one side
\* of OrderBook.AllOrders).
Resting(levels) == UNION {ToSet(levels[i].orders) : i \in DOMAIN levels}

WrongNewestFirst(levels) ==
  FlattenSeq([i \in DOMAIN levels |-> Reverse(levels[i].orders)])

InPriorityOrder(levels) ==
  FlattenSeq([i \in DOMAIN levels |-> levels[i].orders])
=============================================================================
