--------------------------- MODULE OrderManagement ---------------------------
(***************************************************************************)
(* An order from the gateway's HTTP handler to its last event: the hold in *)
(* the ledger, the command queue, the engine of one pair, the two event    *)
(* queues, the gateway's consumer (which keeps the projection of the       *)
(* orders and releases holds) and the ledger's consumer (which settles).   *)
(*                                                                         *)
(* It composes Ledger (L) and, for the engine, the market that             *)
(* MatchingEngine is shown to implement (M). What the services do is here: *)
(* cmd/gateway, cmd/matching-engine/service.go and cmd/ledger/main.go.     *)
(* The broker keeps each queue in order and delivers at least once: a      *)
(* consumer may handle a message and lose the acknowledgement. Releases    *)
(* can fail, and the gateway can restart, which empties its projection and *)
(* abandons its handlers. Crashes of the engine are Journal's subject.     *)
(*                                                                         *)
(* Operators named Wrong... are seeded faults, used only to test that the  *)
(* properties notice them.                                                 *)
(***************************************************************************)
EXTENDS Integers, SequencesExt

CONSTANTS
  TradingAccounts, Sink, Scale, MaxInt, Opening, NoRelease,  \* as in Ledger
  Requests,         \* [coid, account, side, market, tif, price, reference, qty]
  Withdrawals,      \* [id, account, asset, amount], amounts negative
  PublishOutcomes,  \* [enqueued, confirmed]: what Publish does and says
  MaxCancels,       \* bound: how many orders users ask to cancel
  MaxFaults,        \* bound: how many releases fail and how often the gateway restarts
  Consumer,         \* the gateway's consumer, as one who releases holds
  NoOrder           \* the engine is between two commands

ASSUME AmountsAssumption == Scale \in Nat /\ MaxInt \in Nat /\ 1 < Scale /\ Scale <= MaxInt
\* handleOrders refuses other requests. A limit order's reference is its limit.
ASSUME RequestsAssumption ==
  \A r \in Requests :
    /\ r.side \in {"buy", "sell"} /\ r.market \in BOOLEAN
    /\ r.price \in Nat /\ r.reference \in Nat /\ r.qty \in Nat \ {0}
    /\ ~r.market => r.reference = r.price
ASSUME ConsumerAssumption == Consumer \notin Requests
\* The engine's orders; NoOrder is none.
Order ==
  [id : Nat, account : {r.account : r \in Requests}, side : {"buy", "sell"},
   market : BOOLEAN, price : Nat, open : Nat]
ASSUME NoOrderAssumption == NoOrder \notin Order

VARIABLES
  balance, reserved, posted, hold, releasing,  \* as in Ledger
  resting, active, tape,                       \* as in PriceTimeMarket
  stage,         \* where the HTTP handler of each request is
  payout,        \* where the HTTP handler of each withdrawal is
  canceling,     \* the orders users asked to cancel
  commands,      \* q.matching.commands
  entered,       \* the placed orders the engine took up: its n-th has order id n
  trades,        \* the trades of the engine, numbered by tradeSeq
  selfCanceled,  \* Result.CanceledMakers of the order being matched
  gatewayQ,      \* q.marketdata.events, as far as orders are concerned
  ledgerQ,       \* q.ledger.events
  orders,        \* VeltraState.orders
  faults,        \* how many releases failed and restarts there were
  unreleased     \* the client order ids whose hold the gateway gave up releasing, or
                 \* will never be told to release

ledgerVars == <<balance, reserved, posted, hold, releasing>>
engineVars == <<resting, active, tape, entered, trades, selfCanceled>>
handlerVars == <<stage, payout, canceling>>
faultVars == <<faults, unreleased>>
vars == <<ledgerVars, engineVars, handlerVars, commands, gatewayQ, ledgerQ, orders, faultVars>>

Callers == {Consumer} \cup Requests
OrderIds == 1..Len(entered)

L == INSTANCE Ledger WITH Trades <- {}, Credits <- Withdrawals, Reservations <- {}
M == INSTANCE PriceTimeMarket WITH None <- NoOrder, Orders <- {}

Init ==
  /\ L!Init /\ M!Init
  /\ stage = [r \in Requests |-> "idle"]
  /\ payout = [w \in Withdrawals |-> "idle"]
  /\ canceling = {}
  /\ commands = <<>> /\ entered = <<>> /\ trades = <<>> /\ selfCanceled = <<>>
  /\ gatewayQ = <<>> /\ ledgerQ = <<>> /\ orders = <<>>
  /\ faults = 0 /\ unreleased = {}

-----------------------------------------------------------------------------
(* The gateway's HTTP handlers. *)

\* What an order of quantity qty may cost its account: a sale the quantity, a
\* purchase the notional at the limit or at the market's reference price.
Cost(r, qty) == IF r.side = "sell" THEN qty ELSE L!Notional(r.reference, qty).amount

\* A purchase whose notional is no int64 is refused.
Priced(r) == r.side = "sell" \/ ~L!Notional(r.reference, r.qty).err

Reservation(r) ==
  [order |-> r.coid, account |-> r.account,
   asset |-> IF r.side = "sell" THEN "base" ELSE "quote", amount |-> Cost(r, r.qty)]

PlaceReserve(r) ==
  /\ stage[r] = "idle"
  /\ \/ /\ Priced(r) /\ L!Reserve(Reservation(r))
        /\ stage' = [stage EXCEPT ![r] = "reserved"]
     \/ /\ ~(Priced(r) /\ L!Reservable(Reservation(r)))
        /\ stage' = [stage EXCEPT ![r] = "refused"]
        /\ UNCHANGED ledgerVars
  /\ UNCHANGED <<engineVars, payout, canceling, commands, gatewayQ, ledgerQ, orders,
                 faultVars>>

Placement(r) == [kind |-> "place", request |-> r]

\* The order is queued, or the handler undoes the hold because publishing failed.
PlacePublish(r) ==
  /\ stage[r] = "reserved"
  /\ \E o \in PublishOutcomes :
       /\ stage' = [stage EXCEPT ![r] = IF o.confirmed THEN "queued" ELSE "undoing"]
       /\ commands' = IF o.enqueued
                      THEN Append(commands, Placement(r))
                      ELSE commands
  /\ UNCHANGED <<ledgerVars, engineVars, payout, canceling, gatewayQ, ledgerQ, orders,
                 faultVars>>

UndoRead(r) ==
  /\ stage[r] = "undoing"
  /\ L!ReleaseRead(r, r.coid)
  /\ stage' = [stage EXCEPT ![r] = "releasing"]
  /\ UNCHANGED <<engineVars, payout, canceling, commands, gatewayQ, ledgerQ, orders,
                 faultVars>>

UndoWrite(r) ==
  /\ stage[r] = "releasing"
  /\ L!ReleaseWrite(r)
  /\ stage' = [stage EXCEPT ![r] = "failed"]
  /\ UNCHANGED <<engineVars, payout, canceling, commands, gatewayQ, ledgerQ, orders,
                 faultVars>>

\* The release fails: its error is discarded, the hold stays.
UndoFails(r) ==
  /\ stage[r] = "releasing" /\ faults < MaxFaults
  /\ stage' = [stage EXCEPT ![r] = "failed"]
  /\ releasing' = [releasing EXCEPT ![r] = NoRelease]
  /\ faults' = faults + 1
  /\ unreleased' = unreleased \cup {r.coid}
  /\ UNCHANGED <<balance, reserved, posted, hold, engineVars, payout, canceling, commands,
                 gatewayQ, ledgerQ, orders>>

\* A user asks to cancel an order; the gateway does not look whether it knows it.
RequestCancel(id) ==
  /\ id \notin canceling /\ Cardinality(canceling) < MaxCancels
  /\ canceling' = canceling \cup {id}
  /\ commands' = Append(commands, [kind |-> "cancel", order |-> id])
  /\ UNCHANGED <<ledgerVars, engineVars, stage, payout, gatewayQ, ledgerQ, orders,
                 faultVars>>

\* handleWithdraw reads what is available ...
CheckWithdrawal(w) ==
  /\ payout[w] = "idle"
  /\ payout' = [payout EXCEPT ![w] =
                  IF L!Available(<<w.account, w.asset>>) < -w.amount THEN "refused" ELSE "checked"]
  /\ UNCHANGED <<ledgerVars, engineVars, stage, canceling, commands, gatewayQ, ledgerQ,
                 orders, faultVars>>

\* ... and then publishes the debit.
SendWithdrawal(w) ==
  /\ payout[w] = "checked"
  /\ payout' = [payout EXCEPT ![w] = "sent"]
  /\ ledgerQ' = Append(ledgerQ, [kind |-> "credit", credit |-> w])
  /\ UNCHANGED <<ledgerVars, engineVars, stage, canceling, commands, gatewayQ, orders,
                 faultVars>>

-----------------------------------------------------------------------------
(* The engine takes one command at a time and acknowledges it when its     *)
(* events are published (an event that cannot be published is only logged: *)
(* here none is lost). Matching goes in the steps of PriceTimeMarket.      *)

OrderOf(r, id) ==
  [id |-> id, account |-> r.account, side |-> r.side, market |-> r.market,
   price |-> r.price, open |-> r.qty]

\* What canFullyFill counts, the account's own orders included.
Fillable(o) ==
  MapThenSumSet(LAMBDA m : m.open, {m \in M!Against(o) : M!Tradable(o, m)}) >= o.open

\* handlePlace: a fill-or-kill order that cannot be filled is rejected.
TakeOrder(r, id) ==
  /\ commands # <<>> /\ Head(commands) = Placement(r)
  /\ id = Len(entered) + 1
  /\ entered' = Append(entered, r)
  /\ selfCanceled' = <<>>
  /\ \/ /\ r.tif = "fok" /\ ~Fillable(OrderOf(r, id))
        /\ M!Refuse
        /\ gatewayQ' = Append(gatewayQ, [kind |-> "rejected", coid |-> r.coid])
        /\ commands' = Tail(commands)
     \/ /\ r.tif # "fok" \/ Fillable(OrderOf(r, id))
        /\ M!Arrive(OrderOf(r, id))
        /\ UNCHANGED <<gatewayQ, commands>>
  /\ UNCHANGED <<ledgerVars, handlerVars, trades, ledgerQ, orders, faultVars>>

\* The time to live of the command next in line is over: the broker moves it to
\* the dead letters, which no service consumes, and its hold stays. (What the
\* engine is at has been delivered. That the next one expires meanwhile comes to
\* the same as that it does right after.)
Expire ==
  /\ active = NoOrder /\ commands # <<>>
  /\ unreleased' = unreleased \cup {r.coid : r \in {q \in Requests : Head(commands) = Placement(q)}}
  /\ commands' = Tail(commands)
  /\ UNCHANGED <<ledgerVars, engineVars, handlerVars, gatewayQ, ledgerQ, orders, faults>>

\* A trade as trade.executed tells it, buyer and seller as handleTrade makes
\* them out.
TradeWith(m, qty) ==
  [id |-> Len(trades) + 1, price |-> m.price, qty |-> qty,
   taker |-> active.id, maker |-> m.id,
   buyer |-> IF active.side = "buy" THEN active.account ELSE m.account,
   seller |-> IF active.side = "buy" THEN m.account ELSE active.account]

Match(m) ==
  /\ M!Execute(m)
  /\ trades' = Append(trades, TradeWith(m, tape'[Len(tape')].qty))
  /\ UNCHANGED <<ledgerVars, handlerVars, entered, selfCanceled, commands, gatewayQ,
                 ledgerQ, orders, faultVars>>

CancelOwn(m) ==
  /\ M!PreventSelfTrade(m)
  /\ selfCanceled' = Append(selfCanceled, m.id)
  /\ UNCHANGED <<ledgerVars, handlerVars, entered, trades, commands, gatewayQ, ledgerQ,
                 orders, faultVars>>

\* Events of publishPlaceResult: an order accepted, a fill that leaves so much
\* open, an order canceled.
Accepted(id) == [kind |-> "accepted", order |-> id, coid |-> entered[id].coid]
Filled(id, open) ==
  [kind |-> "filled", order |-> id, coid |-> entered[id].coid, remaining |-> open]
Canceled(id) == [kind |-> "canceled", order |-> id]

\* What is open of an order: it is active, rests or is gone.
Open(id) ==
  LET found == {m \in resting \cup ({active} \ {NoOrder}) : m.id = id}
  IN IF found = {} THEN 0 ELSE (CHOOSE m \in found : TRUE).open

WrongExecutionReports ==
  [i \in 1..Len(tape) |-> Filled(tape[i].maker, Open(tape[i].maker))]

\* What the first i trades have left of the taker.
RemainingAfter(i) ==
  entered[active.id].qty - SumFunctionOnSet([j \in DOMAIN tape |-> tape[j].qty], 1..i)

\* The execution reports: for each trade the taker's, as it stood then, and the
\* maker's.
ExecutionReports ==
  [k \in 1..(2 * Len(tape)) |->
     IF k % 2 = 1 THEN Filled(active.id, RemainingAfter((k + 1) \div 2))
     ELSE Filled(tape[k \div 2].maker, Open(tape[k \div 2].maker))]

\* finalize: the remainder of a limit order rests, unless it is IOC.
Rests == active.open > 0 /\ ~active.market /\ entered[active.id].tif # "ioc"

WrongPlaceEvents ==
  <<Accepted(active.id)>>
    \o [i \in 1..Len(selfCanceled) |-> Canceled(selfCanceled[i])]
    \o ExecutionReports

PlaceEvents ==
  <<Accepted(active.id)>>
    \o [i \in 1..Len(selfCanceled) |-> Canceled(selfCanceled[i])]
    \o ExecutionReports
    \o IF active.open > 0 /\ ~Rests THEN <<Canceled(active.id)>> ELSE <<>>

\* The trades of the active order, which are the last ones, for the ledger.
TradeEvents ==
  [i \in 1..Len(tape) |->
     [kind |-> "trade", trade |-> trades[Len(trades) - Len(tape) + i]]]

FinishOrder ==
  /\ M!Leave
  /\ resting' = IF Rests THEN resting \cup {active} ELSE resting
  /\ gatewayQ' = gatewayQ \o PlaceEvents
  /\ ledgerQ' = ledgerQ \o TradeEvents
  /\ commands' = Tail(commands)
  /\ UNCHANGED <<ledgerVars, handlerVars, entered, trades, selfCanceled, orders, faultVars>>

\* handleCancel. (When the order is not there it publishes a rejection without a
\* client order id, which nobody acts upon.)
TakeCancel(id) ==
  /\ commands # <<>> /\ Head(commands) = [kind |-> "cancel", order |-> id]
  /\ \/ \E m \in resting :
          /\ m.id = id
          /\ M!Withdraw(m)
          /\ gatewayQ' = Append(gatewayQ, Canceled(id))
     \/ /\ \A m \in resting : m.id # id
        /\ M!Refuse
        /\ UNCHANGED gatewayQ
  /\ commands' = Tail(commands)
  /\ UNCHANGED <<ledgerVars, handlerVars, entered, trades, selfCanceled, ledgerQ, orders,
                 faultVars>>

-----------------------------------------------------------------------------
(* The gateway's consumer. *)

\* VeltraState.ApplyEvent: open is the quantity less what is filled.
Projected(e) ==
  CASE e.kind = "accepted" ->
         [id \in DOMAIN orders \cup {e.order} |->
            IF id = e.order
            THEN [coid |-> e.coid, open |-> entered[id].qty, status |-> "new"]
            ELSE orders[id]]
    [] e.kind = "filled" ->
         [id \in DOMAIN orders |->
            IF id = e.order
            THEN [orders[id] EXCEPT !.open = e.remaining,
                                    !.status = IF e.remaining = 0 THEN "filled" ELSE "partially_filled"]
            ELSE orders[id]]
    [] e.kind = "canceled" ->
         [id \in DOMAIN orders |->
            IF id = e.order THEN [orders[id] EXCEPT !.status = "canceled"] ELSE orders[id]]
    [] e.kind = "rejected" ->
         [id \in DOMAIN orders |->
            IF orders[id].coid = e.coid THEN [orders[id] EXCEPT !.status = "rejected"]
            ELSE orders[id]]

\* releaseHoldOnTerminal: the client order id whose hold the event releases, if
\* any.
WrongClosed(e) ==
  CASE e.kind \in {"filled", "rejected"} -> {e.coid}
    [] e.kind = "canceled" -> {orders[id].coid : id \in DOMAIN orders \cap {e.order}}
    [] OTHER -> {}

Closed(e) ==
  CASE e.kind = "filled" -> IF e.remaining = 0 THEN {e.coid} ELSE {}
    [] e.kind = "rejected" -> {e.coid}
    [] e.kind = "canceled" -> {orders[id].coid : id \in DOMAIN orders \cap {e.order}}
    [] OTHER -> {}

\* The client order id whose hold a canceled order leaves behind because the
\* gateway, having restarted, does not know the order.
Unresolved(e) ==
  IF e.kind = "canceled" /\ e.order \notin DOMAIN orders THEN {entered[e.order].coid} ELSE {}

\* Without the acknowledgement a message is delivered again.
Done(queue, acked) == IF acked THEN Tail(queue) ELSE queue

\* An event that releases nothing: the projection, and the acknowledgement.
ProjectEvent(acked) ==
  /\ gatewayQ # <<>> /\ releasing[Consumer] = NoRelease
  /\ Closed(Head(gatewayQ)) = {}
  /\ orders' = Projected(Head(gatewayQ))
  /\ gatewayQ' = Done(gatewayQ, acked)
  /\ unreleased' = unreleased \cup Unresolved(Head(gatewayQ))
  /\ UNCHANGED <<ledgerVars, engineVars, handlerVars, commands, ledgerQ, faults>>

\* An event that closes an order: the projection and the read of its holds ...
CloseOrder ==
  /\ gatewayQ # <<>>
  /\ orders' = Projected(Head(gatewayQ))
  /\ \E coid \in Closed(Head(gatewayQ)) : L!ReleaseRead(Consumer, coid)
  /\ UNCHANGED <<engineVars, handlerVars, commands, gatewayQ, ledgerQ, faultVars>>

\* ... the release, and the acknowledgement.
ReleaseHold(acked) ==
  /\ L!ReleaseWrite(Consumer)
  /\ gatewayQ' = Done(gatewayQ, acked)
  /\ UNCHANGED <<engineVars, handlerVars, commands, ledgerQ, orders, faultVars>>

\* The release fails, before or after the read; the event is acknowledged as ever.
ReleaseFails(acked) ==
  /\ releasing[Consumer] # NoRelease /\ faults < MaxFaults
  /\ releasing' = [releasing EXCEPT ![Consumer] = NoRelease]
  /\ gatewayQ' = Done(gatewayQ, acked)
  /\ faults' = faults + 1
  /\ unreleased' = unreleased \cup Closed(Head(gatewayQ))
  /\ UNCHANGED <<balance, reserved, posted, hold, engineVars, handlerVars, commands, ledgerQ,
                 orders>>

\* The gateway restarts with an empty projection. The queues stay; handlers that
\* hold a reserve and have not queued their order are gone.
RestartGateway ==
  /\ faults < MaxFaults
  /\ faults' = faults + 1
  /\ orders' = <<>>
  /\ releasing' = [c \in Callers |-> NoRelease]
  /\ LET abandoned == {r \in Requests : stage[r] \in {"reserved", "undoing", "releasing"}} IN
       /\ stage' = [r \in Requests |-> IF r \in abandoned THEN "failed" ELSE stage[r]]
       /\ unreleased' = unreleased \cup {r.coid : r \in abandoned}
  /\ payout' = [w \in Withdrawals |-> IF payout[w] = "checked" THEN "refused" ELSE payout[w]]
  /\ UNCHANGED <<balance, reserved, posted, hold, engineVars, canceling, commands, gatewayQ,
                 ledgerQ>>

(* The ledger's consumer. *)

IsSettled(t) == L!Applied(L!Books, <<t.buyer, "base">>, L!BaseRef(t))

WrongSettle(acked) ==
  /\ ledgerQ # <<>>
  /\ LET x == Head(ledgerQ) IN
       \/ x.kind = "trade" /\ L!SettleTrade(x.trade)
       \/ UNCHANGED ledgerVars
       \/ x.kind = "credit" /\ L!SettleFaucet(x.credit)
  /\ ledgerQ' = Done(ledgerQ, acked)
  /\ UNCHANGED <<engineVars, handlerVars, commands, gatewayQ, orders, faultVars>>

Settle(acked) ==
  /\ ledgerQ # <<>>
  /\ LET x == Head(ledgerQ) IN
       \/ x.kind = "trade" /\ L!SettleTrade(x.trade)
       \/ x.kind = "trade" /\ IsSettled(x.trade) /\ UNCHANGED ledgerVars
       \/ x.kind = "credit" /\ L!SettleFaucet(x.credit)
  /\ ledgerQ' = Done(ledgerQ, acked)
  /\ UNCHANGED <<engineVars, handlerVars, commands, gatewayQ, orders, faultVars>>

-----------------------------------------------------------------------------

Handler(r) == PlacePublish(r) \/ UndoRead(r) \/ UndoWrite(r)

Engine ==
  \/ \E r \in Requests : TakeOrder(r, Len(entered) + 1)
  \/ \E m \in resting : Match(m) \/ CancelOwn(m)
  \/ FinishOrder
  \/ \E id \in canceling : TakeCancel(id)

Next ==
  \/ \E r \in Requests : PlaceReserve(r) \/ Handler(r) \/ UndoFails(r)
  \/ \E id \in OrderIds : RequestCancel(id)
  \/ \E w \in Withdrawals : CheckWithdrawal(w) \/ SendWithdrawal(w)
  \/ Engine \/ Expire
  \/ CloseOrder
  \/ \E acked \in BOOLEAN : ProjectEvent(acked) \/ ReleaseHold(acked) \/ Settle(acked)
                         \/ ReleaseFails(acked)
  \/ RestartGateway

\* What was started goes on, and no message is redelivered for ever: a release is
\* taken up again after each lost acknowledgement, hence strong fairness there.
Fairness ==
  /\ \A r \in Requests : WF_vars(Handler(r))
  /\ \A w \in Withdrawals : WF_vars(SendWithdrawal(w))
  /\ WF_vars(Engine)
  /\ WF_vars(CloseOrder) /\ WF_vars(ProjectEvent(TRUE)) /\ SF_vars(ReleaseHold(TRUE))
  /\ WF_vars(Settle(TRUE))

Spec == Init /\ [][Next]_vars /\ Fairness
-----------------------------------------------------------------------------
(* Properties. *)

HoldsFor(r) == {k \in DOMAIN hold : k = L!HoldKey(Reservation(r)) /\ hold[k].active}

Waiting(r) == \E i \in DOMAIN commands : commands[i] = Placement(r)
Taken(r) == {id \in OrderIds : entered[id] = r}

\* What is left to execute of a request the engine has, or will have.
Outstanding(r) ==
  IF Taken(r) = {} THEN IF Waiting(r) THEN r.qty ELSE 0
  ELSE SumFunctionOnSet([id \in OrderIds |-> Open(id)], Taken(r))

\* What its fills have cost the account of a request, each truncated by itself.
FillCost(r) ==
  [n \in DOMAIN trades |-> IF r.side = "sell" THEN trades[n].qty ELSE L!Paid(trades[n])]
Spent(r) ==
  SumFunctionOnSet(FillCost(r),
    {n \in DOMAIN trades : {trades[n].taker, trades[n].maker} \cap Taken(r) # {}})

\* An order that is queued, being matched or resting has an active hold that pays
\* for its fills so far and for all that is left of it, through nacks,
\* redeliveries, partial fills and self-trade prevention, although every fill's
\* notional is truncated on its own. (The hold of a market purchase is made at a
\* reference price, which its fills may exceed.)
OpenOrdersAreCovered ==
  \A r \in Requests :
    Cost(r, Outstanding(r)) > 0 /\ (r.side = "sell" \/ ~r.market) =>
      \E k \in HoldsFor(r) : hold[k].amount >= Cost(r, Outstanding(r)) + Spent(r)

Quiet ==
  /\ commands = <<>> /\ active = NoOrder /\ gatewayQ = <<>>
  /\ \A c \in Callers : releasing[c] = NoRelease
  /\ \A r \in Requests : stage[r] \in {"idle", "refused", "queued", "failed"}

Resting(r) == \E m \in resting : entered[m.id] = r

\* When everything published is dealt with, the holds are those of the orders in
\* the book: none is missing, and none is left over but those whose release
\* failed, whose handler a restart ended, whose order expired in the queue, or
\* whose cancellation the restarted gateway could not resolve.
HoldsMatchBook ==
  Quiet => \A r \in Requests :
             Cost(r, r.qty) > 0 =>
               /\ Resting(r) => HoldsFor(r) # {}
               /\ HoldsFor(r) # {} => Resting(r) \/ r.coid \in unreleased

\* When the gateway has seen all events, an order is open in its projection if it
\* rests in the book, with the same quantity, and closed if it does not, whatever
\* events it missed before a restart.
ProjectionFollowsEngine ==
  gatewayQ = <<>> /\ active = NoOrder =>
    \A id \in DOMAIN orders :
      IF \E m \in resting : m.id = id
      THEN orders[id].status \in {"new", "partially_filled"} /\ orders[id].open = Open(id)
      ELSE orders[id].status \in {"filled", "canceled"}
           /\ (orders[id].status = "filled" <=> orders[id].open = 0)

\* A queued order comes to its end: it rests, or its hold is released, unless the
\* gateway gave that up or the order expired. And every trade is settled.
OrdersComplete ==
  /\ \A r \in Requests :
       stage[r] = "queued" ~> (HoldsFor(r) = {} \/ Resting(r) \/ r.coid \in unreleased)
  /\ \A n \in 1..Cardinality(Requests) :
       n \in DOMAIN trades ~> (n \in DOMAIN trades /\ IsSettled(trades[n]))

\* "Two concurrent orders cannot reserve the same balance" (ledger.go): what users
\* hold never becomes negative.
NoOverdraft ==
  \A a \in L!LedgerAccounts : a[1] \in TradingAccounts => balance[a] >= 0
=============================================================================
