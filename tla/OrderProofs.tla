----------------------------- MODULE OrderProofs -----------------------------
(***************************************************************************)
(* Proofs about OrderManagement, for any requests, withdrawals, bounds     *)
(* and failures: what is open, and what is filled and still held, is       *)
(* covered by an active hold; when all is dealt with, the holds are those  *)
(* of the book; and when the gateway has seen all events, its projection   *)
(* says what the book says.                                                *)
(***************************************************************************)
EXTENDS OrderManagement, SequenceTheorems, FoldTheorems

\* What the users and the broker have to do with it: no client order id is used
\* twice, and the broker does what it answers.
UniqueIds == \A r, q \in Requests : r.coid = q.coid => r = q
AnswersTell == \A o \in PublishOutcomes : o.enqueued <=> o.confirmed

-----------------------------------------------------------------------------
(* The invariant. *)

Accounts == {r.account : r \in Requests}
Coids == {r.coid : r \in Requests}
Stages == {"idle", "reserved", "refused", "queued", "undoing", "releasing", "failed"}
Command == [kind : {"place"}, request : Requests] \cup [kind : {"cancel"}, order : Nat]
Event ==
  [kind : {"accepted"}, order : Nat, coid : Coids]
    \cup [kind : {"filled"}, order : Nat, coid : Coids, remaining : Int]
    \cup [kind : {"canceled"}, order : Nat]
    \cup [kind : {"rejected"}, coid : Coids]
Shown ==
  [coid : Coids, open : Int, status : {"new", "partially_filled", "filled", "canceled", "rejected"}]

\* The shape of the state.
EngineTypes ==
  /\ entered \in Seq(Requests)
  /\ resting \subseteq Order /\ active \in Order \cup {NoOrder}
  /\ tape \in Seq([taker : Nat, maker : Nat, price : Nat, qty : Nat])
  /\ trades \in Seq([id : Nat, price : Nat, qty : Nat, taker : Nat, maker : Nat,
                     buyer : Accounts, seller : Accounts])
  /\ selfCanceled \in Seq(Nat)

HandlerTypes ==
  stage \in [Requests -> Stages] /\ canceling \subseteq Nat /\ commands \in Seq(Command)

GatewayTypes ==
  /\ gatewayQ \in Seq(Event)
  /\ DOMAIN orders \subseteq OrderIds /\ orders \in [DOMAIN orders -> Shown]

HoldTypes ==
  /\ \A k \in DOMAIN hold : hold[k] \in [amount : Int, active : BOOLEAN]
  /\ releasing \in [Callers -> {NoRelease} \cup SUBSET DOMAIN hold]

TypeOK == EngineTypes /\ HandlerTypes /\ GatewayTypes /\ HoldTypes

\* An order of the engine is one that was placed.
Placed(m) ==
  /\ m.id \in OrderIds
  /\ m.account = entered[m.id].account /\ m.side = entered[m.id].side
  /\ m.market = entered[m.id].market /\ m.price = entered[m.id].price
  /\ m.open <= entered[m.id].qty

BookInv ==
  /\ \A m \in resting : Placed(m) /\ m.open > 0 /\ ~m.market
  /\ \A m, n \in resting : m.id = n.id => m = n
  /\ active # NoOrder =>
       /\ Placed(active) /\ active.id = Len(entered)
       /\ \A m \in resting : m.id < active.id

\* A request is taken once, and until then it waits.
PlaceInv ==
  /\ \A i, j \in OrderIds : entered[i] = entered[j] => i = j
  /\ \A id \in OrderIds : stage[entered[id]] = "queued"
  /\ \A i \in DOMAIN commands, r \in Requests : commands[i] = Placement(r) =>
       /\ stage[r] = "queued"
       /\ \A j \in DOMAIN commands : commands[j] = Placement(r) => i = j
       /\ \A id \in OrderIds : entered[id] = r => i = 1 /\ active # NoOrder
  /\ active # NoOrder => commands # <<>> /\ Head(commands) = Placement(entered[active.id])

\* The trades so far, and who lost an order to self-trade prevention.
MatchInv ==
  active # NoOrder =>
    /\ RemainingAfter(Len(tape)) = active.open
    /\ \A i \in DOMAIN tape : /\ RemainingAfter(i) >= active.open
                              /\ tape[i].maker \in OrderIds /\ tape[i].maker # active.id
    /\ \A i \in DOMAIN selfCanceled :
         /\ selfCanceled[i] \in OrderIds /\ selfCanceled[i] # active.id
         /\ Open(selfCanceled[i]) = 0

\* An event that closes an order speaks of one that has nothing open.
Right(e) ==
  \/ e.kind = "accepted" /\ e.order \in OrderIds /\ e.coid = entered[e.order].coid
  \/ /\ e.kind = "filled" /\ e.order \in OrderIds /\ e.coid = entered[e.order].coid
     /\ e.remaining = 0 => Open(e.order) = 0
  \/ e.kind = "canceled" /\ e.order \in OrderIds /\ Open(e.order) = 0
  \/ e.kind = "rejected" /\ \E id \in OrderIds : entered[id].coid = e.coid /\ Open(id) = 0

RightEvents == {e \in Event : Right(e)}

EventInv ==
  /\ \A i \in DOMAIN gatewayQ : gatewayQ[i] \in RightEvents
  /\ \A id \in DOMAIN orders : orders[id].coid = entered[id].coid

\* The hold of a request is there, and nobody is releasing it, from its reserve
\* until nothing of it is open.
Key(r) == L!HoldKey(Reservation(r))

Live(r) ==
  /\ Cost(r, r.qty) > 0
  /\ \/ stage[r] = "reserved"
     \/ stage[r] = "queued" /\ \A id \in OrderIds : entered[id] = r => Open(id) > 0

HoldInv ==
  /\ \A k \in DOMAIN hold : \E r \in Requests : k = Key(r) /\ stage[r] # "idle"
  /\ \A r \in Requests : stage[r] \in {"reserved", "queued"} => Priced(r)
  /\ \A r \in Requests : Live(r) =>
       /\ Key(r) \in DOMAIN hold /\ hold[Key(r)].active /\ hold[Key(r)].amount = Cost(r, r.qty)
       /\ \A c \in Callers : releasing[c] # NoRelease => Key(r) \notin releasing[c]

\* What is open and what is spent never cost more than the hold.
Limited(r) == r.side = "sell" \/ ~r.market

SpentInv ==
  /\ \A n \in DOMAIN trades : trades[n].taker \in OrderIds /\ trades[n].maker \in OrderIds
  /\ \A id \in OrderIds :
       Limited(entered[id]) =>
         /\ Spent(entered[id]) \in Nat
         /\ Cost(entered[id], Open(id)) + Spent(entered[id]) <= Cost(entered[id], entered[id].qty)

\* The consumer releases for the first event of its queue.
BusyInv == releasing[Consumer] # NoRelease => gatewayQ # <<>>

IInv ==
  TypeOK /\ BookInv /\ PlaceInv /\ MatchInv /\ EventInv /\ HoldInv /\ SpentInv

-----------------------------------------------------------------------------
(* What is open of an order, in a set of orders. *)

WithId(S, id) == {m \in S : m.id = id}
OpenIn(S, id) == IF WithId(S, id) = {} THEN 0 ELSE (CHOOSE m \in WithId(S, id) : TRUE).open

Engaged == resting \cup ({active} \ {NoOrder})

LEMMA OpenIs ==
  ASSUME NEW id
  PROVE  Open(id) = OpenIn(Engaged, id) /\ Open(id)' = OpenIn(Engaged', id)
BY DEF Open, OpenIn, WithId, Engaged

LEMMA OpenOne ==
  ASSUME NEW S, NEW m \in S, \A n \in S : n.id = m.id => n = m
  PROVE  OpenIn(S, m.id) = m.open
<1>1. WithId(S, m.id) = {m}
  BY DEF WithId
<1>2. (CHOOSE n \in {m} : TRUE) = m
  OBVIOUS
<1> QED BY <1>1, <1>2 DEF OpenIn

LEMMA OpenNone ==
  ASSUME NEW S, NEW id, \A m \in S : m.id # id
  PROVE  OpenIn(S, id) = 0
BY DEF OpenIn, WithId

LEMMA OpenSame ==
  ASSUME NEW S, NEW T, NEW id, WithId(S, id) = WithId(T, id)
  PROVE  OpenIn(S, id) = OpenIn(T, id)
BY DEF OpenIn

\* No two orders that are engaged have the same id.
LEMMA Distinct ==
  ASSUME TypeOK, BookInv
  PROVE  /\ \A m, n \in Engaged : m.id = n.id => m = n
         /\ \A m \in Engaged : m \in Order /\ m.id \in OrderIds
         /\ OrderIds \subseteq Nat /\ Len(entered) \in Nat
         /\ NoOrder \notin Engaged
<1>1. Len(entered) \in Nat /\ OrderIds \subseteq Nat
  BY LenProperties DEF TypeOK, EngineTypes, OrderIds
<1>2. \A m \in Engaged : m \in Order /\ m.id \in OrderIds
  BY DEF Engaged, TypeOK, EngineTypes, BookInv, Placed
<1>3. \A m \in resting : active # NoOrder => m.id # active.id
  <2>1. \A m \in resting : m.id \in Nat
    BY <1>1, <1>2 DEF Engaged
  <2> QED BY <1>1, <2>1 DEF BookInv
<1> QED BY <1>1, <1>2, <1>3, NoOrderAssumption DEF Engaged, BookInv

LEMMA OpenFacts ==
  ASSUME TypeOK, BookInv
  PROVE  /\ \A id : Open(id) \in Nat
         /\ \A m \in Engaged : Open(m.id) = m.open
         /\ \A id : (\A m \in Engaged : m.id # id) => Open(id) = 0
<1>1. \A m \in Engaged : Open(m.id) = m.open
  BY Distinct, OpenIs, OpenOne
<1>2. \A id : (\A m \in Engaged : m.id # id) => Open(id) = 0
  BY OpenIs, OpenNone
<1>3. \A m \in Engaged : m.open \in Nat
  BY Distinct DEF Order
<1> QED BY <1>1, <1>2, <1>3

-----------------------------------------------------------------------------
(* Steps that leave the engine alone. *)

LEMMA EngineStill ==
  ASSUME IInv, UNCHANGED engineVars
  PROVE  /\ OrderIds' = OrderIds
         /\ \A id : Open(id)' = Open(id)
         /\ \A r : Spent(r)' = Spent(r)
         /\ RightEvents' = RightEvents
         /\ EngineTypes' /\ BookInv' /\ MatchInv' /\ SpentInv'
<1> USE DEF engineVars
<1>1. OrderIds' = OrderIds
  BY DEF OrderIds
<1>2. \A id : Open(id)' = Open(id)
  BY DEF Open
<1>3. \A r : Taken(r)' = Taken(r)
  BY <1>1 DEF Taken
<1>4. \A r : Spent(r)' = Spent(r)
  BY <1>3 DEF Spent, FillCost
<1>5. RightEvents' = RightEvents
  BY <1>1, <1>2 DEF RightEvents, Right
<1>6. BookInv'
  BY <1>1 DEF IInv, BookInv, Placed
<1>7. MatchInv'
  BY <1>1, <1>2 DEF IInv, MatchInv, RemainingAfter
<1>8. SpentInv'
  BY <1>1, <1>2, <1>4 DEF IInv, SpentInv
<1>9. EngineTypes'
  BY DEF IInv, TypeOK, EngineTypes
<1> QED BY <1>1, <1>2, <1>4, <1>5, <1>6, <1>7, <1>8, <1>9

-----------------------------------------------------------------------------
(* What an order costs. *)

LEMMA Division ==
  ASSUME NEW n \in Nat
  PROVE  /\ n \div Scale \in Nat
         /\ (n \div Scale) * Scale <= n /\ n < (n \div Scale + 1) * Scale
<1>1. /\ n \div Scale \in Int /\ n % Scale \in 0..(Scale - 1)
      /\ n = Scale * (n \div Scale) + (n % Scale)
  BY AmountsAssumption, SMT
<1> QED BY <1>1, AmountsAssumption, SMT

LEMMA NotionalIs ==
  ASSUME NEW price \in Nat, NEW qty \in Nat
  PROVE  /\ price * qty \in Nat
         /\ L!Notional(price, qty).err <=> (price * qty) \div Scale > MaxInt
         /\ L!Notional(price, qty).amount =
              IF (price * qty) \div Scale > MaxInt THEN 0 ELSE (price * qty) \div Scale
<1>1. price * qty \in Nat
  BY SMT
<1>2. L!Quo(price * qty, Scale) = (price * qty) \div Scale
  BY <1>1 DEF L!Quo
<1>3. (price * qty) \div Scale \in Nat
  BY <1>1, Division
<1>4. (price * qty) \div Scale \in L!Amount <=> ~((price * qty) \div Scale > MaxInt)
  BY <1>3, AmountsAssumption DEF L!Amount, L!MinInt
<1> QED BY <1>1, <1>2, <1>4 DEF L!Notional, L!Ok, L!Overflow

LEMMA Smaller ==
  ASSUME NEW m \in Nat, NEW n \in Nat, m <= n
  PROVE  /\ \A d \in Nat : m * d <= n * d /\ d * m <= d * n
         /\ m \div Scale <= n \div Scale
<1>1. ASSUME NEW a \in Nat, NEW b \in Nat, a <= b, NEW d \in Nat
      PROVE  a * d <= b * d /\ d * a <= d * b
  <2>1. b = a + (b - a) /\ b - a \in Nat
    BY <1>1
  <2>2. b * d = a * d + (b - a) * d /\ d * a = a * d /\ d * b = b * d
    BY <2>1, SMT
  <2>3. (b - a) * d \in Nat /\ a * d \in Nat
    BY <2>1, SMT
  <2> QED BY <2>2, <2>3
<1>2. m \div Scale <= n \div Scale
  <2>1. /\ m \div Scale \in Nat /\ n \div Scale \in Nat
        /\ (m \div Scale) * Scale <= m /\ n < (n \div Scale + 1) * Scale
    BY Division
  <2>2. ASSUME m \div Scale > n \div Scale PROVE FALSE
    <3>1. (n \div Scale + 1) * Scale <= (m \div Scale) * Scale
      BY <1>1, <2>1, <2>2, AmountsAssumption
    <3>2. (n \div Scale + 1) * Scale \in Nat /\ (m \div Scale) * Scale \in Nat
      BY <2>1, AmountsAssumption, SMT
    <3> QED BY <2>1, <3>1, <3>2
  <2> QED BY <2>1, <2>2
<1> QED BY <1>1, <1>2

LEMMA CostType ==
  ASSUME NEW r \in Requests, NEW qty \in Nat
  PROVE  Cost(r, qty) \in Nat /\ Cost(r, 0) = 0
<1>1. r.reference \in Nat
  BY RequestsAssumption
<1>2. CASE r.side = "sell"
  BY <1>2 DEF Cost
<1>3. CASE r.side # "sell"
  <2>1. L!Notional(r.reference, qty).amount \in Nat
    <3>1. r.reference * qty \in Nat
      BY <1>1, NotionalIs
    <3>2. (r.reference * qty) \div Scale \in Nat
      BY <3>1, Division
    <3>3. L!Notional(r.reference, qty).amount =
            IF (r.reference * qty) \div Scale > MaxInt THEN 0 ELSE (r.reference * qty) \div Scale
      BY <1>1, NotionalIs
    <3> QED BY <3>2, <3>3
  <2>2. L!Notional(r.reference, 0).amount = 0
    <3>1. r.reference * 0 = 0
      BY <1>1, SMT
    <3>2. 0 \div Scale = 0
      <4>1. 0 \div Scale \in Nat /\ (0 \div Scale) * Scale <= 0
        BY Division
      <4>2. ASSUME 0 \div Scale >= 1 PROVE FALSE
        <5>1. 1 * Scale <= (0 \div Scale) * Scale
          BY <4>1, <4>2, Smaller, AmountsAssumption
        <5> QED BY <4>1, <5>1, AmountsAssumption, SMT
      <4> QED BY <4>1, <4>2
    <3> QED BY <1>1, <3>1, <3>2, NotionalIs
  <2> QED BY <1>3, <2>1, <2>2 DEF Cost
<1> QED BY <1>2, <1>3

\* A fill at the limit or better costs, with what is open after it, no more than
\* what was open before, although both are truncated.
LEMMA FillCovered ==
  ASSUME NEW r \in Requests, Limited(r), Priced(r), r.side # "sell",
         NEW open \in Nat, open <= r.qty, NEW q \in Nat, q <= open,
         NEW p \in Nat, p <= r.price
  PROVE  /\ L!Notional(p, q).amount \in Nat
         /\ Cost(r, open - q) + L!Notional(p, q).amount <= Cost(r, open)
<1> DEFINE ref == r.reference
           a == (ref * (open - q)) \div Scale
           b == (p * q) \div Scale
           c == (ref * open) \div Scale
<1>1. ref \in Nat /\ r.qty \in Nat /\ p <= ref /\ open - q \in Nat
  BY RequestsAssumption DEF Limited
<1>2. /\ ref * (open - q) \in Nat /\ p * q \in Nat /\ ref * open \in Nat
      /\ ref * q \in Nat /\ ref * r.qty \in Nat
      /\ ref * (open - q) + ref * q = ref * open
  BY <1>1, SMT
<1>3. p * q <= ref * q /\ ref * open <= ref * r.qty
  BY <1>1, Smaller
<1>4. /\ a \in Nat /\ a * Scale <= ref * (open - q)
      /\ b \in Nat /\ b * Scale <= p * q
      /\ c \in Nat /\ ref * open < (c + 1) * Scale
  BY <1>2, Division
<1>5. a + b <= c
  <2> HIDE DEF a, b, c
  <2>1. (a + b) * Scale = a * Scale + b * Scale
    BY <1>4, AmountsAssumption, SMT
  <2>2. a * Scale \in Nat /\ b * Scale \in Nat /\ (c + 1) * Scale \in Nat /\ (a + b) * Scale \in Nat
    BY <1>4, AmountsAssumption, SMT
  <2>3. (a + b) * Scale < (c + 1) * Scale
    BY <1>2, <1>3, <1>4, <2>1, <2>2
  <2>4. ASSUME a + b > c PROVE FALSE
    <3>1. (c + 1) * Scale <= (a + b) * Scale
      BY <1>4, <2>4, Smaller, AmountsAssumption
    <3> QED BY <2>2, <2>3, <3>1
  <2> QED BY <1>4, <2>4
<1>6. c <= MaxInt
  <2>1. (ref * r.qty) \div Scale <= MaxInt
    <3>1. ~L!Notional(ref, r.qty).err
      BY DEF Priced
    <3>2. (ref * r.qty) \div Scale \in Nat
      BY <1>2, Division
    <3>3. L!Notional(ref, r.qty).err <=> (ref * r.qty) \div Scale > MaxInt
      BY <1>1, NotionalIs
    <3> QED BY <3>1, <3>2, <3>3, AmountsAssumption
  <2>2. c <= (ref * r.qty) \div Scale
    BY <1>2, <1>3, Smaller
  <2>3. (ref * r.qty) \div Scale \in Nat
    BY <1>2, Division
  <2> QED BY <1>4, <2>1, <2>2, <2>3, AmountsAssumption
<1>7. L!Notional(p, q).amount = b
  <2>1. L!Notional(p, q).amount = IF b > MaxInt THEN 0 ELSE b
    BY NotionalIs
  <2> HIDE DEF a, b, c
  <2> QED BY <1>4, <1>5, <1>6, <2>1, AmountsAssumption
<1>8. Cost(r, open) = c /\ Cost(r, open - q) = a
  <2>1. /\ L!Notional(ref, open).amount = IF c > MaxInt THEN 0 ELSE c
        /\ L!Notional(ref, open - q).amount = IF a > MaxInt THEN 0 ELSE a
    BY <1>1, NotionalIs
  <2>2. /\ Cost(r, open) = L!Notional(ref, open).amount
        /\ Cost(r, open - q) = L!Notional(ref, open - q).amount
    BY DEF Cost
  <2> HIDE DEF a, b, c, ref
  <2> QED BY <1>4, <1>5, <1>6, <2>1, <2>2, AmountsAssumption
<1> HIDE DEF a, b, c
<1> QED BY <1>4, <1>5, <1>7, <1>8

\* Steps that leave the gateway's consumer alone as well.
LEMMA GatewayStill ==
  ASSUME IInv, UNCHANGED <<engineVars, gatewayQ, orders>>
  PROVE  GatewayTypes' /\ EventInv'
<1>1. GatewayTypes'
  BY DEF IInv, TypeOK, GatewayTypes, OrderIds, engineVars
<1>2. EventInv'
  BY EngineStill DEF IInv, EventInv, engineVars
<1> QED BY <1>1, <1>2

\* A queued request stays queued, and no other is in the engine or before it.
LEMMA PlacesStay ==
  ASSUME IInv, UNCHANGED <<engineVars, commands>>,
         \A r \in Requests : stage[r] = "queued" => stage'[r] = "queued"
  PROVE  PlaceInv'
<1>1. OrderIds' = OrderIds /\ \A r : Placement(r)' = Placement(r)
  BY DEF OrderIds, engineVars, Placement
<1>2. \A id \in OrderIds : entered[id] \in Requests
  BY ElementOfSeq DEF IInv, TypeOK, EngineTypes, OrderIds
<1> QED BY <1>1, <1>2 DEF IInv, PlaceInv, engineVars

-----------------------------------------------------------------------------
(* The holds. *)

LEMMA Keys ==
  ASSUME UniqueIds, NEW r \in Requests, NEW q \in Requests
  PROVE  /\ Key(r)[2] = r.coid
         /\ Key(r) = Key(q) => r = q
BY DEF UniqueIds, Key, L!HoldKey, Reservation

\* A release makes the holds that were read inactive, and changes no other.
LEMMA Released ==
  ASSUME HoldTypes, NEW c \in Callers, L!ReleaseWrite(c)
  PROVE  /\ HoldTypes'
         /\ DOMAIN hold' = DOMAIN hold
         /\ \A k \in DOMAIN hold : /\ hold'[k].amount = hold[k].amount
                                   /\ hold'[k].active <=> hold[k].active /\ k \notin releasing[c]
         /\ releasing[c] # NoRelease /\ releasing' = [releasing EXCEPT ![c] = NoRelease]
BY DEF L!ReleaseWrite, HoldTypes

\* A request is live as long as it is not published and while it is open.
LEMMA LiveStays ==
  ASSUME IInv, UNCHANGED engineVars, NEW r \in Requests,
         stage'[r] \in {"reserved", "queued"} => stage[r] \in {stage'[r], "reserved"},
         Live(r)'
  PROVE  Live(r)
BY EngineStill DEF Live, Cost, engineVars

\* The holds stay right if no request becomes live and no live one's is touched.
LEMMA HoldsStay ==
  ASSUME IInv, DOMAIN hold' = DOMAIN hold,
         \A r \in Requests : stage'[r] = "idle" => stage[r] = "idle",
         \A r \in Requests : stage'[r] \in {"reserved", "queued"} =>
                             stage[r] \in {"reserved", "queued"} \/ Priced(r),
         \A r \in Requests : Live(r)' => 
           /\ Live(r)
           /\ hold'[Key(r)] = hold[Key(r)]
           /\ \A c \in Callers : releasing'[c] # NoRelease => Key(r) \notin releasing'[c]
  PROVE  HoldInv'
<1>1. \A r : Key(r)' = Key(r) /\ (Priced(r)' <=> Priced(r)) /\ Cost(r, r.qty)' = Cost(r, r.qty)
  BY DEF Key, Priced, Cost
<1>2. \A k \in DOMAIN hold' : \E r \in Requests : k = Key(r) /\ stage'[r] # "idle"
  BY DEF IInv, HoldInv
<1>3. \A r \in Requests : stage'[r] \in {"reserved", "queued"} => Priced(r)
  BY DEF IInv, HoldInv
<1>4. \A r \in Requests : Live(r)' =>
        /\ Key(r) \in DOMAIN hold' /\ hold'[Key(r)].active /\ hold'[Key(r)].amount = Cost(r, r.qty)
        /\ \A c \in Callers : releasing'[c] # NoRelease => Key(r) \notin releasing'[c]
  BY DEF IInv, HoldInv
<1> QED BY <1>1, <1>2, <1>3, <1>4 DEF HoldInv

\* handleOrders makes a hold, or refuses.
LEMMA PlaceReserveStep ==
  ASSUME UniqueIds, IInv, NEW r \in Requests, PlaceReserve(r)
  PROVE  IInv'
<1>1. UNCHANGED <<engineVars, canceling, commands, gatewayQ, orders, releasing>>
  BY DEF PlaceReserve, L!Reserve, ledgerVars
<1>2. stage[r] = "idle" /\ stage \in [Requests -> Stages]
  BY DEF PlaceReserve, IInv, TypeOK, HandlerTypes
<1>3. /\ stage' \in [Requests -> Stages]
      /\ \A q \in Requests : q # r => stage'[q] = stage[q]
      /\ \/ stage'[r] = "reserved" /\ L!Reserve(Reservation(r)) /\ Priced(r)
         \/ stage'[r] = "refused" /\ hold' = hold
  BY <1>2 DEF PlaceReserve, Stages, ledgerVars
<1>4. HandlerTypes'
  BY <1>1, <1>3 DEF IInv, TypeOK, HandlerTypes
<1>5. PlaceInv'
  BY <1>1, <1>2, <1>3, PlacesStay
<1>6. Key(r) \notin DOMAIN hold
  BY <1>2, Keys DEF IInv, HoldInv
<1>7. HoldTypes' /\ HoldInv'
  <2> DEFINE fresh == [amount |-> Cost(r, r.qty), active |-> TRUE]
  <2>1. \A q \in Requests : q # r /\ Live(q)' => Live(q)
    BY <1>1, <1>3, LiveStays
  <2>2. \A q \in Requests : stage'[q] # "idle" \/ stage[q] = "idle"
    BY <1>3
  <2>3. CASE hold' = hold /\ (stage'[r] = "refused" \/ (Cost(r, r.qty) = 0 /\ Priced(r)))
    <3>1. HoldTypes'
      BY <1>1, <2>3 DEF IInv, TypeOK, HoldTypes
    <3>2. ~Live(r)'
      BY <2>3 DEF Live, Cost
    <3>3. \A q \in Requests : Live(q)' => Live(q) /\ q # r
      BY <2>1, <3>2
    <3> QED BY <1>1, <1>2, <1>3, <2>2, <2>3, <3>1, <3>3, HoldsStay DEF IInv, HoldInv
  <2>4. CASE /\ stage'[r] = "reserved" /\ Priced(r)
             /\ DOMAIN hold' = DOMAIN hold \cup {Key(r)} /\ hold'[Key(r)] = fresh
             /\ \A k \in DOMAIN hold : hold'[k] = hold[k]
    <3>1. Cost(r, r.qty) \in Int
      BY CostType, RequestsAssumption
    <3>2. HoldTypes'
      <4>1. \A k \in DOMAIN hold' : hold'[k] \in [amount : Int, active : BOOLEAN]
        <5>1. fresh \in [amount : Int, active : BOOLEAN]
          BY <3>1
        <5> HIDE DEF fresh
        <5> QED BY <2>4, <5>1 DEF IInv, TypeOK, HoldTypes
      <4>2. releasing' \in [Callers -> {NoRelease} \cup SUBSET DOMAIN hold']
        BY <1>1, <2>4 DEF IInv, TypeOK, HoldTypes
      <4> QED BY <4>1, <4>2 DEF HoldTypes
    <3>3. \A c \in Callers : releasing[c] # NoRelease => Key(r) \notin releasing[c]
      BY <1>6 DEF IInv, TypeOK, HoldTypes
    <3>4. \A q : Key(q)' = Key(q) /\ (Priced(q)' <=> Priced(q)) /\ Cost(q, q.qty)' = Cost(q, q.qty)
      BY DEF Key, Priced, Cost
    <3>5. \A k \in DOMAIN hold' : \E q \in Requests : k = Key(q) /\ stage'[q] # "idle"
      BY <1>3, <2>4 DEF IInv, HoldInv
    <3>6. \A q \in Requests : stage'[q] \in {"reserved", "queued"} => Priced(q)
      BY <1>3, <2>4 DEF IInv, HoldInv
    <3>7. \A q \in Requests : Live(q)' =>
            /\ Key(q) \in DOMAIN hold' /\ hold'[Key(q)].active /\ hold'[Key(q)].amount = Cost(q, q.qty)
            /\ \A c \in Callers : releasing'[c] # NoRelease => Key(q) \notin releasing'[c]
      BY <1>1, <2>1, <2>4, <3>3 DEF IInv, HoldInv
    <3> QED BY <3>2, <3>4, <3>5, <3>6, <3>7 DEF HoldInv
  <2>5. CASE stage'[r] = "refused" /\ hold' = hold
    BY <2>3, <2>5
  <2>6. CASE stage'[r] = "reserved" /\ L!Reserve(Reservation(r)) /\ Priced(r)
    <3>1. Reservation(r).amount = Cost(r, r.qty) /\ Key(r) = L!HoldKey(Reservation(r))
      BY DEF Reservation, Key
    <3>2. CASE Cost(r, r.qty) = 0
      BY <1>6, <2>3, <2>6, <3>1, <3>2 DEF L!Reserve
    <3>3. CASE Cost(r, r.qty) # 0
      <4>1. hold' = L!InsertNew(hold, [k \in {Key(r)} |-> fresh])
        BY <1>6, <2>6, <3>1, <3>3 DEF L!Reserve
      <4>2. /\ DOMAIN hold' = DOMAIN hold \cup {Key(r)} /\ hold'[Key(r)] = fresh
            /\ \A k \in DOMAIN hold : hold'[k] = hold[k]
        BY <1>6, <4>1 DEF L!InsertNew
      <4> QED BY <2>4, <2>6, <4>2
    <3> QED BY <3>2, <3>3
  <2> QED BY <1>3, <2>5, <2>6
<1> QED BY <1>1, <1>4, <1>5, <1>7, EngineStill, GatewayStill DEF IInv, TypeOK

LEMMA Appended ==
  ASSUME NEW T, NEW s \in Seq(T), NEW x \in T
  PROVE  /\ Append(s, x) \in Seq(T) /\ Len(Append(s, x)) = Len(s) + 1
         /\ Len(s) \in Nat /\ DOMAIN s = 1..Len(s)
         /\ DOMAIN Append(s, x) = 1..(Len(s) + 1)
         /\ \A i \in DOMAIN s : Append(s, x)[i] = s[i] /\ s[i] \in T
         /\ Append(s, x)[Len(s) + 1] = x
         /\ s # <<>> => Head(s) = s[1] /\ Head(Append(s, x)) = s[1]
BY AppendProperties, LenProperties, ElementOfSeq, HeadTailProperties, EmptySeq

\* A request is queued while its hold is there; if it is not, its hold is undone.
LEMMA PlacePublishStep ==
  ASSUME AnswersTell, IInv, NEW r \in Requests, PlacePublish(r)
  PROVE  IInv'
<1>1. UNCHANGED <<engineVars, canceling, gatewayQ, orders, hold, releasing>>
  BY DEF PlacePublish, ledgerVars
<1>2. stage[r] = "reserved" /\ stage \in [Requests -> Stages] /\ commands \in Seq(Command)
  BY DEF PlacePublish, IInv, TypeOK, HandlerTypes
<1>3. /\ stage' \in [Requests -> Stages]
      /\ \A q \in Requests : q # r => stage'[q] = stage[q]
      /\ \/ stage'[r] = "queued" /\ commands' \in {commands, Append(commands, Placement(r))}
         \/ stage'[r] = "undoing" /\ commands' = commands
  BY <1>2 DEF PlacePublish, AnswersTell, Stages, Placement
<1>4. Placement(r) \in Command
  BY DEF Placement, Command
<1>5. HandlerTypes'
  BY <1>1, <1>2, <1>3, <1>4, Appended DEF IInv, TypeOK, HandlerTypes
<1>6. PlaceInv'
  <2>1. CASE commands' = commands
    BY <1>1, <1>2, <1>3, <2>1, PlacesStay
  <2>2. CASE commands' = Append(commands, Placement(r)) /\ stage'[r] = "queued"
    <3>1. /\ DOMAIN commands' = 1..(Len(commands) + 1) /\ commands'[Len(commands) + 1] = Placement(r)
          /\ DOMAIN commands = 1..Len(commands) /\ Len(commands) \in Nat
          /\ \A i \in DOMAIN commands : commands'[i] = commands[i]
          /\ commands # <<>> => Head(commands') = Head(commands) /\ commands' # <<>>
      BY <1>2, <1>4, <2>2, Appended
    <3>2. OrderIds' = OrderIds /\ entered' = entered /\ active' = active
      BY <1>1 DEF OrderIds, engineVars
    <3>3. \A id \in OrderIds : entered[id] # r /\ entered[id] \in Requests
      BY <1>2, ElementOfSeq DEF IInv, PlaceInv, TypeOK, EngineTypes, OrderIds
    <3>4. \A i \in DOMAIN commands : commands[i] # Placement(r)
      BY <1>2 DEF IInv, PlaceInv
    <3>5. \A q \in Requests : Placement(q)' = Placement(q) /\ (Placement(q) = Placement(r) => q = r)
      BY DEF Placement
    <3>6. ASSUME NEW i \in DOMAIN commands', NEW q \in Requests, commands'[i] = Placement(q)
          PROVE  /\ stage'[q] = "queued"
                 /\ \A j \in DOMAIN commands' : commands'[j] = Placement(q) => i = j
                 /\ \A id \in OrderIds : entered[id] = q => i = 1 /\ active # NoOrder
      <4>1. CASE i = Len(commands) + 1
        BY <2>2, <3>1, <3>3, <3>4, <3>5, <3>6, <4>1
      <4>2. CASE i # Len(commands) + 1
        <5>1. i \in DOMAIN commands /\ commands[i] = Placement(q) /\ q # r
          BY <3>1, <3>4, <3>6, <4>2
        <5> QED BY <1>3, <3>1, <3>5, <5>1 DEF IInv, PlaceInv
      <4> QED BY <4>1, <4>2
    <3>7. \A id \in OrderIds : stage'[entered[id]] = "queued"
      BY <1>3, <3>3 DEF IInv, PlaceInv
    <3> QED BY <3>1, <3>2, <3>5, <3>6, <3>7 DEF IInv, PlaceInv
  <2> QED BY <1>3, <2>1, <2>2
<1>7. HoldTypes'
  BY <1>1 DEF IInv, TypeOK, HoldTypes
<1>8. HoldInv'
  <2>1. \A q \in Requests : Live(q)' => Live(q)
    BY <1>1, <1>2, <1>3, LiveStays
  <2> QED BY <1>1, <1>2, <1>3, <2>1, HoldsStay DEF IInv, HoldInv
<1> QED BY <1>1, <1>5, <1>6, <1>7, <1>8, EngineStill, GatewayStill DEF IInv, TypeOK

\* The handler undoes its hold. Its request is in no queue.
LEMMA UndoStep ==
  ASSUME UniqueIds, IInv, NEW r \in Requests, UndoRead(r) \/ UndoWrite(r) \/ UndoFails(r)
  PROVE  IInv'
<1>1. UNCHANGED <<engineVars, canceling, commands, gatewayQ, orders>>
  BY DEF UndoRead, UndoWrite, UndoFails
<1>2. /\ stage[r] \in {"undoing", "releasing"} /\ stage \in [Requests -> Stages]
      /\ stage' \in [Requests -> Stages] /\ stage'[r] \in {"releasing", "failed"}
      /\ \A q \in Requests : q # r => stage'[q] = stage[q]
  BY DEF UndoRead, UndoWrite, UndoFails, IInv, TypeOK, HandlerTypes, Stages
<1>3. r \in Callers /\ HoldTypes
  BY DEF Callers, IInv, TypeOK
<1>4. HandlerTypes' /\ PlaceInv'
  BY <1>1, <1>2, PlacesStay DEF IInv, TypeOK, HandlerTypes
<1>5. \A q \in Requests : Live(q)' => Live(q) /\ q # r
  <2>1. \A q \in Requests : Live(q)' => Live(q)
    BY <1>1, <1>2, LiveStays
  <2>2. ~Live(r)'
    BY <1>2 DEF Live
  <2> QED BY <2>1, <2>2
<1>6. HoldTypes' /\ HoldInv'
  <2>1. CASE UndoRead(r)
    <3> DEFINE R == {k \in DOMAIN hold : k[2] = r.coid /\ hold[k].active}
    <3>1. hold' = hold /\ releasing' = [releasing EXCEPT ![r] = R]
      BY <2>1 DEF UndoRead, L!ReleaseRead
    <3>2. R \in SUBSET DOMAIN hold /\ \A q \in Requests : q # r => Key(q) \notin R
      BY Keys DEF UniqueIds
    <3> HIDE DEF R
    <3>3. HoldTypes'
      BY <1>3, <3>1, <3>2 DEF HoldTypes
    <3>4. \A q \in Requests : Live(q)' =>
            \A c \in Callers : releasing'[c] # NoRelease => Key(q) \notin releasing'[c]
      BY <1>3, <1>5, <3>1, <3>2 DEF IInv, HoldInv, HoldTypes
    <3> QED BY <1>2, <1>5, <3>1, <3>3, <3>4, HoldsStay
  <2>2. CASE UndoWrite(r)
    <3>1. L!ReleaseWrite(r)
      BY <2>2 DEF UndoWrite
    <3>2. /\ HoldTypes' /\ DOMAIN hold' = DOMAIN hold
          /\ releasing[r] # NoRelease /\ releasing' = [releasing EXCEPT ![r] = NoRelease]
          /\ \A k \in DOMAIN hold : k \notin releasing[r] => hold'[k] = hold[k]
      BY <1>3, <3>1, Released DEF L!ReleaseWrite
    <3>3. \A q \in Requests : Live(q)' =>
            /\ hold'[Key(q)] = hold[Key(q)]
            /\ \A c \in Callers : releasing'[c] # NoRelease => Key(q) \notin releasing'[c]
      BY <1>3, <1>5, <3>2 DEF IInv, HoldInv, HoldTypes
    <3> QED BY <1>2, <1>5, <3>2, <3>3, HoldsStay
  <2>3. CASE UndoFails(r)
    <3>1. hold' = hold /\ releasing' = [releasing EXCEPT ![r] = NoRelease]
      BY <2>3 DEF UndoFails
    <3>2. HoldTypes'
      BY <1>3, <3>1 DEF HoldTypes
    <3>3. \A q \in Requests : Live(q)' =>
            \A c \in Callers : releasing'[c] # NoRelease => Key(q) \notin releasing'[c]
      BY <1>3, <1>5, <3>1 DEF IInv, HoldInv, HoldTypes
    <3> QED BY <1>2, <1>5, <3>1, <3>2, <3>3, HoldsStay
  <2> QED BY <2>1, <2>2, <2>3
<1> QED BY <1>1, <1>4, <1>6, EngineStill, GatewayStill DEF IInv, TypeOK

-----------------------------------------------------------------------------
(* Cancellations, withdrawals and the ledger. *)

\* Steps that none of the invariant's variables notices.
LEMMA OtherStill ==
  ASSUME IInv, UNCHANGED <<engineVars, stage, canceling, commands, gatewayQ, orders, hold, releasing>>
  PROVE  IInv'
<1>1. HandlerTypes' /\ HoldTypes' /\ PlaceInv'
  BY PlacesStay DEF IInv, TypeOK, HandlerTypes, HoldTypes
<1>2. HoldInv'
  <2>1. \A q \in Requests : Live(q)' => Live(q)
    BY LiveStays
  <2> QED BY <2>1, HoldsStay DEF IInv, HoldInv
<1> QED BY <1>1, <1>2, EngineStill, GatewayStill DEF IInv, TypeOK

LEMMA OtherSteps ==
  ASSUME IInv,
         \/ \E w \in Withdrawals : CheckWithdrawal(w) \/ SendWithdrawal(w)
         \/ \E acked \in BOOLEAN : Settle(acked)
         \/ UNCHANGED vars
  PROVE  IInv'
<1>1. UNCHANGED <<engineVars, stage, canceling, commands, gatewayQ, orders, hold, releasing>>
  BY DEF CheckWithdrawal, SendWithdrawal, Settle, L!SettleTrade, L!SettleFaucet, vars,
         ledgerVars, handlerVars
<1> QED BY <1>1, OtherStill

\* A cancellation is one more command, and no placement.
LEMMA RequestCancelStep ==
  ASSUME IInv, NEW id \in OrderIds, RequestCancel(id)
  PROVE  IInv'
<1> DEFINE x == [kind |-> "cancel", order |-> id]
<1>1. /\ UNCHANGED <<engineVars, stage, gatewayQ, orders, hold, releasing>>
      /\ canceling' = canceling \cup {id} /\ commands' = Append(commands, x)
  BY DEF RequestCancel, ledgerVars
<1>2. id \in Nat /\ Len(entered) \in Nat
  BY Distinct DEF IInv
<1>3. x \in Command /\ \A q \in Requests : x # Placement(q)
  BY <1>2 DEF Command, Placement
<1> HIDE DEF x
<1>4. commands \in Seq(Command)
  BY DEF IInv, TypeOK, HandlerTypes
<1>5. HandlerTypes'
  BY <1>1, <1>2, <1>3, <1>4, Appended DEF IInv, TypeOK, HandlerTypes
<1>6. PlaceInv'
  <2>1. /\ DOMAIN commands' = 1..(Len(commands) + 1) /\ commands'[Len(commands) + 1] = x
        /\ DOMAIN commands = 1..Len(commands) /\ Len(commands) \in Nat
        /\ \A i \in DOMAIN commands : commands'[i] = commands[i]
        /\ commands # <<>> => Head(commands') = Head(commands) /\ commands' # <<>>
    BY <1>1, <1>3, <1>4, Appended
  <2>2. OrderIds' = OrderIds /\ entered' = entered /\ active' = active /\ stage' = stage
    BY <1>1 DEF OrderIds, engineVars
  <2>3. \A q : Placement(q)' = Placement(q)
    BY DEF Placement
  <2>4. \A i \in DOMAIN commands', q \in Requests : commands'[i] = Placement(q) =>
          i \in DOMAIN commands /\ commands[i] = Placement(q)
    BY <1>3, <2>1
  <2> QED BY <2>1, <2>2, <2>3, <2>4 DEF IInv, PlaceInv
<1>7. HoldTypes'
  BY <1>1 DEF IInv, TypeOK, HoldTypes
<1>8. HoldInv'
  <2>1. \A q \in Requests : Live(q)' => Live(q)
    BY <1>1, LiveStays
  <2> QED BY <1>1, <2>1, HoldsStay DEF IInv, HoldInv
<1> QED BY <1>1, <1>5, <1>6, <1>7, <1>8, EngineStill, GatewayStill DEF IInv, TypeOK

-----------------------------------------------------------------------------
(* The gateway's consumer. *)

\* What the consumer releases belongs to an order that has nothing open, hence to
\* no live request.
LEMMA ClosedIsOver ==
  ASSUME UniqueIds, IInv, gatewayQ # <<>>, NEW coid \in Closed(Head(gatewayQ)),
         NEW q \in Requests, Live(q)
  PROVE  q.coid # coid
<1> DEFINE e == Head(gatewayQ)
<1>1. e \in Event /\ Right(e)
  BY HeadTailProperties, LenProperties, EmptySeq
     DEF IInv, TypeOK, GatewayTypes, EventInv, RightEvents
<1>2. PICK id \in OrderIds : entered[id].coid = coid /\ Open(id) = 0
  <2>1. CASE e.kind = "canceled"
    <3>1. coid = orders[e.order].coid /\ e.order \in DOMAIN orders
      BY <2>1 DEF Closed
    <3> QED BY <1>1, <2>1, <3>1 DEF IInv, EventInv, Right
  <2>2. CASE e.kind = "filled"
    BY <1>1, <2>2 DEF Closed, Right
  <2>3. CASE e.kind = "rejected"
    BY <1>1, <2>3 DEF Closed, Right
  <2>4. CASE e.kind = "accepted"
    BY <2>4 DEF Closed
  <2> QED BY <1>1, <2>1, <2>2, <2>3, <2>4 DEF Event
<1>3. entered[id] \in Requests
  BY ElementOfSeq DEF IInv, TypeOK, EngineTypes, OrderIds
<1>4. q.coid = coid => q = entered[id]
  BY <1>2, <1>3 DEF UniqueIds
<1> QED BY <1>2, <1>4 DEF IInv, PlaceInv, Live

\* What is shown after an event.
LEMMA Projects ==
  ASSUME IInv, UNCHANGED engineVars, gatewayQ # <<>>, orders' = Projected(Head(gatewayQ)),
         gatewayQ' \in {gatewayQ, Tail(gatewayQ)}
  PROVE  GatewayTypes' /\ EventInv'
<1> DEFINE e == Head(gatewayQ)
<1>1. e \in Event /\ Right(e)
  BY HeadTailProperties, LenProperties, EmptySeq
     DEF IInv, TypeOK, GatewayTypes, EventInv, RightEvents
<1>2. /\ gatewayQ' \in Seq(Event)
      /\ \A i \in DOMAIN gatewayQ' : \E j \in DOMAIN gatewayQ : gatewayQ'[i] = gatewayQ[j]
  <2>1. gatewayQ \in Seq(Event)
    BY DEF IInv, TypeOK, GatewayTypes
  <2> QED BY <2>1, HeadTailProperties, LenProperties
<1>3. OrderIds' = OrderIds /\ entered' = entered
  BY DEF OrderIds, engineVars
<1>4. \A id \in OrderIds : entered[id].qty \in Int /\ entered[id].coid \in Coids
  <2>1. \A id \in OrderIds : entered[id] \in Requests
    BY ElementOfSeq DEF IInv, TypeOK, EngineTypes, OrderIds
  <2> QED BY <2>1, RequestsAssumption DEF Coids
<1>5. /\ DOMAIN orders \subseteq OrderIds
      /\ \A id \in DOMAIN orders : orders[id] \in Shown /\ orders[id].coid = entered[id].coid
  BY DEF IInv, TypeOK, GatewayTypes, EventInv
<1> HIDE DEF e
<1>6. /\ DOMAIN orders' \subseteq OrderIds /\ orders' \in [DOMAIN orders' -> Shown]
      /\ \A id \in DOMAIN orders' : orders'[id].coid = entered[id].coid
  <2>1. CASE e.kind = "accepted"
    <3>1. orders' = [id \in DOMAIN orders \cup {e.order} |->
                       IF id = e.order
                       THEN [coid |-> e.coid, open |-> entered[id].qty, status |-> "new"]
                       ELSE orders[id]]
      BY <2>1 DEF Projected, e
    <3>2. e.order \in OrderIds /\ e.coid = entered[e.order].coid
      BY <1>1, <2>1 DEF Right
    <3>3. \A id \in DOMAIN orders' : orders'[id] \in Shown /\ orders'[id].coid = entered[id].coid
      BY <1>4, <1>5, <3>1, <3>2 DEF Shown
    <3> QED BY <1>5, <3>1, <3>2, <3>3
  <2>2. CASE e.kind = "filled"
    <3> DEFINE s == IF e.remaining = 0 THEN "filled" ELSE "partially_filled"
    <3>1. orders' = [id \in DOMAIN orders |->
                       IF id = e.order
                       THEN [orders[id] EXCEPT !.open = e.remaining, !.status = s]
                       ELSE orders[id]]
      BY <2>2 DEF Projected, e
    <3>2. e.remaining \in Int /\ s \in {"partially_filled", "filled"}
      BY <1>1, <2>2 DEF Event
    <3> HIDE DEF s
    <3>3. ASSUME NEW id \in DOMAIN orders
          PROVE  orders'[id] \in Shown /\ orders'[id].coid = entered[id].coid
      <4>1. orders'[id] \in {orders[id], [orders[id] EXCEPT !.open = e.remaining, !.status = s]}
        BY <3>1
      <4>2. orders[id] \in Shown /\ orders[id].coid = entered[id].coid
        BY <1>5
      <4> QED BY <3>2, <4>1, <4>2 DEF Shown
    <3> QED BY <1>5, <3>1, <3>3
  <2>3. CASE e.kind = "canceled"
    <3>1. orders' = [id \in DOMAIN orders |->
                       IF id = e.order THEN [orders[id] EXCEPT !.status = "canceled"]
                       ELSE orders[id]]
      BY <2>3 DEF Projected, e
    <3>2. \A id \in DOMAIN orders : orders'[id] \in Shown /\ orders'[id].coid = entered[id].coid
      BY <1>5, <3>1 DEF Shown
    <3> QED BY <1>5, <3>1, <3>2
  <2>4. CASE e.kind = "rejected"
    <3>1. orders' = [id \in DOMAIN orders |->
                       IF orders[id].coid = e.coid THEN [orders[id] EXCEPT !.status = "rejected"]
                       ELSE orders[id]]
      BY <2>4 DEF Projected, e
    <3>2. ASSUME NEW id \in DOMAIN orders
          PROVE  orders'[id] \in Shown /\ orders'[id].coid = entered[id].coid
      <4>1. orders'[id] \in {orders[id], [orders[id] EXCEPT !.status = "rejected"]}
        BY <3>1
      <4> QED BY <1>5, <4>1 DEF Shown
    <3> QED BY <1>5, <3>1, <3>2
  <2> QED BY <1>1, <2>1, <2>2, <2>3, <2>4 DEF Event
<1>7. EventInv'
  BY <1>2, <1>3, <1>6, EngineStill DEF IInv, EventInv
<1> QED BY <1>2, <1>3, <1>6, <1>7 DEF GatewayTypes

\* The queue after an event, acknowledged or not.
LEMMA DoneIs ==
  ASSUME NEW acked \in BOOLEAN
  PROVE  Done(gatewayQ, acked) \in {gatewayQ, Tail(gatewayQ)}
BY DEF Done

\* The consumer loses events from the queue, but does not change them.
LEMMA QueueShrinks ==
  ASSUME IInv, UNCHANGED engineVars, orders' \in {orders, <<>>},
         gatewayQ' = gatewayQ \/ (gatewayQ # <<>> /\ gatewayQ' = Tail(gatewayQ))
  PROVE  GatewayTypes' /\ EventInv'
<1>1. /\ gatewayQ' \in Seq(Event)
      /\ \A i \in DOMAIN gatewayQ' : \E j \in DOMAIN gatewayQ : gatewayQ'[i] = gatewayQ[j]
  <2>1. gatewayQ \in Seq(Event)
    BY DEF IInv, TypeOK, GatewayTypes
  <2> QED BY <2>1, HeadTailProperties, LenProperties
<1>2. OrderIds' = OrderIds /\ entered' = entered
  BY DEF OrderIds, engineVars
<1>3. /\ DOMAIN orders' \subseteq DOMAIN orders /\ orders' \in [DOMAIN orders' -> Shown]
      /\ \A id \in DOMAIN orders' : orders'[id] = orders[id]
  <2>1. DOMAIN <<>> = {} /\ <<>> \in [{} -> Shown]
    BY EmptySeq, SMT
  <2> QED BY <2>1 DEF IInv, TypeOK, GatewayTypes
<1>4. GatewayTypes'
  BY <1>1, <1>2, <1>3 DEF IInv, TypeOK, GatewayTypes
<1>5. EventInv'
  BY <1>1, <1>2, <1>3, EngineStill DEF IInv, EventInv
<1> QED BY <1>4, <1>5

LEMMA ConsumerSteps ==
  ASSUME UniqueIds, IInv, BusyInv, NEW acked \in BOOLEAN,
         ProjectEvent(acked) \/ CloseOrder \/ ReleaseHold(acked) \/ ReleaseFails(acked)
  PROVE  IInv'
<1>1. UNCHANGED <<engineVars, stage, canceling, commands>>
  BY DEF ProjectEvent, CloseOrder, ReleaseHold, ReleaseFails, handlerVars
<1>2. HandlerTypes' /\ PlaceInv' /\ HoldTypes /\ Consumer \in Callers
  BY <1>1, PlacesStay DEF IInv, TypeOK, HandlerTypes, Callers
<1>3. \A q \in Requests : Live(q)' => Live(q)
  BY <1>1, LiveStays
<1>4. CASE ProjectEvent(acked)
  <2>1. hold' = hold /\ releasing' = releasing
    BY <1>4 DEF ProjectEvent, ledgerVars
  <2>2. GatewayTypes' /\ EventInv'
    BY <1>1, <1>4, DoneIs, Projects DEF ProjectEvent
  <2>3. HoldTypes' /\ HoldInv'
    BY <1>1, <1>2, <1>3, <2>1, HoldsStay DEF IInv, HoldInv, HoldTypes
  <2> QED BY <1>1, <1>2, <2>2, <2>3, EngineStill DEF IInv, TypeOK
<1>5. CASE CloseOrder
  <2>1. PICK coid \in Closed(Head(gatewayQ)) : L!ReleaseRead(Consumer, coid)
    BY <1>5 DEF CloseOrder
  <2> DEFINE R == {k \in DOMAIN hold : k[2] = coid /\ hold[k].active}
  <2>2. hold' = hold /\ releasing' = [releasing EXCEPT ![Consumer] = R]
    BY <2>1 DEF L!ReleaseRead
  <2>3. R \in SUBSET DOMAIN hold /\ \A q \in Requests : Live(q) => Key(q) \notin R
    <3>1. \A q \in Requests : Live(q) => q.coid # coid
      BY <1>5, ClosedIsOver DEF CloseOrder
    <3> QED BY <3>1, Keys
  <2> HIDE DEF R
  <2>4. HoldTypes'
    BY <1>2, <2>2, <2>3 DEF HoldTypes
  <2>5. \A q \in Requests : Live(q)' =>
          \A c \in Callers : releasing'[c] # NoRelease => Key(q) \notin releasing'[c]
    BY <1>2, <1>3, <2>2, <2>3 DEF IInv, HoldInv, HoldTypes
  <2>6. HoldInv'
    BY <1>1, <1>3, <2>2, <2>5, HoldsStay
  <2>7. GatewayTypes' /\ EventInv'
    BY <1>1, <1>5, Projects DEF CloseOrder
  <2> QED BY <1>1, <1>2, <2>4, <2>6, <2>7, EngineStill DEF IInv, TypeOK
<1>6. CASE ReleaseHold(acked)
  <2>1. L!ReleaseWrite(Consumer) /\ orders' = orders
    BY <1>6 DEF ReleaseHold
  <2>2. /\ HoldTypes' /\ DOMAIN hold' = DOMAIN hold
        /\ releasing[Consumer] # NoRelease
        /\ releasing' = [releasing EXCEPT ![Consumer] = NoRelease]
        /\ \A k \in DOMAIN hold : k \notin releasing[Consumer] => hold'[k] = hold[k]
    BY <1>2, <2>1, Released DEF L!ReleaseWrite
  <2>3. \A q \in Requests : Live(q)' =>
          /\ hold'[Key(q)] = hold[Key(q)]
          /\ \A c \in Callers : releasing'[c] # NoRelease => Key(q) \notin releasing'[c]
    BY <1>2, <1>3, <2>2 DEF IInv, HoldInv, HoldTypes
  <2>4. HoldInv'
    BY <1>1, <1>3, <2>2, <2>3, HoldsStay
  <2>5. GatewayTypes' /\ EventInv'
    BY <1>1, <1>6, <2>1, <2>2, DoneIs, QueueShrinks DEF ReleaseHold, BusyInv
  <2> QED BY <1>1, <1>2, <2>2, <2>4, <2>5, EngineStill DEF IInv, TypeOK
<1>7. CASE ReleaseFails(acked)
  <2>1. /\ hold' = hold /\ releasing' = [releasing EXCEPT ![Consumer] = NoRelease]
        /\ orders' = orders /\ releasing[Consumer] # NoRelease
    BY <1>7 DEF ReleaseFails
  <2>2. HoldTypes'
    BY <1>2, <2>1 DEF HoldTypes
  <2>3. \A q \in Requests : Live(q)' =>
          \A c \in Callers : releasing'[c] # NoRelease => Key(q) \notin releasing'[c]
    BY <1>2, <1>3, <2>1 DEF IInv, HoldInv, HoldTypes
  <2>4. HoldInv'
    BY <1>1, <1>3, <2>1, <2>3, HoldsStay
  <2>5. GatewayTypes' /\ EventInv'
    BY <1>1, <1>7, <2>1, DoneIs, QueueShrinks DEF ReleaseFails, BusyInv
  <2> QED BY <1>1, <1>2, <2>2, <2>4, <2>5, EngineStill DEF IInv, TypeOK
<1> QED BY <1>4, <1>5, <1>6, <1>7

LEMMA RestartStep ==
  ASSUME IInv, RestartGateway
  PROVE  IInv'
<1>1. /\ UNCHANGED <<engineVars, canceling, commands, gatewayQ, hold>> /\ orders' = <<>>
      /\ releasing' = [c \in Callers |-> NoRelease]
  BY DEF RestartGateway
<1>2. /\ stage \in [Requests -> Stages] /\ stage' \in [Requests -> Stages]
      /\ \A r \in Requests : stage'[r] = stage[r] \/ (stage[r] # "queued" /\ stage'[r] = "failed")
  BY DEF RestartGateway, IInv, TypeOK, HandlerTypes, Stages
<1>3. HandlerTypes' /\ PlaceInv'
  BY <1>1, <1>2, PlacesStay DEF IInv, TypeOK, HandlerTypes
<1>4. \A q \in Requests : Live(q)' => Live(q)
  BY <1>1, <1>2, LiveStays
<1>5. HoldTypes'
  BY <1>1 DEF IInv, TypeOK, HoldTypes
<1>6. \A c \in Callers : releasing'[c] = NoRelease
  BY <1>1
<1>7. HoldInv'
  BY <1>1, <1>2, <1>4, <1>6, HoldsStay
<1>8. GatewayTypes' /\ EventInv'
  BY <1>1, QueueShrinks
<1> QED BY <1>1, <1>3, <1>5, <1>7, <1>8, EngineStill DEF IInv, TypeOK

-----------------------------------------------------------------------------
(* The engine. *)

LEMMA OpenSet ==
  ASSUME NEW S, \A m, n \in S : m.id = n.id => m = n
  PROVE  /\ \A m \in S : OpenIn(S, m.id) = m.open
         /\ \A id : (\A m \in S : m.id # id) => OpenIn(S, id) = 0
BY OpenOne, OpenNone

LEMMA EnteredAre ==
  ASSUME IInv
  PROVE  /\ Len(entered) \in Nat /\ OrderIds = 1..Len(entered) /\ OrderIds \subseteq Nat
         /\ \A id \in OrderIds : entered[id] \in Requests
BY ElementOfSeq, LenProperties DEF IInv, TypeOK, EngineTypes, OrderIds

\* When nothing becomes open again, events stay right and no hold is touched.
LEMMA EngineMoves ==
  ASSUME IInv, UNCHANGED <<stage, hold, releasing>>,
         OrderIds \subseteq OrderIds', \A id \in OrderIds : entered'[id] = entered[id],
         \A id \in OrderIds : Open(id) = 0 => Open(id)' = 0
  PROVE  /\ RightEvents \subseteq RightEvents'
         /\ HoldTypes' /\ HoldInv'
<1>1. RightEvents \subseteq RightEvents'
  BY DEF RightEvents, Right
<1>2. HoldTypes'
  BY DEF IInv, TypeOK, HoldTypes
<1>3. \A q \in Requests : Live(q)' => Live(q)
  <2> SUFFICES ASSUME NEW q \in Requests, Live(q)' PROVE Live(q)
    OBVIOUS
  <2>1. \A id \in OrderIds : Open(id) \in Nat
    BY OpenFacts DEF IInv
  <2>2. CASE stage[q] = "reserved"
    BY <2>2 DEF Live, Cost
  <2>3. CASE stage[q] = "queued" /\ \A id \in OrderIds' : entered'[id] = q => Open(id)' > 0
    <3>1. \A id \in OrderIds : entered[id] = q => Open(id)' > 0
      BY <2>3
    <3>2. \A id \in OrderIds : entered[id] = q => Open(id) > 0
      BY <2>1, <3>1
    <3> QED BY <2>3, <3>2 DEF Live, Cost
  <2> QED BY <2>2, <2>3 DEF Live
<1>4. HoldInv'
  BY <1>3, HoldsStay DEF IInv, HoldInv
<1> QED BY <1>1, <1>2, <1>4

\* Events in a longer queue, of orders that are still entered.
LEMMA EventsStay ==
  ASSUME IInv, UNCHANGED orders, OrderIds \subseteq OrderIds',
         \A id \in OrderIds : entered'[id] = entered[id],
         RightEvents \subseteq RightEvents',
         gatewayQ' \in Seq(Event),
         \A i \in DOMAIN gatewayQ' : \/ gatewayQ'[i] \in RightEvents'
                                     \/ \E j \in DOMAIN gatewayQ : gatewayQ'[i] = gatewayQ[j]
  PROVE  GatewayTypes' /\ EventInv'
<1>1. DOMAIN orders \subseteq OrderIds' /\ orders \in [DOMAIN orders -> Shown]
  BY DEF IInv, TypeOK, GatewayTypes
<1>2. \A i \in DOMAIN gatewayQ' : gatewayQ'[i] \in RightEvents'
  BY DEF IInv, EventInv
<1>3. \A id \in DOMAIN orders : orders[id].coid = entered'[id].coid
  BY DEF IInv, EventInv, TypeOK, GatewayTypes
<1> QED BY <1>1, <1>2, <1>3 DEF GatewayTypes, EventInv

\* The next command, when the one that was taken up is done.
LEMMA NextCommand ==
  ASSUME IInv, commands # <<>>, commands' = Tail(commands), stage' = stage,
         OrderIds' = OrderIds, entered' = entered, active' = NoOrder
  PROVE  PlaceInv' /\ commands' \in Seq(Command)
<1>1. commands \in Seq(Command)
  BY DEF IInv, TypeOK, HandlerTypes
<1>2. /\ commands' \in Seq(Command)
      /\ \A i \in DOMAIN commands' : /\ i \in Nat /\ i + 1 \in DOMAIN commands
                                     /\ commands'[i] = commands[i + 1]
  BY <1>1, HeadTailProperties, LenProperties
<1>3. \A q : Placement(q)' = Placement(q)
  BY DEF Placement
<1>4. ASSUME NEW i \in DOMAIN commands', NEW q \in Requests, commands'[i] = Placement(q)
      PROVE  /\ stage[q] = "queued"
             /\ \A j \in DOMAIN commands' : commands'[j] = Placement(q) => i = j
             /\ \A id \in OrderIds : entered[id] # q
  <2>1. i + 1 \in DOMAIN commands /\ commands[i + 1] = Placement(q) /\ i + 1 # 1
    BY <1>2, <1>4, LenProperties
  <2>2. \A j \in DOMAIN commands' : commands'[j] = Placement(q) => i + 1 = j + 1 /\ i \in Nat /\ j \in Nat
    BY <1>2, <2>1 DEF IInv, PlaceInv
  <2>3. \A j \in DOMAIN commands' : commands'[j] = Placement(q) => i = j
    BY <2>2
  <2> QED BY <2>1, <2>3 DEF IInv, PlaceInv
<1> QED BY <1>2, <1>3, <1>4 DEF IInv, PlaceInv

\* A command that expires takes nothing with it but itself.
LEMMA ExpireStep ==
  ASSUME IInv, Expire
  PROVE  IInv'
<1>1. /\ UNCHANGED <<engineVars, stage, canceling, gatewayQ, orders, hold, releasing>>
      /\ commands # <<>> /\ commands' = Tail(commands) /\ active' = NoOrder
  BY DEF Expire, ledgerVars, handlerVars, engineVars
<1>2. OrderIds' = OrderIds /\ entered' = entered
  BY <1>1 DEF OrderIds, engineVars
<1>3. PlaceInv' /\ commands' \in Seq(Command)
  BY <1>1, <1>2, NextCommand
<1>4. HandlerTypes'
  BY <1>1, <1>2, <1>3 DEF IInv, TypeOK, HandlerTypes
<1>5. HoldTypes'
  BY <1>1 DEF IInv, TypeOK, HoldTypes
<1>6. HoldInv'
  <2>1. \A q \in Requests : Live(q)' => Live(q)
    BY <1>1, LiveStays
  <2> QED BY <1>1, <2>1, HoldsStay DEF IInv, HoldInv
<1> QED BY <1>1, <1>3, <1>4, <1>5, <1>6, EngineStill, GatewayStill DEF IInv, TypeOK

-----------------------------------------------------------------------------
(* What is spent, and what is left, by the trades. *)

CostsOf(t, r) ==
  [n \in DOMAIN t |-> IF r.side = "sell" THEN t[n].qty ELSE L!Paid(t[n])]
SpentOf(t, r, id) ==
  SumFunctionOnSet(CostsOf(t, r), {n \in DOMAIN t : id \in {t[n].taker, t[n].maker}})
LeftOf(qty, t, i) == qty - SumFunctionOnSet([j \in DOMAIN t |-> t[j].qty], 1..i)

Trade ==
  [id : Nat, price : Nat, qty : Nat, taker : Nat, maker : Nat,
   buyer : Accounts, seller : Accounts]

LEMMA SpentIs ==
  ASSUME NEW id
  PROVE  /\ id \in OrderIds /\ (\A i \in OrderIds : entered[i] = entered[id] => i = id) =>
              Spent(entered[id]) = SpentOf(trades, entered[id], id)
         /\ id \in OrderIds' /\ (\A i \in OrderIds' : entered'[i] = entered'[id] => i = id) =>
              Spent(entered[id])' = SpentOf(trades', entered'[id], id)
<1>1. ASSUME id \in OrderIds, \A i \in OrderIds : entered[i] = entered[id] => i = id
      PROVE  Spent(entered[id]) = SpentOf(trades, entered[id], id)
  <2>1. Taken(entered[id]) = {id}
    BY <1>1 DEF Taken
  <2>2. {n \in DOMAIN trades : {trades[n].taker, trades[n].maker} \cap {id} # {}}
          = {n \in DOMAIN trades : id \in {trades[n].taker, trades[n].maker}}
    OBVIOUS
  <2> QED BY <2>1, <2>2 DEF Spent, SpentOf, FillCost, CostsOf
<1>2. ASSUME id \in OrderIds', \A i \in OrderIds' : entered'[i] = entered'[id] => i = id
      PROVE  Spent(entered[id])' = SpentOf(trades', entered'[id], id)
  <2>1. Taken(entered[id])' = {id}
    BY <1>2 DEF Taken
  <2>2. {n \in DOMAIN trades' : {trades'[n].taker, trades'[n].maker} \cap {id} # {}}
          = {n \in DOMAIN trades' : id \in {trades'[n].taker, trades'[n].maker}}
    OBVIOUS
  <2> QED BY <2>1, <2>2 DEF Spent, SpentOf, FillCost, CostsOf
<1> QED BY <1>1, <1>2

LEMMA SpentNothing ==
  ASSUME NEW t, NEW r, NEW id, \A n \in DOMAIN t : id # t[n].taker /\ id # t[n].maker
  PROVE  SpentOf(t, r, id) = 0
<1>1. {n \in DOMAIN t : id \in {t[n].taker, t[n].maker}} = {}
  OBVIOUS
<1> QED BY <1>1, SumRec, FS_EmptySet DEF SpentOf

LEMMA SpentMore ==
  ASSUME NEW t \in Seq(Trade), NEW x \in Trade, NEW r, NEW id
  PROVE  /\ id \in {x.taker, x.maker} =>
              SpentOf(Append(t, x), r, id) =
                SpentOf(t, r, id) + (IF r.side = "sell" THEN x.qty ELSE L!Paid(x))
         /\ id \notin {x.taker, x.maker} => SpentOf(Append(t, x), r, id) = SpentOf(t, r, id)
<1> DEFINE u == Append(t, x)
           F(s) == {n \in DOMAIN s : id \in {s[n].taker, s[n].maker}}
<1>1. /\ Len(t) \in Nat /\ DOMAIN t = 1..Len(t) /\ DOMAIN u = 1..(Len(t) + 1)
      /\ \A n \in DOMAIN t : u[n] = t[n] /\ t[n] \in Trade
      /\ u[Len(t) + 1] = x
  BY Appended
<1> HIDE DEF u
<1>2. IsFiniteSet(F(t)) /\ Len(t) + 1 \notin F(t)
  <2>1. F(t) \subseteq 1..Len(t) /\ IsFiniteSet(1..Len(t))
    BY <1>1, FS_Interval
  <2>2. Len(t) + 1 \notin 1..Len(t)
    BY <1>1
  <2> QED BY <2>1, <2>2, FS_Subset
<1>3. \A y \in Trade : L!Paid(y) \in Int /\ y.qty \in Int
  <2>1. ASSUME NEW y \in Trade PROVE L!Paid(y) \in Int
    <3>1. y.price \in Nat /\ y.qty \in Nat
      BY DEF Trade
    <3>2. y.price * y.qty \in Nat /\ (y.price * y.qty) \div Scale \in Nat
      BY <3>1, NotionalIs, Division
    <3>3. L!Notional(y.price, y.qty).amount =
            IF (y.price * y.qty) \div Scale > MaxInt THEN 0 ELSE (y.price * y.qty) \div Scale
      BY <3>1, NotionalIs
    <3>4. L!Notional(y.price, y.qty).amount \in Int
      BY <3>2, <3>3
    <3> QED BY <3>4 DEF L!Paid
  <2> QED BY <2>1 DEF Trade
<1>4. \A n \in F(t) : CostsOf(u, r)[n] = CostsOf(t, r)[n] /\ CostsOf(u, r)[n] \in Int
  BY <1>1, <1>3 DEF CostsOf
<1>5. SumFunctionOnSet(CostsOf(u, r), F(t)) = SpentOf(t, r, id)
  BY <1>2, <1>4, SumSame DEF SpentOf
<1>6. ASSUME id \in {x.taker, x.maker}
      PROVE  SpentOf(u, r, id) = SpentOf(t, r, id) + (IF r.side = "sell" THEN x.qty ELSE L!Paid(x))
  <2>1. F(u) = F(t) \cup {Len(t) + 1}
    BY <1>1, <1>6
  <2>2. CostsOf(u, r)[Len(t) + 1] = IF r.side = "sell" THEN x.qty ELSE L!Paid(x)
    BY <1>1 DEF CostsOf
  <2>3. CostsOf(u, r)[Len(t) + 1] \in Int
    BY <1>3, <2>2
  <2>4. SumFunctionOnSet(CostsOf(u, r), F(t) \cup {Len(t) + 1})
          = CostsOf(u, r)[Len(t) + 1] + SumFunctionOnSet(CostsOf(u, r), F(t))
    BY <1>2, <1>4, <2>3, SumAdd
  <2>5. SumFunctionOnSet(CostsOf(u, r), F(t)) \in Int
    BY <1>2, <1>4, SumType
  <2>6. SpentOf(u, r, id) = SumFunctionOnSet(CostsOf(u, r), F(u))
    BY DEF SpentOf
  <2> HIDE DEF F
  <2>7. SpentOf(u, r, id) = CostsOf(u, r)[Len(t) + 1] + SpentOf(t, r, id)
    BY <1>5, <2>1, <2>4, <2>6
  <2>8. SpentOf(t, r, id) \in Int
    BY <1>5, <2>5
  <2> QED BY <2>2, <2>3, <2>7, <2>8
<1>7. ASSUME id \notin {x.taker, x.maker} PROVE SpentOf(u, r, id) = SpentOf(t, r, id)
  <2>1. F(u) = F(t)
    BY <1>1, <1>7
  <2> QED BY <1>5, <2>1 DEF SpentOf
<1> QED BY <1>6, <1>7 DEF u

LEMMA RemainingIs ==
  ASSUME NEW i
  PROVE  /\ RemainingAfter(i) = LeftOf(entered[active.id].qty, tape, i)
         /\ RemainingAfter(i)' = LeftOf(entered'[active'.id].qty, tape', i)
BY DEF RemainingAfter, LeftOf

\* A trade more takes its quantity from what was left.
LEMMA LeftMore ==
  ASSUME NEW S, NEW t \in Seq(S), \A y \in S : y.qty \in Int, NEW x \in S, NEW qty \in Int
  PROVE  /\ \A i \in 0..Len(t) : /\ LeftOf(qty, Append(t, x), i) = LeftOf(qty, t, i)
                                 /\ LeftOf(qty, t, i) \in Int
         /\ LeftOf(qty, Append(t, x), Len(t) + 1) = LeftOf(qty, t, Len(t)) - x.qty
         /\ LeftOf(qty, t, 0) = qty
<1> DEFINE u == Append(t, x)
           Q(s) == [j \in DOMAIN s |-> s[j].qty]
<1>1. /\ Len(t) \in Nat /\ DOMAIN t = 1..Len(t) /\ DOMAIN u = 1..(Len(t) + 1)
      /\ \A n \in DOMAIN t : u[n] = t[n] /\ t[n] \in S
      /\ u[Len(t) + 1] = x
  BY Appended
<1> HIDE DEF u
<1>2. /\ \A n \in DOMAIN t : Q(u)[n] = Q(t)[n] /\ Q(t)[n] \in Int
      /\ Q(u)[Len(t) + 1] = x.qty /\ x.qty \in Int
  BY <1>1
<1> HIDE DEF Q
<1>3. ASSUME NEW i \in 0..Len(t)
      PROVE  /\ SumFunctionOnSet(Q(u), 1..i) = SumFunctionOnSet(Q(t), 1..i)
             /\ SumFunctionOnSet(Q(t), 1..i) \in Int
  <2>1. IsFiniteSet(1..i) /\ \A n \in 1..i : n \in DOMAIN t
    BY <1>1, FS_Interval
  <2>2. SumFunctionOnSet(Q(u), 1..i) = SumFunctionOnSet(Q(t), 1..i)
    BY <1>2, <2>1, SumSame
  <2>3. SumFunctionOnSet(Q(t), 1..i) \in Int
    BY <1>2, <2>1, SumType
  <2> QED BY <2>2, <2>3
<1>4. SumFunctionOnSet(Q(u), 1..(Len(t) + 1)) = x.qty + SumFunctionOnSet(Q(t), 1..Len(t))
  <2>1. 1..(Len(t) + 1) = (1..Len(t)) \cup {Len(t) + 1} /\ Len(t) + 1 \notin 1..Len(t)
    BY <1>1
  <2>2. /\ IsFiniteSet(1..Len(t))
        /\ \A n \in (1..Len(t)) \cup {Len(t) + 1} : Q(u)[n] \in Int
    <3>1. \A n \in 1..Len(t) : Q(u)[n] \in Int
      BY <1>1, <1>2
    <3>2. Q(u)[Len(t) + 1] \in Int
      BY <1>2
    <3>3. \A n \in (1..Len(t)) \cup {Len(t) + 1} : Q(u)[n] \in Int
      BY <3>1, <3>2
    <3>4. IsFiniteSet(1..Len(t))
      BY <1>1, FS_Interval
    <3> QED BY <3>3, <3>4
  <2>3. SumFunctionOnSet(Q(u), (1..Len(t)) \cup {Len(t) + 1})
          = Q(u)[Len(t) + 1] + SumFunctionOnSet(Q(u), 1..Len(t))
    BY <2>1, <2>2, SumAdd
  <2>4. Len(t) \in 0..Len(t)
    BY <1>1
  <2> QED BY <1>2, <1>3, <2>1, <2>3, <2>4
<1>5. SumFunctionOnSet(Q(t), 1..0) = 0
  <2>1. 1..0 = {}
    OBVIOUS
  <2> QED BY <2>1, SumRec, FS_EmptySet
<1>6. \A s, i : LeftOf(qty, s, i) = qty - SumFunctionOnSet(Q(s), 1..i)
  BY DEF LeftOf, Q
<1>7. Len(t) \in 0..Len(t)
  BY <1>1
<1>8. /\ LeftOf(qty, u, Len(t) + 1) = LeftOf(qty, t, Len(t)) - x.qty
      /\ LeftOf(qty, t, 0) = qty
  BY <1>2, <1>3, <1>4, <1>5, <1>6, <1>7
<1>9. \A i \in 0..Len(t) : LeftOf(qty, u, i) = LeftOf(qty, t, i) /\ LeftOf(qty, t, i) \in Int
  BY <1>3, <1>6
<1> QED BY <1>8, <1>9 DEF u

\* Without a trade, nothing is spent; what closes costs nothing any more, and a new
\* order has cost nothing yet.
LEMMA SpentStays ==
  ASSUME IInv, OrderIds \subseteq OrderIds', \A id \in OrderIds : entered'[id] = entered[id],
         \A i, j \in OrderIds' : entered'[i] = entered'[j] => i = j,
         trades' = trades,
         \A id \in OrderIds : Open(id)' \in {0, Open(id)},
         \A id \in OrderIds' \ OrderIds :
           entered'[id] \in Requests /\ Open(id)' \in {0, entered'[id].qty}
  PROVE  SpentInv'
<1>1. \A id \in OrderIds : entered[id] \in Requests /\ Open(id) \in Nat
  BY EnteredAre, OpenFacts DEF IInv
<1>2. \A i, j \in OrderIds : entered[i] = entered[j] => i = j
  BY DEF IInv, PlaceInv
<1>3. \A n \in DOMAIN trades : trades[n].taker \in OrderIds /\ trades[n].maker \in OrderIds
  BY DEF IInv, SpentInv
<1>4. ASSUME NEW id \in OrderIds', Limited(entered[id])'
      PROVE  /\ Spent(entered[id])' \in Nat
             /\ Cost(entered'[id], Open(id)') + Spent(entered[id])'
                  <= Cost(entered'[id], entered'[id].qty)
  <2> DEFINE r == entered'[id]
             o == Open(id)'
  <2>1. Spent(entered[id])' = SpentOf(trades, r, id)
    BY <1>4, SpentIs
  <2>2. CASE id \in OrderIds
    <3>1. r = entered[id] /\ r \in Requests /\ o \in {0, Open(id)} /\ Open(id) \in Nat
      BY <1>1, <2>2
    <3>2. SpentOf(trades, r, id) = Spent(entered[id])
      BY <1>2, <2>2, <3>1, SpentIs
    <3>3. Limited(entered[id])
      BY <1>4, <3>1 DEF Limited
    <3>4. /\ Spent(entered[id]) \in Nat
          /\ Cost(entered[id], Open(id)) + Spent(entered[id]) <= Cost(entered[id], entered[id].qty)
      BY <2>2, <3>3 DEF IInv, SpentInv
    <3>5. Cost(r, o) \in Nat /\ Cost(r, Open(id)) \in Nat /\ Cost(r, r.qty) \in Nat /\ Cost(r, 0) = 0
      BY <3>1, CostType, RequestsAssumption
    <3> HIDE DEF r, o
    <3>6. Cost(r, o) <= Cost(r, Open(id))
      BY <3>1, <3>5
    <3>7. /\ SpentOf(trades, r, id) \in Nat
          /\ Cost(r, Open(id)) + SpentOf(trades, r, id) <= Cost(r, r.qty)
      BY <3>1, <3>2, <3>4
    <3>8. Cost(r, o) + SpentOf(trades, r, id) <= Cost(r, r.qty)
      BY <3>5, <3>6, <3>7
    <3> QED BY <2>1, <3>7, <3>8 DEF r, o
  <2>3. CASE id \notin OrderIds
    <3>1. r \in Requests /\ o \in {0, r.qty}
      BY <2>3
    <3>2. SpentOf(trades, r, id) = 0
      BY <1>3, <2>3, SpentNothing
    <3>3. Cost(r, r.qty) \in Nat /\ Cost(r, 0) = 0
      BY <3>1, CostType, RequestsAssumption
    <3> HIDE DEF r, o
    <3>4. Cost(r, o) + 0 <= Cost(r, r.qty)
      BY <3>1, <3>3
    <3> QED BY <2>1, <3>2, <3>4 DEF r, o
  <2> QED BY <2>2, <2>3
<1>5. \A n \in DOMAIN trades' : trades'[n].taker \in OrderIds' /\ trades'[n].maker \in OrderIds'
  BY <1>3
<1> QED BY <1>4, <1>5 DEF SpentInv

\* handlePlace takes up a request.
LEMMA TakeOrderStep ==
  ASSUME IInv, NEW r \in Requests, TakeOrder(r, Len(entered) + 1)
  PROVE  IInv'
<1>0. PICK n : n = Len(entered) + 1
  OBVIOUS
<1> DEFINE o == OrderOf(r, n)
<1>1. /\ commands # <<>> /\ Head(commands) = Placement(r) /\ active = NoOrder
      /\ entered' = Append(entered, r) /\ selfCanceled' = <<>> /\ tape' = <<>>
      /\ UNCHANGED <<stage, canceling, trades, orders, hold, releasing, resting>>
      /\ \/ /\ active' = NoOrder /\ commands' = Tail(commands)
            /\ gatewayQ' = Append(gatewayQ, [kind |-> "rejected", coid |-> r.coid])
         \/ active' = o /\ gatewayQ' = gatewayQ /\ commands' = commands
  BY <1>0 DEF TakeOrder, M!Refuse, M!Arrive, Placement, ledgerVars, handlerVars
<1>2. /\ Len(entered) \in Nat /\ OrderIds = 1..Len(entered) /\ OrderIds \subseteq Nat
      /\ \A id \in OrderIds : entered[id] \in Requests
  BY EnteredAre
<1>3. /\ entered' \in Seq(Requests) /\ n = Len(entered) + 1 /\ n \in Nat
      /\ OrderIds' = OrderIds \cup {n} /\ n \notin OrderIds /\ Len(entered') = n
      /\ \A id \in OrderIds : entered'[id] = entered[id] /\ id < n
      /\ entered'[n] = r
  <2>1. entered \in Seq(Requests)
    BY DEF IInv, TypeOK, EngineTypes
  <2> QED BY <1>0, <1>1, <1>2, <2>1, Appended DEF OrderIds
<1>4. /\ 1 \in DOMAIN commands /\ commands[1] = Placement(r) /\ stage[r] = "queued"
      /\ \A id \in OrderIds : entered[id] # r
      /\ \A j \in DOMAIN commands : commands[j] = Placement(r) => j = 1
  <2>1. commands \in Seq(Command)
    BY DEF IInv, TypeOK, HandlerTypes
  <2>2. 1 \in DOMAIN commands /\ commands[1] = Placement(r)
    BY <1>1, <2>1, HeadTailProperties, LenProperties, EmptySeq
  <2> QED BY <1>1, <2>2 DEF IInv, PlaceInv
<1>5. \A i, j \in OrderIds' : entered'[i] = entered'[j] => i = j
  BY <1>3, <1>4 DEF IInv, PlaceInv
<1>6. r.qty \in Nat \ {0} /\ r.price \in Nat /\ r.side \in {"buy", "sell"} /\ r.market \in BOOLEAN
  BY RequestsAssumption
<1>7. /\ o \in Order /\ o.id = n /\ o.open = r.qty
      /\ o.account = r.account /\ o.side = r.side /\ o.market = r.market /\ o.price = r.price
  BY <1>3, <1>6 DEF Order, OrderOf
<1> HIDE DEF o
<1>8. EngineTypes'
  BY <1>1, <1>3, <1>7, EmptySeq DEF IInv, TypeOK, EngineTypes
<1>9. \A m \in resting : Placed(m)' /\ m.id \in OrderIds /\ m.id < n
  BY <1>3 DEF IInv, BookInv, Placed
<1>10. BookInv'
  <2>1. \A m \in resting' : Placed(m)' /\ m.open > 0 /\ ~m.market
    BY <1>1, <1>9 DEF IInv, BookInv
  <2>2. active' # NoOrder =>
          /\ Placed(active)' /\ active'.id = Len(entered')
          /\ \A m \in resting' : m.id < active'.id
    BY <1>1, <1>3, <1>6, <1>7, <1>9 DEF Placed
  <2> QED BY <1>1, <2>1, <2>2 DEF IInv, BookInv
<1>11. /\ \A id \in OrderIds : Open(id)' = Open(id)
       /\ Open(n)' \in {0, r.qty}
  <2>1. Engaged = resting
    BY <1>1 DEF Engaged
  <2>2. Engaged' \in {resting, resting \cup {o}}
    BY <1>1 DEF Engaged
  <2>3. \A id \in OrderIds : WithId(Engaged', id) = WithId(Engaged, id)
    BY <1>3, <1>7, <2>1, <2>2 DEF WithId
  <2>4. OpenIn(Engaged', n) \in {0, r.qty}
    <3>1. \A m \in resting : m.id # n
      BY <1>3, <1>9
    <3>2. OpenIn(resting, n) = 0
      BY <3>1, OpenNone
    <3>3. OpenIn(resting \cup {o}, n) = r.qty
      <4>1. o \in resting \cup {o} /\ \A m \in resting \cup {o} : m.id = o.id => o = m
        BY <1>7, <3>1
      <4> QED BY <1>7, <4>1, OpenOne
    <3> QED BY <2>2, <3>2, <3>3
  <2> QED BY <2>3, <2>4, OpenIs, OpenSame
<1>12. SpentInv'
  BY <1>1, <1>3, <1>5, <1>11, SpentStays
<1>13. RightEvents \subseteq RightEvents' /\ HoldTypes' /\ HoldInv'
  BY <1>1, <1>3, <1>11, EngineMoves
<1>14. MatchInv'
  <2>1. CASE active' = NoOrder
    BY <2>1 DEF MatchInv
  <2>2. CASE active' = o
    <3>1. DOMAIN tape' = {} /\ DOMAIN selfCanceled' = {} /\ Len(tape') = 0
      BY <1>1, EmptySeq
    <3>2. RemainingAfter(0)' = LeftOf(r.qty, <<>>, 0)
      <4>1. RemainingAfter(0)' = LeftOf(entered'[active'.id].qty, tape', 0)
        BY RemainingIs
      <4> QED BY <1>1, <1>3, <1>7, <2>2, <4>1
    <3>3. LeftOf(r.qty, <<>>, 0) = r.qty
      <4>1. SumFunctionOnSet([j \in DOMAIN <<>> |-> <<>>[j].qty], {}) = 0
        BY SumRec, FS_EmptySet
      <4>2. 1..0 = {}
        OBVIOUS
      <4>3. LeftOf(r.qty, <<>>, 0) = r.qty - SumFunctionOnSet([j \in DOMAIN <<>> |-> <<>>[j].qty], 1..0)
        BY DEF LeftOf
      <4>4. LeftOf(r.qty, <<>>, 0) = r.qty - 0
        BY <4>1, <4>2, <4>3
      <4> QED BY <1>6, <4>4
    <3> QED BY <1>7, <2>2, <3>1, <3>2, <3>3 DEF MatchInv
  <2> QED BY <1>1, <2>1, <2>2
<1>15. PlaceInv' /\ HandlerTypes' /\ GatewayTypes' /\ EventInv'
  <2>1. CASE active' = o /\ gatewayQ' = gatewayQ /\ commands' = commands
    <3>1. HandlerTypes'
      BY <1>1, <2>1 DEF IInv, TypeOK, HandlerTypes
    <3>2. GatewayTypes' /\ EventInv'
      BY <1>1, <1>3, <1>13, <2>1, EventsStay DEF IInv, TypeOK, GatewayTypes
    <3>3. o # NoOrder
      BY <1>7, NoOrderAssumption
    <3>4. \A q : Placement(q)' = Placement(q) /\ (Placement(q) = Placement(r) => q = r)
      BY DEF Placement
    <3>5. \A id \in OrderIds' : stage[entered'[id]] = "queued"
      BY <1>3, <1>4 DEF IInv, PlaceInv
    <3>6. \A i \in DOMAIN commands, q \in Requests : commands[i] = Placement(q) =>
            /\ stage[q] = "queued"
            /\ \A j \in DOMAIN commands : commands[j] = Placement(q) => i = j
            /\ \A id \in OrderIds' : entered'[id] = q => i = 1
      <4>1. ASSUME NEW i \in DOMAIN commands, NEW q \in Requests, commands[i] = Placement(q)
            PROVE  /\ stage[q] = "queued"
                   /\ \A j \in DOMAIN commands : commands[j] = Placement(q) => i = j
                   /\ \A id \in OrderIds : entered[id] # q
        BY <1>1, <4>1 DEF IInv, PlaceInv
      <4>2. ASSUME NEW i \in DOMAIN commands, NEW q \in Requests, commands[i] = Placement(q),
                   NEW id \in OrderIds', entered'[id] = q
            PROVE  i = 1
        BY <1>3, <1>4, <3>4, <4>1, <4>2
      <4> QED BY <4>1, <4>2
    <3>7. Head(commands') = Placement(entered[active.id])'
      <4>1. commands' = commands /\ active'.id = n /\ entered'[n] = r
        BY <1>3, <1>7, <2>1
      <4> QED BY <1>1, <4>1 DEF Placement
    <3>8. PlaceInv'
      <4>1. commands' = commands /\ stage' = stage /\ commands # <<>> /\ active' # NoOrder
        BY <1>1, <2>1, <3>3
      <4>2. \A i \in DOMAIN commands', q \in Requests : commands'[i] = Placement(q)' =>
              /\ stage'[q] = "queued"
              /\ \A j \in DOMAIN commands' : commands'[j] = Placement(q)' => i = j
              /\ \A id \in OrderIds' : entered'[id] = q => i = 1 /\ active' # NoOrder
        BY <3>4, <3>6, <4>1
      <4> QED BY <1>5, <3>5, <3>7, <4>1, <4>2 DEF PlaceInv
    <3> QED BY <3>1, <3>2, <3>8
  <2>2. CASE /\ active' = NoOrder /\ commands' = Tail(commands)
             /\ gatewayQ' = Append(gatewayQ, [kind |-> "rejected", coid |-> r.coid])
    <3> DEFINE e == [kind |-> "rejected", coid |-> r.coid]
    <3>1. e \in Event /\ e.kind = "rejected" /\ e.coid = r.coid
      BY DEF Event, Coids
    <3>2. Open(n)' = 0
      <4>1. Engaged' = resting
        BY <1>1, <2>2 DEF Engaged
      <4>2. \A m \in resting : m.id # n
        BY <1>3, <1>9
      <4> QED BY <4>1, <4>2, OpenIs, OpenNone
    <3> HIDE DEF e
    <3>3. e \in RightEvents'
      BY <1>3, <3>1, <3>2 DEF RightEvents, Right
    <3>4. /\ gatewayQ' \in Seq(Event)
          /\ \A i \in DOMAIN gatewayQ' : \/ gatewayQ'[i] \in RightEvents'
                                         \/ \E j \in DOMAIN gatewayQ : gatewayQ'[i] = gatewayQ[j]
      <4>1. gatewayQ \in Seq(Event) /\ gatewayQ' = Append(gatewayQ, e)
        BY <2>2 DEF IInv, TypeOK, GatewayTypes, e
      <4>2. /\ gatewayQ' \in Seq(Event) /\ Len(gatewayQ) \in Nat
            /\ DOMAIN gatewayQ = 1..Len(gatewayQ) /\ DOMAIN gatewayQ' = 1..(Len(gatewayQ) + 1)
            /\ \A i \in DOMAIN gatewayQ : gatewayQ'[i] = gatewayQ[i]
            /\ gatewayQ'[Len(gatewayQ) + 1] = e
        BY <3>1, <4>1, Appended
      <4> QED BY <3>3, <4>2
    <3>5. GatewayTypes' /\ EventInv'
      BY <1>1, <1>3, <1>13, <3>4, EventsStay
    <3>6. PlaceInv' /\ HandlerTypes'
      <4>1. commands \in Seq(Command)
        BY DEF IInv, TypeOK, HandlerTypes
      <4>2. /\ commands' \in Seq(Command)
            /\ \A i \in DOMAIN commands' : /\ i \in Nat /\ i + 1 \in DOMAIN commands
                                           /\ commands'[i] = commands[i + 1]
        BY <1>1, <2>2, <4>1, HeadTailProperties, LenProperties
      <4>3. \A q : Placement(q)' = Placement(q)
        BY DEF Placement
      <4>4. ASSUME NEW i \in DOMAIN commands', NEW q \in Requests, commands'[i] = Placement(q)
            PROVE  /\ stage[q] = "queued"
                   /\ \A j \in DOMAIN commands' : commands'[j] = Placement(q) => i = j
                   /\ \A id \in OrderIds' : entered'[id] # q
        <5>1. i + 1 \in DOMAIN commands /\ commands[i + 1] = Placement(q) /\ i + 1 # 1
          BY <4>2, <4>4, LenProperties
        <5>2. \A j \in DOMAIN commands' : commands'[j] = Placement(q) => i + 1 = j + 1 /\ i \in Nat /\ j \in Nat
          BY <4>2, <5>1 DEF IInv, PlaceInv
        <5>3. \A j \in DOMAIN commands' : commands'[j] = Placement(q) => i = j
          BY <5>2
        <5>4. q # r
          BY <1>4, <5>1
        <5>5. \A id \in OrderIds' : entered'[id] # q
          <6>1. \A id \in OrderIds : entered[id] # q
            BY <5>1 DEF IInv, PlaceInv
          <6> QED BY <1>3, <5>4, <6>1
        <5>6. stage[q] = "queued"
          BY <5>1 DEF IInv, PlaceInv
        <5> QED BY <5>3, <5>5, <5>6
      <4>5. \A id \in OrderIds' : stage[entered'[id]] = "queued"
        BY <1>3, <1>4 DEF IInv, PlaceInv
      <4>6. PlaceInv'
        BY <1>1, <1>5, <2>2, <4>3, <4>4, <4>5 DEF PlaceInv
      <4>7. HandlerTypes'
        BY <1>1, <4>2 DEF IInv, TypeOK, HandlerTypes
      <4> QED BY <4>6, <4>7
    <3> QED BY <3>5, <3>6
  <2> QED BY <1>1, <2>1, <2>2
<1> QED BY <1>8, <1>10, <1>12, <1>13, <1>14, <1>15 DEF IInv, TypeOK

\* A fill and what is open after it cost no more than what was open before, to the
\* taker and to the maker.
FillPrice(r, p, q) == IF r.side = "sell" THEN q ELSE L!Notional(p, q).amount

LEMMA FillIsCovered ==
  ASSUME NEW r \in Requests, Limited(r), Priced(r),
         NEW open \in Nat, open <= r.qty, NEW q \in Nat, q <= open,
         NEW p \in Nat, r.side = "sell" \/ p <= r.price
  PROVE  /\ FillPrice(r, p, q) \in Nat
         /\ Cost(r, open - q) + FillPrice(r, p, q) <= Cost(r, open)
         /\ Cost(r, open - q) \in Nat /\ Cost(r, open) \in Nat
<1>1. open - q \in Nat
  OBVIOUS
<1>2. Cost(r, open - q) \in Nat /\ Cost(r, open) \in Nat
  BY <1>1, CostType
<1>3. CASE r.side = "sell"
  <2>1. Cost(r, open - q) = open - q /\ Cost(r, open) = open /\ FillPrice(r, p, q) = q
    BY <1>3 DEF Cost, FillPrice
  <2> QED BY <1>1, <2>1
<1>4. CASE r.side # "sell"
  <2>1. /\ L!Notional(p, q).amount \in Nat
        /\ Cost(r, open - q) + L!Notional(p, q).amount <= Cost(r, open)
    BY <1>4, FillCovered
  <2>2. FillPrice(r, p, q) = L!Notional(p, q).amount
    BY <1>4 DEF FillPrice
  <2> QED BY <1>2, <2>1, <2>2
<1> QED BY <1>2, <1>3, <1>4

\* A trade of q between the active order a and m.
Matched(m, a, q) ==
  /\ a = active /\ a # NoOrder /\ a \in Order /\ m \in Order
  /\ m.id \in OrderIds /\ a.id \in OrderIds /\ m.id # a.id
  /\ q \in Nat /\ q <= a.open /\ q <= m.open
  /\ M!Tradable(a, m) /\ m.side # a.side
  /\ active' = [a EXCEPT !.open = a.open - q]
  /\ resting' = (resting \ {m}) \cup {l \in {[m EXCEPT !.open = m.open - q]} : l.open > 0}
  /\ tape' = Append(tape, [taker |-> a.id, maker |-> m.id, price |-> m.price, qty |-> q])
  /\ trades' = Append(trades, TradeWith(m, q))

LEMMA MatchIs ==
  ASSUME IInv, NEW m \in resting, Match(m)
  PROVE  \E a \in Order, q \in Nat : Matched(m, a, q)
<1> DEFINE q == IF active.open <= m.open THEN active.open ELSE m.open
<1>1. active # NoOrder /\ active \in Order /\ m \in Order
  BY DEF Match, M!Execute, IInv, TypeOK, EngineTypes
<1>2. m.id \in OrderIds /\ active.id \in OrderIds /\ m.id # active.id
  <2>1. m.id \in OrderIds /\ active.id \in OrderIds /\ m.id < active.id
    BY <1>1 DEF IInv, BookInv, Placed
  <2> QED BY <1>1, <2>1 DEF Order
<1>3. q \in Nat /\ q <= active.open /\ q <= m.open
  BY <1>1 DEF Order
<1>4. M!Tradable(active, m) /\ m.side # active.side
  BY DEF Match, M!Execute, M!IsBest, M!Against
<1>5. /\ active' = [active EXCEPT !.open = active.open - q]
      /\ resting' = (resting \ {m}) \cup {l \in {[m EXCEPT !.open = m.open - q]} : l.open > 0}
      /\ tape' = Append(tape, [taker |-> active.id, maker |-> m.id, price |-> m.price, qty |-> q])
  BY DEF Match, M!Execute
<1>6. trades' = Append(trades, TradeWith(m, q))
  <2>1. tape \in Seq([taker : Nat, maker : Nat, price : Nat, qty : Nat])
    BY DEF IInv, TypeOK, EngineTypes
  <2> DEFINE x == [taker |-> active.id, maker |-> m.id, price |-> m.price, qty |-> q]
  <2>2. x \in [taker : Nat, maker : Nat, price : Nat, qty : Nat]
    BY <1>1, <1>3 DEF Order
  <2>3. x.qty = q
    OBVIOUS
  <2> HIDE DEF x
  <2>4. Len(Append(tape, x)) = Len(tape) + 1 /\ Append(tape, x)[Len(tape) + 1] = x
    BY <2>1, <2>2, Appended
  <2>5. tape' = Append(tape, x)
    BY <1>5 DEF x
  <2>6. tape'[Len(tape')] = x
    BY <2>4, <2>5
  <2> QED BY <2>3, <2>6 DEF Match
<1> HIDE DEF q
<1>7. Matched(m, active, q)
  BY <1>1, <1>2, <1>3, <1>4, <1>5, <1>6 DEF Matched
<1> QED BY <1>1, <1>3, <1>7

\* What is open before and after it.
LEMMA MatchOpens ==
  ASSUME IInv, NEW m \in resting, NEW a \in Order, NEW q \in Nat, Matched(m, a, q)
  PROVE  /\ Open(a.id) = a.open /\ Open(m.id) = m.open
         /\ Open(a.id)' = a.open - q /\ Open(m.id)' = m.open - q
         /\ \A id : id # a.id /\ id # m.id => Open(id)' = Open(id)
         /\ \A l \in Engaged' : \E k \in Engaged :
              /\ l \in Order /\ l.id = k.id /\ l.account = k.account /\ l.side = k.side
              /\ l.market = k.market /\ l.price = k.price /\ l.open <= k.open
         /\ \A l \in resting' : l.open > 0 /\ \E k \in resting : l.id = k.id
         /\ \A k, l \in Engaged' : k.id = l.id => k = l
         /\ active' \in Order /\ active' # NoOrder /\ active'.id = a.id /\ active'.open = a.open - q
<1> DEFINE b == [a EXCEPT !.open = a.open - q]
           n == [m EXCEPT !.open = m.open - q]
<1>1. /\ a \in Order /\ m \in Order /\ m.id # a.id /\ q \in Nat /\ q <= a.open /\ q <= m.open
      /\ a = active /\ a # NoOrder /\ active' = b
      /\ resting' = (resting \ {m}) \cup {l \in {n} : l.open > 0}
  BY DEF Matched
<1>2. /\ b \in Order /\ b.id = a.id /\ b.account = a.account /\ b.side = a.side
      /\ b.market = a.market /\ b.price = a.price /\ b.open = a.open - q /\ b.open <= a.open
  BY <1>1 DEF Order
<1>3. /\ n \in Order /\ n.id = m.id /\ n.account = m.account /\ n.side = m.side
      /\ n.market = m.market /\ n.price = m.price /\ n.open = m.open - q /\ n.open <= m.open
  BY <1>1 DEF Order
<1> HIDE DEF b, n
<1>4. Engaged = resting \cup {a} /\ a \in Engaged /\ m \in Engaged /\ a \notin resting
  BY <1>1, Distinct DEF Engaged, IInv, BookInv
<1>5. Engaged' = resting' \cup {b} /\ b # NoOrder
  BY <1>1, <1>2, NoOrderAssumption DEF Engaged
<1>6. \A k \in Engaged : k \in Order /\ \A l \in Engaged : k.id = l.id => k = l
  BY Distinct DEF IInv
<1>7. \A l \in Engaged' : \/ l = b
                          \/ l = n /\ n.open > 0
                          \/ l \in Engaged /\ l # m /\ l # a
  BY <1>1, <1>4, <1>5
<1>8. \A k, l \in Engaged' : k.id = l.id => k = l
  BY <1>2, <1>3, <1>4, <1>6, <1>7, <1>1
<1>9. Open(a.id) = a.open /\ Open(m.id) = m.open
  BY <1>4, OpenFacts DEF IInv
<1>10. Open(a.id)' = a.open - q
  <2>1. OpenIn(Engaged', b.id) = b.open
    BY <1>5, <1>8, OpenOne
  <2> QED BY <1>2, <2>1, OpenIs
<1>11. Open(m.id)' = m.open - q
  <2>1. CASE n.open > 0
    <3>1. n \in Engaged'
      BY <1>1, <1>5, <2>1
    <3>2. OpenIn(Engaged', n.id) = n.open
      BY <1>8, <3>1, OpenOne
    <3> QED BY <1>3, <3>2, OpenIs
  <2>2. CASE ~(n.open > 0)
    <3>1. n.open = 0
      BY <1>3, <2>2 DEF Order
    <3>2. \A l \in Engaged' : l.id # m.id
      BY <1>1, <1>2, <1>4, <1>6, <1>7, <2>2
    <3> QED BY <1>3, <3>1, <3>2, OpenIs, OpenNone
  <2> QED BY <2>1, <2>2
<1>12. ASSUME NEW id, id # a.id, id # m.id PROVE Open(id)' = Open(id)
  <2>1. WithId(Engaged', id) = WithId(Engaged, id)
    <3>1. \A l \in Engaged : l.id = id => l \in Engaged'
      BY <1>1, <1>4, <1>5, <1>12
    <3>2. \A l \in Engaged' : l.id = id => l \in Engaged
      BY <1>2, <1>3, <1>7, <1>12
    <3> QED BY <3>1, <3>2 DEF WithId
  <2> QED BY <2>1, OpenIs, OpenSame
<1>13. ASSUME NEW l \in Engaged'
       PROVE  \E k \in Engaged :
              /\ l \in Order /\ l.id = k.id /\ l.account = k.account /\ l.side = k.side
              /\ l.market = k.market /\ l.price = k.price /\ l.open <= k.open
  <2>1. CASE l = b
    BY <1>2, <1>4, <2>1
  <2>2. CASE l = n
    BY <1>3, <1>4, <2>2
  <2>3. CASE l \in Engaged
    BY <1>6, <2>3 DEF Order
  <2> QED BY <1>7, <2>1, <2>2, <2>3
<1>14. \A l \in resting' : l.open > 0 /\ \E k \in resting : l.id = k.id
  BY <1>1, <1>3 DEF IInv, BookInv
<1>15. active' \in Order /\ active' # NoOrder /\ active'.id = a.id /\ active'.open = a.open - q
  BY <1>1, <1>2, <1>5
<1> QED BY <1>8, <1>9, <1>10, <1>11, <1>12, <1>13, <1>14, <1>15

\* A trade of a taker and a maker whose limits allow it is covered for both.
LEMMA MatchSpends ==
  ASSUME IInv, NEW m \in resting, NEW a \in Order, NEW q \in Nat, Matched(m, a, q),
         UNCHANGED <<entered, stage>>
  PROVE  SpentInv' /\ trades' \in Seq(Trade)
<1> DEFINE x == TradeWith(m, q)
<1>1. OrderIds' = OrderIds /\ a = active /\ trades' = Append(trades, x) /\ trades \in Seq(Trade)
  BY DEF OrderIds, Matched, IInv, TypeOK, EngineTypes, Trade
<1>2. \A id \in OrderIds : entered[id] \in Requests
  BY EnteredAre
<1>3. \A i, j \in OrderIds : entered[i] = entered[j] => i = j
  BY DEF IInv, PlaceInv
<1>4. /\ m \in Order /\ q <= a.open /\ q <= m.open /\ M!Tradable(a, m) /\ m.side # a.side
      /\ m.id \in OrderIds /\ a.id \in OrderIds /\ m.id # a.id /\ Placed(a) /\ Placed(m)
  BY DEF Matched, IInv, BookInv
<1>5. /\ x \in Trade /\ x.taker = a.id /\ x.maker = m.id /\ x.price = m.price /\ x.qty = q
  <2>1. Len(trades) + 1 \in Nat
    BY <1>1, LenProperties
  <2>2. a.account \in Accounts /\ m.account \in Accounts /\ a.id \in Nat /\ m.id \in Nat /\ m.price \in Nat
    BY <1>4 DEF Order, Accounts
  <2> QED BY <1>1, <2>1, <2>2 DEF TradeWith, Trade
<1> HIDE DEF x
<1>6. trades' \in Seq(Trade)
  BY <1>1, <1>5, Appended
<1>7. ASSUME NEW id \in {a.id, m.id}, Limited(entered[id])
      PROVE  /\ Spent(entered[id])' \in Nat
             /\ Cost(entered[id], Open(id)') + Spent(entered[id])'
                  <= Cost(entered[id], entered[id].qty)
  <2> DEFINE r == entered[id]
             open == Open(id)
  <2>1. r \in Requests /\ id \in OrderIds /\ Priced(r)
    <3>1. stage[r] = "queued"
      BY <1>4, <1>7 DEF IInv, PlaceInv
    <3> QED BY <1>2, <1>4, <1>7, <3>1 DEF IInv, HoldInv
  <2>2. open \in Nat /\ q <= open /\ open <= r.qty /\ Open(id)' = open - q
    <3>1. Open(a.id) = a.open /\ Open(m.id) = m.open /\ Open(a.id)' = a.open - q /\ Open(m.id)' = m.open - q
      BY MatchOpens
    <3> QED BY <1>4, <1>7, <3>1 DEF Order, Placed
  <2>3. m.price \in Nat /\ (r.side = "sell" \/ m.price <= r.price)
    <3>1. m.price \in Nat /\ a.price \in Nat
      BY <1>4 DEF Order
    <3>2. CASE id = m.id
      BY <1>4, <3>1, <3>2 DEF Placed
    <3>3. CASE id = a.id
      <4>1. a.price = r.price /\ a.side = r.side /\ a.market = r.market
        BY <1>4, <3>3 DEF Placed
      <4>2. CASE r.side = "sell"
        BY <3>1, <4>2
      <4>3. CASE r.side # "sell"
        <5>1. r.side = "buy" /\ ~r.market
          BY <1>7, <2>1, <4>3, RequestsAssumption DEF Limited
        <5>2. a.price >= m.price
          BY <1>4, <4>1, <5>1 DEF M!Tradable
        <5> QED BY <3>1, <4>1, <5>2
      <4> QED BY <4>2, <4>3
    <3> QED BY <1>7, <3>2, <3>3
  <2>4. Spent(r) = SpentOf(trades, r, id) /\ Spent(entered[id])' = SpentOf(trades', r, id)
    BY <1>1, <1>3, <2>1, SpentIs
  <2>5. SpentOf(trades', r, id) = SpentOf(trades, r, id) + FillPrice(r, m.price, q)
    <3>1. id \in {x.taker, x.maker}
      BY <1>5, <1>7
    <3>2. SpentOf(trades', r, id) = SpentOf(trades, r, id) + (IF r.side = "sell" THEN x.qty ELSE L!Paid(x))
      BY <1>1, <1>5, <3>1, SpentMore
    <3> QED BY <1>5, <3>2 DEF FillPrice, L!Paid
  <2>6. Spent(r) \in Nat /\ Cost(r, open) + Spent(r) <= Cost(r, r.qty)
    BY <1>7, <2>1 DEF IInv, SpentInv
  <2>7. Cost(r, r.qty) \in Nat
    BY <2>1, CostType, RequestsAssumption
  <2>8. Limited(r)
    BY <1>7
  <2> HIDE DEF r, open
  <2>9. /\ FillPrice(r, m.price, q) \in Nat
        /\ Cost(r, open - q) + FillPrice(r, m.price, q) <= Cost(r, open)
        /\ Cost(r, open - q) \in Nat /\ Cost(r, open) \in Nat
    BY <2>1, <2>2, <2>3, <2>8, FillIsCovered
  <2>10. SpentOf(trades', r, id) \in Nat
    BY <2>4, <2>5, <2>6, <2>9
  <2>11. Cost(r, open - q) + SpentOf(trades', r, id) <= Cost(r, r.qty)
    BY <2>4, <2>5, <2>6, <2>7, <2>9
  <2> QED BY <2>2, <2>4, <2>10, <2>11 DEF r
<1>8. ASSUME NEW id \in OrderIds, id \notin {a.id, m.id}, Limited(entered[id])
      PROVE  /\ Spent(entered[id])' \in Nat
             /\ Cost(entered[id], Open(id)') + Spent(entered[id])'
                  <= Cost(entered[id], entered[id].qty)
  <2>1. Open(id)' = Open(id)
    BY <1>8, MatchOpens
  <2>2. /\ Spent(entered[id]) = SpentOf(trades, entered[id], id)
        /\ Spent(entered[id])' = SpentOf(trades', entered[id], id)
    BY <1>1, <1>3, SpentIs
  <2>3. SpentOf(trades', entered[id], id) = SpentOf(trades, entered[id], id)
    BY <1>1, <1>5, <1>8, SpentMore
  <2>4. /\ Spent(entered[id]) \in Nat
        /\ Cost(entered[id], Open(id)) + Spent(entered[id]) <= Cost(entered[id], entered[id].qty)
    BY <1>8 DEF IInv, SpentInv
  <2> QED BY <2>1, <2>2, <2>3, <2>4
<1>9. \A n \in DOMAIN trades' : trades'[n].taker \in OrderIds /\ trades'[n].maker \in OrderIds
  <2>1. /\ Len(trades) \in Nat /\ DOMAIN trades = 1..Len(trades) /\ DOMAIN trades' = 1..(Len(trades) + 1)
        /\ \A n \in DOMAIN trades : trades'[n] = trades[n]
        /\ trades'[Len(trades) + 1] = x
    BY <1>1, <1>5, Appended
  <2>2. x.taker \in OrderIds /\ x.maker \in OrderIds
    BY <1>4, <1>5
  <2> QED BY <2>1, <2>2 DEF IInv, SpentInv
<1>10. \A id \in OrderIds' : Limited(entered[id])' =>
         /\ Spent(entered[id])' \in Nat
         /\ Cost(entered'[id], Open(id)') + Spent(entered[id])' <= Cost(entered'[id], entered'[id].qty)
  <2> SUFFICES ASSUME NEW id \in OrderIds', Limited(entered[id])'
               PROVE  /\ Spent(entered[id])' \in Nat
                      /\ Cost(entered'[id], Open(id)') + Spent(entered[id])' <= Cost(entered'[id], entered'[id].qty)
    OBVIOUS
  <2>1. Limited(entered[id]) /\ entered'[id] = entered[id] /\ id \in OrderIds
    BY <1>1 DEF Limited
  <2> QED BY <1>7, <1>8, <2>1
<1>11. SpentInv'
  BY <1>1, <1>9, <1>10 DEF SpentInv
<1> QED BY <1>6, <1>11

\* The engine executes a trade.
LEMMA MatchStep ==
  ASSUME IInv, NEW m \in resting, Match(m)
  PROVE  IInv'
<1>1. UNCHANGED <<entered, selfCanceled, stage, canceling, commands, gatewayQ, orders, hold, releasing>>
  BY DEF Match, ledgerVars, handlerVars
<1>2. PICK a \in Order, q \in Nat : Matched(m, a, q)
  BY MatchIs
<1>3. /\ Open(a.id) = a.open /\ Open(m.id) = m.open
      /\ Open(a.id)' = a.open - q /\ Open(m.id)' = m.open - q
      /\ \A id : id # a.id /\ id # m.id => Open(id)' = Open(id)
      /\ \A l \in Engaged' : \E k \in Engaged :
           /\ l \in Order /\ l.id = k.id /\ l.account = k.account /\ l.side = k.side
           /\ l.market = k.market /\ l.price = k.price /\ l.open <= k.open
      /\ \A l \in resting' : l.open > 0 /\ \E k \in resting : l.id = k.id
      /\ \A k, l \in Engaged' : k.id = l.id => k = l
      /\ active' \in Order /\ active' # NoOrder /\ active'.id = a.id /\ active'.open = a.open - q
  BY <1>2, MatchOpens
<1>4. /\ a = active /\ a # NoOrder /\ m \in Order /\ m.id \in OrderIds /\ a.id \in OrderIds
      /\ m.id # a.id /\ q <= a.open /\ q <= m.open
      /\ tape' = Append(tape, [taker |-> a.id, maker |-> m.id, price |-> m.price, qty |-> q])
  BY <1>2 DEF Matched
<1>5. /\ OrderIds' = OrderIds /\ OrderIds \subseteq Nat /\ Len(entered) \in Nat
      /\ \A id \in OrderIds : entered[id] \in Requests
  BY <1>1, EnteredAre DEF OrderIds
<1>6. SpentInv' /\ trades' \in Seq(Trade)
  BY <1>1, <1>2, MatchSpends
<1> DEFINE S == [taker : Nat, maker : Nat, price : Nat, qty : Nat]
           x == [taker |-> a.id, maker |-> m.id, price |-> m.price, qty |-> q]
<1>7. tape \in Seq(S) /\ x \in S /\ x.maker = m.id /\ x.qty = q /\ \A y \in S : y.qty \in Int
  <2>1. tape \in Seq(S)
    BY DEF IInv, TypeOK, EngineTypes
  <2>2. a.id \in Nat /\ m.id \in Nat /\ m.price \in Nat
    BY <1>4 DEF Order
  <2>3. x \in S
    BY <2>2
  <2> QED BY <2>1, <2>3
<1>8. tape' = Append(tape, x)
  BY <1>4
<1> HIDE DEF x
<1>9. /\ tape' \in Seq(S) /\ Len(tape') = Len(tape) + 1 /\ Len(tape) \in Nat
      /\ DOMAIN tape = 1..Len(tape) /\ DOMAIN tape' = 1..(Len(tape) + 1)
      /\ \A i \in DOMAIN tape : tape'[i] = tape[i]
      /\ tape'[Len(tape) + 1] = x
  <2>1. PICK T : T = S
    OBVIOUS
  <2>2. tape \in Seq(T) /\ x \in T
    BY <1>7, <2>1
  <2>3. /\ Append(tape, x) \in Seq(T) /\ Len(Append(tape, x)) = Len(tape) + 1 /\ Len(tape) \in Nat
        /\ DOMAIN tape = 1..Len(tape) /\ DOMAIN Append(tape, x) = 1..(Len(tape) + 1)
        /\ \A i \in DOMAIN tape : Append(tape, x)[i] = tape[i]
        /\ Append(tape, x)[Len(tape) + 1] = x
    BY <2>2, Appended
  <2> QED BY <1>8, <2>1, <2>3
<1>10. resting' \subseteq Engaged' /\ active' \in Engaged' /\ active' \notin resting'
  <2>1. active' \in Engaged' /\ resting' \subseteq Engaged'
    BY <1>3 DEF Engaged
  <2>2. ASSUME active' \in resting' PROVE FALSE
    <3>1. PICK k \in resting : k.id = a.id
      BY <1>3, <2>2
    <3>2. k.id < active.id /\ k.id \in Nat
      BY <1>4, <1>5 DEF IInv, BookInv, Placed
    <3> QED BY <1>4, <1>5, <3>1, <3>2
  <2> QED BY <2>1, <2>2
<1>11. EngineTypes'
  BY <1>1, <1>3, <1>6, <1>9, <1>10 DEF IInv, TypeOK, EngineTypes, Trade
<1>12. \A l \in Engaged' : Placed(l)'
  <2> SUFFICES ASSUME NEW l \in Engaged' PROVE Placed(l)'
    OBVIOUS
  <2>1. PICK k \in Engaged :
              /\ l \in Order /\ l.id = k.id /\ l.account = k.account /\ l.side = k.side
              /\ l.market = k.market /\ l.price = k.price /\ l.open <= k.open
    BY <1>3
  <2>2. Placed(k) /\ k \in Order
    BY <1>4, Distinct DEF Engaged, IInv, BookInv
  <2>3. l.open \in Nat /\ k.open \in Nat /\ k.open <= entered[k.id].qty /\ k.id \in OrderIds
    BY <2>1, <2>2 DEF Order, Placed
  <2>4. entered[k.id].qty \in Nat
    BY <1>5, <2>3, RequestsAssumption
  <2>5. l.open <= entered[k.id].qty
    BY <2>1, <2>3, <2>4
  <2> QED BY <1>1, <1>5, <2>1, <2>2, <2>5 DEF Placed
<1>13. BookInv'
  <2>1. \A l \in resting' : Placed(l)' /\ l.open > 0 /\ ~l.market
    <3> SUFFICES ASSUME NEW l \in resting' PROVE Placed(l)' /\ l.open > 0 /\ ~l.market
      OBVIOUS
    <3>1. PICK k \in resting : l.id = k.id
      BY <1>3
    <3>2. ~k.market /\ k.market = entered[k.id].market
      BY DEF IInv, BookInv, Placed
    <3>3. Placed(l)' /\ l.market = entered[l.id].market
      BY <1>1, <1>10, <1>12 DEF Placed
    <3> QED BY <1>3, <3>1, <3>2, <3>3
  <2>2. \A k, l \in resting' : k.id = l.id => k = l
    BY <1>3, <1>10
  <2>3. Placed(active)'
    <3>1. \A l : l = active' /\ Placed(l)' => Placed(active)'
      BY DEF Placed
    <3> QED BY <1>10, <1>12, <3>1
  <2>4. active'.id = Len(entered') /\ \A l \in resting' : l.id < active'.id
    <3>1. active.id = Len(entered) /\ \A k \in resting : k.id < active.id
      BY <1>4 DEF IInv, BookInv
    <3> QED BY <1>1, <1>3, <1>4, <3>1
  <2> QED BY <2>1, <2>2, <2>3, <2>4 DEF BookInv
<1>14. PlaceInv'
  <2>1. \A r : Placement(r)' = Placement(r)
    BY DEF Placement
  <2>2. Head(commands) = Placement(entered[a.id])
    BY <1>4 DEF IInv, PlaceInv
  <2>3. Head(commands') = Placement(entered[active.id])'
    BY <1>1, <1>3, <2>1, <2>2 DEF Placement
  <2> QED BY <1>1, <1>3, <1>4, <1>5, <2>1, <2>3 DEF IInv, PlaceInv
<1>15. /\ RightEvents \subseteq RightEvents' /\ HoldTypes' /\ HoldInv'
       /\ \A id : Open(id) = 0 => Open(id)' = 0
  <2>1. \A id : Open(id) = 0 => Open(id)' = 0
    BY <1>3, <1>4 DEF Order
  <2> QED BY <1>1, <1>5, <2>1, EngineMoves
<1>16. GatewayTypes' /\ EventInv'
  BY <1>1, <1>5, <1>15, EventsStay DEF IInv, TypeOK, GatewayTypes
<1>17. MatchInv'
  <2> DEFINE qty == entered[a.id].qty
  <2>1. qty \in Int
    <3>1. \A r \in Requests : r.qty \in Int
      BY RequestsAssumption
    <3>2. entered[a.id] \in Requests
      BY <1>4, <1>5
    <3> QED BY <3>1, <3>2
  <2>2. \A i : /\ RemainingAfter(i) = LeftOf(qty, tape, i)
               /\ RemainingAfter(i)' = LeftOf(qty, tape', i)
    <3>1. entered'[active'.id].qty = qty /\ entered[active.id].qty = qty
      BY <1>1, <1>3, <1>4
    <3> HIDE DEF qty
    <3> QED BY <3>1, RemainingIs
  <2> HIDE DEF qty, S
  <2>3. /\ \A i \in 0..Len(tape) : /\ LeftOf(qty, tape', i) = LeftOf(qty, tape, i)
                                   /\ LeftOf(qty, tape, i) \in Int
        /\ LeftOf(qty, tape', Len(tape) + 1) = LeftOf(qty, tape, Len(tape)) - q
    BY <1>7, <1>8, <2>1, LeftMore
  <2>4. /\ LeftOf(qty, tape, Len(tape)) = a.open
        /\ \A i \in DOMAIN tape : LeftOf(qty, tape, i) >= a.open
    BY <1>4, <2>2 DEF IInv, MatchInv
  <2>5. LeftOf(qty, tape', Len(tape) + 1) = a.open - q
    BY <2>3, <2>4
  <2>6. \A i \in DOMAIN tape' : LeftOf(qty, tape', i) >= a.open - q
    <3>1. ASSUME NEW i \in DOMAIN tape PROVE LeftOf(qty, tape', i) >= a.open - q
      <4>1. i \in 0..Len(tape)
        BY <1>9
      <4>2. LeftOf(qty, tape', i) \in Int /\ LeftOf(qty, tape', i) >= a.open
        BY <2>3, <2>4, <4>1
      <4> QED BY <1>4, <4>2 DEF Order
    <3>2. a.open - q \in Int
      BY DEF Order
    <3> QED BY <1>9, <2>5, <3>1, <3>2
  <2>7. \A i \in DOMAIN tape' : tape'[i].maker \in OrderIds /\ tape'[i].maker # a.id
    BY <1>4, <1>7, <1>9 DEF IInv, MatchInv
  <2>8. \A i \in DOMAIN selfCanceled :
          selfCanceled[i] \in OrderIds /\ selfCanceled[i] # a.id /\ Open(selfCanceled[i]) = 0
    BY <1>4 DEF IInv, MatchInv
  <2>9. \A i \in DOMAIN selfCanceled' : Open(selfCanceled[i])' = 0
    <3> SUFFICES ASSUME NEW i \in DOMAIN selfCanceled' PROVE Open(selfCanceled[i])' = 0
      OBVIOUS
    <3>1. PICK id : id = selfCanceled[i]
      OBVIOUS
    <3>2. Open(id)' = 0
      BY <1>1, <1>15, <2>8, <3>1
    <3>3. Open(selfCanceled[i])' = Open(id)'
      BY <1>1, <3>1 DEF Open
    <3> QED BY <3>2, <3>3
  <2>10. RemainingAfter(Len(tape))' = active'.open
    <3>1. PICK i : i = Len(tape')
      OBVIOUS
    <3>2. RemainingAfter(Len(tape))' = RemainingAfter(i)'
      BY <3>1 DEF RemainingAfter
    <3> QED BY <1>3, <1>9, <2>2, <2>5, <3>1, <3>2
  <2>11. \A i \in DOMAIN tape' :
           RemainingAfter(i)' >= active'.open /\ tape'[i].maker \in OrderIds' /\ tape'[i].maker # active'.id
    BY <1>3, <1>5, <2>2, <2>6, <2>7
  <2>12. \A i \in DOMAIN selfCanceled' :
           selfCanceled'[i] \in OrderIds' /\ selfCanceled'[i] # active'.id
    BY <1>1, <1>3, <1>5, <2>8
  <2> QED BY <2>9, <2>10, <2>11, <2>12 DEF MatchInv
<1>18. HandlerTypes'
  BY <1>1 DEF IInv, TypeOK, HandlerTypes
<1> QED BY <1>6, <1>11, <1>13, <1>14, <1>15, <1>16, <1>17, <1>18 DEF IInv, TypeOK

\* Self-trade prevention takes a resting order out.
LEMMA CancelOwnStep ==
  ASSUME IInv, NEW m \in resting, CancelOwn(m)
  PROVE  IInv'
<1>1. /\ UNCHANGED <<entered, stage, canceling, commands, trades, tape, active, gatewayQ, orders,
                     hold, releasing>>
      /\ resting' = resting \ {m} /\ selfCanceled' = Append(selfCanceled, m.id)
      /\ active # NoOrder
  BY DEF CancelOwn, M!PreventSelfTrade, ledgerVars, handlerVars
<1>2. /\ OrderIds' = OrderIds /\ OrderIds \subseteq Nat /\ Len(entered) \in Nat
      /\ \A id \in OrderIds : entered[id] \in Requests
  BY <1>1, EnteredAre DEF OrderIds
<1>3. m.id \in OrderIds /\ m.id # active.id
  <2>1. m.id \in OrderIds /\ m.id < active.id
    BY <1>1 DEF IInv, BookInv, Placed
  <2>2. m.id \in Nat
    BY <1>2, <2>1
  <2>3. \A n \in Nat : ~(n < n)
    OBVIOUS
  <2> QED BY <2>1, <2>2, <2>3
<1>4. Open(m.id)' = 0 /\ \A id : id # m.id => Open(id)' = Open(id)
  <2>1. Engaged' = Engaged \ {m}
    BY <1>1, <1>3 DEF Engaged
  <2>2. \A l \in Engaged' : l.id # m.id
    BY <2>1, Distinct DEF Engaged, IInv
  <2>3. \A id : id # m.id => WithId(Engaged', id) = WithId(Engaged, id)
    BY <2>1 DEF WithId
  <2> QED BY <2>2, <2>3, OpenIs, OpenNone, OpenSame
<1>5. SpentInv'
  BY <1>1, <1>2, <1>4, SpentStays DEF IInv, PlaceInv
<1>6. RightEvents \subseteq RightEvents' /\ HoldTypes' /\ HoldInv'
  BY <1>1, <1>2, <1>4, EngineMoves
<1>7. GatewayTypes' /\ EventInv'
  BY <1>1, <1>2, <1>6, EventsStay DEF IInv, TypeOK, GatewayTypes
<1>8. BookInv'
  BY <1>1, <1>2 DEF IInv, BookInv, Placed
<1>9. PlaceInv'
  <2>1. \A r : Placement(r)' = Placement(r)
    BY DEF Placement
  <2> QED BY <1>1, <1>2, <2>1 DEF IInv, PlaceInv
<1>10. /\ selfCanceled' \in Seq(Nat)
       /\ \A i \in DOMAIN selfCanceled' :
            selfCanceled'[i] = m.id \/ \E j \in DOMAIN selfCanceled : selfCanceled'[i] = selfCanceled[j]
  <2>1. selfCanceled \in Seq(Nat) /\ m.id \in Nat
    BY <1>2, <1>3 DEF IInv, TypeOK, EngineTypes
  <2>2. /\ selfCanceled' \in Seq(Nat) /\ Len(selfCanceled) \in Nat
        /\ DOMAIN selfCanceled = 1..Len(selfCanceled)
        /\ DOMAIN selfCanceled' = 1..(Len(selfCanceled) + 1)
        /\ \A i \in DOMAIN selfCanceled : selfCanceled'[i] = selfCanceled[i]
        /\ selfCanceled'[Len(selfCanceled) + 1] = m.id
    BY <1>1, <2>1, Appended
  <2> QED BY <2>2
<1>11. EngineTypes' /\ HandlerTypes'
  BY <1>1, <1>10 DEF IInv, TypeOK, EngineTypes, HandlerTypes
<1>12. MatchInv'
  <2>1. \A i : RemainingAfter(i)' = RemainingAfter(i)
    BY <1>1 DEF RemainingAfter
  <2>2. RemainingAfter(Len(tape))' = RemainingAfter(Len(tape))
    BY <1>1 DEF RemainingAfter
  <2>3. ASSUME NEW i \in DOMAIN selfCanceled'
        PROVE  /\ selfCanceled'[i] \in OrderIds /\ selfCanceled'[i] # active.id
               /\ Open(selfCanceled[i])' = 0
    <3>1. PICK id : id = selfCanceled'[i]
      OBVIOUS
    <3>2. id = m.id \/ (id \in OrderIds /\ id # active.id /\ Open(id) = 0)
      BY <1>1, <1>10, <3>1 DEF IInv, MatchInv
    <3>3. Open(id)' = 0
      BY <1>4, <3>2
    <3>4. Open(selfCanceled[i])' = Open(id)'
      BY <3>1 DEF Open
    <3> QED BY <1>3, <3>1, <3>2, <3>3, <3>4
  <2>4. \A i \in DOMAIN selfCanceled' :
          selfCanceled'[i] \in OrderIds' /\ selfCanceled'[i] # active'.id /\ Open(selfCanceled[i])' = 0
    BY <1>1, <1>2, <2>3
  <2>5. /\ RemainingAfter(Len(tape)) = active.open
        /\ \A i \in DOMAIN tape : /\ RemainingAfter(i) >= active.open
                                  /\ tape[i].maker \in OrderIds /\ tape[i].maker # active.id
    BY <1>1 DEF IInv, MatchInv
  <2> QED BY <1>1, <1>2, <2>1, <2>2, <2>4, <2>5 DEF MatchInv
<1> QED BY <1>5, <1>6, <1>7, <1>8, <1>9, <1>11, <1>12 DEF IInv, TypeOK

\* A user's cancellation takes a resting order out, or finds none.
LEMMA TakeCancelStep ==
  ASSUME IInv, NEW id \in canceling, TakeCancel(id)
  PROVE  IInv'
<1>1. /\ UNCHANGED <<entered, stage, canceling, trades, active, selfCanceled, orders, hold, releasing>>
      /\ active = NoOrder /\ commands # <<>> /\ commands' = Tail(commands) /\ tape' = <<>>
      /\ \/ resting' = resting /\ gatewayQ' = gatewayQ
         \/ \E m \in resting : /\ m.id = id /\ resting' = resting \ {m}
                               /\ gatewayQ' = Append(gatewayQ, Canceled(id))
  BY DEF TakeCancel, M!Withdraw, M!Refuse, ledgerVars, handlerVars
<1>2. /\ OrderIds' = OrderIds /\ OrderIds \subseteq Nat
      /\ \A i \in OrderIds : entered[i] \in Requests
  BY <1>1, EnteredAre DEF OrderIds
<1>3. /\ \A i : Open(i)' \in {0, Open(i)}
      /\ (\E m \in resting : m.id = id /\ resting' = resting \ {m}) => Open(id)' = 0
  <2>1. Engaged = resting /\ Engaged' = resting'
    BY <1>1 DEF Engaged
  <2>2. CASE resting' = resting /\ ~\E m \in resting : m.id = id /\ resting' = resting \ {m}
    BY <2>1, <2>2, OpenIs
  <2>3. ASSUME NEW m \in resting, m.id = id, resting' = resting \ {m}
        PROVE  Open(id)' = 0 /\ \A i : i # id => Open(i)' = Open(i)
    <3>1. \A l \in Engaged' : l.id # id
      BY <2>1, <2>3 DEF IInv, BookInv
    <3>2. \A i : i # id => WithId(Engaged', i) = WithId(Engaged, i)
      BY <2>1, <2>3 DEF WithId
    <3> QED BY <3>1, <3>2, OpenIs, OpenNone, OpenSame
  <2> QED BY <1>1, <2>2, <2>3
<1>4. SpentInv'
  BY <1>1, <1>2, <1>3, SpentStays DEF IInv, PlaceInv
<1>5. RightEvents \subseteq RightEvents' /\ HoldTypes' /\ HoldInv'
  BY <1>1, <1>2, <1>3, EngineMoves
<1>6. GatewayTypes' /\ EventInv'
  <2>1. CASE gatewayQ' = gatewayQ
    BY <1>1, <1>2, <1>5, <2>1, EventsStay DEF IInv, TypeOK, GatewayTypes
  <2>2. ASSUME NEW m \in resting, m.id = id, resting' = resting \ {m},
               gatewayQ' = Append(gatewayQ, Canceled(id))
        PROVE  GatewayTypes' /\ EventInv'
    <3> DEFINE e == Canceled(id)
    <3>1. id \in OrderIds /\ id \in Nat
      BY <1>2, <2>2 DEF IInv, BookInv, Placed
    <3>2. e.kind = "canceled" /\ e.order = id /\ e \in Event
      BY <3>1 DEF Canceled, Event
    <3> HIDE DEF e
    <3>3. e \in RightEvents'
      <4>1. Right(e)' 
        <5>1. PICK f : f = e
          OBVIOUS
        <5> QED BY <1>2, <1>3, <2>2, <3>1, <3>2 DEF Right, Open, e, Canceled
      <4> QED BY <3>2, <4>1 DEF RightEvents
    <3>4. /\ gatewayQ' \in Seq(Event)
          /\ \A i \in DOMAIN gatewayQ' : \/ gatewayQ'[i] \in RightEvents'
                                         \/ \E j \in DOMAIN gatewayQ : gatewayQ'[i] = gatewayQ[j]
      <4>1. gatewayQ \in Seq(Event) /\ gatewayQ' = Append(gatewayQ, e)
        BY <2>2 DEF IInv, TypeOK, GatewayTypes, e
      <4>2. /\ gatewayQ' \in Seq(Event) /\ Len(gatewayQ) \in Nat
            /\ DOMAIN gatewayQ = 1..Len(gatewayQ) /\ DOMAIN gatewayQ' = 1..(Len(gatewayQ) + 1)
            /\ \A i \in DOMAIN gatewayQ : gatewayQ'[i] = gatewayQ[i]
            /\ gatewayQ'[Len(gatewayQ) + 1] = e
        BY <3>2, <4>1, Appended
      <4> QED BY <3>3, <4>2
    <3> QED BY <1>1, <1>2, <1>5, <3>4, EventsStay
  <2> QED BY <1>1, <2>1, <2>2
<1>7. BookInv'
  BY <1>1, <1>2 DEF IInv, BookInv, Placed
<1>8. PlaceInv' /\ commands' \in Seq(Command)
  BY <1>1, <1>2, NextCommand
<1>9. EngineTypes' /\ HandlerTypes' /\ MatchInv'
  <2>1. <<>> \in Seq([taker : Nat, maker : Nat, price : Nat, qty : Nat])
    BY EmptySeq
  <2>2. EngineTypes' /\ HandlerTypes'
    BY <1>1, <1>8, <2>1 DEF IInv, TypeOK, EngineTypes, HandlerTypes
  <2>3. MatchInv'
    BY <1>1 DEF MatchInv
  <2> QED BY <2>2, <2>3
<1> QED BY <1>4, <1>5, <1>6, <1>7, <1>8, <1>9 DEF IInv, TypeOK

\* What publishPlaceResult tells of an order is right once it has left.
LEMMA EventsAreRight ==
  ASSUME IInv, FinishOrder, NEW R, R = RightEvents', UNCHANGED entered,
         \A id : Open(id)' \in {0, Open(id)}, Open(active.id) = active.open,
         (active.open = 0 \/ ~Rests) => \A id : id = active.id => Open(id)' = 0
  PROVE  PlaceEvents \in Seq(R)
<1>1. active # NoOrder /\ active \in Order
  BY DEF FinishOrder, M!Leave, IInv, TypeOK, EngineTypes
<1>2. /\ OrderIds' = OrderIds /\ OrderIds \subseteq Nat
      /\ \A id \in OrderIds : entered[id] \in Requests
  BY EnteredAre DEF OrderIds
<1>3. active.id \in OrderIds /\ active.open \in Nat
  BY <1>1 DEF IInv, BookInv, Placed, Order
<1>4. \A id \in OrderIds : entered[id].coid \in Coids
  BY <1>2 DEF Coids
<1>5. Accepted(active.id) \in R
  <2> DEFINE e == Accepted(active.id)
  <2>1. /\ e.kind = "accepted" /\ e.order = active.id /\ e.coid = entered[active.id].coid
        /\ e \in Event
    BY <1>2, <1>3, <1>4 DEF Accepted, Event
  <2> HIDE DEF e
  <2>2. PICK f : f = e
    OBVIOUS
  <2>3. f \in RightEvents'
    BY <1>2, <1>3, <2>1, <2>2 DEF RightEvents, Right
  <2> QED BY <2>2, <2>3 DEF e
<1>6. ASSUME NEW id \in OrderIds, id = active.id => active.open = 0 \/ ~Rests, id # active.id => Open(id) = 0
      PROVE  Canceled(id) \in R
  <2> DEFINE e == Canceled(id)
  <2>1. e.kind = "canceled" /\ e.order = id /\ e \in Event
    BY <1>2 DEF Canceled, Event
  <2> HIDE DEF e
  <2>2. PICK f : f = e
    OBVIOUS
  <2>3. Open(id)' = 0
    BY <1>6
  <2>4. f \in RightEvents'
    BY <1>2, <2>1, <2>2, <2>3 DEF RightEvents, Right, Open
  <2> QED BY <2>2, <2>4 DEF e
<1>7. ASSUME NEW id \in OrderIds, NEW n \in Int, n = 0 => Open(id) = 0
      PROVE  Filled(id, n) \in R
  <2> DEFINE e == Filled(id, n)
  <2>1. /\ e.kind = "filled" /\ e.order = id /\ e.coid = entered[id].coid /\ e.remaining = n
        /\ e \in Event
    BY <1>2, <1>4 DEF Filled, Event
  <2> HIDE DEF e
  <2>2. PICK f : f = e
    OBVIOUS
  <2>3. n = 0 => Open(id)' = 0
    BY <1>7
  <2>4. f \in RightEvents'
    BY <1>2, <2>1, <2>2, <2>3 DEF RightEvents, Right, Open
  <2> QED BY <2>2, <2>4 DEF e
<1>8. \A id : Open(id) \in Nat
  BY OpenFacts DEF IInv
<1>9. /\ tape \in Seq([taker : Nat, maker : Nat, price : Nat, qty : Nat])
      /\ Len(tape) \in Nat /\ DOMAIN tape = 1..Len(tape)
      /\ selfCanceled \in Seq(Nat) /\ Len(selfCanceled) \in Nat
      /\ DOMAIN selfCanceled = 1..Len(selfCanceled)
  BY LenProperties DEF IInv, TypeOK, EngineTypes
<1>10. \A i \in 1..Len(tape) :
         RemainingAfter(i) \in Int /\ (RemainingAfter(i) = 0 => active.open = 0)
  <2>1. \A i \in 1..Len(tape) : RemainingAfter(i) >= active.open
    BY <1>1, <1>9 DEF IInv, MatchInv
  <2>2. ASSUME NEW i \in 1..Len(tape) PROVE RemainingAfter(i) \in Int
    <3> DEFINE Q == [j \in DOMAIN tape |-> tape[j].qty]
    <3>1. IsFiniteSet(1..i) /\ \A j \in 1..i : j \in DOMAIN tape
      BY <1>9, FS_Interval
    <3>2. \A j \in DOMAIN tape : Q[j] \in Int
      <4>1. \A j \in DOMAIN tape : tape[j] \in [taker : Nat, maker : Nat, price : Nat, qty : Nat]
        BY <1>9, ElementOfSeq
      <4> QED BY <4>1
    <3> HIDE DEF Q
    <3>3. SumFunctionOnSet(Q, 1..i) \in Int
      BY <3>1, <3>2, SumType
    <3>4. entered[active.id].qty \in Int
      <4>1. \A r \in Requests : r.qty \in Int
        BY RequestsAssumption
      <4>2. entered[active.id] \in Requests
        BY <1>2, <1>3
      <4> QED BY <4>1, <4>2
    <3>5. RemainingAfter(i) = entered[active.id].qty - SumFunctionOnSet(Q, 1..i)
      BY DEF RemainingAfter, Q
    <3> QED BY <3>3, <3>4, <3>5
  <2> QED BY <1>3, <2>1, <2>2
<1>11. \A i \in 1..Len(selfCanceled) : Canceled(selfCanceled[i]) \in R
  <2> SUFFICES ASSUME NEW i \in 1..Len(selfCanceled) PROVE Canceled(selfCanceled[i]) \in R
    OBVIOUS
  <2>1. selfCanceled[i] \in OrderIds /\ selfCanceled[i] # active.id /\ Open(selfCanceled[i]) = 0
    BY <1>1, <1>9 DEF IInv, MatchInv
  <2> QED BY <1>6, <2>1
<1>12. ExecutionReports \in Seq(R)
  <2>1. ASSUME NEW k \in 1..(2 * Len(tape)) PROVE ExecutionReports[k] \in R
    <3>1. CASE k % 2 = 1
      <4>1. (k + 1) \div 2 \in 1..Len(tape)
        BY <1>9, <3>1
      <4>2. PICK i \in 1..Len(tape) : i = (k + 1) \div 2
        BY <4>1
      <4>3. Filled(active.id, RemainingAfter(i)) \in R
        BY <1>3, <1>7, <1>10
      <4>4. ExecutionReports[k] = Filled(active.id, RemainingAfter((k + 1) \div 2))
        BY <3>1 DEF ExecutionReports
      <4> QED BY <4>2, <4>3, <4>4
    <3>2. CASE k % 2 # 1
      <4>1. k \div 2 \in 1..Len(tape)
        BY <1>9, <3>2
      <4>2. PICK i \in 1..Len(tape) : i = k \div 2
        BY <4>1
      <4>3. tape[i].maker \in OrderIds
        BY <1>1, <1>9 DEF IInv, MatchInv
      <4>4. Filled(tape[i].maker, Open(tape[i].maker)) \in R
        BY <1>7, <1>8, <4>3
      <4>5. ExecutionReports[k] = Filled(tape[k \div 2].maker, Open(tape[k \div 2].maker))
        BY <3>2 DEF ExecutionReports
      <4> QED BY <4>2, <4>4, <4>5
    <3> QED BY <3>1, <3>2
  <2>2. ExecutionReports = [k \in 1..(2 * Len(tape)) |-> ExecutionReports[k]]
    BY DEF ExecutionReports
  <2>3. 2 * Len(tape) \in Nat
    BY <1>9
  <2> QED BY <2>1, <2>2, <2>3, IsASeq
<1>13. [i \in 1..Len(selfCanceled) |-> Canceled(selfCanceled[i])] \in Seq(R)
  BY <1>9, <1>11, IsASeq
<1>14. <<Accepted(active.id)>> \in Seq(R)
  BY <1>5
<1>15. (IF active.open > 0 /\ ~Rests THEN <<Canceled(active.id)>> ELSE <<>>) \in Seq(R)
  <2>1. active.open > 0 /\ ~Rests => Canceled(active.id) \in R
    BY <1>3, <1>6
  <2>2. <<>> \in Seq(R)
    BY EmptySeq
  <2> QED BY <2>1, <2>2
<1> QED BY <1>12, <1>13, <1>14, <1>15, ConcatProperties DEF PlaceEvents

\* The active order is done: it rests, or it is gone, and no other notices.
LEMMA FinishOpens ==
  ASSUME IInv, FinishOrder
  PROVE  /\ active \in Order /\ Placed(active)
         /\ \A m \in resting : m.id # active.id
         /\ \A id : Open(id)' \in {0, Open(id)}
         /\ Open(active.id) = active.open
         /\ (active.open = 0 \/ ~Rests) => \A id : id = active.id => Open(id)' = 0
         /\ \A id : id # active.id \/ Rests => Open(id)' = Open(id)
<1>1. /\ active # NoOrder /\ active' = NoOrder
      /\ resting' = (IF Rests THEN resting \cup {active} ELSE resting)
  BY DEF FinishOrder, M!Leave
<1>2. /\ active \in Order /\ Placed(active) /\ active \in Engaged /\ Engaged = resting \cup {active}
      /\ \A m \in resting : m.id # active.id
  <2>1. active \in Order /\ Placed(active) /\ Engaged = resting \cup {active} /\ active \in Engaged
    BY <1>1 DEF IInv, TypeOK, EngineTypes, BookInv, Engaged
  <2>2. NoOrder \notin Engaged /\ \A m, n \in Engaged : m.id = n.id => m = n
    BY Distinct DEF IInv
  <2>3. active \notin resting
    <3>1. \A m \in resting : m.id < active.id
      BY <1>1 DEF IInv, BookInv
    <3>2. active.id \in Nat
      BY <2>1 DEF Order
    <3>3. \A n \in Nat : ~(n < n)
      OBVIOUS
    <3> QED BY <3>1, <3>2, <3>3
  <2> QED BY <2>1, <2>2, <2>3
<1>3. /\ Engaged' = IF Rests THEN Engaged ELSE resting
      /\ NoOrder \notin resting
  BY <1>1, <1>2, Distinct DEF Engaged, IInv
<1>4. Open(active.id) = active.open
  BY <1>2, OpenFacts DEF IInv
<1>5. CASE Rests
  <2>1. \A id : Open(id)' = Open(id)
    BY <1>3, <1>5, OpenIs
  <2> QED BY <1>2, <1>4, <1>5, <2>1
<1>6. CASE ~Rests
  <2>1. \A id : id = active.id => Open(id)' = 0
    BY <1>2, <1>3, <1>6, OpenIs, OpenNone
  <2>2. \A id : id # active.id => WithId(Engaged', id) = WithId(Engaged, id)
    BY <1>2, <1>3, <1>6 DEF WithId
  <2>3. \A id : id # active.id => Open(id)' = Open(id)
    BY <2>2, OpenIs, OpenSame
  <2> QED BY <1>2, <1>4, <1>6, <2>1, <2>3
<1> QED BY <1>5, <1>6

LEMMA FinishOrderStep ==
  ASSUME IInv, FinishOrder
  PROVE  IInv' /\ (gatewayQ # <<>> => gatewayQ' # <<>>)
<1>1. /\ UNCHANGED <<entered, stage, canceling, trades, tape, selfCanceled, orders, hold, releasing>>
      /\ active # NoOrder /\ active' = NoOrder /\ commands' = Tail(commands)
      /\ resting' = (IF Rests THEN resting \cup {active} ELSE resting)
      /\ gatewayQ' = gatewayQ \o PlaceEvents
  BY DEF FinishOrder, M!Leave, ledgerVars, handlerVars
<1>2. /\ OrderIds' = OrderIds /\ OrderIds \subseteq Nat
      /\ \A id \in OrderIds : entered[id] \in Requests
  BY <1>1, EnteredAre DEF OrderIds
<1>3. active \in Order /\ Placed(active) /\ \A m \in resting : m.id # active.id
  BY FinishOpens
<1>4. /\ \A id : Open(id)' \in {0, Open(id)}
      /\ Open(active.id) = active.open
      /\ (active.open = 0 \/ ~Rests) => \A id : id = active.id => Open(id)' = 0
  BY FinishOpens
<1>5. SpentInv'
  BY <1>1, <1>2, <1>4, SpentStays DEF IInv, PlaceInv
<1>6. RightEvents \subseteq RightEvents' /\ HoldTypes' /\ HoldInv'
  BY <1>1, <1>2, <1>4, EngineMoves
<1>7. GatewayTypes' /\ EventInv' /\ (gatewayQ # <<>> => gatewayQ' # <<>>)
  <2>1. PICK R : R = RightEvents'
    OBVIOUS
  <2>2. PlaceEvents \in Seq(R)
    BY <1>1, <1>4, <2>1, EventsAreRight
  <2>3. gatewayQ \in Seq(R)
    <3>1. gatewayQ \in Seq(Event) /\ \A i \in DOMAIN gatewayQ : gatewayQ[i] \in RightEvents
      BY DEF IInv, TypeOK, GatewayTypes, EventInv
    <3>2. /\ gatewayQ = [i \in 1..Len(gatewayQ) |-> gatewayQ[i]] /\ Len(gatewayQ) \in Nat
          /\ \A i \in 1..Len(gatewayQ) : gatewayQ[i] \in R
      BY <1>6, <2>1, <3>1, LenProperties
    <3> QED BY <3>2, IsASeq
  <2>4. gatewayQ' \in Seq(R)
    BY <1>1, <2>2, <2>3, ConcatProperties
  <2>5. R \subseteq Event
    <3>1. \A e \in R : e \in Event
      BY <2>1 DEF RightEvents, Event
    <3> QED BY <3>1
  <2>6. gatewayQ' \in Seq(Event) /\ \A i \in DOMAIN gatewayQ' : gatewayQ'[i] \in RightEvents'
    <3>1. \A i \in DOMAIN gatewayQ' : gatewayQ'[i] \in R
      BY <2>4, ElementOfSeq, LenProperties
    <3>2. gatewayQ' \in Seq(Event)
      BY <2>4, <2>5
    <3> QED BY <2>1, <3>1, <3>2
  <2>7. gatewayQ # <<>> => gatewayQ' # <<>>
    <3>1. Len(gatewayQ') = Len(gatewayQ) + Len(PlaceEvents)
      BY <1>1, <2>2, <2>3, ConcatProperties
    <3>2. /\ Len(gatewayQ) \in Nat /\ Len(PlaceEvents) \in Nat
          /\ (gatewayQ # <<>> => Len(gatewayQ) # 0) /\ Len(<<>>) = 0
      BY <2>2, <2>3, LenProperties, EmptySeq
    <3> QED BY <3>1, <3>2
  <2> QED BY <1>1, <1>2, <1>6, <2>6, <2>7, EventsStay
<1>8. BookInv'
  <2>1. \A m \in resting' : Placed(m)' /\ m.open > 0 /\ ~m.market
    BY <1>1, <1>2, <1>3 DEF IInv, BookInv, Placed, Rests
  <2>2. \A m, n \in resting' : m.id = n.id => m = n
    BY <1>1, <1>3 DEF IInv, BookInv
  <2> QED BY <1>1, <2>1, <2>2 DEF BookInv
<1>9. PlaceInv' /\ commands' \in Seq(Command)
  BY <1>1, <1>2, NextCommand DEF IInv, PlaceInv
<1>10. EngineTypes' /\ HandlerTypes' /\ MatchInv'
  BY <1>1, <1>3, <1>9 DEF IInv, TypeOK, EngineTypes, HandlerTypes, MatchInv
<1> QED BY <1>5, <1>6, <1>7, <1>8, <1>9, <1>10 DEF IInv, TypeOK

-----------------------------------------------------------------------------
(* The theorems. *)

LEMMA InitIInv ==
  ASSUME Init
  PROVE  IInv /\ BusyInv
<1>1. /\ resting = {} /\ active = NoOrder /\ tape = <<>> /\ commands = <<>> /\ entered = <<>>
      /\ trades = <<>> /\ selfCanceled = <<>> /\ gatewayQ = <<>> /\ orders = <<>>
      /\ stage = [r \in Requests |-> "idle"] /\ canceling = {}
      /\ hold = <<>> /\ releasing = [c \in Callers |-> NoRelease]
  BY DEF Init, L!Init, M!Init
<1>2. OrderIds = {} /\ DOMAIN orders = {} /\ DOMAIN hold = {} /\ DOMAIN commands = {}
      /\ DOMAIN gatewayQ = {} /\ DOMAIN trades = {}
  BY <1>1, EmptySeq DEF OrderIds
<1>3. EngineTypes /\ HandlerTypes /\ GatewayTypes
  BY <1>1, <1>2, EmptySeq DEF EngineTypes, HandlerTypes, GatewayTypes, Stages
<1>4. HoldTypes
  BY <1>1, <1>2 DEF HoldTypes
<1>5. BookInv /\ PlaceInv /\ MatchInv /\ EventInv /\ SpentInv
  BY <1>1, <1>2 DEF BookInv, PlaceInv, MatchInv, EventInv, SpentInv
<1>6. HoldInv
  BY <1>1, <1>2 DEF HoldInv, Live
<1>7. BusyInv
  BY <1>1 DEF BusyInv, Callers
<1> QED BY <1>3, <1>4, <1>5, <1>6, <1>7 DEF IInv, TypeOK

LEMMA BusyStep ==
  ASSUME IInv, BusyInv, [Next]_vars
  PROVE  BusyInv'
<1>1. releasing \in [Callers -> {NoRelease} \cup SUBSET DOMAIN hold] /\ Consumer \in Callers
  BY DEF IInv, TypeOK, HoldTypes, Callers
<1>2. CASE releasing' = releasing /\ (gatewayQ # <<>> => gatewayQ' # <<>>)
  BY <1>2 DEF BusyInv
<1>3. gatewayQ \in Seq(Event)
  BY DEF IInv, TypeOK, GatewayTypes
<1>4. \A e : Append(gatewayQ, e) # <<>>
  <2> SUFFICES ASSUME NEW e PROVE Append(gatewayQ, e) # <<>>
    OBVIOUS
  <2>1. gatewayQ \in Seq(Event \cup {e}) /\ e \in Event \cup {e}
    BY <1>3
  <2>2. Len(Append(gatewayQ, e)) = Len(gatewayQ) + 1 /\ Len(gatewayQ) \in Nat
    BY <2>1, Appended
  <2>3. Len(<<>>) = 0
    BY EmptySeq
  <2> QED BY <2>2, <2>3
<1>5. ASSUME NEW r \in Requests, PlaceReserve(r) PROVE BusyInv'
  BY <1>2, <1>5 DEF PlaceReserve, L!Reserve, ledgerVars
<1>6. ASSUME NEW r \in Requests, PlacePublish(r) PROVE BusyInv'
  BY <1>2, <1>6 DEF PlacePublish, ledgerVars
<1>7. ASSUME NEW r \in Requests, UndoRead(r) \/ UndoWrite(r) \/ UndoFails(r) PROVE BusyInv'
  <2>1. gatewayQ' = gatewayQ /\ releasing'[Consumer] = releasing[Consumer]
    BY <1>1, <1>7, ConsumerAssumption
       DEF UndoRead, UndoWrite, UndoFails, L!ReleaseRead, L!ReleaseWrite
  <2> QED BY <2>1 DEF BusyInv
<1>8. ASSUME NEW id \in OrderIds, RequestCancel(id) PROVE BusyInv'
  BY <1>2, <1>8 DEF RequestCancel, ledgerVars
<1>9. ASSUME NEW w \in Withdrawals, CheckWithdrawal(w) \/ SendWithdrawal(w) PROVE BusyInv'
  BY <1>2, <1>9 DEF CheckWithdrawal, SendWithdrawal, ledgerVars
<1>10. CASE Engine
  <2>1. releasing' = releasing
    BY <1>10 DEF Engine, TakeOrder, Match, CancelOwn, FinishOrder, TakeCancel, ledgerVars
  <2>2. gatewayQ # <<>> => gatewayQ' # <<>>
    BY <1>4, <1>10, FinishOrderStep DEF Engine, TakeOrder, Match, CancelOwn, TakeCancel
  <2> QED BY <1>2, <2>1, <2>2
<1>11. CASE CloseOrder
  BY <1>11 DEF CloseOrder, BusyInv
<1>12. ASSUME NEW acked \in BOOLEAN, ProjectEvent(acked) PROVE BusyInv'
  BY <1>12 DEF ProjectEvent, ledgerVars, BusyInv
<1>13. ASSUME NEW acked \in BOOLEAN, ReleaseHold(acked) \/ ReleaseFails(acked) PROVE BusyInv'
  <2>1. releasing'[Consumer] = NoRelease
    BY <1>1, <1>13 DEF ReleaseHold, ReleaseFails, L!ReleaseWrite
  <2> QED BY <2>1 DEF BusyInv
<1>14. ASSUME NEW acked \in BOOLEAN, Settle(acked) PROVE BusyInv'
  BY <1>2, <1>14 DEF Settle, L!SettleTrade, L!SettleFaucet, ledgerVars
<1>15. CASE RestartGateway
  BY <1>1, <1>15 DEF RestartGateway, BusyInv
<1>16. CASE Expire
  BY <1>2, <1>16 DEF Expire, ledgerVars
<1>17. CASE UNCHANGED vars
  BY <1>2, <1>17 DEF vars, ledgerVars
<1> QED BY <1>5, <1>6, <1>7, <1>8, <1>9, <1>10, <1>11, <1>12, <1>13, <1>14, <1>15, <1>16, <1>17
        DEF Next, Handler

LEMMA NextIInv ==
  ASSUME UniqueIds, AnswersTell, IInv, BusyInv, [Next]_vars
  PROVE  IInv'
<1>1. ASSUME NEW r \in Requests, PlaceReserve(r) \/ Handler(r) \/ UndoFails(r) PROVE IInv'
  BY <1>1, PlaceReserveStep, PlacePublishStep, UndoStep DEF Handler
<1>2. ASSUME NEW id \in OrderIds, RequestCancel(id) PROVE IInv'
  BY <1>2, RequestCancelStep
<1>3. CASE Engine
  BY <1>3, TakeOrderStep, MatchStep, CancelOwnStep, FinishOrderStep, TakeCancelStep DEF Engine
<1>4. CASE CloseOrder
  BY <1>4, ConsumerSteps
<1>5. ASSUME NEW acked \in BOOLEAN, ProjectEvent(acked) \/ ReleaseHold(acked) \/ ReleaseFails(acked)
      PROVE  IInv'
  BY <1>5, ConsumerSteps
<1>6. CASE RestartGateway
  BY <1>6, RestartStep
<1>7. CASE \/ \E w \in Withdrawals : CheckWithdrawal(w) \/ SendWithdrawal(w)
           \/ \E acked \in BOOLEAN : Settle(acked)
           \/ UNCHANGED vars
  BY <1>7, OtherSteps
<1>8. CASE Expire
  BY <1>8, ExpireStep
<1> QED BY <1>1, <1>2, <1>3, <1>4, <1>5, <1>6, <1>7, <1>8 DEF Next

\* The hold of a request that has something open covers it.
LEMMA CoveredIfIInv ==
  ASSUME IInv
  PROVE  OpenOrdersAreCovered
<1> SUFFICES ASSUME NEW r \in Requests, Cost(r, Outstanding(r)) > 0, Limited(r)
             PROVE  \E k \in HoldsFor(r) : hold[k].amount >= Cost(r, Outstanding(r)) + Spent(r)
  BY DEF OpenOrdersAreCovered, Limited
<1>1. \A id : Open(id) \in Nat
  BY OpenFacts DEF IInv
<1>2. Cost(r, r.qty) \in Nat /\ Cost(r, 0) = 0 /\ ~(0 > 0)
  BY CostType, RequestsAssumption
<1>3. /\ Live(r) /\ Spent(r) \in Nat
      /\ Cost(r, Outstanding(r)) + Spent(r) <= Cost(r, r.qty)
  <2>1. CASE Taken(r) = {}
    <3>1. Outstanding(r) = r.qty /\ Waiting(r)
      BY <1>2, <2>1 DEF Outstanding
    <3>2. stage[r] = "queued"
      BY <3>1 DEF Waiting, IInv, PlaceInv, Placement
    <3>3. Live(r)
      BY <2>1, <3>1, <3>2 DEF Live, Taken
    <3>4. Spent(r) = 0
      <4>1. {n \in DOMAIN trades : {trades[n].taker, trades[n].maker} \cap Taken(r) # {}} = {}
        BY <2>1
      <4> QED BY <4>1, SumRec, FS_EmptySet DEF Spent
    <3> QED BY <1>2, <3>1, <3>3, <3>4
  <2>2. ASSUME NEW id \in Taken(r) PROVE Live(r) /\ Spent(r) \in Nat /\ Cost(r, Outstanding(r)) + Spent(r) <= Cost(r, r.qty)
    <3>1. id \in OrderIds /\ entered[id] = r /\ Taken(r) = {id}
      BY <2>2 DEF Taken, IInv, PlaceInv
    <3>2. Outstanding(r) = Open(id)
      <4> DEFINE O == [i \in OrderIds |-> Open(i)]
      <4>1. O[id] = Open(id) /\ O[id] \in Int
        BY <1>1, <3>1
      <4>2. Outstanding(r) = SumFunctionOnSet(O, {id})
        BY <3>1 DEF Outstanding
      <4> HIDE DEF O
      <4>3. SumFunctionOnSet(O, {} \cup {id}) = O[id] + SumFunctionOnSet(O, {})
        BY <4>1, SumAdd, FS_EmptySet
      <4>4. SumFunctionOnSet(O, {}) = 0
        BY SumRec, FS_EmptySet
      <4>5. {} \cup {id} = {id}
        OBVIOUS
      <4>6. SumFunctionOnSet(O, {id}) = O[id]
        BY <4>1, <4>3, <4>4, <4>5
      <4> QED BY <4>1, <4>2, <4>6
    <3>3. /\ Spent(r) \in Nat
          /\ Cost(r, Open(id)) + Spent(r) <= Cost(r, r.qty)
      BY <3>1 DEF IInv, SpentInv
    <3>4. Open(id) > 0
      BY <1>1, <1>2, <3>2
    <3>5. Live(r)
      <4>1. stage[r] = "queued" /\ \A i \in OrderIds : entered[i] = r => i = id
        BY <3>1 DEF IInv, PlaceInv
      <4>2. Cost(r, Open(id)) \in Nat /\ Cost(r, Open(id)) > 0
        BY <1>1, <3>2, CostType
      <4>3. Cost(r, r.qty) > 0
        BY <1>2, <3>3, <4>2
      <4> QED BY <3>4, <4>1, <4>3 DEF Live
    <3> QED BY <3>2, <3>3, <3>5
  <2> QED BY <2>1, <2>2
<1>4. Key(r) \in DOMAIN hold /\ hold[Key(r)].active /\ hold[Key(r)].amount = Cost(r, r.qty)
  BY <1>3 DEF IInv, HoldInv
<1>5. Key(r) \in HoldsFor(r)
  BY <1>4 DEF HoldsFor, Key
<1>6. Cost(r, Outstanding(r)) \in Nat
  <2>1. Outstanding(r) \in Nat
    <3>1. IsFiniteSet(OrderIds) /\ IsFiniteSet(Taken(r)) /\ Taken(r) \subseteq OrderIds
      <4>1. Taken(r) \subseteq OrderIds
        BY DEF Taken
      <4>2. IsFiniteSet(OrderIds)
        BY EnteredAre, FS_Interval
      <4> QED BY <4>1, <4>2, FS_Subset
    <3>2. \A i \in Taken(r) : [j \in OrderIds |-> Open(j)][i] \in Nat
      BY <1>1, <3>1
    <3>3. SumFunctionOnSet([j \in OrderIds |-> Open(j)], Taken(r)) \in Nat
      BY <3>1, <3>2, SumType
    <3> QED BY <3>3, RequestsAssumption DEF Outstanding
  <2> QED BY <2>1, CostType
<1>7. hold[Key(r)].amount >= Cost(r, Outstanding(r)) + Spent(r)
  BY <1>2, <1>3, <1>4, <1>6
<1> QED BY <1>5, <1>7

\* Whatever the interleaving of handlers, engine and consumers, whichever releases
\* fail and whenever the gateway restarts: what is queued, matched or resting has
\* an active hold that pays for it, if no client order id is used twice and the
\* broker queues what it confirms and nothing else.
THEOREM OpenOrdersAlwaysCovered ==
  ASSUME UniqueIds, AnswersTell
  PROVE  Spec => []OpenOrdersAreCovered
<1>1. Init => IInv /\ BusyInv
  BY InitIInv
<1>2. IInv /\ BusyInv /\ [Next]_vars => IInv' /\ BusyInv'
  BY NextIInv, BusyStep
<1>3. IInv => OpenOrdersAreCovered
  BY CoveredIfIInv
<1> QED BY <1>1, <1>2, <1>3, PTL DEF Spec

-----------------------------------------------------------------------------
(* No hold is left over: whoever has one is not done yet, or its end is on *)
(* its way to the gateway, or the gateway has given it up.                 *)

\* The events that tell the gateway the end of an order.
Ends(e, id) ==
  \/ e.kind = "filled" /\ e.order = id /\ e.remaining = 0
  \/ e.kind = "canceled" /\ e.order = id
  \/ e.kind = "rejected" /\ e.coid = entered[id].coid

\* What the engine does to an order now it will tell when it is done.
Matching(id) ==
  /\ active # NoOrder
  /\ \/ active.id = id
     \/ \E i \in DOMAIN tape : tape[i].maker = id
     \/ \E i \in DOMAIN selfCanceled : selfCanceled[i] = id

Ending(id) == \E i \in DOMAIN gatewayQ : Ends(gatewayQ[i], id)
Going(id) == Open(id) > 0 \/ Matching(id) \/ Ending(id)

Reason(r) ==
  \/ stage[r] \in {"reserved", "undoing"}
  \/ stage[r] = "releasing" /\ Key(r) \in releasing[r]
  \/ Waiting(r)
  \/ \E id \in OrderIds : entered[id] = r /\ Going(id)
  \/ r.coid \in unreleased

HeldKeys == {k \in DOMAIN hold : hold[k].active}

\* While the consumer releases, it has all active holds of the order whose end is
\* the first event of its queue.
ReadInv ==
  releasing[Consumer] # NoRelease =>
    /\ gatewayQ # <<>> /\ Closed(Head(gatewayQ)) # {}
    /\ \A k \in HeldKeys : k[2] \in Closed(Head(gatewayQ)) => k \in releasing[Consumer]

HeldInv == \A r \in Requests : Key(r) \in HeldKeys => Reason(r)

LeftInv == HeldInv /\ ReadInv

\* It is enough to look at requests that have a reason and a hold.
LEMMA HeldStays ==
  ASSUME HeldInv, \A r \in Requests : Key(r) \in HeldKeys' => Key(r) \in HeldKeys \/ Reason(r)',
         \A r \in Requests : Key(r) \in HeldKeys /\ Key(r) \in HeldKeys' /\ Reason(r) => Reason(r)'
  PROVE  HeldInv'
<1>1. \A r : Key(r)' = Key(r)
  BY DEF Key, Cost
<1> QED BY <1>1 DEF HeldInv

\* What the first event closes is an order the engine has taken up; and if it
\* closes anything, it is the order whose end it tells.
LEMMA ClosedIs ==
  ASSUME UniqueIds, IInv, gatewayQ # <<>>
  PROVE  /\ \A coid \in Closed(Head(gatewayQ)) :
              \E id \in OrderIds : entered[id].coid = coid /\ stage[entered[id]] = "queued"
         /\ \A id \in OrderIds : Ends(Head(gatewayQ), id) =>
              \/ entered[id].coid \in Closed(Head(gatewayQ))
              \/ Closed(Head(gatewayQ)) = {} /\ entered[id].coid \in Unresolved(Head(gatewayQ))
         /\ \A c, d \in Closed(Head(gatewayQ)) : c = d
         /\ gatewayQ \in Seq(Event) /\ Head(gatewayQ) \in Event
<1> DEFINE e == Head(gatewayQ)
<1>1. e \in Event /\ Right(e) /\ gatewayQ \in Seq(Event)
  BY HeadTailProperties, LenProperties, EmptySeq
     DEF IInv, TypeOK, GatewayTypes, EventInv, RightEvents
<1>2. \A id \in OrderIds : stage[entered[id]] = "queued"
  BY DEF IInv, PlaceInv
<1>3. \A id \in DOMAIN orders : orders[id].coid = entered[id].coid /\ id \in OrderIds
  BY DEF IInv, EventInv, TypeOK, GatewayTypes
<1> HIDE DEF e
<1>4. CASE e.kind = "accepted"
  BY <1>1, <1>4 DEF Closed, Ends, e
<1>5. CASE e.kind = "filled"
  <2>1. Closed(e) = IF e.remaining = 0 THEN {e.coid} ELSE {}
    BY <1>5 DEF Closed
  <2>2. e.order \in OrderIds /\ e.coid = entered[e.order].coid
    BY <1>1, <1>5 DEF Right
  <2>3. \A id : Ends(e, id) => id = e.order /\ e.remaining = 0
    BY <1>5 DEF Ends
  <2> QED BY <1>1, <1>2, <2>1, <2>2, <2>3 DEF e
<1>6. CASE e.kind = "canceled"
  <2>1. /\ Closed(e) = {orders[id].coid : id \in DOMAIN orders \cap {e.order}}
        /\ Unresolved(e) = IF e.order \notin DOMAIN orders THEN {entered[e.order].coid} ELSE {}
    BY <1>6 DEF Closed, Unresolved
  <2>2. \A id : Ends(e, id) => id = e.order
    BY <1>6 DEF Ends
  <2> QED BY <1>1, <1>2, <1>3, <2>1, <2>2 DEF e
<1>7. CASE e.kind = "rejected"
  <2>1. Closed(e) = {e.coid}
    BY <1>7 DEF Closed
  <2>2. \E id \in OrderIds : entered[id].coid = e.coid
    BY <1>1, <1>7 DEF Right
  <2>3. \A id : Ends(e, id) => entered[id].coid = e.coid
    BY <1>7 DEF Ends
  <2> QED BY <1>1, <1>2, <2>1, <2>2, <2>3 DEF e
<1> QED BY <1>1, <1>4, <1>5, <1>6, <1>7 DEF Event

\* A reason stays one unless something is taken back: a handler's place, a
\* command, what is on its way to the gateway.
LEMMA ReasonStays ==
  ASSUME OrderIds \subseteq OrderIds', \A id \in OrderIds : entered'[id] = entered[id],
         unreleased \subseteq unreleased',
         NEW q \in Requests, Reason(q),
         stage'[q] = stage[q] \/ stage[q] \notin {"reserved", "undoing", "releasing"},
         stage[q] = "releasing" => releasing'[q] = releasing[q],
         Waiting(q) => Waiting(q)' \/ \E id \in OrderIds' : entered'[id] = q /\ Going(id)',
         \A id \in OrderIds : Going(id) => Going(id)' \/ entered[id].coid \in unreleased'
  PROVE  Reason(q)'
<1>1. Key(q)' = Key(q)
  BY DEF Key, Cost
<1>2. CASE stage[q] \in {"reserved", "undoing"}
  BY <1>2 DEF Reason
<1>3. CASE stage[q] = "releasing" /\ Key(q) \in releasing[q]
  BY <1>1, <1>3 DEF Reason
<1>4. CASE Waiting(q)
  BY <1>4 DEF Reason
<1>5. CASE q.coid \in unreleased
  BY <1>5 DEF Reason
<1>6. ASSUME NEW id \in OrderIds, entered[id] = q, Going(id) PROVE Reason(q)'
  <2>1. id \in OrderIds' /\ entered'[id] = q
    BY <1>6
  <2>2. CASE Going(id)'
    BY <2>1, <2>2 DEF Reason
  <2>3. CASE q.coid \in unreleased'
    BY <2>3 DEF Reason
  <2> QED BY <1>6, <2>2, <2>3
<1> QED BY <1>2, <1>3, <1>4, <1>5, <1>6 DEF Reason

\* The consumer still has what it needs if its queue begins as before.
LEMMA ReadStays ==
  ASSUME ReadInv, releasing'[Consumer] = releasing[Consumer], orders' = orders,
         gatewayQ # <<>> => gatewayQ' # <<>> /\ Head(gatewayQ') = Head(gatewayQ),
         \A k \in HeldKeys' : k \in HeldKeys \/ k[2] \notin Closed(Head(gatewayQ))
  PROVE  ReadInv'
<1> SUFFICES ASSUME releasing[Consumer] # NoRelease
             PROVE  /\ gatewayQ' # <<>> /\ Closed(Head(gatewayQ))' # {}
                    /\ \A k \in HeldKeys' : k[2] \in Closed(Head(gatewayQ))' => k \in releasing[Consumer]
  BY DEF ReadInv
<1>1. gatewayQ # <<>> /\ Head(gatewayQ') = Head(gatewayQ)
  BY DEF ReadInv
<1>2. Closed(Head(gatewayQ))' = Closed(Head(gatewayQ))
  BY <1>1 DEF Closed
<1> QED BY <1>1, <1>2 DEF ReadInv

LEMMA GoingStill ==
  ASSUME IInv, UNCHANGED <<engineVars, gatewayQ>>
  PROVE  /\ OrderIds' = OrderIds /\ entered' = entered
         /\ \A id : Going(id)' <=> Going(id)
<1>1. OrderIds' = OrderIds /\ entered' = entered /\ \A id : Open(id)' = Open(id)
  BY EngineStill DEF engineVars
<1>2. \A id : Matching(id)' <=> Matching(id)
  BY DEF Matching, engineVars
<1>3. \A id : Ending(id)' <=> Ending(id)
  BY DEF Ending, Ends, engineVars
<1> QED BY <1>1, <1>2, <1>3 DEF Going

\* Steps of a handler: it makes a hold and gives itself as the reason.
LEMMA ReserveKeepsLeft ==
  ASSUME UniqueIds, IInv, LeftInv, NEW r \in Requests, PlaceReserve(r)
  PROVE  LeftInv'
<1>1. /\ UNCHANGED <<engineVars, commands, gatewayQ, orders, releasing, unreleased>>
      /\ stage[r] = "idle" /\ \A q \in Requests : q # r => stage'[q] = stage[q]
  BY DEF PlaceReserve, L!Reserve, ledgerVars, faultVars, IInv, TypeOK, HandlerTypes
<1>2. Key(r) \notin HeldKeys
  <2>1. \A q \in Requests : Key(r) = Key(q) => q = r
    BY Keys
  <2> QED BY <1>1, <2>1 DEF HeldKeys, IInv, HoldInv
<1>3. /\ \A k \in HeldKeys' : k \in HeldKeys \/ k = Key(r)
      /\ Key(r) \in HeldKeys' => stage'[r] = "reserved"
  <2>1. CASE stage'[r] = "reserved" /\ L!Reserve(Reservation(r))
    BY <2>1 DEF L!Reserve, L!InsertNew, HeldKeys, Key
  <2>2. CASE hold' = hold
    BY <1>2, <2>2 DEF HeldKeys
  <2>3. (stage'[r] = "reserved" /\ L!Reserve(Reservation(r))) \/ hold' = hold
    BY DEF PlaceReserve, ledgerVars, IInv, TypeOK, HandlerTypes
  <2> QED BY <2>1, <2>2, <2>3
<1>5. HeldInv'
  <2>1. ASSUME NEW q \in Requests, Key(q) \in HeldKeys' PROVE Key(q) \in HeldKeys \/ Reason(q)'
    <3>1. Key(q) = Key(r) => q = r
      BY Keys
    <3> QED BY <1>3, <2>1, <3>1 DEF Reason
  <2>2. ASSUME NEW q \in Requests, Reason(q), Key(q) \in HeldKeys PROVE Reason(q)'
    <3>1. q # r
      BY <1>2, <2>2
    <3>2. Waiting(q)' <=> Waiting(q)
      BY <1>1 DEF Waiting
    <3> QED BY <1>1, <2>2, <3>1, <3>2, GoingStill, ReasonStays
  <2> QED BY <2>1, <2>2, HeldStays DEF LeftInv
<1>6. ReadInv'
  <2>1. gatewayQ # <<>> => Key(r)[2] \notin Closed(Head(gatewayQ))
    <3> SUFFICES ASSUME gatewayQ # <<>>, r.coid \in Closed(Head(gatewayQ)) PROVE FALSE
      BY Keys
    <3>1. PICK id \in OrderIds : entered[id].coid = r.coid /\ stage[entered[id]] = "queued"
      BY ClosedIs
    <3>2. entered[id] \in Requests
      BY EnteredAre
    <3> QED BY <1>1, <3>1, <3>2 DEF UniqueIds
  <2>2. CASE gatewayQ # <<>>
    BY <1>1, <1>3, <2>1, <2>2, ReadStays DEF LeftInv
  <2>3. CASE gatewayQ = <<>>
    BY <1>1, <2>3 DEF LeftInv, ReadInv
  <2> QED BY <2>2, <2>3
<1> QED BY <1>5, <1>6 DEF LeftInv

\* A step that hands nothing over: no engine step, the same queue and projection.
LEMMA HandlerKeepsLeft ==
  ASSUME IInv, LeftInv, NEW r \in Requests,
         UNCHANGED <<engineVars, gatewayQ, orders>>, releasing'[Consumer] = releasing[Consumer],
         HeldKeys' \subseteq HeldKeys, unreleased \subseteq unreleased',
         \A q \in Requests : Waiting(q) => Waiting(q)',
         \A q \in Requests : q # r => stage'[q] = stage[q] /\ releasing'[q] = releasing[q],
         Key(r) \in HeldKeys' /\ Reason(r) => Reason(r)'
  PROVE  LeftInv'
<1>1. HeldInv'
  <2>1. ASSUME NEW q \in Requests, Reason(q), q # r PROVE Reason(q)'
    BY <2>1, GoingStill, ReasonStays
  <2> QED BY <2>1, HeldStays DEF LeftInv
<1>2. ReadInv'
  BY ReadStays DEF LeftInv
<1> QED BY <1>1, <1>2 DEF LeftInv

\* The order is queued, or its hold is undone or given up.
LEMMA PublishKeepsLeft ==
  ASSUME UniqueIds, AnswersTell, IInv, LeftInv, NEW r \in Requests,
         PlacePublish(r) \/ UndoRead(r) \/ UndoWrite(r) \/ UndoFails(r)
  PROVE  LeftInv'
<1>1. /\ UNCHANGED <<engineVars, gatewayQ, orders>>
      /\ stage \in [Requests -> Stages] /\ releasing \in [Callers -> {NoRelease} \cup SUBSET DOMAIN hold]
      /\ r \in Callers /\ Consumer \in Callers /\ r # Consumer /\ commands \in Seq(Command)
      /\ HoldTypes /\ Requests \subseteq Callers
  BY ConsumerAssumption
     DEF PlacePublish, UndoRead, UndoWrite, UndoFails, IInv, TypeOK, HandlerTypes, HoldTypes, Callers
<1>2. CASE PlacePublish(r)
  <2>1. PICK o \in PublishOutcomes :
          /\ stage' = [stage EXCEPT ![r] = IF o.confirmed THEN "queued" ELSE "undoing"]
          /\ commands' = IF o.enqueued THEN Append(commands, Placement(r)) ELSE commands
    BY <1>2 DEF PlacePublish, Placement
  <2>2. UNCHANGED <<hold, releasing, unreleased>>
    BY <1>2 DEF PlacePublish, ledgerVars, faultVars
  <2>3. /\ \A i \in DOMAIN commands : i \in DOMAIN commands' /\ commands'[i] = commands[i]
        /\ o.enqueued => \E i \in DOMAIN commands' : commands'[i] = Placement(r)
    <3>1. Placement(r) \in Command
      BY DEF Placement, Command
    <3>2. CASE o.enqueued
      <4>1. /\ \A i \in DOMAIN commands : i \in DOMAIN commands' /\ commands'[i] = commands[i]
            /\ Len(commands) + 1 \in DOMAIN commands' /\ commands'[Len(commands) + 1] = Placement(r)
        BY <1>1, <2>1, <3>1, <3>2, Appended
      <4> QED BY <4>1
    <3> QED BY <2>1, <3>2
  <2>4. \A q \in Requests : Waiting(q) => Waiting(q)'
    BY <2>3 DEF Waiting
  <2>5. stage'[r] = "undoing" \/ Waiting(r)'
    <3>1. CASE o.confirmed
      <4>1. \E i \in DOMAIN commands' : commands'[i] = Placement(r)
        BY <2>3, <3>1 DEF AnswersTell
      <4> QED BY <4>1 DEF Waiting, Placement
    <3>2. CASE ~o.confirmed
      BY <1>1, <2>1, <3>2
    <3> QED BY <3>1, <3>2
  <2>6. Reason(r)'
    BY <2>5 DEF Reason
  <2>7. HeldKeys' = HeldKeys
    BY <2>2 DEF HeldKeys
  <2>8. \A q \in Requests : q # r => stage'[q] = stage[q] /\ releasing'[q] = releasing[q]
    BY <1>1, <2>1, <2>2
  <2> QED BY <1>1, <2>2, <2>4, <2>6, <2>7, <2>8, HandlerKeepsLeft
<1>3. CASE UndoRead(r)
  <2>1. /\ stage' = [stage EXCEPT ![r] = "releasing"] /\ UNCHANGED <<hold, commands, unreleased>>
        /\ releasing' = [releasing EXCEPT ![r] = {k \in DOMAIN hold : k[2] = r.coid /\ hold[k].active}]
    BY <1>3 DEF UndoRead, L!ReleaseRead, faultVars
  <2>2. HeldKeys' = HeldKeys /\ \A q \in Requests : Waiting(q)' <=> Waiting(q)
    BY <2>1 DEF HeldKeys, Waiting
  <2>3. /\ stage'[r] = "releasing" /\ releasing'[Consumer] = releasing[Consumer]
        /\ releasing'[r] = {k \in DOMAIN hold : k[2] = r.coid /\ hold[k].active}
        /\ \A q \in Requests : q # r => stage'[q] = stage[q] /\ releasing'[q] = releasing[q]
    BY <1>1, <2>1
  <2>4. Key(r) \in HeldKeys' => Reason(r)'
    <3>1. Key(r)' = Key(r) /\ Key(r)[2] = r.coid
      BY Keys DEF Key, Cost
    <3>2. Key(r) \in HeldKeys' => Key(r) \in releasing'[r]
      BY <2>2, <2>3, <3>1 DEF HeldKeys
    <3> QED BY <2>3, <3>1, <3>2 DEF Reason
  <2> QED BY <1>1, <2>1, <2>2, <2>3, <2>4, HandlerKeepsLeft
<1>4. CASE UndoWrite(r)
  <2>1. /\ stage[r] = "releasing" /\ L!ReleaseWrite(r) /\ stage' = [stage EXCEPT ![r] = "failed"]
        /\ UNCHANGED <<commands, unreleased>>
    BY <1>4 DEF UndoWrite, faultVars
  <2>2. /\ HeldKeys' \subseteq HeldKeys
        /\ \A k \in HeldKeys' : k \notin releasing[r]
        /\ releasing' = [releasing EXCEPT ![r] = NoRelease]
    BY <1>1, <2>1, Released DEF HeldKeys
  <2>3. /\ releasing'[Consumer] = releasing[Consumer] /\ stage'[r] = "failed"
        /\ \A q \in Requests : q # r => stage'[q] = stage[q] /\ releasing'[q] = releasing[q]
    BY <1>1, <2>1, <2>2
  <2>4. \A q \in Requests : Waiting(q)' <=> Waiting(q)
    BY <2>1 DEF Waiting
  <2>5. Key(r) \in HeldKeys' /\ Reason(r) => Reason(r)'
    <3>1. SUFFICES ASSUME Key(r) \notin releasing[r], Reason(r) PROVE Reason(r)'
      BY <2>2
    <3>2. Waiting(r) \/ (\E id \in OrderIds : entered[id] = r /\ Going(id)) \/ r.coid \in unreleased
      BY <2>1, <3>1 DEF Reason
    <3> QED BY <1>1, <2>1, <2>4, <3>2, GoingStill DEF Reason
  <2> QED BY <1>1, <2>1, <2>2, <2>3, <2>4, <2>5, HandlerKeepsLeft
<1>5. CASE UndoFails(r)
  <2>1. /\ stage' = [stage EXCEPT ![r] = "failed"] /\ releasing' = [releasing EXCEPT ![r] = NoRelease]
        /\ unreleased' = unreleased \cup {r.coid} /\ UNCHANGED <<hold, commands>>
    BY <1>5 DEF UndoFails
  <2>2. HeldKeys' = HeldKeys /\ \A q \in Requests : Waiting(q)' <=> Waiting(q)
    BY <2>1 DEF HeldKeys, Waiting
  <2>3. /\ releasing'[Consumer] = releasing[Consumer]
        /\ \A q \in Requests : q # r => stage'[q] = stage[q] /\ releasing'[q] = releasing[q]
    BY <1>1, <2>1
  <2>4. Reason(r)'
    BY <2>1 DEF Reason
  <2> QED BY <1>1, <2>1, <2>2, <2>3, <2>4, HandlerKeepsLeft
<1> QED BY <1>2, <1>3, <1>4, <1>5

\* Withdrawals, settlements and requests to cancel touch nothing of this.
LEMMA OthersKeepLeft ==
  ASSUME IInv, LeftInv,
         \/ \E w \in Withdrawals : CheckWithdrawal(w) \/ SendWithdrawal(w)
         \/ \E acked \in BOOLEAN : Settle(acked)
         \/ \E id \in OrderIds : RequestCancel(id)
         \/ UNCHANGED vars
  PROVE  LeftInv'
<1>1. /\ UNCHANGED <<engineVars, gatewayQ, orders, hold, releasing, unreleased, stage>>
      /\ commands' = commands \/ \E id \in OrderIds : commands' = Append(commands, [kind |-> "cancel", order |-> id])
  BY DEF CheckWithdrawal, SendWithdrawal, Settle, RequestCancel, L!SettleTrade, L!SettleFaucet, ledgerVars,
         handlerVars, faultVars, vars
<1>2. \A i \in DOMAIN commands : i \in DOMAIN commands' /\ commands'[i] = commands[i]
  <2>1. ASSUME NEW id \in OrderIds, commands' = Append(commands, [kind |-> "cancel", order |-> id])
        PROVE  \A i \in DOMAIN commands : i \in DOMAIN commands' /\ commands'[i] = commands[i]
    <3>1. commands \in Seq(Command)
      BY DEF IInv, TypeOK, HandlerTypes
    <3>2. [kind |-> "cancel", order |-> id] \in Command
      BY EnteredAre DEF Command
    <3> QED BY <2>1, <3>1, <3>2, Appended
  <2> QED BY <1>1, <2>1
<1>3. \A q \in Requests : Waiting(q) => Waiting(q)'
  BY <1>2 DEF Waiting
<1>4. HeldKeys' = HeldKeys
  BY <1>1 DEF HeldKeys
<1>5. HeldInv'
  BY <1>1, <1>3, <1>4, GoingStill, ReasonStays, HeldStays DEF LeftInv
<1>6. ReadInv'
  BY <1>1, <1>4, ReadStays DEF LeftInv
<1> QED BY <1>5, <1>6 DEF LeftInv

\* What a consumer's step means for what is on its way: only the first event can go,
\* and what it told is dealt with.
LEMMA EventDealtWith ==
  ASSUME UniqueIds, IInv, LeftInv, UNCHANGED <<engineVars, stage, commands>>, gatewayQ # <<>>,
         gatewayQ' \in {gatewayQ, Tail(gatewayQ)}, unreleased \subseteq unreleased',
         \A c \in Requests : releasing'[c] = releasing[c],
         HeldKeys' \subseteq HeldKeys,
         \A q \in Requests : Key(q) \in HeldKeys' /\ q.coid \in Closed(Head(gatewayQ)) =>
                               gatewayQ' = gatewayQ \/ q.coid \in unreleased',
         Closed(Head(gatewayQ)) = {} => Unresolved(Head(gatewayQ)) \subseteq unreleased'
  PROVE  HeldInv'
<1>1. OrderIds' = OrderIds /\ entered' = entered /\ \A id : Open(id)' = Open(id)
  BY EngineStill DEF engineVars
<1>2. \A id : Matching(id)' <=> Matching(id)
  BY DEF Matching, engineVars
<1>3. \A e, id : Ends(e, id)' <=> Ends(e, id)
  BY DEF Ends, engineVars
<1>4. \A i \in DOMAIN gatewayQ : \/ \E j \in DOMAIN gatewayQ' : gatewayQ'[j] = gatewayQ[i]
                                 \/ i = 1 /\ gatewayQ[i] = Head(gatewayQ) /\ gatewayQ' = Tail(gatewayQ)
  <2>1. gatewayQ \in Seq(Event)
    BY ClosedIs
  <2>2. CASE gatewayQ' = Tail(gatewayQ)
    <3>1. /\ Len(gatewayQ) \in Nat /\ DOMAIN gatewayQ = 1..Len(gatewayQ) /\ Len(gatewayQ) > 0
          /\ DOMAIN gatewayQ' = 1..(Len(gatewayQ) - 1)
          /\ \A i \in 1..(Len(gatewayQ) - 1) : gatewayQ'[i] = gatewayQ[i + 1]
          /\ Head(gatewayQ) = gatewayQ[1]
      BY <2>1, <2>2, HeadTailProperties, LenProperties, EmptySeq
    <3>2. ASSUME NEW i \in DOMAIN gatewayQ, i # 1
          PROVE  i - 1 \in DOMAIN gatewayQ' /\ gatewayQ'[i - 1] = gatewayQ[i]
      BY <3>1, <3>2
    <3> QED BY <2>2, <3>1, <3>2
  <2> QED BY <2>2
<1>5. ASSUME NEW q \in Requests, Key(q) \in HeldKeys', NEW id \in OrderIds, entered[id] = q, Going(id)
      PROVE  Going(id)' \/ q.coid \in unreleased'
  <2>1. CASE Open(id) > 0 \/ Matching(id)
    BY <1>1, <1>2, <2>1 DEF Going
  <2>2. ASSUME NEW i \in DOMAIN gatewayQ, Ends(gatewayQ[i], id)
        PROVE  Going(id)' \/ q.coid \in unreleased'
    <3>1. CASE \E j \in DOMAIN gatewayQ' : gatewayQ'[j] = gatewayQ[i]
      <4>1. PICK j \in DOMAIN gatewayQ' : gatewayQ'[j] = gatewayQ[i]
        BY <3>1
      <4>2. PICK e : e = gatewayQ[i]
        OBVIOUS
      <4>3. Ends(e, id)' /\ gatewayQ'[j] = e
        BY <1>3, <2>2, <4>1, <4>2
      <4>4. Ending(id)'
        BY <4>3 DEF Ending, Ends
      <4> QED BY <4>4 DEF Going
    <3>2. CASE Ends(Head(gatewayQ), id) /\ gatewayQ' = Tail(gatewayQ)
      <4>1. CASE q.coid \in Closed(Head(gatewayQ))
        <5>1. gatewayQ' # gatewayQ
          <6>1. Len(gatewayQ') = Len(gatewayQ) - 1
            BY <3>2, ClosedIs, HeadTailProperties
          <6>2. Len(gatewayQ) \in Nat
            BY ClosedIs, LenProperties
          <6>3. Len(gatewayQ') # Len(gatewayQ)
            BY <6>1, <6>2
          <6> QED BY <6>3
        <5> QED BY <1>5, <4>1, <5>1
      <4>2. CASE q.coid \notin Closed(Head(gatewayQ))
        BY <1>5, <3>2, <4>2, ClosedIs
      <4> QED BY <4>1, <4>2
    <3> QED BY <1>4, <2>2, <3>1, <3>2
  <2> QED BY <1>5, <2>1, <2>2 DEF Going, Ending
<1>6. ASSUME NEW q \in Requests, Key(q) \in HeldKeys', Reason(q) PROVE Reason(q)'
  <2>1. Waiting(q)' <=> Waiting(q)
    BY DEF Waiting
  <2>2. Key(q)' = Key(q)
    BY DEF Key, Cost
  <2>3. CASE \E id \in OrderIds : entered[id] = q /\ Going(id)
    BY <1>1, <1>5, <1>6, <2>3 DEF Reason
  <2>4. CASE ~\E id \in OrderIds : entered[id] = q /\ Going(id)
    BY <1>6, <2>1, <2>2, <2>4 DEF Reason
  <2> QED BY <2>3, <2>4
<1> QED BY <1>6, HeldStays DEF LeftInv

\* The projection of an event keeps the client order id that the event closes.
LEMMA ClosedStays ==
  ASSUME IInv, gatewayQ # <<>>, gatewayQ' = gatewayQ, orders' = Projected(Head(gatewayQ))
  PROVE  Closed(Head(gatewayQ))' = Closed(Head(gatewayQ))
<1> DEFINE e == Head(gatewayQ)
<1>1. e \in Event
  BY HeadTailProperties DEF IInv, TypeOK, GatewayTypes
<1>2. Head(gatewayQ') = e
  OBVIOUS
<1>3. ASSUME e.kind = "canceled" PROVE Closed(e)' = Closed(e)
  <2>1. orders' = [id \in DOMAIN orders |->
                     IF id = e.order THEN [orders[id] EXCEPT !.status = "canceled"] ELSE orders[id]]
    BY <1>3 DEF Projected
  <2>2. \A id \in DOMAIN orders : orders'[id].coid = orders[id].coid
    <3>1. \A id \in DOMAIN orders : orders[id] \in Shown
      BY DEF IInv, TypeOK, GatewayTypes
    <3> QED BY <2>1, <3>1 DEF Shown
  <2>3. DOMAIN orders' = DOMAIN orders
    BY <2>1
  <2>4. /\ Closed(e) = {orders[id].coid : id \in DOMAIN orders \cap {e.order}}
        /\ Closed(e)' = {orders'[id].coid : id \in DOMAIN orders' \cap {e.order}}
    BY <1>3, <1>2 DEF Closed
  <2>5. {orders[id].coid : id \in DOMAIN orders \cap {e.order}}
          = {orders'[id].coid : id \in DOMAIN orders' \cap {e.order}}
    BY <2>2, <2>3
  <2> QED BY <2>4, <2>5
<1>4. e.kind # "canceled" => Closed(e)' = Closed(e)
  BY <1>1 DEF Closed, Event
<1> QED BY <1>3, <1>4

\* The consumer: the first event goes only when the hold it ends is released or
\* given up.
LEMMA ConsumerKeepsLeft ==
  ASSUME UniqueIds, IInv, LeftInv, NEW acked \in BOOLEAN,
         ProjectEvent(acked) \/ CloseOrder \/ ReleaseHold(acked) \/ ReleaseFails(acked)
  PROVE  LeftInv'
<1>1. /\ UNCHANGED <<engineVars, stage, commands>>
      /\ HoldTypes /\ Consumer \in Callers /\ Requests \subseteq Callers /\ Consumer \notin Requests
      /\ releasing \in [Callers -> {NoRelease} \cup SUBSET DOMAIN hold]
  BY ConsumerAssumption
     DEF ProjectEvent, CloseOrder, ReleaseHold, ReleaseFails, handlerVars, Callers, IInv, TypeOK, HoldTypes
<1>2. CASE ProjectEvent(acked)
  <2>1. /\ hold' = hold /\ releasing' = releasing /\ releasing[Consumer] = NoRelease
        /\ gatewayQ # <<>> /\ Closed(Head(gatewayQ)) = {}
        /\ gatewayQ' \in {gatewayQ, Tail(gatewayQ)}
        /\ unreleased' = unreleased \cup Unresolved(Head(gatewayQ))
    BY <1>2, DoneIs DEF ProjectEvent, ledgerVars
  <2>2. HeldKeys' = HeldKeys
    BY <2>1 DEF HeldKeys
  <2>3. HeldInv'
    BY <1>1, <2>1, <2>2, EventDealtWith
  <2>4. ReadInv'
    BY <2>1 DEF ReadInv
  <2> QED BY <2>3, <2>4 DEF LeftInv
<1>3. CASE CloseOrder
  <2>1. PICK coid \in Closed(Head(gatewayQ)) : L!ReleaseRead(Consumer, coid)
    BY <1>3 DEF CloseOrder
  <2>2. /\ gatewayQ # <<>> /\ gatewayQ' = gatewayQ /\ orders' = Projected(Head(gatewayQ))
        /\ unreleased' = unreleased /\ hold' = hold
        /\ releasing' = [releasing EXCEPT ![Consumer] = {k \in DOMAIN hold : k[2] = coid /\ hold[k].active}]
    BY <1>3, <2>1 DEF CloseOrder, faultVars, L!ReleaseRead
  <2>3. /\ releasing'[Consumer] = {k \in DOMAIN hold : k[2] = coid /\ hold[k].active}
        /\ \A c \in Requests : releasing'[c] = releasing[c]
    BY <1>1, <2>2
  <2>4. HeldKeys' = HeldKeys
    BY <2>2 DEF HeldKeys
  <2>5. HeldInv'
    BY <1>1, <2>1, <2>2, <2>3, <2>4, EventDealtWith
  <2>6. ReadInv'
    <3>1. Closed(Head(gatewayQ))' = Closed(Head(gatewayQ))
      BY <2>2, ClosedStays
    <3>2. \A c \in Closed(Head(gatewayQ)) : c = coid
      BY <2>1, <2>2, ClosedIs
    <3>3. \A k \in HeldKeys' : k[2] \in Closed(Head(gatewayQ))' => k \in releasing'[Consumer]
      BY <2>3, <2>4, <3>1, <3>2 DEF HeldKeys
    <3> QED BY <2>1, <2>2, <3>1, <3>3 DEF ReadInv
  <2> QED BY <2>5, <2>6 DEF LeftInv
<1>4. CASE ReleaseHold(acked)
  <2>1. /\ L!ReleaseWrite(Consumer) /\ unreleased' = unreleased
        /\ gatewayQ' \in {gatewayQ, Tail(gatewayQ)}
    BY <1>4, DoneIs DEF ReleaseHold, faultVars
  <2>2. /\ DOMAIN hold' = DOMAIN hold
        /\ \A k \in DOMAIN hold : hold'[k].active <=> hold[k].active /\ k \notin releasing[Consumer]
        /\ releasing[Consumer] # NoRelease /\ releasing' = [releasing EXCEPT ![Consumer] = NoRelease]
    BY <1>1, <2>1, Released
  <2>3. /\ gatewayQ # <<>> /\ Closed(Head(gatewayQ)) # {}
        /\ \A k \in HeldKeys : k[2] \in Closed(Head(gatewayQ)) => k \in releasing[Consumer]
    BY <2>2 DEF LeftInv, ReadInv
  <2>4. HeldKeys' \subseteq HeldKeys /\ \A k \in HeldKeys' : k \notin releasing[Consumer]
    BY <2>2 DEF HeldKeys
  <2>5. \A q \in Requests : Key(q) \in HeldKeys' => q.coid \notin Closed(Head(gatewayQ))
    BY <2>3, <2>4, Keys
  <2>6. releasing'[Consumer] = NoRelease /\ \A c \in Requests : releasing'[c] = releasing[c]
    BY <1>1, <2>2
  <2>7. HeldInv'
    BY <1>1, <2>1, <2>3, <2>4, <2>5, <2>6, EventDealtWith
  <2> QED BY <2>6, <2>7 DEF LeftInv, ReadInv
<1>5. CASE ReleaseFails(acked)
  <2>1. /\ hold' = hold /\ releasing' = [releasing EXCEPT ![Consumer] = NoRelease]
        /\ releasing[Consumer] # NoRelease /\ gatewayQ' \in {gatewayQ, Tail(gatewayQ)}
        /\ unreleased' = unreleased \cup Closed(Head(gatewayQ))
    BY <1>5, DoneIs DEF ReleaseFails
  <2>2. gatewayQ # <<>> /\ Closed(Head(gatewayQ)) # {}
    BY <2>1 DEF LeftInv, ReadInv
  <2>3. HeldKeys' = HeldKeys
    BY <2>1 DEF HeldKeys
  <2>4. releasing'[Consumer] = NoRelease /\ \A c \in Requests : releasing'[c] = releasing[c]
    BY <1>1, <2>1
  <2>5. HeldInv'
    BY <1>1, <2>1, <2>2, <2>3, <2>4, EventDealtWith
  <2> QED BY <2>4, <2>5 DEF LeftInv, ReadInv
<1> QED BY <1>2, <1>3, <1>4, <1>5

\* A restart gives up what its handlers had, and the consumer begins its first event
\* anew.
LEMMA RestartKeepsLeft ==
  ASSUME IInv, LeftInv, RestartGateway
  PROVE  LeftInv'
<1>1. /\ UNCHANGED <<engineVars, commands, gatewayQ, hold>>
      /\ releasing' = [c \in Callers |-> NoRelease]
      /\ \A r \in Requests :
           IF stage[r] \in {"reserved", "undoing", "releasing"}
           THEN r.coid \in unreleased' ELSE stage'[r] = stage[r]
      /\ unreleased \subseteq unreleased'
  BY DEF RestartGateway
<1>2. HeldKeys' = HeldKeys
  BY <1>1 DEF HeldKeys
<1>3. ASSUME NEW q \in Requests, Reason(q) PROVE Reason(q)'
  <2>1. CASE stage[q] \in {"reserved", "undoing", "releasing"}
    BY <1>1, <2>1 DEF Reason
  <2>2. CASE stage[q] \notin {"reserved", "undoing", "releasing"}
    <3>1. Waiting(q)' <=> Waiting(q)
      BY <1>1 DEF Waiting
    <3> QED BY <1>1, <1>3, <2>2, <3>1, GoingStill, ReasonStays
  <2> QED BY <2>1, <2>2
<1>4. HeldInv'
  BY <1>2, <1>3, HeldStays DEF LeftInv
<1>5. ReadInv'
  <2>1. releasing'[Consumer] = NoRelease
    BY <1>1 DEF Callers
  <2> QED BY <2>1 DEF ReadInv
<1> QED BY <1>4, <1>5 DEF LeftInv

-----------------------------------------------------------------------------
(* The engine's steps: whatever ends an order tells it. *)

\* A queue that has got more at its end.
Grows(s, t) ==
  /\ \A i \in DOMAIN s : i \in DOMAIN t /\ t[i] = s[i]
  /\ s # <<>> => t # <<>> /\ Head(t) = Head(s)

Tells(s, e) == \E i \in DOMAIN s : s[i] = e

LEMMA Concatenated ==
  ASSUME NEW S, NEW s \in Seq(S), NEW t \in Seq(S)
  PROVE  /\ s \o t \in Seq(S) /\ Grows(s, s \o t)
         /\ \A e : Tells(s, e) \/ Tells(t, e) => Tells(s \o t, e)
<1>1. /\ s \o t \in Seq(S) /\ Len(s \o t) = Len(s) + Len(t)
      /\ \A i \in 1..(Len(s) + Len(t)) : (s \o t)[i] = IF i <= Len(s) THEN s[i] ELSE t[i - Len(s)]
      /\ DOMAIN s = 1..Len(s) /\ DOMAIN t = 1..Len(t) /\ DOMAIN (s \o t) = 1..(Len(s) + Len(t))
      /\ Len(s) \in Nat /\ Len(t) \in Nat
  BY ConcatProperties, LenProperties
<1>2. \A i \in DOMAIN s : i \in DOMAIN (s \o t) /\ (s \o t)[i] = s[i]
  BY <1>1
<1>3. \A i \in DOMAIN t : i + Len(s) \in DOMAIN (s \o t) /\ (s \o t)[i + Len(s)] = t[i]
  <2> SUFFICES ASSUME NEW i \in DOMAIN t
               PROVE  i + Len(s) \in DOMAIN (s \o t) /\ (s \o t)[i + Len(s)] = t[i]
    OBVIOUS
  <2>1. i \in Nat /\ i >= 1 /\ i <= Len(t)
    BY <1>1
  <2>2. i + Len(s) \in 1..(Len(s) + Len(t)) /\ ~(i + Len(s) <= Len(s)) /\ i + Len(s) - Len(s) = i
    BY <1>1, <2>1
  <2> QED BY <1>1, <2>2
<1>4. s # <<>> => s \o t # <<>> /\ Head(s \o t) = Head(s)
  <2> SUFFICES ASSUME s # <<>> PROVE s \o t # <<>> /\ Head(s \o t) = Head(s)
    OBVIOUS
  <2>1. 1 \in DOMAIN s /\ Head(s) = s[1]
    BY <1>1, EmptySeq, HeadTailProperties, LenProperties
  <2>2. 1 \in DOMAIN (s \o t) /\ (s \o t)[1] = s[1]
    BY <1>2, <2>1
  <2>3. s \o t # <<>>
    BY <2>2, EmptySeq
  <2>4. Head(s \o t) = (s \o t)[1]
    BY <1>1, <2>3, HeadTailProperties
  <2> QED BY <2>1, <2>2, <2>3, <2>4
<1> QED BY <1>1, <1>2, <1>3, <1>4 DEF Grows, Tells

LEMMA GrowsByOne ==
  ASSUME NEW S, NEW s \in Seq(S), NEW x \in S
  PROVE  Grows(s, Append(s, x)) /\ Tells(Append(s, x), x)
<1>1. /\ \A i \in DOMAIN s : Append(s, x)[i] = s[i] /\ i \in DOMAIN Append(s, x)
      /\ Len(s) + 1 \in DOMAIN Append(s, x) /\ Append(s, x)[Len(s) + 1] = x
      /\ s # <<>> => Head(s) = s[1] /\ Head(Append(s, x)) = s[1]
  BY Appended
<1>2. Append(s, x) # <<>>
  BY <1>1, EmptySeq
<1> QED BY <1>1, <1>2 DEF Grows, Tells

\* What is told to the gateway, it is told.
LEMMA EndingIs ==
  ASSUME NEW id, entered'[id] = entered[id]
  PROVE  /\ Grows(gatewayQ, gatewayQ') => (Ending(id) => Ending(id)')
         /\ \A e : Tells(gatewayQ', e) /\ Ends(e, id) => Ending(id)'
BY DEF Grows, Tells, Ending, Ends

\* A step of the engine after which every order it has taken up still has something
\* open, or is told.
LEMMA EngineKeepsLeft ==
  ASSUME IInv, LeftInv, UNCHANGED <<stage, hold, releasing, unreleased, orders>>,
         OrderIds \subseteq OrderIds', \A id \in OrderIds : entered'[id] = entered[id],
         Grows(gatewayQ, gatewayQ'),
         \A q \in Requests : Waiting(q) =>
           Waiting(q)' \/ \E id \in OrderIds' : entered'[id] = q /\ Going(id)',
         \A id \in OrderIds : Open(id) > 0 \/ Matching(id) => Going(id)'
  PROVE  LeftInv'
<1>1. \A id \in OrderIds : Going(id) => Going(id)'
  BY EndingIs DEF Going
<1>2. HeldKeys' = HeldKeys
  BY DEF HeldKeys
<1>3. \A q \in Requests : Reason(q) => Reason(q)'
  BY <1>1, ReasonStays
<1>4. HeldInv'
  BY <1>2, <1>3, HeldStays DEF LeftInv
<1>5. ReadInv'
  BY <1>2, ReadStays DEF LeftInv, Grows
<1> QED BY <1>4, <1>5 DEF LeftInv

\* A command that waits behind the first one keeps waiting.
LEMMA WaitingStays ==
  ASSUME IInv, NEW q \in Requests, Waiting(q)
  PROVE  /\ commands' = commands => Waiting(q)'
         /\ commands # <<>> /\ commands' = Tail(commands) => Head(commands) = Placement(q) \/ Waiting(q)'
<1>1. PICK i \in DOMAIN commands : commands[i] = Placement(q)
  BY DEF Waiting, Placement
<1>2. commands' = commands => Waiting(q)'
  BY DEF Waiting
<1>3. ASSUME commands # <<>>, commands' = Tail(commands), Head(commands) # Placement(q)
      PROVE  Waiting(q)'
  <2>1. commands \in Seq(Command)
    BY DEF IInv, TypeOK, HandlerTypes
  <2>2. /\ Len(commands) \in Nat /\ DOMAIN commands = 1..Len(commands)
        /\ DOMAIN commands' = 1..(Len(commands) - 1)
        /\ \A j \in 1..(Len(commands) - 1) : commands'[j] = commands[j + 1]
        /\ Head(commands) = commands[1]
    BY <1>3, <2>1, HeadTailProperties, LenProperties
  <2>3. i # 1
    BY <1>1, <1>3, <2>2
  <2>4. i - 1 \in DOMAIN commands' /\ commands'[i - 1] = Placement(q)
    BY <1>1, <2>2, <2>3
  <2> QED BY <2>4 DEF Waiting, Placement
<1> QED BY <1>2, <1>3

LEMMA TakeOrderKeepsLeft ==
  ASSUME IInv, LeftInv, NEW r \in Requests, TakeOrder(r, Len(entered) + 1)
  PROVE  LeftInv'
<1>0. PICK n : n = Len(entered) + 1
  OBVIOUS
<1> DEFINE o == OrderOf(r, n)
<1>1. /\ commands # <<>> /\ Head(commands) = Placement(r) /\ active = NoOrder
      /\ entered' = Append(entered, r)
      /\ UNCHANGED <<stage, orders, hold, releasing, unreleased, resting>>
      /\ \/ /\ active' = NoOrder /\ commands' = Tail(commands)
            /\ gatewayQ' = Append(gatewayQ, [kind |-> "rejected", coid |-> r.coid])
         \/ active' = o /\ gatewayQ' = gatewayQ /\ commands' = commands
  BY <1>0 DEF TakeOrder, M!Refuse, M!Arrive, Placement, ledgerVars, handlerVars, faultVars
<1>2. /\ entered \in Seq(Requests) /\ OrderIds = 1..Len(entered) /\ Len(entered) \in Nat
      /\ \A m \in resting : m.id \in OrderIds
  BY EnteredAre DEF IInv, TypeOK, EngineTypes, BookInv, Placed
<1>3. /\ n \in Nat /\ OrderIds' = OrderIds \cup {n} /\ n \notin OrderIds
      /\ \A id \in OrderIds : entered'[id] = entered[id]
      /\ entered'[n] = r
  BY <1>0, <1>1, <1>2, Appended DEF OrderIds
<1>4. o.id = n /\ o # NoOrder
  <2>1. o \in Order
    BY <1>3, RequestsAssumption DEF Order, OrderOf
  <2> QED BY <2>1, NoOrderAssumption DEF OrderOf
<1> HIDE DEF o
<1>5. \A id \in OrderIds : Open(id)' = Open(id)
  <2>1. Engaged = resting /\ Engaged' \in {resting, resting \cup {o}}
    BY <1>1 DEF Engaged
  <2>2. \A id \in OrderIds : WithId(Engaged', id) = WithId(Engaged, id)
    BY <1>3, <1>4, <2>1 DEF WithId
  <2> QED BY <2>2, OpenIs, OpenSame
<1>6. \A id \in OrderIds : Open(id) > 0 \/ Matching(id) => Going(id)'
  BY <1>1, <1>5 DEF Going, Matching
<1>7. /\ Grows(gatewayQ, gatewayQ')
      /\ Going(n)' /\ \A q \in Requests : Waiting(q) => Waiting(q)' \/ Head(commands) = Placement(q)
  <2>1. CASE active' = o /\ gatewayQ' = gatewayQ /\ commands' = commands
    <3>1. Matching(n)'
      BY <1>4, <2>1 DEF Matching
    <3>2. Grows(gatewayQ, gatewayQ')
      BY <2>1 DEF Grows
    <3>3. \A q \in Requests : Waiting(q) => Waiting(q)'
      BY <2>1, WaitingStays
    <3> QED BY <3>1, <3>2, <3>3 DEF Going
  <2>2. CASE /\ active' = NoOrder /\ commands' = Tail(commands)
             /\ gatewayQ' = Append(gatewayQ, [kind |-> "rejected", coid |-> r.coid])
    <3> DEFINE e == [kind |-> "rejected", coid |-> r.coid]
    <3>1. gatewayQ \in Seq(Event) /\ e \in Event
      BY DEF IInv, TypeOK, GatewayTypes, Event, Coids
    <3>2. e.kind = "rejected" /\ e.coid = r.coid
      OBVIOUS
    <3> HIDE DEF e
    <3>3. Grows(gatewayQ, gatewayQ') /\ Tells(gatewayQ', e)
      BY <2>2, <3>1, GrowsByOne DEF e
    <3>4. Ending(n)'
      <4>1. PICK i \in DOMAIN gatewayQ' : gatewayQ'[i] = e
        BY <3>3 DEF Tells
      <4>2. gatewayQ'[i].kind = "rejected" /\ gatewayQ'[i].coid = entered'[n].coid
        BY <1>3, <3>2, <4>1
      <4> QED BY <4>1, <4>2 DEF Ending, Ends
    <3>5. \A q \in Requests : Waiting(q) => Waiting(q)' \/ Head(commands) = Placement(q)
      BY <1>1, <2>2, WaitingStays
    <3> QED BY <3>3, <3>4, <3>5 DEF Going
  <2> QED BY <1>1, <2>1, <2>2
<1>8. \A q \in Requests : Waiting(q) =>
        Waiting(q)' \/ \E id \in OrderIds' : entered'[id] = q /\ Going(id)'
  <2>1. \A q : Placement(q) = Placement(r) => q = r
    BY DEF Placement
  <2> QED BY <1>1, <1>3, <1>7, <2>1
<1> QED BY <1>1, <1>3, <1>6, <1>7, <1>8, EngineKeepsLeft

\* A trade, or self-trade prevention: what is filled is on the tape, what is canceled
\* in the list.
LEMMA MatchingKeepsLeft ==
  ASSUME IInv, LeftInv, NEW m \in resting, Match(m) \/ CancelOwn(m)
  PROVE  LeftInv'
<1>1. /\ UNCHANGED <<entered, stage, commands, gatewayQ, orders, hold, releasing, unreleased>>
      /\ active # NoOrder /\ OrderIds' = OrderIds
  BY DEF Match, CancelOwn, M!Execute, M!PreventSelfTrade, ledgerVars, handlerVars, faultVars, OrderIds
<1>2. /\ active # NoOrder => active' # NoOrder /\ active'.id = active.id
      /\ \A id \in OrderIds : Open(id) > 0 => Open(id)' > 0 \/ Matching(id)'
      /\ \A id : Matching(id) => Matching(id)'
  <2>1. CASE Match(m)
    <3>1. PICK a \in Order, q \in Nat : Matched(m, a, q)
      BY <2>1, MatchIs
    <3>2. /\ \A id : id # a.id /\ id # m.id => Open(id)' = Open(id)
          /\ active' # NoOrder /\ active'.id = a.id
      BY <3>1, MatchOpens
    <3>3. active = a /\ tape' = Append(tape, [taker |-> a.id, maker |-> m.id, price |-> m.price, qty |-> q])
          /\ selfCanceled' = selfCanceled
      BY <2>1, <3>1 DEF Matched, Match
    <3>4. /\ \A i \in DOMAIN tape : i \in DOMAIN tape' /\ tape'[i] = tape[i]
          /\ \E i \in DOMAIN tape' : tape'[i].maker = m.id
      <4>1. PICK T : T = [taker : Nat, maker : Nat, price : Nat, qty : Nat]
        OBVIOUS
      <4>2. tape \in Seq(T)
        BY <4>1 DEF IInv, TypeOK, EngineTypes
      <4>3. PICK x \in T : x.maker = m.id /\ tape' = Append(tape, x)
        <5>1. [taker |-> a.id, maker |-> m.id, price |-> m.price, qty |-> q] \in T
          BY <4>1 DEF IInv, TypeOK, EngineTypes, Order
        <5> QED BY <3>3, <5>1
      <4>4. /\ \A i \in DOMAIN tape : i \in DOMAIN tape' /\ tape'[i] = tape[i]
            /\ Len(tape) + 1 \in DOMAIN tape' /\ tape'[Len(tape) + 1] = x
        BY <4>2, <4>3, Appended
      <4> QED BY <4>3, <4>4
    <3>5. Matching(m.id)' /\ Matching(a.id)'
      BY <3>2, <3>4 DEF Matching
    <3>6. \A id : Matching(id) => Matching(id)'
      BY <3>2, <3>3, <3>4 DEF Matching
    <3> QED BY <3>2, <3>3, <3>5, <3>6
  <2>2. CASE CancelOwn(m)
    <3>1. /\ active' = active /\ tape' = tape /\ resting' = resting \ {m}
          /\ selfCanceled' = Append(selfCanceled, m.id)
      BY <2>2 DEF CancelOwn, M!PreventSelfTrade
    <3>2. selfCanceled \in Seq(Nat) /\ m.id \in Nat
      BY DEF IInv, TypeOK, EngineTypes, Order
    <3>3. /\ \A i \in DOMAIN selfCanceled : i \in DOMAIN selfCanceled' /\ selfCanceled'[i] = selfCanceled[i]
          /\ Len(selfCanceled) + 1 \in DOMAIN selfCanceled'
          /\ selfCanceled'[Len(selfCanceled) + 1] = m.id
      BY <3>1, <3>2, Appended
    <3>4. Matching(m.id)' /\ \A id : Matching(id) => Matching(id)'
      BY <1>1, <3>1, <3>3 DEF Matching
    <3>5. \A id : id # m.id => Open(id)' = Open(id)
      <4>1. \A id : id # m.id => WithId(Engaged', id) = WithId(Engaged, id)
        BY <3>1 DEF WithId, Engaged
      <4> QED BY <4>1, OpenIs, OpenSame
    <3> QED BY <1>1, <3>1, <3>4, <3>5
  <2> QED BY <2>1, <2>2
<1>3. \A q \in Requests : Waiting(q) => Waiting(q)'
  BY <1>1, WaitingStays
<1>4. Grows(gatewayQ, gatewayQ')
  BY <1>1 DEF Grows
<1> QED BY <1>1, <1>2, <1>3, <1>4, EngineKeepsLeft DEF Going

\* An order that a user cancels is told to be canceled.
LEMMA TakeCancelKeepsLeft ==
  ASSUME IInv, LeftInv, NEW id \in canceling, TakeCancel(id)
  PROVE  LeftInv'
<1>1. /\ UNCHANGED <<entered, stage, active, orders, hold, releasing, unreleased>>
      /\ active = NoOrder /\ commands # <<>> /\ commands' = Tail(commands)
      /\ Head(commands) = [kind |-> "cancel", order |-> id] /\ OrderIds' = OrderIds
      /\ \/ resting' = resting /\ gatewayQ' = gatewayQ
         \/ \E m \in resting : /\ m.id = id /\ resting' = resting \ {m}
                               /\ gatewayQ' = Append(gatewayQ, Canceled(id))
  BY DEF TakeCancel, M!Withdraw, M!Refuse, ledgerVars, handlerVars, faultVars, OrderIds
<1>2. \A q \in Requests : Waiting(q) => Waiting(q)'
  <2>1. \A q : Head(commands) # Placement(q)
    BY <1>1 DEF Placement
  <2> QED BY <1>1, <2>1, WaitingStays
<1>3. Engaged = resting /\ Engaged' = resting'
  BY <1>1 DEF Engaged
<1>4. CASE resting' = resting /\ gatewayQ' = gatewayQ
  <2>1. \A i : Open(i)' = Open(i)
    BY <1>3, <1>4, OpenIs
  <2>2. Grows(gatewayQ, gatewayQ')
    BY <1>4 DEF Grows
  <2> QED BY <1>1, <1>2, <2>1, <2>2, EngineKeepsLeft DEF Going, Matching
<1>5. ASSUME NEW m \in resting, m.id = id, resting' = resting \ {m},
             gatewayQ' = Append(gatewayQ, Canceled(id))
      PROVE  LeftInv'
  <2>1. \A i : i # id => Open(i)' = Open(i)
    <3>1. \A i : i # id => WithId(Engaged', i) = WithId(Engaged, i)
      BY <1>3, <1>5 DEF WithId
    <3> QED BY <3>1, OpenIs, OpenSame
  <2>2. gatewayQ \in Seq(Event) /\ Canceled(id) \in Event
    BY <1>5 DEF IInv, TypeOK, GatewayTypes, EngineTypes, Event, Canceled, Order
  <2>3. Grows(gatewayQ, gatewayQ') /\ Tells(gatewayQ', Canceled(id))
    BY <1>5, <2>2, GrowsByOne
  <2>4. Ending(id)'
    BY <1>1, <2>3, EndingIs DEF Ends, Canceled
  <2> QED BY <1>1, <1>2, <2>1, <2>3, <2>4, EngineKeepsLeft DEF Going, Matching
<1> QED BY <1>1, <1>4, <1>5

\* An order that expires in the queue is one whose hold stays.
LEMMA ExpireKeepsLeft ==
  ASSUME IInv, LeftInv, Expire
  PROVE  LeftInv'
<1>1. /\ UNCHANGED <<engineVars, gatewayQ, orders, hold, releasing, stage>>
      /\ commands # <<>> /\ commands' = Tail(commands)
      /\ unreleased \subseteq unreleased'
      /\ \A q \in Requests : Head(commands) = Placement(q) => q.coid \in unreleased'
  BY DEF Expire, ledgerVars, handlerVars
<1>2. HeldKeys' = HeldKeys
  BY <1>1 DEF HeldKeys
<1>3. ASSUME NEW q \in Requests, Reason(q) PROVE Reason(q)'
  <2>1. CASE q.coid \in unreleased'
    BY <2>1 DEF Reason
  <2>2. CASE q.coid \notin unreleased'
    <3>1. Waiting(q) => Waiting(q)'
      BY <1>1, <2>2, WaitingStays
    <3> QED BY <1>1, <1>3, <3>1, GoingStill, ReasonStays
  <2> QED BY <2>1, <2>2
<1>4. HeldInv'
  BY <1>2, <1>3, HeldStays DEF LeftInv
<1>5. ReadInv'
  BY <1>1, <1>2, ReadStays DEF LeftInv
<1> QED BY <1>4, <1>5 DEF LeftInv

\* What publishPlaceResult tells, in its order: the order is accepted, what self-trade
\* prevention took out, the reports of the trades, and the remainder.
PreventionEvents == [i \in 1..Len(selfCanceled) |-> Canceled(selfCanceled[i])]
RemainderEvents == IF active.open > 0 /\ ~Rests THEN <<Canceled(active.id)>> ELSE <<>>

LEMMA PlaceEventsParts ==
  ASSUME IInv
  PROVE  /\ PlaceEvents = <<Accepted(active.id)>> \o PreventionEvents \o ExecutionReports \o RemainderEvents
         /\ Len(tape) \in Nat /\ DOMAIN tape = 1..Len(tape)
         /\ Len(selfCanceled) \in Nat /\ DOMAIN selfCanceled = 1..Len(selfCanceled)
         /\ \E U : /\ <<Accepted(active.id)>> \in Seq(U) /\ PreventionEvents \in Seq(U)
                  /\ ExecutionReports \in Seq(U) /\ RemainderEvents \in Seq(U)
<1>1. /\ Len(tape) \in Nat /\ DOMAIN tape = 1..Len(tape)
      /\ Len(selfCanceled) \in Nat /\ DOMAIN selfCanceled = 1..Len(selfCanceled)
      /\ 2 * Len(tape) \in Nat
  BY LenProperties DEF IInv, TypeOK, EngineTypes
<1>2. PlaceEvents = <<Accepted(active.id)>> \o PreventionEvents \o ExecutionReports \o RemainderEvents
  BY DEF PlaceEvents, PreventionEvents, RemainderEvents
<1> DEFINE U == {Accepted(active.id), Canceled(active.id)}
                  \cup {PreventionEvents[i] : i \in 1..Len(selfCanceled)}
                  \cup {ExecutionReports[k] : k \in 1..(2 * Len(tape))}
<1>3. PreventionEvents \in Seq(U)
  <2>1. /\ PreventionEvents = [i \in 1..Len(selfCanceled) |-> PreventionEvents[i]]
        /\ \A i \in 1..Len(selfCanceled) : PreventionEvents[i] \in U
    BY DEF PreventionEvents
  <2> QED BY <1>1, <2>1, IsASeq
<1>4. ExecutionReports \in Seq(U)
  <2>1. /\ ExecutionReports = [k \in 1..(2 * Len(tape)) |-> ExecutionReports[k]]
        /\ \A k \in 1..(2 * Len(tape)) : ExecutionReports[k] \in U
    BY DEF ExecutionReports
  <2> QED BY <1>1, <2>1, IsASeq
<1>5. <<Accepted(active.id)>> \in Seq(U) /\ RemainderEvents \in Seq(U)
  <2>1. Accepted(active.id) \in U /\ Canceled(active.id) \in U
    OBVIOUS
  <2> HIDE DEF U
  <2>2. <<>> \in Seq(U)
    BY EmptySeq
  <2> QED BY <2>1, <2>2 DEF RemainderEvents
<1> HIDE DEF U
<1> QED BY <1>1, <1>2, <1>3, <1>4, <1>5

LEMMA PlaceEventsTell ==
  ASSUME IInv
  PROVE  /\ Tells(PlaceEvents, Accepted(active.id))
         /\ \A i \in DOMAIN selfCanceled : Tells(PlaceEvents, Canceled(selfCanceled[i]))
         /\ \A k \in 1..(2 * Len(tape)) : Tells(PlaceEvents, ExecutionReports[k])
         /\ active.open > 0 /\ ~Rests => Tells(PlaceEvents, Canceled(active.id))
<1>1. PICK U, A, B, C, D : /\ A \in Seq(U) /\ B \in Seq(U) /\ C \in Seq(U) /\ D \in Seq(U)
                           /\ A = <<Accepted(active.id)>> /\ B = PreventionEvents
                           /\ C = ExecutionReports /\ D = RemainderEvents
  BY PlaceEventsParts
<1>2. PlaceEvents = A \o B \o C \o D
  BY <1>1, PlaceEventsParts
<1>3. /\ Tells(A, Accepted(active.id))
      /\ \A i \in 1..Len(selfCanceled) : Tells(B, Canceled(selfCanceled[i]))
      /\ \A k \in 1..(2 * Len(tape)) : Tells(C, ExecutionReports[k])
      /\ active.open > 0 /\ ~Rests => Tells(D, Canceled(active.id))
  <2>1. Tells(A, Accepted(active.id))
    BY <1>1 DEF Tells
  <2>2. \A i \in 1..Len(selfCanceled) : Tells(B, Canceled(selfCanceled[i]))
    BY <1>1 DEF Tells, PreventionEvents
  <2>3. \A k \in 1..(2 * Len(tape)) : Tells(C, ExecutionReports[k])
    BY <1>1 DEF Tells, ExecutionReports
  <2>4. active.open > 0 /\ ~Rests => Tells(D, Canceled(active.id))
    BY <1>1 DEF Tells, RemainderEvents
  <2> QED BY <2>1, <2>2, <2>3, <2>4
<1>4. DOMAIN selfCanceled = 1..Len(selfCanceled)
  BY PlaceEventsParts
<1>5. A \o B \in Seq(U) /\ (A \o B) \o C \in Seq(U)
  BY <1>1, Concatenated
<1>6. \A e : Tells(A, e) \/ Tells(B, e) => Tells(A \o B, e)
  BY <1>1, Concatenated
<1>7. \A e : Tells(A \o B, e) \/ Tells(C, e) => Tells((A \o B) \o C, e)
  BY <1>1, <1>5, Concatenated
<1>8. \A e : Tells((A \o B) \o C, e) \/ Tells(D, e) => Tells(((A \o B) \o C) \o D, e)
  BY <1>1, <1>5, Concatenated
<1> QED BY <1>2, <1>3, <1>4, <1>6, <1>7, <1>8

\* An order that is filled has been traded with: its last report says so.
LEMMA FilledTraded ==
  ASSUME IInv, active # NoOrder, active.open = 0
  PROVE  Len(tape) \in 1..Len(tape) /\ RemainingAfter(Len(tape)) = 0 /\ Len(tape) \in Nat
<1>1. Len(tape) \in Nat
  BY LenProperties DEF IInv, TypeOK, EngineTypes
<1>2. RemainingAfter(Len(tape)) = 0
  BY DEF IInv, MatchInv
<1>3. Len(tape) # 0
  <2> SUFFICES ASSUME Len(tape) = 0 PROVE FALSE
    OBVIOUS
  <2>1. entered[active.id].qty \in Nat \ {0}
    <3>1. entered[active.id] \in Requests
      BY EnteredAre DEF IInv, BookInv, Placed
    <3> QED BY <3>1, RequestsAssumption
  <2>2. PICK qty \in Nat \ {0} : qty = entered[active.id].qty
    BY <2>1
  <2>3. 1..0 = {} /\ \A f : SumFunctionOnSet(f, {}) = 0
    <3>1. \A f : SumFunctionOnSet(f, {}) = 0
      BY SumRec, FS_EmptySet
    <3> QED BY <3>1
  <2>4. RemainingAfter(0) = qty - 0
    BY <2>2, <2>3 DEF RemainingAfter
  <2> QED BY <1>2, <2>4
<1> QED BY <1>1, <1>2, <1>3

LEMMA PlaceEventsType ==
  ASSUME IInv, FinishOrder
  PROVE  PlaceEvents \in Seq(Event)
<1>1. PICK R : R = RightEvents'
  OBVIOUS
<1>2. UNCHANGED entered
  BY DEF FinishOrder
<1>3. PlaceEvents \in Seq(R)
  BY <1>1, <1>2, FinishOpens, EventsAreRight
<1>4. R \subseteq Event
  <2>1. \A e \in R : e \in Event
    BY <1>1 DEF RightEvents, Event
  <2> QED BY <2>1
<1> QED BY <1>3, <1>4

\* What the engine did to an order while it matched, it tells when it is done.
LEMMA FinishOrderKeepsLeft ==
  ASSUME IInv, LeftInv, FinishOrder
  PROVE  LeftInv'
<1>1. /\ UNCHANGED <<entered, stage, orders, hold, releasing, unreleased, tape, selfCanceled>>
      /\ active # NoOrder /\ active' = NoOrder /\ commands' = Tail(commands)
      /\ resting' = (IF Rests THEN resting \cup {active} ELSE resting)
      /\ gatewayQ' = gatewayQ \o PlaceEvents /\ OrderIds' = OrderIds
  BY DEF FinishOrder, M!Leave, ledgerVars, handlerVars, faultVars, OrderIds
<1>2. gatewayQ \in Seq(Event) /\ PlaceEvents \in Seq(Event)
  <2>1. gatewayQ \in Seq(Event)
    BY DEF IInv, TypeOK, GatewayTypes
  <2>2. PlaceEvents \in Seq(Event)
    BY PlaceEventsType
  <2> QED BY <2>1, <2>2
<1>3. Grows(gatewayQ, gatewayQ') /\ \A e : Tells(PlaceEvents, e) => Tells(gatewayQ', e)
  BY <1>1, <1>2, Concatenated
<1>4. \A id, e : Tells(PlaceEvents, e) /\ Ends(e, id) => Going(id)'
  BY <1>1, <1>3, EndingIs DEF Going
<1>5. \A id \in OrderIds : id # active.id /\ Open(id) > 0 => Going(id)'
  BY FinishOpens DEF Going
<1>6. \A id : id = active.id => Going(id)'
  <2>1. CASE Rests
    <3>1. \A id : id = active.id => Open(id)' > 0
      BY <2>1, FinishOpens DEF Rests
    <3> QED BY <3>1 DEF Going
  <2>2. CASE active.open > 0 /\ ~Rests
    <3>1. Tells(PlaceEvents, Canceled(active.id))
      BY <1>2, <2>2, PlaceEventsTell
    <3>2. \A id : id = active.id => Ends(Canceled(active.id), id)
      BY DEF Canceled, Ends
    <3> QED BY <1>4, <3>1, <3>2
  <2>3. CASE active.open = 0
    <3>1. PICK n \in Nat : n = Len(tape) /\ n \in 1..n /\ RemainingAfter(n) = 0
      BY <1>1, <2>3, FilledTraded
    <3>2. PICK k : k = 2 * n - 1
      OBVIOUS
    <3>3. k \in 1..(2 * n) /\ k % 2 = 1 /\ (k + 1) \div 2 = n
      BY <3>1, <3>2
    <3>4. Tells(PlaceEvents, ExecutionReports[k])
      BY <1>2, <3>1, <3>3, PlaceEventsTell
    <3>5. ExecutionReports[k] = Filled(active.id, RemainingAfter(n))
      BY <3>1, <3>3 DEF ExecutionReports
    <3>6. \A id : id = active.id => Ends(ExecutionReports[k], id)
      BY <3>1, <3>5 DEF Filled, Ends
    <3> QED BY <1>4, <3>4, <3>6
  <2>4. active.open \in Nat
    BY <1>1 DEF IInv, TypeOK, EngineTypes, Order
  <2>5. active.open > 0 \/ active.open = 0
    BY <2>4
  <2> QED BY <2>1, <2>2, <2>3, <2>5
<1>7. ASSUME NEW i \in DOMAIN tape PROVE \A id : id = tape[i].maker => Going(id)'
  <2>1. tape[i].maker \in OrderIds /\ tape[i].maker # active.id
    BY <1>1 DEF IInv, MatchInv
  <2>2. Open(tape[i].maker) \in Nat
    BY OpenFacts DEF IInv
  <2>3. CASE Open(tape[i].maker) = 0
    <3>1. PICK n \in Nat : n = Len(tape) /\ i \in 1..n
      BY LenProperties DEF IInv, TypeOK, EngineTypes
    <3>2. PICK k : k = 2 * i
      OBVIOUS
    <3>3. k \in 1..(2 * n) /\ k % 2 # 1 /\ k \div 2 = i
      BY <3>1, <3>2
    <3>4. Tells(PlaceEvents, ExecutionReports[k])
      BY <1>2, <3>1, <3>3, PlaceEventsTell
    <3>5. ExecutionReports[k] = Filled(tape[i].maker, Open(tape[i].maker))
      BY <3>1, <3>3 DEF ExecutionReports
    <3>6. \A id : id = tape[i].maker => Ends(ExecutionReports[k], id)
      BY <2>3, <3>5 DEF Filled, Ends
    <3> QED BY <1>4, <3>4, <3>6
  <2>4. CASE Open(tape[i].maker) > 0
    BY <1>5, <2>1, <2>4
  <2> QED BY <2>2, <2>3, <2>4
<1>8. ASSUME NEW i \in DOMAIN selfCanceled PROVE \A id : id = selfCanceled[i] => Going(id)'
  <2>1. Tells(PlaceEvents, Canceled(selfCanceled[i]))
    BY <1>2, PlaceEventsTell
  <2>2. \A id : id = selfCanceled[i] => Ends(Canceled(selfCanceled[i]), id)
    BY DEF Canceled, Ends
  <2> QED BY <1>4, <2>1, <2>2
<1>9. \A id \in OrderIds : Open(id) > 0 \/ Matching(id) => Going(id)'
  BY <1>5, <1>6, <1>7, <1>8 DEF Matching
<1>10. ASSUME NEW q \in Requests, Waiting(q)
       PROVE  Waiting(q)' \/ \E id \in OrderIds' : entered'[id] = q /\ Going(id)'
  <2>1. commands # <<>> /\ Head(commands) = Placement(entered[active.id]) /\ active.id \in OrderIds
    BY <1>1 DEF IInv, PlaceInv, BookInv, Placed
  <2>2. \A r : Placement(q) = Placement(r) => q = r
    BY DEF Placement
  <2>3. CASE Head(commands) = Placement(q)
    BY <1>1, <1>6, <2>1, <2>2, <2>3
  <2>4. CASE Head(commands) # Placement(q)
    BY <1>1, <1>10, <2>1, <2>4, WaitingStays
  <2> QED BY <2>3, <2>4
<1> QED BY <1>1, <1>3, <1>9, <1>10, EngineKeepsLeft

-----------------------------------------------------------------------------
(* The holds of the book. *)

LEMMA InitLeft ==
  ASSUME Init
  PROVE  LeftInv
<1>1. hold = <<>> /\ releasing = [c \in Callers |-> NoRelease]
  BY DEF Init, L!Init
<1>2. HeldKeys = {} /\ releasing[Consumer] = NoRelease
  BY <1>1, EmptySeq DEF HeldKeys, Callers
<1> QED BY <1>2 DEF LeftInv, HeldInv, ReadInv

LEMMA NextLeft ==
  ASSUME UniqueIds, AnswersTell, IInv, LeftInv, [Next]_vars
  PROVE  LeftInv'
<1>1. ASSUME NEW r \in Requests, PlaceReserve(r) \/ Handler(r) \/ UndoFails(r) PROVE LeftInv'
  BY <1>1, ReserveKeepsLeft, PublishKeepsLeft DEF Handler
<1>2. CASE Engine
  BY <1>2, TakeOrderKeepsLeft, MatchingKeepsLeft, FinishOrderKeepsLeft, TakeCancelKeepsLeft DEF Engine
<1>3. CASE CloseOrder
  BY <1>3, ConsumerKeepsLeft
<1>4. ASSUME NEW acked \in BOOLEAN, ProjectEvent(acked) \/ ReleaseHold(acked) \/ ReleaseFails(acked)
      PROVE  LeftInv'
  BY <1>4, ConsumerKeepsLeft
<1>5. CASE RestartGateway
  BY <1>5, RestartKeepsLeft
<1>6. CASE \/ \E w \in Withdrawals : CheckWithdrawal(w) \/ SendWithdrawal(w)
           \/ \E acked \in BOOLEAN : Settle(acked)
           \/ \E id \in OrderIds : RequestCancel(id)
           \/ UNCHANGED vars
  BY <1>6, OthersKeepLeft
<1>7. CASE Expire
  BY <1>7, ExpireKeepsLeft
<1> QED BY <1>1, <1>2, <1>3, <1>4, <1>5, <1>6, <1>7 DEF Next

\* When nothing is under way, only what rests has a reason left.
LEMMA BookHasHolds ==
  ASSUME IInv, LeftInv
  PROVE  HoldsMatchBook
<1> SUFFICES ASSUME Quiet, NEW r \in Requests, Cost(r, r.qty) > 0
             PROVE  /\ Resting(r) => HoldsFor(r) # {}
                    /\ HoldsFor(r) # {} => Resting(r) \/ r.coid \in unreleased
  BY DEF HoldsMatchBook
<1>1. commands = <<>> /\ gatewayQ = <<>> /\ active = NoOrder /\ Engaged = resting
  BY DEF Quiet, Engaged
<1>2. DOMAIN commands = {} /\ DOMAIN gatewayQ = {}
  BY <1>1, EmptySeq
<1>3. ASSUME Resting(r) PROVE HoldsFor(r) # {}
  <2>1. PICK m \in resting : entered[m.id] = r
    BY <1>3 DEF Resting
  <2>2. m.id \in OrderIds /\ m.open > 0 /\ Open(m.id) = m.open
    BY <1>1, <2>1, OpenFacts DEF IInv, BookInv, Placed
  <2>3. stage[r] = "queued" /\ \A id \in OrderIds : entered[id] = r => id = m.id
    BY <2>1, <2>2 DEF IInv, PlaceInv
  <2>4. Live(r)
    BY <2>2, <2>3 DEF Live
  <2>5. Key(r) \in DOMAIN hold /\ hold[Key(r)].active
    BY <2>4 DEF IInv, HoldInv
  <2> QED BY <2>5 DEF HoldsFor, Key
<1>4. ASSUME HoldsFor(r) # {} PROVE Resting(r) \/ r.coid \in unreleased
  <2>1. Key(r) \in HeldKeys
    BY <1>4 DEF HoldsFor, HeldKeys, Key
  <2>2. Reason(r)
    BY <2>1 DEF LeftInv, HeldInv
  <2>3. stage[r] \in {"idle", "refused", "queued", "failed"} /\ ~Waiting(r)
    BY <1>2 DEF Quiet, Waiting
  <2>4. ASSUME NEW id \in OrderIds, entered[id] = r, Going(id) PROVE Resting(r)
    <3>1. Open(id) > 0
      BY <1>1, <1>2, <2>4 DEF Going, Matching, Ending
    <3>2. PICK m \in resting : m.id = id
      <4>1. ~(0 > 0)
        OBVIOUS
      <4> QED BY <1>1, <3>1, <4>1, OpenFacts DEF IInv
    <3> QED BY <2>4, <3>2 DEF Resting
  <2> QED BY <2>2, <2>3, <2>4 DEF Reason
<1> QED BY <1>3, <1>4

\* When everything published is dealt with, every order of the book has its hold and
\* every hold its order, but for those that the gateway gave up: through refusals of
\* the broker, redeliveries, releases that fail and restarts at any moment.
THEOREM HoldsAlwaysMatchBook ==
  ASSUME UniqueIds, AnswersTell
  PROVE  Spec => []HoldsMatchBook
<1>1. Init => IInv /\ BusyInv /\ LeftInv
  BY InitIInv, InitLeft
<1>2. IInv /\ BusyInv /\ LeftInv /\ [Next]_vars => IInv' /\ BusyInv' /\ LeftInv'
  BY NextIInv, BusyStep, NextLeft
<1>3. IInv /\ LeftInv => HoldsMatchBook
  BY BookHasHolds
<1> QED BY <1>1, <1>2, <1>3, PTL DEF Spec

-----------------------------------------------------------------------------
(* The last element of a queue that is in P. *)

Has(Q, P) == \E i \in DOMAIN Q : Q[i] \in P

\* The last element of Q that is in P is in G: from some such element on, all are.
LastIn(Q, P, G) ==
  \E p \in DOMAIN Q : /\ Q[p] \in P
                      /\ \A q \in DOMAIN Q : q >= p /\ Q[q] \in P => Q[q] \in G

LEMMA LastOfMore ==
  ASSUME NEW T, NEW Q \in Seq(T), NEW R \in Seq(T), NEW P
  PROVE  /\ Has(Q \o R, P) <=> Has(Q, P) \/ Has(R, P)
         /\ \A G : LastIn(R, P, G) => LastIn(Q \o R, P, G)
         /\ \A G : ~Has(R, P) /\ LastIn(Q, P, G) => LastIn(Q \o R, P, G)
<1>1. /\ Len(Q) \in Nat /\ Len(R) \in Nat /\ DOMAIN Q = 1..Len(Q) /\ DOMAIN R = 1..Len(R)
      /\ DOMAIN (Q \o R) = 1..(Len(Q) + Len(R))
      /\ \A i \in 1..(Len(Q) + Len(R)) : (Q \o R)[i] = IF i <= Len(Q) THEN Q[i] ELSE R[i - Len(Q)]
  BY ConcatProperties, LenProperties
<1>2. PICK k, n, W :
        /\ k \in Nat /\ n \in Nat
        /\ k = Len(Q) /\ n = Len(R) /\ W = Q \o R /\ DOMAIN Q = 1..k /\ DOMAIN R = 1..n
        /\ DOMAIN W = 1..(k + n)
        /\ \A i \in 1..(k + n) : W[i] = IF i <= k THEN Q[i] ELSE R[i - k]
  BY <1>1
<1>3. \A i \in 1..k : i \in DOMAIN W /\ W[i] = Q[i]
  BY <1>2
<1>4. \A j \in 1..n : j + k \in DOMAIN W /\ W[j + k] = R[j]
  <2> SUFFICES ASSUME NEW j \in 1..n PROVE j + k \in DOMAIN W /\ W[j + k] = R[j]
    OBVIOUS
  <2>1. j + k \in 1..(k + n) /\ ~(j + k <= k) /\ j + k - k = j
    BY <1>2
  <2> QED BY <1>2, <2>1
<1>5. \A i \in DOMAIN W : i \in 1..k \/ \E j \in 1..n : i = j + k
  <2> SUFFICES ASSUME NEW i \in 1..(k + n), ~(i \in 1..k) PROVE \E j \in 1..n : i = j + k
    BY <1>2
  <2>1. i - k \in 1..n /\ i = (i - k) + k
    BY <1>2
  <2> QED BY <2>1
<1>6. Has(W, P) <=> Has(Q, P) \/ Has(R, P)
  <2>1. Has(Q, P) => Has(W, P)
    BY <1>2, <1>3 DEF Has
  <2>2. Has(R, P) => Has(W, P)
    BY <1>2, <1>4 DEF Has
  <2>3. ASSUME NEW i \in DOMAIN W, W[i] \in P PROVE Has(Q, P) \/ Has(R, P)
    <3>1. CASE i \in 1..k
      BY <1>2, <1>3, <2>3, <3>1 DEF Has
    <3>2. ASSUME NEW j \in 1..n, i = j + k PROVE Has(R, P)
      BY <1>2, <1>4, <2>3, <3>2 DEF Has
    <3> QED BY <1>5, <3>1, <3>2
  <2> QED BY <2>1, <2>2, <2>3 DEF Has
<1>7. ASSUME NEW G, LastIn(R, P, G) PROVE LastIn(W, P, G)
  <2>1. PICK p \in 1..n : R[p] \in P /\ \A q \in 1..n : q >= p /\ R[q] \in P => R[q] \in G
    BY <1>2, <1>7 DEF LastIn
  <2>2. p + k \in DOMAIN W /\ W[p + k] \in P
    BY <1>4, <2>1
  <2>3. ASSUME NEW i \in DOMAIN W, i >= p + k, W[i] \in P PROVE W[i] \in G
    <3>1. ~(i \in 1..k)
      BY <1>2, <2>3
    <3>2. PICK j \in 1..n : i = j + k
      BY <1>5, <3>1
    <3>3. j >= p /\ W[i] = R[j]
      BY <1>2, <1>4, <2>3, <3>2
    <3> QED BY <2>1, <2>3, <3>3
  <2> QED BY <2>2, <2>3 DEF LastIn
<1>8. ASSUME NEW G, ~Has(R, P), LastIn(Q, P, G) PROVE LastIn(W, P, G)
  <2>1. PICK p \in 1..k : Q[p] \in P /\ \A q \in 1..k : q >= p /\ Q[q] \in P => Q[q] \in G
    BY <1>2, <1>8 DEF LastIn
  <2>2. \A i \in DOMAIN W : W[i] \in P => i \in 1..k /\ W[i] = Q[i]
    BY <1>2, <1>3, <1>4, <1>5, <1>8 DEF Has
  <2> QED BY <1>3, <2>1, <2>2 DEF LastIn
<1> QED BY <1>2, <1>6, <1>7, <1>8

LEMMA LastOfOne ==
  ASSUME NEW T, NEW x \in T, NEW P
  PROVE  /\ <<x>> \in Seq(T) /\ (Has(<<x>>, P) <=> x \in P)
         /\ \A G : x \in P /\ x \in G => LastIn(<<x>>, P, G)
<1>1. <<x>> \in Seq(T) /\ DOMAIN <<x>> = {1} /\ <<x>>[1] = x
  OBVIOUS
<1> QED BY <1>1 DEF Has, LastIn

LEMMA LastOfTail ==
  ASSUME NEW T, NEW Q \in Seq(T), Q # <<>>, NEW P
  PROVE  /\ Has(Q, P) <=> Head(Q) \in P \/ Has(Tail(Q), P)
         /\ \A G : LastIn(Q, P, G) => \/ LastIn(Tail(Q), P, G)
                                      \/ ~Has(Tail(Q), P) /\ Head(Q) \in P /\ Head(Q) \in G
<1>1. /\ Len(Q) \in Nat /\ DOMAIN Q = 1..Len(Q) /\ Len(Q) > 0 /\ Head(Q) = Q[1]
      /\ DOMAIN Tail(Q) = 1..(Len(Q) - 1)
      /\ \A i \in 1..(Len(Q) - 1) : Tail(Q)[i] = Q[i + 1]
  BY HeadTailProperties, LenProperties, EmptySeq
<1>2. PICK n, W : /\ n \in Nat /\ n + 1 = Len(Q) /\ W = Tail(Q)
                  /\ DOMAIN Q = 1..(n + 1) /\ DOMAIN W = 1..n
                  /\ Head(Q) = Q[1] /\ \A i \in 1..n : W[i] = Q[i + 1]
  <2>1. Len(Q) - 1 \in Nat /\ (Len(Q) - 1) + 1 = Len(Q)
    BY <1>1
  <2> QED BY <1>1, <2>1
<1>3. \A i \in DOMAIN Q : i = 1 \/ \E j \in DOMAIN W : i = j + 1
  <2> SUFFICES ASSUME NEW i \in 1..(n + 1), i # 1 PROVE \E j \in 1..n : i = j + 1
    BY <1>2
  <2>1. i - 1 \in 1..n /\ i = (i - 1) + 1
    BY <1>2
  <2> QED BY <2>1
<1>4. \A j \in DOMAIN W : j + 1 \in DOMAIN Q /\ Q[j + 1] = W[j]
  BY <1>2
<1>5. 1 \in DOMAIN Q
  BY <1>2
<1>6. Has(Q, P) <=> Head(Q) \in P \/ Has(W, P)
  BY <1>2, <1>3, <1>4, <1>5 DEF Has
<1>7. ASSUME NEW G, LastIn(Q, P, G)
      PROVE  LastIn(W, P, G) \/ (~Has(W, P) /\ Head(Q) \in P /\ Head(Q) \in G)
  <2>1. PICK p \in DOMAIN Q : Q[p] \in P /\ \A q \in DOMAIN Q : q >= p /\ Q[q] \in P => Q[q] \in G
    BY <1>7 DEF LastIn
  <2>2. CASE p = 1
    <3>1. Head(Q) \in P /\ Head(Q) \in G
      <4>1. 1 >= 1
        OBVIOUS
      <4> QED BY <1>2, <1>5, <2>1, <2>2, <4>1
    <3>2. \A j \in DOMAIN W : W[j] \in P => W[j] \in G
      <4>1. \A j \in DOMAIN W : j + 1 >= 1
        BY <1>2
      <4> QED BY <1>4, <2>1, <2>2, <4>1
    <3>3. Has(W, P) => LastIn(W, P, G)
      BY <3>2 DEF Has, LastIn
    <3> QED BY <3>1, <3>3
  <2>3. ASSUME NEW j \in DOMAIN W, p = j + 1 PROVE LastIn(W, P, G)
    <3>1. W[j] \in P
      BY <1>4, <2>1, <2>3
    <3>2. ASSUME NEW i \in DOMAIN W, i >= j, W[i] \in P PROVE W[i] \in G
      <4>1. i + 1 >= p
        BY <1>2, <2>3, <3>2
      <4> QED BY <1>4, <2>1, <3>2, <4>1
    <3> QED BY <3>1, <3>2 DEF LastIn
  <2> QED BY <1>3, <2>1, <2>2, <2>3
<1> QED BY <1>2, <1>6, <1>7

LEMMA LastWeaker ==
  ASSUME NEW Q, NEW P, NEW G, NEW H, G \subseteq H, LastIn(Q, P, G)
  PROVE  LastIn(Q, P, H)
BY DEF LastIn

LEMMA LastHas ==
  ASSUME NEW Q, NEW P, NEW G
  PROVE  /\ LastIn(Q, P, G) => Has(Q, P)
         /\ Has(Q, P) /\ (\A i \in DOMAIN Q : Q[i] \in P => Q[i] \in G) => LastIn(Q, P, G)
BY DEF LastIn, Has

-----------------------------------------------------------------------------
(* What the gateway is told of an order, and will have projected when its  *)
(* queue is empty: the last event that tells it.                           *)

AcceptedEvents(id) == {e \in Event : e.kind = "accepted" /\ e.order = id}
OpenEvents(id) == {e \in Event : e.kind \in {"accepted", "filled"} /\ e.order = id}
StatusEvents(id) == {e \in Event : e.kind \in {"accepted", "filled", "canceled"} /\ e.order = id}

OpenOf(e, qty) == IF e.kind = "filled" THEN e.remaining ELSE qty
StatusOf(e) ==
  CASE e.kind = "accepted" -> "new"
    [] e.kind = "filled" -> IF e.remaining = 0 THEN "filled" ELSE "partially_filled"
    [] OTHER -> "canceled"

SayOpen(N, qty) == {e \in Event : OpenOf(e, qty) \in N}
SayStatus(S) == {e \in Event : StatusOf(e) \in S}

Known(id) == id \in DOMAIN orders \/ Has(gatewayQ, AcceptedEvents(id))

ToldOpen(id, N) ==
  \/ LastIn(gatewayQ, OpenEvents(id), SayOpen(N, entered[id].qty))
  \/ ~Has(gatewayQ, OpenEvents(id)) /\ id \in DOMAIN orders /\ orders[id].open \in N

ToldStatus(id, S) ==
  \/ LastIn(gatewayQ, StatusEvents(id), SayStatus(S))
  \/ ~Has(gatewayQ, StatusEvents(id)) /\ id \in DOMAIN orders /\ orders[id].status \in S

Positive == Nat \ {0}

\* What is told agrees with the book.
Agrees(id) ==
  \/ Open(id) > 0 /\ ToldStatus(id, {"new", "partially_filled"}) /\ ToldOpen(id, {Open(id)})
  \/ Open(id) = 0 /\ ToldStatus(id, {"filled"}) /\ ToldOpen(id, {0})
  \/ Open(id) = 0 /\ ToldStatus(id, {"canceled"}) /\ ToldOpen(id, Positive)

Maker(id) == \E i \in DOMAIN tape : tape[i].maker = id
Prevented(id) == \E i \in DOMAIN selfCanceled : selfCanceled[i] = id

AgreeInv == \A id \in OrderIds : Known(id) /\ ~Matching(id) => Agrees(id)

\* The gateway does not know the order that is being matched; what it knows of one
\* that self-trade prevention took out is not filled.
ActiveInv ==
  active # NoOrder =>
    \A id \in OrderIds :
      /\ id = active.id => ~Known(id)
      /\ Maker(id) => entered[id].account # active.account
      /\ Prevented(id) => entered[id].account = active.account
      /\ Prevented(id) /\ Known(id) => ToldOpen(id, Positive)

\* An order that is rejected is not known to the gateway and never will be.
RejectInv ==
  \A i \in DOMAIN gatewayQ, id \in OrderIds :
    gatewayQ[i].kind = "rejected" /\ entered[id].coid = gatewayQ[i].coid =>
      ~Known(id) /\ ~(active # NoOrder /\ active.id = id)

\* While the consumer releases, it has projected the first event.
Seen(e) ==
  \A id \in DOMAIN orders :
    /\ e \in OpenEvents(id) => orders[id].open = OpenOf(e, entered[id].qty)
    /\ e \in StatusEvents(id) => orders[id].status = StatusOf(e)

SeenInv == releasing[Consumer] # NoRelease => gatewayQ # <<>> /\ Seen(Head(gatewayQ))

TellInv == AgreeInv /\ ActiveInv /\ RejectInv
ToldInv == TellInv /\ SeenInv

LEMMA KnownTold ==
  ASSUME NEW id
  PROVE  /\ AcceptedEvents(id) \subseteq OpenEvents(id) /\ OpenEvents(id) \subseteq StatusEvents(id)
         /\ Has(gatewayQ, AcceptedEvents(id)) => Has(gatewayQ, OpenEvents(id))
         /\ Has(gatewayQ, OpenEvents(id)) => Has(gatewayQ, StatusEvents(id))
BY DEF AcceptedEvents, OpenEvents, StatusEvents, Has

\* Steps that change neither the queue nor the projection.
LEMMA ToldSame ==
  ASSUME gatewayQ' = gatewayQ, orders' = orders, NEW id, entered'[id] = entered[id]
  PROVE  /\ Known(id)' <=> Known(id)
         /\ \A N : ToldOpen(id, N)' <=> ToldOpen(id, N)
         /\ \A S : ToldStatus(id, S)' <=> ToldStatus(id, S)
BY DEF Known, ToldOpen, ToldStatus

\* The engine tells more.
LEMMA ToldMore ==
  ASSUME gatewayQ \in Seq(Event), NEW R \in Seq(Event), gatewayQ' = gatewayQ \o R, orders' = orders,
         NEW id, entered'[id] = entered[id]
  PROVE  /\ Known(id)' <=> Known(id) \/ Has(R, AcceptedEvents(id))
         /\ \A N : ToldOpen(id, N) /\ ~Has(R, OpenEvents(id)) => ToldOpen(id, N)'
         /\ \A N : LastIn(R, OpenEvents(id), SayOpen(N, entered[id].qty)) => ToldOpen(id, N)'
         /\ \A S : ToldStatus(id, S) /\ ~Has(R, StatusEvents(id)) => ToldStatus(id, S)'
         /\ \A S : LastIn(R, StatusEvents(id), SayStatus(S)) => ToldStatus(id, S)'
<1>1. \A P : Has(gatewayQ', P) <=> Has(gatewayQ, P) \/ Has(R, P)
  BY LastOfMore
<1>2. \A P, G : /\ LastIn(R, P, G) => LastIn(gatewayQ', P, G)
                /\ ~Has(R, P) /\ LastIn(gatewayQ, P, G) => LastIn(gatewayQ', P, G)
  BY LastOfMore
<1>3. Known(id)' <=> Known(id) \/ Has(R, AcceptedEvents(id))
  BY <1>1 DEF Known
<1>4. ASSUME NEW N
      PROVE  /\ ToldOpen(id, N) /\ ~Has(R, OpenEvents(id)) => ToldOpen(id, N)'
             /\ LastIn(R, OpenEvents(id), SayOpen(N, entered[id].qty)) => ToldOpen(id, N)'
  BY <1>1, <1>2 DEF ToldOpen
<1>5. ASSUME NEW S
      PROVE  /\ ToldStatus(id, S) /\ ~Has(R, StatusEvents(id)) => ToldStatus(id, S)'
             /\ LastIn(R, StatusEvents(id), SayStatus(S)) => ToldStatus(id, S)'
  BY <1>1, <1>2 DEF ToldStatus
<1> QED BY <1>3, <1>4, <1>5

-----------------------------------------------------------------------------
(* The consumer projects what it is told. *)

\* The projection after an event.
LEMMA ProjectedIs ==
  ASSUME IInv, RejectInv, gatewayQ # <<>>, orders' = Projected(Head(gatewayQ)), NEW id \in OrderIds
  PROVE  /\ id \in DOMAIN orders => id \in DOMAIN orders'
         /\ id \in DOMAIN orders' =>
              /\ id \in DOMAIN orders \/ Head(gatewayQ) \in AcceptedEvents(id)
              /\ Head(gatewayQ) \in OpenEvents(id) => orders'[id].open = OpenOf(Head(gatewayQ), entered[id].qty)
              /\ Head(gatewayQ) \in StatusEvents(id) => orders'[id].status = StatusOf(Head(gatewayQ))
              /\ Head(gatewayQ) \notin OpenEvents(id) => orders'[id].open = orders[id].open
              /\ Head(gatewayQ) \notin StatusEvents(id) => orders'[id].status = orders[id].status
<1>1. PICK e \in Event : e = Head(gatewayQ)
  BY HeadTailProperties DEF IInv, TypeOK, GatewayTypes
<1>2. \A i \in DOMAIN orders : orders[i] \in Shown /\ orders[i].coid = entered[i].coid
  BY DEF IInv, TypeOK, GatewayTypes, EventInv
<1>3. CASE e.kind = "accepted"
  <2>1. orders' = [i \in DOMAIN orders \cup {e.order} |->
                     IF i = e.order THEN [coid |-> e.coid, open |-> entered[i].qty, status |-> "new"]
                     ELSE orders[i]]
    BY <1>1, <1>3 DEF Projected
  <2>2. /\ e \in AcceptedEvents(id) <=> e.order = id
        /\ e \in OpenEvents(id) <=> e.order = id
        /\ e \in StatusEvents(id) <=> e.order = id
        /\ StatusOf(e) = "new" /\ OpenOf(e, entered[id].qty) = entered[id].qty
    BY <1>3 DEF AcceptedEvents, OpenEvents, StatusEvents, StatusOf, OpenOf
  <2> QED BY <1>1, <2>1, <2>2
<1>4. CASE e.kind = "filled"
  <2>1. orders' = [i \in DOMAIN orders |->
                     IF i = e.order
                     THEN [orders[i] EXCEPT !.open = e.remaining,
                                            !.status = IF e.remaining = 0 THEN "filled" ELSE "partially_filled"]
                     ELSE orders[i]]
    BY <1>1, <1>4 DEF Projected
  <2>2. /\ e \in OpenEvents(id) <=> e.order = id
        /\ e \in StatusEvents(id) <=> e.order = id
        /\ StatusOf(e) = IF e.remaining = 0 THEN "filled" ELSE "partially_filled"
        /\ OpenOf(e, entered[id].qty) = e.remaining
    BY <1>4 DEF OpenEvents, StatusEvents, StatusOf, OpenOf
  <2>3. id \in DOMAIN orders => orders[id] \in Shown
    BY <1>2
  <2>4. DOMAIN orders' = DOMAIN orders
    BY <2>1
  <2>5. id \in DOMAIN orders /\ id # e.order => orders'[id] = orders[id]
    BY <2>1
  <2>6. id \in DOMAIN orders /\ id = e.order =>
          /\ orders'[id].open = e.remaining
          /\ orders'[id].status = IF e.remaining = 0 THEN "filled" ELSE "partially_filled"
    <3> SUFFICES ASSUME id \in DOMAIN orders, id = e.order
                 PROVE  /\ orders'[id].open = e.remaining
                        /\ orders'[id].status = IF e.remaining = 0 THEN "filled" ELSE "partially_filled"
      OBVIOUS
    <3>1. orders'[id] = [orders[id] EXCEPT !.open = e.remaining,
                                           !.status = IF e.remaining = 0 THEN "filled" ELSE "partially_filled"]
      BY <2>1
    <3> QED BY <2>3, <3>1 DEF Shown
  <2> QED BY <1>1, <2>2, <2>4, <2>5, <2>6
<1>5. CASE e.kind = "canceled"
  <2>1. orders' = [i \in DOMAIN orders |->
                     IF i = e.order THEN [orders[i] EXCEPT !.status = "canceled"] ELSE orders[i]]
    BY <1>1, <1>5 DEF Projected
  <2>2. /\ e \notin OpenEvents(id)
        /\ e \in StatusEvents(id) <=> e.order = id
        /\ StatusOf(e) = "canceled"
    BY <1>5 DEF OpenEvents, StatusEvents, StatusOf
  <2>3. id \in DOMAIN orders => orders[id] \in Shown
    BY <1>2
  <2> QED BY <1>1, <2>1, <2>2, <2>3 DEF Shown
<1>6. CASE e.kind = "rejected"
  <2>1. orders' = [i \in DOMAIN orders |->
                     IF orders[i].coid = e.coid THEN [orders[i] EXCEPT !.status = "rejected"] ELSE orders[i]]
    BY <1>1, <1>6 DEF Projected
  <2>2. e \notin OpenEvents(id) /\ e \notin StatusEvents(id)
    BY <1>6 DEF OpenEvents, StatusEvents
  <2>3. id \in DOMAIN orders => orders[id].coid # e.coid
    <3>1. 1 \in DOMAIN gatewayQ /\ gatewayQ[1] = e
      BY <1>1, HeadTailProperties, LenProperties, EmptySeq DEF IInv, TypeOK, GatewayTypes
    <3> QED BY <1>2, <1>6, <3>1 DEF RejectInv, Known
  <2> QED BY <1>1, <2>1, <2>2, <2>3
<1> QED BY <1>1, <1>3, <1>4, <1>5, <1>6 DEF Event

\* The consumer is done with the first event, or not yet: what is told stays, if the
\* event is projected.
LEMMA ToldStays ==
  ASSUME IInv, gatewayQ # <<>>, gatewayQ' \in {gatewayQ, Tail(gatewayQ)}, entered' = entered,
         NEW id \in OrderIds, id \in DOMAIN orders => id \in DOMAIN orders',
         id \in DOMAIN orders' =>
           /\ id \in DOMAIN orders \/ Head(gatewayQ) \in AcceptedEvents(id)
           /\ Head(gatewayQ) \in OpenEvents(id) => orders'[id].open = OpenOf(Head(gatewayQ), entered[id].qty)
           /\ Head(gatewayQ) \in StatusEvents(id) => orders'[id].status = StatusOf(Head(gatewayQ))
           /\ Head(gatewayQ) \notin OpenEvents(id) => orders'[id].open = orders[id].open
           /\ Head(gatewayQ) \notin StatusEvents(id) => orders'[id].status = orders[id].status,
         Known(id)'
  PROVE  /\ Known(id)
         /\ \A N : ToldOpen(id, N) => ToldOpen(id, N)'
         /\ \A S : ToldStatus(id, S) => ToldStatus(id, S)'
<1>1. gatewayQ \in Seq(Event) /\ Head(gatewayQ) \in Event
  BY HeadTailProperties DEF IInv, TypeOK, GatewayTypes
<1>2. PICK Q, R, e : Q = gatewayQ /\ R = gatewayQ' /\ e = Head(gatewayQ)
  OBVIOUS
<1>3. \A P : /\ Has(R, P) => Has(Q, P)
             /\ Has(Q, P) => Has(R, P) \/ e \in P
             /\ e \in P => Has(Q, P)
             /\ \A G : LastIn(Q, P, G) => LastIn(R, P, G) \/ (~Has(R, P) /\ e \in P /\ e \in G)
  <2>1. \A P : /\ Has(Q, P) <=> e \in P \/ Has(Tail(Q), P)
               /\ \A G : LastIn(Q, P, G) => \/ LastIn(Tail(Q), P, G)
                                            \/ ~Has(Tail(Q), P) /\ e \in P /\ e \in G
    BY <1>1, <1>2, LastOfTail
  <2>2. R = Q \/ R = Tail(Q)
    BY <1>2
  <2> QED BY <2>1, <2>2
<1>4. Known(id)
  BY <1>2, <1>3 DEF Known
<1>5. ~Has(R, OpenEvents(id)) => id \in DOMAIN orders'
  BY <1>2, KnownTold DEF Known, Has
<1>6. ~Has(R, StatusEvents(id)) => id \in DOMAIN orders'
  BY <1>2, <1>5, KnownTold DEF Has
<1>7. ASSUME NEW N, ToldOpen(id, N) PROVE ToldOpen(id, N)'
  <2>1. CASE LastIn(Q, OpenEvents(id), SayOpen(N, entered[id].qty))
    <3>1. CASE LastIn(R, OpenEvents(id), SayOpen(N, entered[id].qty))
      BY <1>2, <3>1 DEF ToldOpen
    <3>2. CASE ~Has(R, OpenEvents(id)) /\ e \in OpenEvents(id) /\ e \in SayOpen(N, entered[id].qty)
      <4>1. orders'[id].open \in N /\ id \in DOMAIN orders'
        BY <1>2, <1>5, <3>2 DEF SayOpen
      <4> QED BY <1>2, <3>2, <4>1 DEF ToldOpen
    <3> QED BY <1>3, <2>1, <3>1, <3>2
  <2>2. CASE ~Has(Q, OpenEvents(id)) /\ id \in DOMAIN orders /\ orders[id].open \in N
    <3>1. ~Has(R, OpenEvents(id)) /\ e \notin OpenEvents(id)
      BY <1>3, <2>2
    <3>2. orders'[id].open \in N /\ id \in DOMAIN orders'
      BY <1>2, <2>2, <3>1
    <3> QED BY <1>2, <3>1, <3>2 DEF ToldOpen
  <2> QED BY <1>2, <1>7, <2>1, <2>2 DEF ToldOpen
<1>8. ASSUME NEW S, ToldStatus(id, S) PROVE ToldStatus(id, S)'
  <2>1. CASE LastIn(Q, StatusEvents(id), SayStatus(S))
    <3>1. CASE LastIn(R, StatusEvents(id), SayStatus(S))
      BY <1>2, <3>1 DEF ToldStatus
    <3>2. CASE ~Has(R, StatusEvents(id)) /\ e \in StatusEvents(id) /\ e \in SayStatus(S)
      <4>1. orders'[id].status \in S /\ id \in DOMAIN orders'
        BY <1>2, <1>6, <3>2 DEF SayStatus
      <4> QED BY <1>2, <3>2, <4>1 DEF ToldStatus
    <3> QED BY <1>3, <2>1, <3>1, <3>2
  <2>2. CASE ~Has(Q, StatusEvents(id)) /\ id \in DOMAIN orders /\ orders[id].status \in S
    <3>1. ~Has(R, StatusEvents(id)) /\ e \notin StatusEvents(id)
      BY <1>3, <2>2
    <3>2. orders'[id].status \in S /\ id \in DOMAIN orders'
      BY <1>2, <2>2, <3>1
    <3> QED BY <1>2, <3>1, <3>2 DEF ToldStatus
  <2> QED BY <1>2, <1>8, <2>1, <2>2 DEF ToldStatus
<1> QED BY <1>4, <1>7, <1>8

\* When the engine stands still and nothing that is told changes, all is told as
\* before.
LEMMA EngineStillTold ==
  ASSUME IInv, TellInv, UNCHANGED engineVars,
         \A id \in OrderIds : Known(id)' =>
           /\ Known(id)
           /\ \A N : ToldOpen(id, N) => ToldOpen(id, N)'
           /\ \A S : ToldStatus(id, S) => ToldStatus(id, S)',
         \A i \in DOMAIN gatewayQ' : \E j \in DOMAIN gatewayQ : gatewayQ'[i] = gatewayQ[j]
  PROVE  TellInv'
<1>1. OrderIds' = OrderIds /\ entered' = entered /\ active' = active /\ \A id : Open(id)' = Open(id)
  BY EngineStill DEF engineVars
<1>2. \A id : /\ Matching(id)' <=> Matching(id)
              /\ Maker(id)' <=> Maker(id)
              /\ Prevented(id)' <=> Prevented(id)
  BY DEF Matching, Maker, Prevented, engineVars
<1>3. AgreeInv'
  <2> SUFFICES ASSUME NEW id \in OrderIds, Known(id)', ~Matching(id) PROVE Agrees(id)'
    BY <1>1, <1>2 DEF AgreeInv
  <2>1. Agrees(id)
    BY DEF TellInv, AgreeInv
  <2>2. PICK n : n = Open(id) /\ Open(id)' = n
    BY <1>1
  <2>3. \/ n > 0 /\ ToldStatus(id, {"new", "partially_filled"}) /\ ToldOpen(id, {n})
        \/ n = 0 /\ ToldStatus(id, {"filled"}) /\ ToldOpen(id, {0})
        \/ n = 0 /\ ToldStatus(id, {"canceled"}) /\ ToldOpen(id, Positive)
    BY <2>1, <2>2 DEF Agrees
  <2>4. \/ n > 0 /\ ToldStatus(id, {"new", "partially_filled"})' /\ ToldOpen(id, {n})'
        \/ n = 0 /\ ToldStatus(id, {"filled"})' /\ ToldOpen(id, {0})'
        \/ n = 0 /\ ToldStatus(id, {"canceled"})' /\ ToldOpen(id, Positive)'
    BY <2>3
  <2> QED BY <2>2, <2>4 DEF Agrees, ToldOpen
<1>4. ActiveInv'
  BY <1>1, <1>2 DEF TellInv, ActiveInv
<1>5. RejectInv'
  BY <1>1 DEF TellInv, RejectInv
<1> QED BY <1>3, <1>4, <1>5 DEF TellInv

LEMMA OthersKeepTold ==
  ASSUME IInv, ToldInv, UNCHANGED <<engineVars, gatewayQ, orders>>, releasing'[Consumer] = releasing[Consumer]
  PROVE  ToldInv'
<1>1. entered' = entered
  BY DEF engineVars
<1>2. TellInv'
  BY <1>1, ToldSame, EngineStillTold DEF ToldInv
<1>3. SeenInv'
  <2>1. \A e : Seen(e)' <=> Seen(e)
    BY <1>1 DEF Seen
  <2> QED BY <2>1 DEF ToldInv, SeenInv, Seen
<1> QED BY <1>2, <1>3 DEF ToldInv

LEMMA ConsumerKeepsTold ==
  ASSUME UniqueIds, IInv, ToldInv, NEW acked \in BOOLEAN,
         ProjectEvent(acked) \/ CloseOrder \/ ReleaseHold(acked) \/ ReleaseFails(acked)
  PROVE  ToldInv'
<1>1. UNCHANGED engineVars /\ entered' = entered
  BY DEF ProjectEvent, CloseOrder, ReleaseHold, ReleaseFails, engineVars
<1>2. /\ releasing \in [Callers -> {NoRelease} \cup SUBSET DOMAIN hold]
      /\ Consumer \in Callers /\ gatewayQ \in Seq(Event) /\ HoldTypes
      /\ DOMAIN orders \subseteq OrderIds /\ OrderIds' = OrderIds
  BY <1>1 DEF IInv, TypeOK, HoldTypes, GatewayTypes, Callers, OrderIds
<1>3. gatewayQ # <<>> /\ gatewayQ' \in {gatewayQ, Tail(gatewayQ)}
  <2>1. CASE ProjectEvent(acked)
    BY <2>1, DoneIs DEF ProjectEvent
  <2>2. CASE CloseOrder
    BY <2>2 DEF CloseOrder
  <2>3. CASE ReleaseHold(acked)
    BY <1>2, <2>3, DoneIs, Released DEF ReleaseHold, ToldInv, SeenInv
  <2>4. CASE ReleaseFails(acked)
    BY <2>4, DoneIs DEF ReleaseFails, ToldInv, SeenInv
  <2> QED BY <2>1, <2>2, <2>3, <2>4
<1>4. \A i \in DOMAIN gatewayQ' : \E j \in DOMAIN gatewayQ : gatewayQ'[i] = gatewayQ[j]
  BY <1>2, <1>3, HeadTailProperties, LenProperties
<1>5. CASE ProjectEvent(acked) \/ CloseOrder
  <2>1. orders' = Projected(Head(gatewayQ))
    BY <1>5 DEF ProjectEvent, CloseOrder
  <2>2. TellInv'
    BY <1>1, <1>3, <1>4, <2>1, ProjectedIs, ToldStays, EngineStillTold DEF ToldInv, TellInv
  <2>3. SeenInv'
    <3>1. CASE releasing'[Consumer] = NoRelease
      BY <3>1 DEF SeenInv
    <3>2. CASE gatewayQ' = gatewayQ
      <4>1. DOMAIN orders' \subseteq OrderIds
        BY <1>1, <1>2, <1>3, <2>1, Projects DEF GatewayTypes
      <4>2. Seen(Head(gatewayQ))'
        BY <1>1, <1>3, <2>1, <3>2, <4>1, ProjectedIs DEF ToldInv, TellInv, Seen
      <4> QED BY <1>3, <3>2, <4>2 DEF SeenInv
    <3>3. releasing'[Consumer] = NoRelease \/ gatewayQ' = gatewayQ
      BY <1>5 DEF ProjectEvent, CloseOrder, ledgerVars
    <3> QED BY <3>1, <3>2, <3>3
  <2> QED BY <2>2, <2>3 DEF ToldInv
<1>6. CASE ReleaseHold(acked) \/ ReleaseFails(acked)
  <2>1. orders' = orders /\ releasing[Consumer] # NoRelease /\ releasing'[Consumer] = NoRelease
    BY <1>2, <1>6, Released DEF ReleaseHold, ReleaseFails
  <2>2. Seen(Head(gatewayQ))
    BY <2>1 DEF ToldInv, SeenInv
  <2>3. TellInv'
    BY <1>1, <1>3, <1>4, <2>1, <2>2, ToldStays, EngineStillTold DEF ToldInv, Seen
  <2> QED BY <2>1, <2>3 DEF ToldInv, SeenInv
<1> QED BY <1>5, <1>6

\* After a restart the gateway knows what its queue tells.
LEMMA RestartKeepsTold ==
  ASSUME IInv, ToldInv, RestartGateway
  PROVE  ToldInv'
<1>1. /\ UNCHANGED <<engineVars, gatewayQ>> /\ orders' = <<>> /\ entered' = entered
      /\ releasing'[Consumer] = NoRelease
  BY DEF RestartGateway, engineVars, Callers
<1>2. DOMAIN orders' = {}
  BY <1>1, EmptySeq
<1>3. ASSUME NEW id \in OrderIds, Known(id)'
      PROVE  /\ Known(id)
             /\ \A N : ToldOpen(id, N) => ToldOpen(id, N)'
             /\ \A S : ToldStatus(id, S) => ToldStatus(id, S)'
  <2>1. Has(gatewayQ, AcceptedEvents(id))
    BY <1>1, <1>2, <1>3 DEF Known
  <2>2. Has(gatewayQ, OpenEvents(id)) /\ Has(gatewayQ, StatusEvents(id))
    BY <2>1, KnownTold
  <2> QED BY <1>1, <2>1, <2>2 DEF Known, ToldOpen, ToldStatus
<1>4. TellInv'
  BY <1>1, <1>3, EngineStillTold DEF ToldInv
<1> QED BY <1>1, <1>4 DEF ToldInv, SeenInv

-----------------------------------------------------------------------------
(* The engine tells. *)

LEMMA KnownEntered ==
  ASSUME IInv, NEW id, Known(id)
  PROVE  id \in OrderIds
<1>1. CASE id \in DOMAIN orders
  BY <1>1 DEF IInv, TypeOK, GatewayTypes
<1>2. CASE Has(gatewayQ, AcceptedEvents(id))
  <2>1. PICK i \in DOMAIN gatewayQ : gatewayQ[i] \in AcceptedEvents(id)
    BY <1>2 DEF Has
  <2>2. gatewayQ[i].kind = "accepted" /\ gatewayQ[i].order = id /\ Right(gatewayQ[i])
    BY <2>1 DEF AcceptedEvents, IInv, EventInv, RightEvents
  <2> QED BY <2>2 DEF Right
<1> QED BY <1>1, <1>2 DEF Known

\* The first event stays, and the consumer has projected it.
LEMMA SeenStays ==
  ASSUME IInv, SeenInv, UNCHANGED <<orders, releasing>>, Grows(gatewayQ, gatewayQ'),
         \A id \in OrderIds : entered'[id] = entered[id]
  PROVE  SeenInv'
<1> SUFFICES ASSUME releasing[Consumer] # NoRelease
             PROVE  gatewayQ' # <<>> /\ Seen(Head(gatewayQ))'
  BY DEF SeenInv
<1>1. gatewayQ # <<>> /\ Seen(Head(gatewayQ))
  BY DEF SeenInv
<1>2. gatewayQ' # <<>> /\ Head(gatewayQ') = Head(gatewayQ)
  BY <1>1 DEF Grows
<1>3. DOMAIN orders \subseteq OrderIds
  BY DEF IInv, TypeOK, GatewayTypes
<1> QED BY <1>1, <1>2, <1>3 DEF Seen

LEMMA AgreesIs ==
  ASSUME NEW id, NEW n, Agrees(id), Open(id) = n
  PROVE  \/ n > 0 /\ ToldStatus(id, {"new", "partially_filled"}) /\ ToldOpen(id, {n})
         \/ n = 0 /\ ToldStatus(id, {"filled"}) /\ ToldOpen(id, {0})
         \/ n = 0 /\ ToldStatus(id, {"canceled"}) /\ ToldOpen(id, Positive)
BY DEF Agrees

LEMMA AgreesThen ==
  ASSUME NEW id, NEW n, Open(id)' = n,
         \/ n > 0 /\ ToldStatus(id, {"new", "partially_filled"})' /\ ToldOpen(id, {n})'
         \/ n = 0 /\ ToldStatus(id, {"filled"})' /\ ToldOpen(id, {0})'
         \/ n = 0 /\ ToldStatus(id, {"canceled"})' /\ ToldOpen(id, Positive)'
  PROVE  Agrees(id)'
BY DEF Agrees, ToldOpen

\* An order with the same open quantity, of which nothing is told.
LEMMA StillAgrees ==
  ASSUME NEW id, Agrees(id), Open(id)' = Open(id),
         \A N : ToldOpen(id, N) => ToldOpen(id, N)',
         \A S : ToldStatus(id, S) => ToldStatus(id, S)'
  PROVE  Agrees(id)'
<1>1. PICK n : n = Open(id) /\ n = Open(id)'
  OBVIOUS
<1>2. \/ n > 0 /\ ToldStatus(id, {"new", "partially_filled"}) /\ ToldOpen(id, {n})
      \/ n = 0 /\ ToldStatus(id, {"filled"}) /\ ToldOpen(id, {0})
      \/ n = 0 /\ ToldStatus(id, {"canceled"}) /\ ToldOpen(id, Positive)
  BY <1>1, AgreesIs
<1>3. \/ n > 0 /\ ToldStatus(id, {"new", "partially_filled"})' /\ ToldOpen(id, {n})'
      \/ n = 0 /\ ToldStatus(id, {"filled"})' /\ ToldOpen(id, {0})'
      \/ n = 0 /\ ToldStatus(id, {"canceled"})' /\ ToldOpen(id, Positive)'
  BY <1>2
<1> QED BY <1>1, <1>3, AgreesThen

\* What is told of an order that has something open is a positive quantity.
LEMMA ToldPositive ==
  ASSUME NEW id, NEW n \in Nat, n > 0, Open(id) = n, Agrees(id)
  PROVE  ToldOpen(id, Positive)
<1>1. ToldOpen(id, {n})
  <2>1. n # 0
    OBVIOUS
  <2> QED BY <2>1, AgreesIs
<1>2. {n} \subseteq Positive
  BY DEF Positive
<1>3. \A qty : SayOpen({n}, qty) \subseteq SayOpen(Positive, qty)
  BY <1>2 DEF SayOpen
<1> QED BY <1>1, <1>2, <1>3, LastWeaker DEF ToldOpen

\* One event more.
LEMMA ToldOneMore ==
  ASSUME IInv, NEW e \in Event, gatewayQ' = Append(gatewayQ, e), orders' = orders
  PROVE  /\ Grows(gatewayQ, gatewayQ')
         /\ gatewayQ' \in Seq(Event)
         /\ \A i \in DOMAIN gatewayQ' : gatewayQ'[i] = e \/ \E j \in DOMAIN gatewayQ : gatewayQ'[i] = gatewayQ[j]
         /\ \A id : Known(id)' <=> Known(id) \/ e \in AcceptedEvents(id)
         /\ \A id : entered'[id] = entered[id] =>
              /\ \A N : ToldOpen(id, N) /\ e \notin OpenEvents(id) => ToldOpen(id, N)'
              /\ \A S : ToldStatus(id, S) /\ e \notin StatusEvents(id) => ToldStatus(id, S)'
              /\ \A S : e \in StatusEvents(id) /\ e \in SayStatus(S) => ToldStatus(id, S)'
<1>1. gatewayQ \in Seq(Event) /\ <<e>> \in Seq(Event)
  BY LastOfOne DEF IInv, TypeOK, GatewayTypes
<1>2. gatewayQ' = gatewayQ \o <<e>>
  BY <1>1
<1>3. /\ gatewayQ' \in Seq(Event) /\ Len(gatewayQ) \in Nat
      /\ DOMAIN gatewayQ = 1..Len(gatewayQ) /\ DOMAIN gatewayQ' = 1..(Len(gatewayQ) + 1)
      /\ \A i \in DOMAIN gatewayQ : gatewayQ'[i] = gatewayQ[i]
      /\ gatewayQ'[Len(gatewayQ) + 1] = e
  BY <1>1, Appended
<1>4. \A i \in DOMAIN gatewayQ' : gatewayQ'[i] = e \/ \E j \in DOMAIN gatewayQ : gatewayQ'[i] = gatewayQ[j]
  BY <1>3
<1>5. Grows(gatewayQ, gatewayQ')
  BY <1>1, GrowsByOne
<1>6. \A P : Has(<<e>>, P) <=> e \in P
  BY LastOfOne
<1>7. \A P : Has(gatewayQ', P) <=> Has(gatewayQ, P) \/ e \in P
  <2>1. \A P : Has(gatewayQ \o <<e>>, P) <=> Has(gatewayQ, P) \/ Has(<<e>>, P)
    BY <1>1, LastOfMore
  <2> QED BY <1>2, <1>6, <2>1
<1>8. \A id : Known(id)' <=> Known(id) \/ e \in AcceptedEvents(id)
  BY <1>7 DEF Known
<1>9. ASSUME NEW id, entered'[id] = entered[id]
      PROVE  /\ \A N : ToldOpen(id, N) /\ e \notin OpenEvents(id) => ToldOpen(id, N)'
             /\ \A S : ToldStatus(id, S) /\ e \notin StatusEvents(id) => ToldStatus(id, S)'
             /\ \A S : e \in StatusEvents(id) /\ e \in SayStatus(S) => ToldStatus(id, S)'
  <2>1. \A S : e \in StatusEvents(id) /\ e \in SayStatus(S) =>
                 LastIn(<<e>>, StatusEvents(id), SayStatus(S))
    BY LastOfOne
  <2> QED BY <1>1, <1>2, <1>6, <1>9, <2>1, ToldMore
<1> QED BY <1>3, <1>4, <1>5, <1>8, <1>9

\* The gateway hears of a rejected order by its client order id alone, which no other
\* order has.
LEMMA TakeOrderKeepsTold ==
  ASSUME UniqueIds, IInv, ToldInv, NEW r \in Requests, TakeOrder(r, Len(entered) + 1)
  PROVE  ToldInv'
<1>0. PICK n : n = Len(entered) + 1
  OBVIOUS
<1> DEFINE o == OrderOf(r, n)
           e == [kind |-> "rejected", coid |-> r.coid]
<1>1. /\ commands # <<>> /\ Head(commands) = Placement(r) /\ active = NoOrder
      /\ entered' = Append(entered, r) /\ tape' = <<>> /\ selfCanceled' = <<>>
      /\ UNCHANGED <<orders, releasing, resting>>
      /\ \/ active' = NoOrder /\ gatewayQ' = Append(gatewayQ, e)
         \/ active' = o /\ gatewayQ' = gatewayQ
  BY <1>0 DEF TakeOrder, M!Refuse, M!Arrive, Placement, ledgerVars
<1>2. /\ entered \in Seq(Requests) /\ OrderIds = 1..Len(entered) /\ Len(entered) \in Nat
      /\ \A m \in resting : m.id \in OrderIds
  BY EnteredAre DEF IInv, TypeOK, EngineTypes, BookInv, Placed
<1>3. /\ n \in Nat /\ OrderIds' = OrderIds \cup {n} /\ n \notin OrderIds
      /\ \A id \in OrderIds : entered'[id] = entered[id]
      /\ entered'[n] = r
  BY <1>0, <1>1, <1>2, Appended DEF OrderIds
<1>4. o.id = n /\ o # NoOrder
  <2>1. o \in Order
    BY <1>3, RequestsAssumption DEF Order, OrderOf
  <2> QED BY <2>1, NoOrderAssumption DEF OrderOf
<1>5. e \in Event /\ e.kind = "rejected" /\ e.coid = r.coid
  BY DEF Event, Coids
<1> HIDE DEF o, e
<1>6. \A id \in OrderIds : Open(id)' = Open(id)
  <2>1. Engaged = resting /\ Engaged' \in {resting, resting \cup {o}}
    BY <1>1 DEF Engaged
  <2>2. \A id \in OrderIds : WithId(Engaged', id) = WithId(Engaged, id)
    BY <1>3, <1>4, <2>1 DEF WithId
  <2> QED BY <2>2, OpenIs, OpenSame
<1>7. \A id \in OrderIds : entered[id] \in Requests /\ entered[id] # r
  <2>1. commands \in Seq(Command)
    BY DEF IInv, TypeOK, HandlerTypes
  <2>2. 1 \in DOMAIN commands /\ commands[1] = Placement(r)
    BY <1>1, <2>1, HeadTailProperties, LenProperties, EmptySeq
  <2> QED BY <1>1, <2>2, EnteredAre DEF IInv, PlaceInv
<1>8. \A id \in OrderIds : entered[id].coid # r.coid
  BY <1>7 DEF UniqueIds
<1>9. ~Known(n)
  BY <1>3, KnownEntered
<1>10. \A i \in DOMAIN gatewayQ : gatewayQ[i].kind = "rejected" => gatewayQ[i].coid # r.coid
  BY <1>8 DEF IInv, EventInv, RightEvents, Right
<1>11. /\ Grows(gatewayQ, gatewayQ')
       /\ \A i \in DOMAIN gatewayQ' : \/ active' = NoOrder /\ gatewayQ'[i] = e
                                      \/ \E j \in DOMAIN gatewayQ : gatewayQ'[i] = gatewayQ[j]
       /\ \A id : Known(id)' <=> Known(id)
       /\ \A id \in OrderIds : /\ \A N : ToldOpen(id, N) => ToldOpen(id, N)'
                               /\ \A S : ToldStatus(id, S) => ToldStatus(id, S)'
  <2>1. CASE active' = NoOrder /\ gatewayQ' = Append(gatewayQ, e)
    <3>1. \A id : e \notin AcceptedEvents(id) /\ e \notin OpenEvents(id) /\ e \notin StatusEvents(id)
      BY <1>5 DEF AcceptedEvents, OpenEvents, StatusEvents
    <3> QED BY <1>1, <1>3, <1>5, <2>1, <3>1, ToldOneMore
  <2>2. CASE gatewayQ' = gatewayQ
    <3>1. Grows(gatewayQ, gatewayQ')
      BY <2>2 DEF Grows
    <3>2. \A id : Known(id)' <=> Known(id)
      BY <1>1, <2>2 DEF Known
    <3> QED BY <1>1, <1>3, <2>2, <3>1, <3>2, ToldSame
  <2> QED BY <1>1, <2>1, <2>2
<1>12. AgreeInv'
  <2> SUFFICES ASSUME NEW id \in OrderIds', Known(id)' PROVE Agrees(id)'
    BY DEF AgreeInv
  <2>1. id \in OrderIds /\ Known(id)
    BY <1>3, <1>9, <1>11
  <2>2. Agrees(id)
    BY <1>1, <2>1 DEF ToldInv, TellInv, AgreeInv, Matching
  <2> QED BY <1>6, <1>11, <2>1, <2>2, StillAgrees
<1>13. ActiveInv'
  <2>1. DOMAIN tape' = {} /\ DOMAIN selfCanceled' = {}
    BY <1>1, EmptySeq
  <2>2. \A id : ~Maker(id)' /\ ~Prevented(id)'
    BY <2>1 DEF Maker, Prevented
  <2>3. active' # NoOrder => active'.id = n
    BY <1>1, <1>4
  <2>4. \A id : active' # NoOrder /\ id = active'.id => ~Known(id)'
    BY <1>9, <1>11, <2>3
  <2> QED BY <2>2, <2>4 DEF ActiveInv
<1>14. RejectInv'
  <2> SUFFICES ASSUME NEW i \in DOMAIN gatewayQ', NEW id \in OrderIds',
                      gatewayQ'[i].kind = "rejected", entered'[id].coid = gatewayQ'[i].coid
               PROVE  ~Known(id)' /\ ~(active' # NoOrder /\ active'.id = id)
    BY DEF RejectInv
  <2>1. CASE active' = NoOrder /\ gatewayQ'[i] = e
    BY <1>3, <1>5, <1>8, <1>9, <1>11, <2>1
  <2>2. ASSUME NEW j \in DOMAIN gatewayQ, gatewayQ'[i] = gatewayQ[j]
        PROVE  ~Known(id)' /\ ~(active' # NoOrder /\ active'.id = id)
    <3>1. id # n
      BY <1>3, <1>10, <2>2
    <3>2. id \in OrderIds /\ entered[id].coid = gatewayQ[j].coid /\ gatewayQ[j].kind = "rejected"
      BY <1>3, <2>2, <3>1
    <3>3. ~Known(id)
      BY <3>2 DEF ToldInv, TellInv, RejectInv
    <3> QED BY <1>1, <1>4, <1>11, <3>1, <3>3
  <2> QED BY <1>11, <2>1, <2>2
<1>15. SeenInv'
  BY <1>1, <1>3, <1>11, SeenStays DEF ToldInv
<1> QED BY <1>12, <1>13, <1>14, <1>15 DEF ToldInv, TellInv

\* While the engine matches, it tells nothing: who traded, or was prevented from it,
\* is told of at the end.
LEMMA MatchKeepsTold ==
  ASSUME IInv, ToldInv, NEW m \in resting, Match(m)
  PROVE  ToldInv'
<1>1. /\ UNCHANGED <<entered, selfCanceled, gatewayQ, orders, releasing>> /\ OrderIds' = OrderIds
      /\ m.account # active.account
  BY DEF Match, M!Execute, ledgerVars, OrderIds
<1>2. PICK a \in Order, q \in Nat : Matched(m, a, q)
  BY MatchIs
<1>3. /\ \A id : id # a.id /\ id # m.id => Open(id)' = Open(id)
      /\ active' # NoOrder /\ active'.id = a.id
  BY <1>2, MatchOpens
<1>4. /\ active = a /\ a # NoOrder /\ active'.account = a.account /\ entered[m.id].account = m.account
  BY <1>2 DEF Matched, Order, IInv, BookInv, Placed
<1>5. \A id : /\ Known(id)' <=> Known(id)
              /\ \A N : ToldOpen(id, N)' <=> ToldOpen(id, N)
              /\ \A S : ToldStatus(id, S)' <=> ToldStatus(id, S)
  BY <1>1, ToldSame
<1>6. \A id : /\ Maker(id)' <=> Maker(id) \/ id = m.id
              /\ Prevented(id)' <=> Prevented(id)
  <2>1. PICK T, x : x \in T /\ tape \in Seq(T) /\ x.maker = m.id /\ tape' = Append(tape, x)
    <3>1. PICK T : T = [taker : Nat, maker : Nat, price : Nat, qty : Nat]
      OBVIOUS
    <3>2. tape \in Seq(T)
      BY <3>1 DEF IInv, TypeOK, EngineTypes
    <3>3. PICK x : x = [taker |-> a.id, maker |-> m.id, price |-> m.price, qty |-> q]
      OBVIOUS
    <3>4. x \in T /\ x.maker = m.id
      BY <3>1, <3>3 DEF IInv, TypeOK, EngineTypes, Order
    <3> QED BY <1>2, <3>2, <3>3, <3>4 DEF Matched
  <2>2. /\ Len(tape) \in Nat /\ DOMAIN tape = 1..Len(tape) /\ DOMAIN tape' = 1..(Len(tape) + 1)
        /\ \A i \in DOMAIN tape : tape'[i] = tape[i]
        /\ tape'[Len(tape) + 1] = x
    BY <2>1, Appended
  <2> QED BY <1>1, <2>1, <2>2 DEF Maker, Prevented
<1>7. \A id : ~Matching(id)' => ~Matching(id) /\ id # a.id /\ id # m.id
  BY <1>1, <1>3, <1>4, <1>6 DEF Matching, Maker, Prevented
<1>8. AgreeInv'
  BY <1>1, <1>3, <1>5, <1>7, StillAgrees DEF ToldInv, TellInv, AgreeInv
<1>9. ActiveInv'
  <2>1. \A id \in OrderIds :
          /\ id = a.id => ~Known(id)
          /\ Maker(id) \/ id = m.id => entered[id].account # a.account
          /\ Prevented(id) => entered[id].account = a.account
          /\ Prevented(id) /\ Known(id) => ToldOpen(id, Positive)
    BY <1>1, <1>4 DEF ToldInv, TellInv, ActiveInv
  <2>2. ASSUME NEW id \in OrderIds
        PROVE  /\ id = active'.id => ~Known(id)'
               /\ Maker(id)' => entered'[id].account # active'.account
               /\ Prevented(id)' => entered'[id].account = active'.account
               /\ Prevented(id)' /\ Known(id)' => ToldOpen(id, Positive)'
    BY <1>1, <1>3, <1>4, <1>5, <1>6, <2>1
  <2>3. Positive' = Positive
    BY DEF Positive
  <2> QED BY <1>1, <2>2, <2>3 DEF ActiveInv
<1>10. RejectInv'
  BY <1>1, <1>3, <1>4, <1>5 DEF ToldInv, TellInv, RejectInv
<1>11. SeenInv'
  BY <1>1, SeenStays DEF ToldInv, Grows
<1> QED BY <1>8, <1>9, <1>10, <1>11 DEF ToldInv, TellInv

LEMMA CancelOwnKeepsTold ==
  ASSUME IInv, ToldInv, NEW m \in resting, CancelOwn(m)
  PROVE  ToldInv'
<1>1. /\ UNCHANGED <<entered, active, tape, gatewayQ, orders, releasing>> /\ OrderIds' = OrderIds
      /\ resting' = resting \ {m} /\ selfCanceled' = Append(selfCanceled, m.id)
      /\ active # NoOrder /\ m.account = active.account
  BY DEF CancelOwn, M!PreventSelfTrade, ledgerVars, OrderIds
<1>2. /\ m \in Engaged /\ m.id \in OrderIds /\ m.id \in Nat /\ m.open \in Nat /\ m.open > 0
      /\ entered[m.id].account = m.account
      /\ active \in Engaged /\ m # active
  <2>1. /\ m \in Order /\ Placed(m) /\ m.open > 0 /\ m.id < active.id /\ active \in Order
    BY <1>1 DEF IInv, TypeOK, EngineTypes, BookInv
  <2>2. \A n \in Nat : ~(n < n)
    OBVIOUS
  <2> QED BY <1>1, <2>1, <2>2 DEF Order, Placed, Engaged
<1>3. Open(m.id) = m.open /\ m.id # active.id
  BY <1>2, OpenFacts, Distinct DEF IInv
<1>4. \A id : id # m.id => Open(id)' = Open(id)
  <2>1. \A id : id # m.id => WithId(Engaged', id) = WithId(Engaged, id)
    BY <1>1 DEF WithId, Engaged
  <2> QED BY <2>1, OpenIs, OpenSame
<1>5. \A id : /\ Known(id)' <=> Known(id)
              /\ \A N : ToldOpen(id, N)' <=> ToldOpen(id, N)
              /\ \A S : ToldStatus(id, S)' <=> ToldStatus(id, S)
  BY <1>1, ToldSame
<1>6. \A id : /\ Maker(id)' <=> Maker(id)
              /\ Prevented(id)' <=> Prevented(id) \/ id = m.id
  <2>1. selfCanceled \in Seq(Nat)
    BY DEF IInv, TypeOK, EngineTypes
  <2>2. /\ Len(selfCanceled) \in Nat /\ DOMAIN selfCanceled = 1..Len(selfCanceled)
        /\ DOMAIN selfCanceled' = 1..(Len(selfCanceled) + 1)
        /\ \A i \in DOMAIN selfCanceled : selfCanceled'[i] = selfCanceled[i]
        /\ selfCanceled'[Len(selfCanceled) + 1] = m.id
    BY <1>1, <1>2, <2>1, Appended
  <2> QED BY <1>1, <2>2 DEF Maker, Prevented
<1>7. \A id : ~Matching(id)' => ~Matching(id) /\ id # m.id
  BY <1>1, <1>6 DEF Matching, Maker, Prevented
<1>8. AgreeInv'
  BY <1>1, <1>4, <1>5, <1>7, StillAgrees DEF ToldInv, TellInv, AgreeInv
<1>9. \A id : id = m.id /\ Known(id) => ToldOpen(id, Positive)
  <2> SUFFICES ASSUME NEW id \in OrderIds, id = m.id, Known(id) PROVE ToldOpen(id, Positive)
    BY <1>2
  <2>1. ~Maker(id) /\ id # active.id /\ Open(id) = m.open
    BY <1>1, <1>2, <1>3 DEF ToldInv, TellInv, ActiveInv
  <2>2. ~Prevented(id)
    BY <1>1, <1>2, <2>1 DEF IInv, MatchInv, Prevented
  <2>3. ~Matching(id)
    BY <2>1, <2>2 DEF Matching, Maker, Prevented
  <2>4. Agrees(id)
    BY <2>3 DEF ToldInv, TellInv, AgreeInv
  <2> QED BY <1>2, <2>1, <2>4, ToldPositive
<1>10. ActiveInv'
  <2>1. ASSUME NEW id \in OrderIds
        PROVE  /\ id = active.id => ~Known(id)
               /\ Maker(id) => entered[id].account # active.account
               /\ Prevented(id) \/ id = m.id => entered[id].account = active.account
               /\ (Prevented(id) \/ id = m.id) /\ Known(id) => ToldOpen(id, Positive)
    BY <1>1, <1>2, <1>9 DEF ToldInv, TellInv, ActiveInv
  <2>2. Positive' = Positive
    BY DEF Positive
  <2> QED BY <1>1, <1>5, <1>6, <2>1, <2>2 DEF ActiveInv
<1>11. RejectInv'
  BY <1>1, <1>5 DEF ToldInv, TellInv, RejectInv
<1>12. SeenInv'
  BY <1>1, SeenStays DEF ToldInv, Grows
<1> QED BY <1>8, <1>10, <1>11, <1>12 DEF ToldInv, TellInv

LEMMA TakeCancelKeepsTold ==
  ASSUME IInv, ToldInv, NEW id \in canceling, TakeCancel(id)
  PROVE  ToldInv'
<1>1. /\ UNCHANGED <<entered, active, selfCanceled, orders, releasing>> /\ OrderIds' = OrderIds
      /\ active = NoOrder
      /\ \/ resting' = resting /\ gatewayQ' = gatewayQ
         \/ \E m \in resting : /\ m.id = id /\ resting' = resting \ {m}
                               /\ gatewayQ' = Append(gatewayQ, Canceled(id))
  BY DEF TakeCancel, M!Withdraw, M!Refuse, ledgerVars, OrderIds
<1>2. Engaged = resting /\ Engaged' = resting'
  BY <1>1 DEF Engaged
<1>3. \A i : ~Matching(i)
  BY <1>1 DEF Matching
<1>4. ActiveInv'
  BY <1>1 DEF ActiveInv
<1>5. CASE resting' = resting /\ gatewayQ' = gatewayQ
  <2>1. \A i : Open(i)' = Open(i)
    BY <1>2, <1>5, OpenIs
  <2>2. \A i : /\ Known(i)' <=> Known(i)
               /\ \A N : ToldOpen(i, N)' <=> ToldOpen(i, N)
               /\ \A S : ToldStatus(i, S)' <=> ToldStatus(i, S)
    BY <1>1, <1>5, ToldSame
  <2>3. AgreeInv'
    BY <1>1, <1>3, <2>1, <2>2, StillAgrees DEF ToldInv, TellInv, AgreeInv
  <2>4. RejectInv'
    BY <1>1, <1>5, <2>2 DEF ToldInv, TellInv, RejectInv
  <2>5. SeenInv'
    BY <1>1, <1>5, SeenStays DEF ToldInv, Grows
  <2> QED BY <1>4, <2>3, <2>4, <2>5 DEF ToldInv, TellInv
<1>6. ASSUME NEW m \in resting, m.id = id, resting' = resting \ {m},
             gatewayQ' = Append(gatewayQ, Canceled(id))
      PROVE  ToldInv'
  <2> DEFINE e == Canceled(id)
  <2>1. /\ id \in OrderIds /\ id \in Nat /\ m \in Engaged /\ m.open \in Nat /\ m.open > 0
        /\ Open(id) = m.open
    BY <1>2, <1>6, OpenFacts DEF IInv, TypeOK, EngineTypes, BookInv, Placed, Order
  <2>2. e \in Event /\ e.kind = "canceled" /\ e.order = id
    BY <2>1 DEF Event, Canceled
  <2>3. gatewayQ' = Append(gatewayQ, e)
    BY <1>6
  <2> HIDE DEF e
  <2>4. /\ \A i : e \notin AcceptedEvents(i) /\ e \notin OpenEvents(i)
        /\ \A i : i # id => e \notin StatusEvents(i)
        /\ e \in StatusEvents(id) /\ e \in SayStatus({"canceled"})
    BY <2>2 DEF AcceptedEvents, OpenEvents, StatusEvents, SayStatus, StatusOf
  <2>5. /\ Grows(gatewayQ, gatewayQ')
        /\ \A i \in DOMAIN gatewayQ' : gatewayQ'[i] = e \/ \E j \in DOMAIN gatewayQ : gatewayQ'[i] = gatewayQ[j]
        /\ \A i : Known(i)' <=> Known(i)
        /\ \A i, N : ToldOpen(i, N) => ToldOpen(i, N)'
        /\ \A i, S : ToldStatus(i, S) /\ e \notin StatusEvents(i) => ToldStatus(i, S)'
        /\ \A i, S : e \in StatusEvents(i) /\ e \in SayStatus(S) => ToldStatus(i, S)'
    BY <1>1, <2>2, <2>3, <2>4, ToldOneMore
  <2>6. Open(id)' = 0 /\ \A i : i # id => Open(i)' = Open(i)
    <3>1. \A l \in Engaged' : l.id # id
      BY <1>2, <1>6 DEF IInv, BookInv
    <3>2. \A i : i # id => WithId(Engaged', i) = WithId(Engaged, i)
      BY <1>2, <1>6 DEF WithId
    <3> QED BY <3>1, <3>2, OpenIs, OpenNone, OpenSame
  <2>7. AgreeInv'
    <3> SUFFICES ASSUME NEW i \in OrderIds, Known(i)' PROVE Agrees(i)'
      BY <1>1 DEF AgreeInv
    <3>1. Agrees(i)
      BY <1>3, <2>5 DEF ToldInv, TellInv, AgreeInv
    <3>2. CASE i = id
      <4>1. ToldOpen(i, Positive)
        BY <2>1, <3>1, <3>2, ToldPositive
      <4>2. ToldOpen(i, Positive)' /\ ToldStatus(i, {"canceled"})'
        BY <2>4, <2>5, <3>2, <4>1 DEF Positive
      <4> QED BY <2>6, <3>2, <4>2, AgreesThen
    <3>3. CASE i # id
      BY <2>4, <2>5, <2>6, <3>1, <3>3, StillAgrees
    <3> QED BY <3>2, <3>3
  <2>8. RejectInv'
    BY <1>1, <2>2, <2>5 DEF ToldInv, TellInv, RejectInv
  <2>9. SeenInv'
    BY <1>1, <2>5, SeenStays DEF ToldInv
  <2> QED BY <1>4, <2>7, <2>8, <2>9 DEF ToldInv, TellInv
<1> QED BY <1>1, <1>5, <1>6

-----------------------------------------------------------------------------
(* What publishPlaceResult tells of each order. *)

\* Every event of publishPlaceResult.
LEMMA PlaceEventsHave ==
  ASSUME IInv, NEW P, Has(PlaceEvents, P)
  PROVE  \/ Accepted(active.id) \in P
         \/ \E i \in DOMAIN selfCanceled : Canceled(selfCanceled[i]) \in P
         \/ \E x : Filled(active.id, x) \in P
         \/ \E i \in DOMAIN tape : Filled(tape[i].maker, Open(tape[i].maker)) \in P
         \/ active.open > 0 /\ ~Rests /\ Canceled(active.id) \in P
<1>1. PICK U, A, B, C, D : /\ A \in Seq(U) /\ B \in Seq(U) /\ C \in Seq(U) /\ D \in Seq(U)
                           /\ A = <<Accepted(active.id)>> /\ B = PreventionEvents
                           /\ C = ExecutionReports /\ D = RemainderEvents
  BY PlaceEventsParts
<1>2. PlaceEvents = A \o B \o C \o D
  BY <1>1, PlaceEventsParts
<1>3. A \o B \in Seq(U) /\ (A \o B) \o C \in Seq(U)
  BY <1>1, Concatenated
<1>4. Has(A, P) \/ Has(B, P) \/ Has(C, P) \/ Has(D, P)
  <2>1. \A X, Y \in Seq(U) : Has(X \o Y, P) <=> Has(X, P) \/ Has(Y, P)
    BY LastOfMore
  <2> QED BY <1>1, <1>2, <1>3, <2>1
<1>5. Has(A, P) => Accepted(active.id) \in P
  BY <1>1 DEF Has
<1>6. Has(B, P) => \E i \in DOMAIN selfCanceled : Canceled(selfCanceled[i]) \in P
  BY <1>1, PlaceEventsParts DEF Has, PreventionEvents
<1>7. ASSUME Has(C, P)
      PROVE  \/ \E x : Filled(active.id, x) \in P
             \/ \E i \in DOMAIN tape : Filled(tape[i].maker, Open(tape[i].maker)) \in P
  <2>1. PICK n \in Nat : n = Len(tape) /\ DOMAIN tape = 1..n
    BY PlaceEventsParts
  <2>2. PICK k \in 1..(2 * n) : ExecutionReports[k] \in P
    BY <1>1, <1>7, <2>1 DEF Has, ExecutionReports
  <2>3. CASE k % 2 = 1
    <3>1. ExecutionReports[k] = Filled(active.id, RemainingAfter((k + 1) \div 2))
      BY <2>1, <2>3 DEF ExecutionReports
    <3> QED BY <2>2, <3>1
  <2>4. CASE k % 2 # 1
    <3>1. k \div 2 \in 1..n
      BY <2>1, <2>4
    <3>2. PICK i \in 1..n : i = k \div 2
      BY <3>1
    <3>3. ExecutionReports[k] = Filled(tape[k \div 2].maker, Open(tape[k \div 2].maker))
      BY <2>1, <2>4 DEF ExecutionReports
    <3> QED BY <2>1, <2>2, <3>2, <3>3
  <2> QED BY <2>3, <2>4
<1>8. Has(D, P) => active.open > 0 /\ ~Rests /\ Canceled(active.id) \in P
  <2>1. DOMAIN <<>> = {}
    BY EmptySeq
  <2> QED BY <1>1, <2>1 DEF Has, RemainderEvents
<1> QED BY <1>4, <1>5, <1>6, <1>7, <1>8

\* Which order an event is about, and what it says of it.
LEMMA EventSays ==
  /\ \A a, id : /\ Accepted(a) \in StatusEvents(id) => a = id
                /\ Accepted(a) \in Event =>
                     /\ Accepted(a) \in AcceptedEvents(a) /\ Accepted(a) \in OpenEvents(a)
                     /\ Accepted(a) \in StatusEvents(a) /\ Accepted(a) \in SayStatus({"new"})
  /\ \A a, q : Accepted(a) \in Event => Accepted(a) \in SayOpen({q}, q)
  /\ \A a, x, id : /\ Filled(a, x) \in StatusEvents(id) => a = id
                   /\ Filled(a, x) \notin AcceptedEvents(id)
                   /\ Filled(a, x) \in Event =>
                        Filled(a, x) \in OpenEvents(a) /\ Filled(a, x) \in StatusEvents(a)
  /\ \A a, x, q : Filled(a, x) \in Event =>
       /\ Filled(a, x) \in SayOpen({x}, q)
       /\ x = 0 => Filled(a, x) \in SayStatus({"filled"})
       /\ x # 0 => Filled(a, x) \in SayStatus({"partially_filled"})
  /\ \A a, id : /\ Canceled(a) \in StatusEvents(id) => a = id
                /\ Canceled(a) \notin AcceptedEvents(id) /\ Canceled(a) \notin OpenEvents(id)
                /\ Canceled(a) \in Event =>
                     Canceled(a) \in StatusEvents(a) /\ Canceled(a) \in SayStatus({"canceled"})
  /\ \A a, x : Accepted(a).kind # "rejected" /\ Filled(a, x).kind # "rejected" /\ Canceled(a).kind # "rejected"
  /\ \A id : AcceptedEvents(id) \subseteq OpenEvents(id) /\ OpenEvents(id) \subseteq StatusEvents(id)
  /\ \A id : StatusEvents(id) \subseteq Event
<1>1. \A a : Accepted(a).kind = "accepted" /\ Accepted(a).order = a
  BY DEF Accepted
<1>2. \A a, x : Filled(a, x).kind = "filled" /\ Filled(a, x).order = a /\ Filled(a, x).remaining = x
  BY DEF Filled
<1>3. \A a : Canceled(a).kind = "canceled" /\ Canceled(a).order = a
  BY DEF Canceled
<1> USE DEF AcceptedEvents, OpenEvents, StatusEvents, SayOpen, SayStatus, OpenOf, StatusOf
<1>4. /\ \A a, id : /\ Accepted(a) \in StatusEvents(id) => a = id
                    /\ Accepted(a) \in Event =>
                         /\ Accepted(a) \in AcceptedEvents(a) /\ Accepted(a) \in OpenEvents(a)
                         /\ Accepted(a) \in StatusEvents(a) /\ Accepted(a) \in SayStatus({"new"})
      /\ \A a, q : Accepted(a) \in Event => Accepted(a) \in SayOpen({q}, q)
  BY <1>1
<1>5. /\ \A a, x, id : /\ Filled(a, x) \in StatusEvents(id) => a = id
                       /\ Filled(a, x) \notin AcceptedEvents(id)
                       /\ Filled(a, x) \in Event =>
                            Filled(a, x) \in OpenEvents(a) /\ Filled(a, x) \in StatusEvents(a)
      /\ \A a, x, q : Filled(a, x) \in Event =>
           /\ Filled(a, x) \in SayOpen({x}, q)
           /\ x = 0 => Filled(a, x) \in SayStatus({"filled"})
           /\ x # 0 => Filled(a, x) \in SayStatus({"partially_filled"})
  BY <1>2
<1>6. \A a, id : /\ Canceled(a) \in StatusEvents(id) => a = id
                 /\ Canceled(a) \notin AcceptedEvents(id) /\ Canceled(a) \notin OpenEvents(id)
                 /\ Canceled(a) \in Event =>
                      Canceled(a) \in StatusEvents(a) /\ Canceled(a) \in SayStatus({"canceled"})
  BY <1>3
<1>7. \A a, x : Accepted(a).kind # "rejected" /\ Filled(a, x).kind # "rejected" /\ Canceled(a).kind # "rejected"
  BY <1>1, <1>2, <1>3
<1>8. /\ \A id : AcceptedEvents(id) \subseteq OpenEvents(id) /\ OpenEvents(id) \subseteq StatusEvents(id)
      /\ \A id : StatusEvents(id) \subseteq Event
  OBVIOUS
<1> QED BY <1>4, <1>5, <1>6, <1>7, <1>8

\* The last report of the trades is the last about the active order.
LEMMA LastReport ==
  ASSUME IInv, active # NoOrder, Len(tape) # 0, NEW P, NEW G,
         Filled(active.id, active.open) \in P, Filled(active.id, active.open) \in G,
         \A i \in DOMAIN tape : Filled(tape[i].maker, Open(tape[i].maker)) \notin P
  PROVE  LastIn(ExecutionReports, P, G)
<1>1. PICK n \in Nat : n = Len(tape) /\ DOMAIN tape = 1..n /\ n # 0
  BY PlaceEventsParts
<1>2. RemainingAfter(n) = active.open
  BY <1>1 DEF IInv, MatchInv
<1>3. DOMAIN ExecutionReports = 1..(2 * n)
  BY <1>1 DEF ExecutionReports
<1>4. PICK k : k = 2 * n - 1
  OBVIOUS
<1>5. k \in 1..(2 * n) /\ k % 2 = 1 /\ (k + 1) \div 2 = n
  BY <1>1, <1>4
<1>6. ExecutionReports[k] = Filled(active.id, active.open)
  BY <1>1, <1>2, <1>5 DEF ExecutionReports
<1>7. ASSUME NEW q \in 1..(2 * n), q >= k, ExecutionReports[q] \in P
      PROVE  ExecutionReports[q] \in G
  <2>1. q = k \/ q = 2 * n
    BY <1>1, <1>4, <1>7
  <2>2. CASE q = 2 * n
    <3>1. q % 2 # 1 /\ q \div 2 = n /\ n \in 1..n
      BY <1>1, <2>2
    <3>2. ExecutionReports[q] = Filled(tape[n].maker, Open(tape[n].maker))
      BY <1>1, <3>1 DEF ExecutionReports
    <3> QED BY <1>1, <1>7, <3>1, <3>2
  <2> QED BY <1>6, <2>1, <2>2
<1> QED BY <1>3, <1>5, <1>6, <1>7 DEF LastIn

\* What is told of the order that was matched: what is left of it, and whether it
\* rests, is canceled or filled.
LEMMA ActiveTold ==
  ASSUME IInv, FinishOrder, NEW id, id = active.id, NEW n, n = active.open
  PROVE  /\ LastIn(PlaceEvents, OpenEvents(id), SayOpen({n}, entered[id].qty))
         /\ n = 0 => LastIn(PlaceEvents, StatusEvents(id), SayStatus({"filled"}))
         /\ n > 0 /\ Rests => LastIn(PlaceEvents, StatusEvents(id), SayStatus({"new", "partially_filled"}))
         /\ n > 0 /\ ~Rests => LastIn(PlaceEvents, StatusEvents(id), SayStatus({"canceled"}))
<1> DEFINE O == OpenEvents(id)
           Z == StatusEvents(id)
           ON == SayOpen({n}, entered[id].qty)
<1>1. PICK U, A, B, C, D : /\ A \in Seq(U) /\ B \in Seq(U) /\ C \in Seq(U) /\ D \in Seq(U)
                           /\ A = <<Accepted(active.id)>> /\ B = PreventionEvents
                           /\ C = ExecutionReports /\ D = RemainderEvents
  BY PlaceEventsParts
<1>2. PlaceEvents = ((A \o B) \o C) \o D
  BY <1>1, PlaceEventsParts
<1>3. A \o B \in Seq(U) /\ (A \o B) \o C \in Seq(U)
  BY <1>1, Concatenated
<1>4. \A X, Y \in Seq(U) : \A P, G :
        /\ LastIn(Y, P, G) => LastIn(X \o Y, P, G)
        /\ ~Has(Y, P) /\ LastIn(X, P, G) => LastIn(X \o Y, P, G)
  BY LastOfMore
<1>5. /\ active # NoOrder /\ n \in Nat
      /\ \A i \in DOMAIN tape : tape[i].maker # id
      /\ \A i \in DOMAIN selfCanceled : selfCanceled[i] # id
      /\ RemainingAfter(Len(tape)) = n
  BY DEF FinishOrder, M!Leave, IInv, TypeOK, EngineTypes, Order, MatchInv
<1>6. /\ PlaceEvents \in Seq(Event)
      /\ \A e : Tells(PlaceEvents, e) => e \in Event
  <2>1. PlaceEvents \in Seq(Event)
    BY PlaceEventsType
  <2> QED BY <2>1, ElementOfSeq, LenProperties DEF Tells
<1>7. /\ Accepted(id) \in Event
      /\ n > 0 /\ ~Rests => Canceled(id) \in Event
  BY <1>6, PlaceEventsTell
<1>8. \A q : q = entered[id].qty => LastIn(A, O, SayOpen({q}, q)) /\ LastIn(A, Z, SayStatus({"new"}))
  <2> SUFFICES ASSUME NEW q PROVE LastIn(A, O, SayOpen({q}, q)) /\ LastIn(A, Z, SayStatus({"new"}))
    OBVIOUS
  <2>1. Accepted(id) \in O /\ Accepted(id) \in Z /\ Accepted(id) \in SayOpen({q}, q) /\ Accepted(id) \in SayStatus({"new"})
    BY <1>7, EventSays
  <2> QED BY <1>1, <2>1, LastOfOne
<1>9. ~Has(B, O) /\ ~Has(B, Z)
  <2>1. \A i \in DOMAIN selfCanceled : Canceled(selfCanceled[i]) \notin O /\ Canceled(selfCanceled[i]) \notin Z
    BY <1>5, EventSays
  <2> QED BY <1>1, <2>1, PlaceEventsParts DEF Has, PreventionEvents
<1>10. \A q : q = entered[id].qty => LastIn(A \o B, O, SayOpen({q}, q)) /\ LastIn(A \o B, Z, SayStatus({"new"}))
  BY <1>1, <1>4, <1>8, <1>9
<1>11. /\ LastIn((A \o B) \o C, O, ON)
       /\ n = 0 => LastIn((A \o B) \o C, Z, SayStatus({"filled"}))
       /\ n > 0 => LastIn((A \o B) \o C, Z, SayStatus({"new", "partially_filled"}))
  <2>1. CASE Len(tape) = 0
    <3>1. n = entered[id].qty /\ n > 0
      <4>1. entered[id].qty \in Nat \ {0}
        <5>1. entered[id] \in Requests
          BY <1>5, EnteredAre DEF IInv, BookInv, Placed
        <5> QED BY <5>1, RequestsAssumption
      <4>2. PICK q \in Nat \ {0} : q = entered[active.id].qty
        BY <4>1
      <4>3. 1..0 = {} /\ \A f : SumFunctionOnSet(f, {}) = 0
        <5>1. \A f : SumFunctionOnSet(f, {}) = 0
          BY SumRec, FS_EmptySet
        <5> QED BY <5>1
      <4>4. RemainingAfter(0) = q - 0
        BY <4>2, <4>3 DEF RemainingAfter
      <4> QED BY <1>5, <2>1, <4>2, <4>4
    <3>2. ~Has(C, O) /\ ~Has(C, Z)
      <4>1. 1..(2 * 0) = {}
        OBVIOUS
      <4> QED BY <1>1, <2>1, <4>1 DEF Has, ExecutionReports
    <3>3. LastIn((A \o B) \o C, O, ON) /\ LastIn((A \o B) \o C, Z, SayStatus({"new"}))
      BY <1>1, <1>3, <1>4, <1>10, <3>1, <3>2
    <3>4. SayStatus({"new"}) \subseteq SayStatus({"new", "partially_filled"})
      BY DEF SayStatus
    <3>5. n # 0
      BY <3>1
    <3> QED BY <3>3, <3>4, <3>5, LastWeaker
  <2>2. CASE Len(tape) # 0
    <3>1. Filled(id, n) \in Event
      <4>1. PICK k \in Nat : k = Len(tape) /\ k # 0
        BY <2>2, PlaceEventsParts
      <4>2. PICK p : p = 2 * k - 1
        OBVIOUS
      <4>3. p \in 1..(2 * k) /\ p % 2 = 1 /\ (p + 1) \div 2 = k
        BY <4>1, <4>2
      <4>4. ExecutionReports[p] = Filled(id, n)
        BY <1>5, <4>1, <4>3 DEF ExecutionReports
      <4> QED BY <1>6, <4>1, <4>3, <4>4, PlaceEventsTell
    <3>2. /\ Filled(id, n) \in O /\ Filled(id, n) \in Z /\ Filled(id, n) \in ON
          /\ n = 0 => Filled(id, n) \in SayStatus({"filled"})
          /\ n # 0 => Filled(id, n) \in SayStatus({"partially_filled"})
      BY <3>1, EventSays
    <3>3. \A i \in DOMAIN tape : /\ Filled(tape[i].maker, Open(tape[i].maker)) \notin O
                                 /\ Filled(tape[i].maker, Open(tape[i].maker)) \notin Z
      BY <1>5, EventSays
    <3> HIDE DEF O, Z, ON
    <3>4. /\ LastIn(C, O, ON)
          /\ n = 0 => LastIn(C, Z, SayStatus({"filled"}))
          /\ n # 0 => LastIn(C, Z, SayStatus({"partially_filled"}))
      BY <1>1, <1>5, <2>2, <3>2, <3>3, LastReport
    <3>5. SayStatus({"partially_filled"}) \subseteq SayStatus({"new", "partially_filled"})
      BY DEF SayStatus
    <3>6. n > 0 => LastIn(C, Z, SayStatus({"new", "partially_filled"}))
      <4>1. n > 0 => n # 0
        BY <1>5
      <4> QED BY <3>4, <3>5, <4>1, LastWeaker
    <3> QED BY <1>1, <1>3, <1>4, <3>4, <3>6
  <2> QED BY <2>1, <2>2
<1>12. ~Has(D, O) /\ (n = 0 \/ Rests => ~Has(D, Z))
  <2>1. DOMAIN <<>> = {} /\ Canceled(id) \notin O
    BY EmptySeq, EventSays
  <2>2. CASE n > 0 /\ ~Rests
    <3>1. D = <<Canceled(id)>>
      BY <1>1, <2>2 DEF RemainderEvents
    <3>2. n # 0
      BY <2>2
    <3> QED BY <2>1, <2>2, <3>1, <3>2 DEF Has
  <2>3. CASE ~(n > 0 /\ ~Rests)
    BY <1>1, <2>1, <2>3 DEF Has, RemainderEvents
  <2> QED BY <2>2, <2>3
<1>13. n > 0 /\ ~Rests => LastIn(D, Z, SayStatus({"canceled"}))
  <2> SUFFICES ASSUME n > 0, ~Rests PROVE LastIn(D, Z, SayStatus({"canceled"}))
    OBVIOUS
  <2>1. D = <<Canceled(id)>>
    BY <1>1 DEF RemainderEvents
  <2>2. Canceled(id) \in Z /\ Canceled(id) \in SayStatus({"canceled"})
    BY <1>7, EventSays
  <2> QED BY <2>1, <2>2, LastOfOne
<1> HIDE DEF O, Z, ON
<1> QED BY <1>1, <1>2, <1>3, <1>4, <1>11, <1>12, <1>13 DEF O, Z, ON

\* What is told of the other orders: of those that traded what is left, of those that
\* self-trade prevention took out that they are canceled, and of no other.
LEMMA OthersTold ==
  ASSUME IInv, FinishOrder, NEW id \in OrderIds, id # active.id, NEW n, n = Open(id), NEW qty
  PROVE  /\ ~Has(PlaceEvents, AcceptedEvents(id))
         /\ ~Maker(id) => ~Has(PlaceEvents, OpenEvents(id))
         /\ ~Maker(id) /\ ~Prevented(id) => ~Has(PlaceEvents, StatusEvents(id))
         /\ Maker(id) => LastIn(PlaceEvents, OpenEvents(id), SayOpen({n}, qty))
         /\ Maker(id) /\ ~Prevented(id) =>
              /\ n = 0 => LastIn(PlaceEvents, StatusEvents(id), SayStatus({"filled"}))
              /\ n # 0 => LastIn(PlaceEvents, StatusEvents(id), SayStatus({"new", "partially_filled"}))
         /\ Prevented(id) /\ ~Maker(id) => LastIn(PlaceEvents, StatusEvents(id), SayStatus({"canceled"}))
<1> DEFINE R == PlaceEvents
           Q == AcceptedEvents(id)
           O == OpenEvents(id)
           Z == StatusEvents(id)
<1>1. /\ Q \subseteq O /\ O \subseteq Z /\ Z \subseteq Event
      /\ \A a : /\ a # id => Accepted(a) \notin Z /\ Canceled(a) \notin Z
                /\ Canceled(a) \notin O
                /\ \A x : Filled(a, x) \notin Q /\ (a # id => Filled(a, x) \notin Z)
  BY EventSays
<1>2. \A P : Has(R, P) =>
        \/ Accepted(active.id) \in P
        \/ \E i \in DOMAIN selfCanceled : Canceled(selfCanceled[i]) \in P
        \/ \E x : Filled(active.id, x) \in P
        \/ \E i \in DOMAIN tape : Filled(tape[i].maker, Open(tape[i].maker)) \in P
        \/ active.open > 0 /\ ~Rests /\ Canceled(active.id) \in P
  BY PlaceEventsHave
<1>3. \A P : P \subseteq Z /\ Has(R, P) =>
        \/ Prevented(id) /\ Canceled(id) \in P
        \/ Maker(id) /\ Filled(id, n) \in P
  <2> SUFFICES ASSUME NEW P, P \subseteq Z, Has(R, P)
               PROVE  \/ Prevented(id) /\ Canceled(id) \in P
                      \/ Maker(id) /\ Filled(id, n) \in P
    OBVIOUS
  <2>1. /\ Accepted(active.id) \notin P /\ Canceled(active.id) \notin P
        /\ \A x : Filled(active.id, x) \notin P
    BY <1>1
  <2>2. ASSUME NEW i \in DOMAIN selfCanceled, Canceled(selfCanceled[i]) \in P
        PROVE  Prevented(id) /\ Canceled(id) \in P
    BY <1>1, <2>2 DEF Prevented
  <2>3. ASSUME NEW i \in DOMAIN tape, Filled(tape[i].maker, Open(tape[i].maker)) \in P
        PROVE  Maker(id) /\ Filled(id, n) \in P
    BY <1>1, <2>3 DEF Maker
  <2> QED BY <1>2, <2>1, <2>2, <2>3
<1>4. PlaceEvents \in Seq(Event) /\ \A e : Tells(R, e) => e \in Event /\ \A P : e \in P => Has(R, P)
  <2>1. PlaceEvents \in Seq(Event)
    BY PlaceEventsType
  <2> QED BY <2>1, ElementOfSeq, LenProperties DEF Tells, Has
<1>5. Maker(id) => Tells(R, Filled(id, n))
  <2> SUFFICES ASSUME NEW i \in DOMAIN tape, tape[i].maker = id PROVE Tells(R, Filled(id, n))
    BY DEF Maker
  <2>1. PICK m \in Nat : m = Len(tape) /\ i \in 1..m
    BY PlaceEventsParts
  <2>2. PICK k : k = 2 * i
    OBVIOUS
  <2>3. k \in 1..(2 * m) /\ k % 2 # 1 /\ k \div 2 = i
    BY <2>1, <2>2
  <2>4. ExecutionReports[k] = Filled(id, n)
    BY <2>1, <2>3 DEF ExecutionReports
  <2> QED BY <2>1, <2>3, <2>4, PlaceEventsTell
<1>6. Prevented(id) => Tells(R, Canceled(id))
  BY PlaceEventsTell DEF Prevented
<1>7. /\ Maker(id) =>
           /\ Filled(id, n) \in O /\ Filled(id, n) \in Z
           /\ Filled(id, n) \in SayOpen({n}, qty)
           /\ n = 0 => Filled(id, n) \in SayStatus({"filled"})
           /\ n # 0 => Filled(id, n) \in SayStatus({"new", "partially_filled"})
      /\ Prevented(id) => Canceled(id) \in Z /\ Canceled(id) \in SayStatus({"canceled"})
  <2>1. SayStatus({"partially_filled"}) \subseteq SayStatus({"new", "partially_filled"})
    BY DEF SayStatus
  <2> QED BY <1>4, <1>5, <1>6, <2>1, EventSays
<1>8. \A P, G : Has(R, P) /\ ~Has(R, P \ G) => LastIn(R, P, G)
  BY DEF Has, LastIn
<1> HIDE DEF R, Q, O, Z
<1>9. /\ ~Has(R, Q)
      /\ ~Maker(id) => ~Has(R, O)
      /\ ~Maker(id) /\ ~Prevented(id) => ~Has(R, Z)
  BY <1>1, <1>3
<1>10. ASSUME Maker(id) PROVE LastIn(R, O, SayOpen({n}, qty))
  <2>1. Has(R, O)
    BY <1>4, <1>5, <1>7, <1>10
  <2>2. O \ SayOpen({n}, qty) \subseteq Z /\ Canceled(id) \notin O
    BY <1>1
  <2>3. ~Has(R, O \ SayOpen({n}, qty))
    BY <1>3, <1>7, <1>10, <2>2
  <2> QED BY <1>8, <2>1, <2>3
<1>11. ASSUME Maker(id), ~Prevented(id), NEW S, Filled(id, n) \in SayStatus(S)
       PROVE  LastIn(R, Z, SayStatus(S))
  <2>1. Has(R, Z)
    BY <1>4, <1>5, <1>7, <1>11
  <2>2. Z \ SayStatus(S) \subseteq Z
    OBVIOUS
  <2>3. ~Has(R, Z \ SayStatus(S))
    BY <1>3, <1>11, <2>2
  <2> QED BY <1>8, <2>1, <2>3
<1>12. ASSUME ~Maker(id), Prevented(id) PROVE LastIn(R, Z, SayStatus({"canceled"}))
  <2>1. Has(R, Z)
    BY <1>4, <1>6, <1>7, <1>12
  <2>2. Z \ SayStatus({"canceled"}) \subseteq Z
    OBVIOUS
  <2>3. ~Has(R, Z \ SayStatus({"canceled"}))
    BY <1>3, <1>7, <1>12, <2>2
  <2> QED BY <1>8, <2>1, <2>3
<1> QED BY <1>7, <1>9, <1>10, <1>11, <1>12 DEF R, Q, O, Z

\* When the engine is done with an order, what is told of it and of those it met agrees
\* with the book.
LEMMA FinishOrderKeepsTold ==
  ASSUME IInv, ToldInv, FinishOrder
  PROVE  ToldInv'
<1>1. /\ UNCHANGED <<entered, orders, releasing>> /\ OrderIds' = OrderIds
      /\ active # NoOrder /\ active' = NoOrder /\ gatewayQ' = gatewayQ \o PlaceEvents
      /\ active.open \in Nat
  BY DEF FinishOrder, M!Leave, ledgerVars, OrderIds, IInv, TypeOK, EngineTypes, Order
<1>2. gatewayQ \in Seq(Event) /\ PlaceEvents \in Seq(Event) /\ Grows(gatewayQ, gatewayQ')
  BY <1>1, PlaceEventsType, Concatenated DEF IInv, TypeOK, GatewayTypes
<1>3. \A id :
        /\ Known(id)' <=> Known(id) \/ Has(PlaceEvents, AcceptedEvents(id))
        /\ \A N : ToldOpen(id, N) /\ ~Has(PlaceEvents, OpenEvents(id)) => ToldOpen(id, N)'
        /\ \A N : LastIn(PlaceEvents, OpenEvents(id), SayOpen(N, entered[id].qty)) => ToldOpen(id, N)'
        /\ \A S : ToldStatus(id, S) /\ ~Has(PlaceEvents, StatusEvents(id)) => ToldStatus(id, S)'
        /\ \A S : LastIn(PlaceEvents, StatusEvents(id), SayStatus(S)) => ToldStatus(id, S)'
  BY <1>1, <1>2, ToldMore
<1>4. \A id \in OrderIds : Known(id)' => Known(id) \/ id = active.id
  BY <1>3, OthersTold
<1>5. ASSUME NEW id \in OrderIds, id = active.id PROVE Agrees(id)'
  <2>1. PICK n \in Nat : n = active.open
    BY <1>1
  <2>2. Rests => n > 0
    BY <2>1 DEF Rests
  <2>3. /\ ToldOpen(id, {n})'
        /\ n = 0 => ToldStatus(id, {"filled"})'
        /\ n > 0 /\ Rests => ToldStatus(id, {"new", "partially_filled"})'
        /\ n > 0 /\ ~Rests => ToldStatus(id, {"canceled"})'
    BY <1>3, <1>5, <2>1, ActiveTold
  <2>4. Open(id)' = IF Rests THEN n ELSE 0
    BY <1>5, <2>1, FinishOpens
  <2>5. CASE n = 0
    <3>1. ~Rests
      BY <2>2, <2>5
    <3> QED BY <2>3, <2>4, <2>5, <3>1, AgreesThen
  <2>6. CASE n > 0 /\ Rests
    BY <2>3, <2>4, <2>6, AgreesThen
  <2>7. CASE n > 0 /\ ~Rests
    <3>1. LastIn(PlaceEvents, OpenEvents(id), SayOpen({n}, entered[id].qty))
      BY <1>5, <2>1, ActiveTold
    <3>2. SayOpen({n}, entered[id].qty) \subseteq SayOpen(Positive, entered[id].qty)
      <4>1. n \in Positive
        BY <2>7 DEF Positive
      <4> QED BY <4>1 DEF SayOpen
    <3>3. LastIn(PlaceEvents, OpenEvents(id), SayOpen(Positive, entered[id].qty))
      BY <3>1, <3>2, LastWeaker
    <3>4. ToldOpen(id, Positive)'
      BY <1>3, <3>3 DEF Positive
    <3> QED BY <2>3, <2>4, <2>7, <3>4, AgreesThen
  <2>8. n = 0 \/ n > 0
    BY <2>1
  <2> QED BY <2>5, <2>6, <2>7, <2>8
<1>6. ASSUME NEW id \in OrderIds, id # active.id, Known(id) PROVE Agrees(id)'
  <2>1. Open(id)' = Open(id) /\ Open(id) \in Nat
    BY <1>6, FinishOpens, OpenFacts DEF IInv
  <2>2. PICK n \in Nat : n = Open(id) /\ Open(id)' = n
    BY <2>1
  <2>3. n = 0 \/ (n > 0 /\ n # 0)
    BY <2>2
  <2>4. CASE Maker(id)
    <3>1. ~Prevented(id)
      BY <1>1, <2>4 DEF ToldInv, TellInv, ActiveInv
    <3>2. /\ ToldOpen(id, {n})'
          /\ n = 0 => ToldStatus(id, {"filled"})'
          /\ n # 0 => ToldStatus(id, {"new", "partially_filled"})'
      BY <1>3, <1>6, <2>2, <2>4, <3>1, OthersTold
    <3> QED BY <2>2, <2>3, <3>2, AgreesThen
  <2>5. CASE Prevented(id) /\ ~Maker(id)
    <3>1. n = 0
      BY <1>1, <2>2, <2>5 DEF IInv, MatchInv, Prevented
    <3>2. ToldOpen(id, Positive)
      BY <1>1, <1>6, <2>5 DEF ToldInv, TellInv, ActiveInv
    <3>3. ~Has(PlaceEvents, OpenEvents(id)) /\ LastIn(PlaceEvents, StatusEvents(id), SayStatus({"canceled"}))
      BY <1>6, <2>5, OthersTold
    <3>4. ToldOpen(id, Positive)' /\ ToldStatus(id, {"canceled"})'
      BY <1>3, <3>2, <3>3 DEF Positive
    <3> QED BY <2>2, <3>1, <3>4, AgreesThen
  <2>6. CASE ~Maker(id) /\ ~Prevented(id)
    <3>1. ~Matching(id)
      BY <1>6, <2>6 DEF Matching, Maker, Prevented
    <3>2. Agrees(id)
      BY <1>6, <3>1 DEF ToldInv, TellInv, AgreeInv
    <3>3. ~Has(PlaceEvents, OpenEvents(id)) /\ ~Has(PlaceEvents, StatusEvents(id))
      BY <1>6, <2>6, OthersTold
    <3> QED BY <1>3, <2>1, <3>2, <3>3, StillAgrees
  <2> QED BY <2>4, <2>5, <2>6
<1>7. AgreeInv'
  BY <1>1, <1>4, <1>5, <1>6 DEF AgreeInv
<1>8. ActiveInv'
  BY <1>1 DEF ActiveInv
<1>9. RejectInv'
  <2> SUFFICES ASSUME NEW i \in DOMAIN gatewayQ', NEW id \in OrderIds,
                      gatewayQ'[i].kind = "rejected", entered[id].coid = gatewayQ'[i].coid
               PROVE  ~Known(id)'
    BY <1>1 DEF RejectInv
  <2>1. PICK x : x = gatewayQ'[i]
    OBVIOUS
  <2>2. Has(gatewayQ', {x})
    BY <2>1 DEF Has
  <2>3. Has(gatewayQ, {x}) \/ Has(PlaceEvents, {x})
    <3>1. \A X, Y \in Seq(Event) : Has(X \o Y, {x}) <=> Has(X, {x}) \/ Has(Y, {x})
      BY LastOfMore
    <3> QED BY <1>1, <1>2, <2>2, <3>1
  <2>4. ~Has(PlaceEvents, {x})
    <3>1. /\ Accepted(active.id) # x
          /\ \A a : Canceled(a) # x
          /\ \A a, y : Filled(a, y) # x
      BY <2>1, EventSays
    <3> QED BY <3>1, PlaceEventsHave
  <2>5. PICK j \in DOMAIN gatewayQ : gatewayQ[j] = x
    BY <2>3, <2>4 DEF Has
  <2>6. ~Known(id) /\ active.id # id
    BY <1>1, <2>1, <2>5 DEF ToldInv, TellInv, RejectInv
  <2> QED BY <1>4, <2>6
<1>10. SeenInv'
  BY <1>1, <1>2, SeenStays DEF ToldInv
<1> QED BY <1>7, <1>8, <1>9, <1>10 DEF ToldInv, TellInv

-----------------------------------------------------------------------------
(* The projection. *)

LEMMA InitTold ==
  ASSUME Init
  PROVE  ToldInv
<1>1. /\ gatewayQ = <<>> /\ orders = <<>> /\ active = NoOrder /\ releasing[Consumer] = NoRelease
  BY DEF Init, L!Init, M!Init, Callers
<1>2. DOMAIN gatewayQ = {} /\ DOMAIN orders = {}
  BY <1>1, EmptySeq
<1>3. \A id : ~Known(id)
  BY <1>2 DEF Known, Has
<1> QED BY <1>1, <1>2, <1>3 DEF ToldInv, TellInv, AgreeInv, ActiveInv, RejectInv, SeenInv

LEMMA NextTold ==
  ASSUME UniqueIds, IInv, ToldInv, [Next]_vars
  PROVE  ToldInv'
<1>1. releasing \in [Callers -> {NoRelease} \cup SUBSET DOMAIN hold] /\ Consumer \in Callers
  BY DEF IInv, TypeOK, HoldTypes, Callers
<1>2. ASSUME NEW r \in Requests, PlaceReserve(r) \/ PlacePublish(r) PROVE ToldInv'
  <2>1. UNCHANGED <<engineVars, gatewayQ, orders>> /\ releasing' = releasing
    BY <1>2 DEF PlaceReserve, PlacePublish, L!Reserve, ledgerVars
  <2> QED BY <2>1, OthersKeepTold
<1>3. ASSUME NEW r \in Requests, UndoRead(r) \/ UndoWrite(r) \/ UndoFails(r) PROVE ToldInv'
  <2>1. UNCHANGED <<engineVars, gatewayQ, orders>> /\ releasing'[Consumer] = releasing[Consumer]
    BY <1>1, <1>3, ConsumerAssumption
       DEF UndoRead, UndoWrite, UndoFails, L!ReleaseRead, L!ReleaseWrite
  <2> QED BY <2>1, OthersKeepTold
<1>4. CASE \/ \E id \in OrderIds : RequestCancel(id)
           \/ \E w \in Withdrawals : CheckWithdrawal(w) \/ SendWithdrawal(w)
           \/ \E acked \in BOOLEAN : Settle(acked)
           \/ Expire \/ UNCHANGED vars
  <2>1. UNCHANGED <<engineVars, gatewayQ, orders>> /\ releasing' = releasing
    BY <1>4 DEF Expire, RequestCancel, CheckWithdrawal, SendWithdrawal, Settle, L!SettleTrade, L!SettleFaucet,
                ledgerVars, vars
  <2> QED BY <2>1, OthersKeepTold
<1>5. CASE Engine
  BY <1>5, TakeOrderKeepsTold, MatchKeepsTold, CancelOwnKeepsTold, FinishOrderKeepsTold, TakeCancelKeepsTold
     DEF Engine
<1>6. ASSUME NEW acked \in BOOLEAN,
             ProjectEvent(acked) \/ CloseOrder \/ ReleaseHold(acked) \/ ReleaseFails(acked)
      PROVE  ToldInv'
  BY <1>6, ConsumerKeepsTold
<1>7. CASE RestartGateway
  BY <1>7, RestartKeepsTold
<1>8. CASE CloseOrder
  BY <1>6, <1>8
<1> QED BY <1>2, <1>3, <1>4, <1>5, <1>6, <1>7, <1>8 DEF Next, Handler

\* When all is told, the projection says what the book says.
LEMMA ToldAll ==
  ASSUME IInv, ToldInv
  PROVE  ProjectionFollowsEngine
<1> SUFFICES ASSUME gatewayQ = <<>>, active = NoOrder, NEW id \in DOMAIN orders
             PROVE  IF \E m \in resting : m.id = id
                    THEN orders[id].status \in {"new", "partially_filled"} /\ orders[id].open = Open(id)
                    ELSE orders[id].status \in {"filled", "canceled"}
                         /\ (orders[id].status = "filled" <=> orders[id].open = 0)
  BY DEF ProjectionFollowsEngine
<1>1. id \in OrderIds /\ Known(id) /\ Engaged = resting
  BY DEF IInv, TypeOK, GatewayTypes, Known, Engaged
<1>2. PICK n : n = Open(id)
  OBVIOUS
<1>3. /\ n \in Nat
      /\ (\E m \in resting : m.id = id) => n > 0
      /\ ~(\E m \in resting : m.id = id) => n = 0
  BY <1>1, <1>2, OpenFacts DEF IInv, BookInv
<1>4. Agrees(id)
  BY <1>1 DEF ToldInv, TellInv, AgreeInv, Matching
<1>5. \A P, G : ~LastIn(gatewayQ, P, G)
  BY EmptySeq DEF LastIn
<1>6. \/ n > 0 /\ orders[id].status \in {"new", "partially_filled"} /\ orders[id].open \in {n}
      \/ n = 0 /\ orders[id].status \in {"filled"} /\ orders[id].open \in {0}
      \/ n = 0 /\ orders[id].status \in {"canceled"} /\ orders[id].open \in Positive
  BY <1>2, <1>4, <1>5 DEF Agrees, ToldOpen, ToldStatus
<1>7. n > 0 => n # 0
  BY <1>3
<1> QED BY <1>2, <1>3, <1>6, <1>7 DEF Positive

\* When the gateway has projected all its events, an order is open in its projection,
\* with the same quantity, if it rests in the book, and closed if it does not, and
\* filled if nothing is open: through redeliveries, releases that fail and restarts,
\* although the events of a trade come in an order of their own and a canceled order
\* keeps the quantity it had.
THEOREM ProjectionAlwaysFollows ==
  ASSUME UniqueIds, AnswersTell
  PROVE  Spec => []ProjectionFollowsEngine
<1>1. Init => IInv /\ BusyInv /\ ToldInv
  BY InitIInv, InitTold
<1>2. IInv /\ BusyInv /\ ToldInv /\ [Next]_vars => IInv' /\ BusyInv' /\ ToldInv'
  BY NextIInv, BusyStep, NextTold
<1>3. IInv /\ ToldInv => ProjectionFollowsEngine
  BY ToldAll
<1> QED BY <1>1, <1>2, <1>3, PTL DEF Spec

=============================================================================
