--------------------------- MODULE MatchingProofs ---------------------------
(***************************************************************************)
(* Proofs about OrderBook and MatchingEngine, for any accounts, requests   *)
(* and number of orders.                                                   *)
(*                                                                         *)
(* The binary search finds the level of a price because a side is sorted   *)
(* and has no empty level and no order twice (SideOK); each operation is   *)
(* shown to keep that, position by position, and to change the set of      *)
(* resting orders by exactly the one it is about. So slices can be thought *)
(* of as sets from there on: the index is that set (IndexOK), what rests   *)
(* is open (OnlyOpenOrdersRest), and a bid never reaches an ask, the taker *)
(* being outside the book while it is matched (Uncrossed). When the loop   *)
(* ends for want of a counterparty, the first of the best level is not     *)
(* tradable, hence none is, and the remainder may rest. The same fact is   *)
(* what the refinement of PriceTimeMarket needs: the first of the best     *)
(* level is the best order there is. TakerOK tells the taker from what     *)
(* rests.                                                                  *)
(*                                                                         *)
(* Then come the sums: the trades of a call add up to the taker's fill     *)
(* (AddUpInv), and a fill-or-kill order in the loop never lacks more than  *)
(* what it can reach (FokInv), which the check before the loop counts by   *)
(* level and the loop takes order by order. Last, snapshots: a side is     *)
(* determined by the set of orders that rest there (SameSide), and each    *)
(* reinsertion adds one order to that set (OneMore).                       *)
(***************************************************************************)
EXTENDS MatchingEngine, SequenceTheorems, FoldTheorems

(***************************************************************************)
(* Sequences: insertion and removal, point by point.                       *)
(***************************************************************************)

LEMMA InsertAtPoints ==
  ASSUME NEW S, NEW q \in Seq(S), NEW i \in 1..(Len(q) + 1), NEW e \in S
  PROVE  /\ InsertAt(q, i, e) \in Seq(S)
         /\ Len(InsertAt(q, i, e)) = Len(q) + 1
         /\ \A j \in 1..(Len(q) + 1) :
              InsertAt(q, i, e)[j] = IF j < i THEN q[j] ELSE IF j = i THEN e ELSE q[j - 1]
<1> DEFINE a == SubSeq(q, 1, i - 1)
           b == SubSeq(q, i, Len(q))
<1>1. Len(q) \in Nat /\ \A j \in 1..Len(q) : q[j] \in S
  BY LenProperties, ElementOfSeq
<1>2. /\ a \in Seq(S) /\ Len(a) = i - 1
      /\ \A j \in 1..(i - 1) : a[j] = q[j]
  <2>1. \A j \in 1..(i - 1) : q[j] \in S
    BY <1>1
  <2> QED BY <1>1, <2>1, SubSeqProperties
<1>3. /\ b \in Seq(S) /\ Len(b) = Len(q) - i + 1
      /\ \A j \in 1..(Len(q) - i + 1) : b[j] = q[i + j - 1]
  <2>1. \A j \in i..Len(q) : q[j] \in S
    BY <1>1
  <2> QED BY <1>1, <2>1, SubSeqProperties
<1>4. /\ a \o <<e>> \in Seq(S) /\ Len(a \o <<e>>) = i
      /\ \A j \in 1..i : (a \o <<e>>)[j] = IF j < i THEN q[j] ELSE e
  <2>1. <<e>> \in Seq(S) /\ Len(<<e>>) = 1 /\ <<e>>[1] = e
    OBVIOUS
  <2> HIDE DEF a
  <2> QED BY <1>2, <2>1, ConcatProperties
<1>5. /\ (a \o <<e>>) \o b \in Seq(S)
      /\ Len((a \o <<e>>) \o b) = Len(q) + 1
      /\ \A j \in 1..(Len(q) + 1) :
           ((a \o <<e>>) \o b)[j] = IF j <= i THEN (a \o <<e>>)[j] ELSE b[j - i]
  <2> DEFINE c == a \o <<e>>
  <2> HIDE DEF a, b, c
  <2> SUFFICES /\ c \o b \in Seq(S)
               /\ Len(c \o b) = Len(q) + 1
               /\ \A j \in 1..(Len(q) + 1) :
                    (c \o b)[j] = IF j <= i THEN c[j] ELSE b[j - i]
    BY DEF c
  <2>1. c \in Seq(S) /\ Len(c) = i
    BY <1>4 DEF c
  <2> QED BY <1>1, <1>3, <2>1, ConcatProperties
<1>6. InsertAt(q, i, e) = (a \o <<e>>) \o b
  BY DEF InsertAt
<1> HIDE DEF a, b
<1> QED BY <1>1, <1>3, <1>4, <1>5, <1>6

LEMMA RemoveAtPoints ==
  ASSUME NEW S, NEW q \in Seq(S), NEW i \in 1..Len(q)
  PROVE  /\ RemoveAt(q, i) \in Seq(S)
         /\ Len(RemoveAt(q, i)) = Len(q) - 1
         /\ \A j \in 1..(Len(q) - 1) : RemoveAt(q, i)[j] = IF j < i THEN q[j] ELSE q[j + 1]
<1> DEFINE a == SubSeq(q, 1, i - 1)
           b == SubSeq(q, i + 1, Len(q))
<1>1. Len(q) \in Nat /\ \A j \in 1..Len(q) : q[j] \in S
  BY LenProperties, ElementOfSeq
<1>2. /\ a \in Seq(S) /\ Len(a) = i - 1
      /\ \A j \in 1..(i - 1) : a[j] = q[j]
  <2>1. \A j \in 1..(i - 1) : q[j] \in S
    BY <1>1
  <2> QED BY <1>1, <2>1, SubSeqProperties
<1>3. /\ b \in Seq(S) /\ Len(b) = Len(q) - i
      /\ \A j \in 1..(Len(q) - i) : b[j] = q[i + j]
  <2>1. \A j \in (i + 1)..Len(q) : q[j] \in S
    BY <1>1
  <2> QED BY <1>1, <2>1, SubSeqProperties
<1>4. /\ a \o b \in Seq(S)
      /\ Len(a \o b) = Len(q) - 1
      /\ \A j \in 1..(Len(q) - 1) : (a \o b)[j] = IF j < i THEN a[j] ELSE b[j - (i - 1)]
  <2> HIDE DEF a, b
  <2>1. /\ a \o b \in Seq(S)
        /\ Len(a \o b) = Len(a) + Len(b)
        /\ \A j \in 1..(Len(a) + Len(b)) :
             (a \o b)[j] = IF j <= Len(a) THEN a[j] ELSE b[j - Len(a)]
    BY <1>2, <1>3, ConcatProperties
  <2> QED BY <1>1, <1>2, <1>3, <2>1
<1>5. RemoveAt(q, i) = a \o b
  BY DEF RemoveAt
<1>6. ASSUME NEW j \in 1..(Len(q) - 1)
      PROVE  (a \o b)[j] = IF j < i THEN q[j] ELSE q[j + 1]
  <2> HIDE DEF a, b
  <2>1. CASE j < i
    BY <1>1, <1>2, <1>4, <2>1
  <2>2. CASE ~(j < i)
    <3>1. (a \o b)[j] = b[j - (i - 1)] /\ j - (i - 1) \in 1..(Len(q) - i)
      BY <1>1, <1>4, <2>2
    <3>2. i + (j - (i - 1)) = j + 1
      BY <1>1
    <3> QED BY <1>1, <1>3, <2>2, <3>1, <3>2
  <2> QED BY <2>1, <2>2
<1> HIDE DEF a, b
<1> QED BY <1>4, <1>5, <1>6

LEMMA TailOfRemoveAt ==
  ASSUME NEW S, NEW q \in Seq(S), q # <<>>
  PROVE  Tail(q) = RemoveAt(q, 1)
<1>1. Len(q) \in Nat \ {0} /\ 1 \in 1..Len(q)
  BY EmptySeq, LenProperties
<1>2. /\ Tail(q) \in Seq(S) /\ Len(Tail(q)) = Len(q) - 1
      /\ \A j \in 1..Len(Tail(q)) : Tail(q)[j] = q[j + 1]
  BY HeadTailProperties
<1>3. /\ RemoveAt(q, 1) \in Seq(S) /\ Len(RemoveAt(q, 1)) = Len(q) - 1
      /\ \A j \in 1..(Len(q) - 1) : RemoveAt(q, 1)[j] = IF j < 1 THEN q[j] ELSE q[j + 1]
  BY <1>1, RemoveAtPoints
<1>4. \A j \in 1..Len(Tail(q)) : Tail(q)[j] = RemoveAt(q, 1)[j]
  BY <1>1, <1>2, <1>3
<1> QED BY <1>2, <1>3, <1>4, SeqEqual

(***************************************************************************)
(* The operations on a side of the book.                                   *)
(***************************************************************************)

\* A set of natural numbers that is not empty has its least element.
LEMMA MinOfNat ==
  ASSUME NEW S \in SUBSET Nat, S # {}
  PROVE  Min(S) \in S /\ \A n \in S : Min(S) <= n
<1>1. PICK m \in S : \A n \in S : ~(n < m)
  BY LeastOfNat
<1>2. \A n \in S : m <= n
  BY <1>1, SMT
<1> QED BY <1>2 DEF Min

Sorted(s, lv) ==
  \A i, j \in DOMAIN lv : i < j => Better(s, lv[i].price, lv[j].price)

\* sort.Search's answer on a side in priority order: what is before it is better
\* than the price, and nothing from it on is.
LEMMA LocateFinds ==
  ASSUME NEW s \in Sides, NEW lv \in Seq(Level), NEW price \in Nat, Sorted(s, lv),
         NEW i, i = Locate(s, lv, price)
  PROVE  /\ i \in 1..(Len(lv) + 1)
         /\ \A j \in 1..Len(lv) : j < i => Better(s, lv[j].price, price)
         /\ \A j \in 1..Len(lv) : j > i => Better(s, price, lv[j].price)
         /\ i <= Len(lv) => Better(s, price, lv[i].price) \/ lv[i].price = price
<1> DEFINE S == {k \in 1..Len(lv) : ~Better(s, lv[k].price, price)} \cup {Len(lv) + 1}
<1>1. Len(lv) \in Nat /\ DOMAIN lv = 1..Len(lv) /\ \A k \in 1..Len(lv) : lv[k] \in Level
  BY LenProperties, ElementOfSeq
<1>a. \A k \in 1..Len(lv) : lv[k].price \in Nat
  BY <1>1 DEF Level
<1>2. S \in SUBSET Nat /\ S # {}
  BY <1>1
<1>3. i \in S /\ \A k \in S : i <= k
  BY <1>2, MinOfNat DEF Locate
<1> QED BY <1>1, <1>a, <1>3 DEF Sorted, Better, Sides

LEMMA LocateIsLevel ==
  ASSUME NEW s \in Sides, NEW lv \in Seq(Level), Sorted(s, lv), NEW i \in DOMAIN lv
  PROVE  Locate(s, lv, lv[i].price) = i
<1> DEFINE l == Locate(s, lv, lv[i].price)
<1>1. /\ Len(lv) \in Nat /\ DOMAIN lv = 1..Len(lv) /\ i \in 1..Len(lv)
      /\ \A k \in 1..Len(lv) : lv[k].price \in Nat
  <2>1. Len(lv) \in Nat /\ DOMAIN lv = 1..Len(lv) /\ \A k \in 1..Len(lv) : lv[k] \in Level
    BY LenProperties, ElementOfSeq
  <2> QED BY <2>1 DEF Level
<1>2. /\ l \in 1..(Len(lv) + 1)
      /\ \A j \in 1..Len(lv) : j < l => Better(s, lv[j].price, lv[i].price)
      /\ \A j \in 1..Len(lv) : j > l => Better(s, lv[i].price, lv[j].price)
  BY <1>1, LocateFinds
<1>3. ~Better(s, lv[i].price, lv[i].price)
  BY <1>1 DEF Better
<1> HIDE DEF l
<1> QED BY <1>1, <1>2, <1>3 DEF l

\* A queue holds orders of its own side and price, in the order of their arrival.
LevelOK(s, level, heap) ==
  /\ level.orders # <<>>
  /\ \A k \in DOMAIN level.orders :
       heap[level.orders[k]].side = s /\ heap[level.orders[k]].price = level.price
  /\ \A k, l \in DOMAIN level.orders : k < l => level.orders[k] < level.orders[l]

SideOK(s, lv, heap) ==
  Sorted(s, lv) /\ \A i \in DOMAIN lv : LevelOK(s, lv[i], heap)

LEMMA LevelTypes ==
  ASSUME NEW lv \in Seq(Level)
  PROVE  /\ Len(lv) \in Nat /\ DOMAIN lv = 1..Len(lv)
         /\ \A i \in 1..Len(lv) :
              /\ lv[i] \in Level /\ lv[i].price \in Nat
              /\ lv[i].orders \in Seq(Nat) /\ Len(lv[i].orders) \in Nat
              /\ DOMAIN lv[i].orders = 1..Len(lv[i].orders)
              /\ \A k \in 1..Len(lv[i].orders) : lv[i].orders[k] \in Nat
<1>1. Len(lv) \in Nat /\ DOMAIN lv = 1..Len(lv) /\ \A i \in 1..Len(lv) : lv[i] \in Level
  BY LenProperties, ElementOfSeq
<1>2. ASSUME NEW i \in 1..Len(lv)
      PROVE  lv[i].price \in Nat /\ lv[i].orders \in Seq(Nat)
  BY <1>1 DEF Level
<1>3. ASSUME NEW i \in 1..Len(lv)
      PROVE  /\ Len(lv[i].orders) \in Nat /\ DOMAIN lv[i].orders = 1..Len(lv[i].orders)
             /\ \A k \in 1..Len(lv[i].orders) : lv[i].orders[k] \in Nat
  BY <1>2, LenProperties, ElementOfSeq
<1> QED BY <1>1, <1>2, <1>3

LEMMA RestingIs ==
  ASSUME NEW lv
  PROVE  \A id : id \in Resting(lv) <=>
           \E i \in DOMAIN lv : \E k \in DOMAIN lv[i].orders : id = lv[i].orders[k]
BY DEF Resting, ToSet

\* What a side refers to, and what it depends on.
LEMMA RestingOf ==
  ASSUME NEW s \in Sides, NEW lv \in Seq(Level), NEW heap, SideOK(s, lv, heap)
  PROVE  /\ \A id \in Resting(lv) : id \in Nat /\ heap[id].side = s /\ heap[id].price \in Nat
         /\ \A new : (\A id \in Resting(lv) : /\ new[id].side = heap[id].side
                                              /\ new[id].price = heap[id].price)
              => SideOK(s, lv, new)
<1>1. ASSUME NEW id \in Resting(lv)
      PROVE  id \in Nat /\ heap[id].side = s /\ heap[id].price \in Nat
  BY RestingIs, LevelTypes DEF SideOK, LevelOK
<1>2. ASSUME NEW new,
             \A id \in Resting(lv) : new[id].side = heap[id].side /\ new[id].price = heap[id].price
      PROVE  SideOK(s, lv, new)
  BY <1>2, RestingIs DEF SideOK, LevelOK
<1> QED BY <1>1, <1>2

\* An order rests at one place: its level is the one of its price, and the queue
\* ascends.
LEMMA OnePlace ==
  ASSUME NEW s \in Sides, NEW lv \in Seq(Level), NEW heap, SideOK(s, lv, heap),
         NEW i \in 1..Len(lv), NEW j \in 1..Len(lv),
         NEW k \in 1..Len(lv[i].orders), NEW l \in 1..Len(lv[j].orders),
         lv[i].orders[k] = lv[j].orders[l]
  PROVE  i = j /\ k = l
<1>1. lv[i].price = lv[j].price
  <2>1. heap[lv[i].orders[k]].price = lv[i].price
    BY LevelTypes DEF SideOK, LevelOK
  <2>2. heap[lv[j].orders[l]].price = lv[j].price
    BY LevelTypes DEF SideOK, LevelOK
  <2> QED BY <2>1, <2>2
<1>2. i = j
  <2>1. i < j => Better(s, lv[i].price, lv[j].price)
    BY LevelTypes DEF SideOK, Sorted
  <2>2. j < i => Better(s, lv[j].price, lv[i].price)
    BY LevelTypes DEF SideOK, Sorted
  <2>3. lv[i].price \in Nat /\ i \in Nat /\ j \in Nat
    BY LevelTypes
  <2> QED BY <1>1, <2>1, <2>2, <2>3 DEF Better
<1>3. k = l
  <2>1. k \in DOMAIN lv[i].orders /\ l \in DOMAIN lv[i].orders
    BY <1>2, LevelTypes
  <2>2. k < l => lv[i].orders[k] < lv[i].orders[l]
    BY <2>1, LevelTypes DEF SideOK, LevelOK
  <2>3. l < k => lv[i].orders[l] < lv[i].orders[k]
    BY <2>1, LevelTypes DEF SideOK, LevelOK
  <2>4. lv[i].orders[k] \in Nat /\ k \in Nat /\ l \in Nat
    BY LevelTypes
  <2> QED BY <1>2, <2>2, <2>3, <2>4
<1> QED BY <1>2, <1>3

\* bookSide.front is served before everything else that rests on the side.
LEMMA FrontIsFirst ==
  ASSUME NEW s \in Sides, NEW lv \in Seq(Level), NEW heap, SideOK(s, lv, heap), lv # <<>>
  PROVE  /\ FrontOrder(lv) \in Resting(lv)
         /\ heap[FrontOrder(lv)].price = lv[1].price
         /\ \A id \in Resting(lv) \ {FrontOrder(lv)} :
              \/ Better(s, heap[FrontOrder(lv)].price, heap[id].price)
              \/ heap[FrontOrder(lv)].price = heap[id].price /\ FrontOrder(lv) < id
<1>1. Len(lv) \in Nat \ {0} /\ 1 \in DOMAIN lv
  BY LevelTypes, EmptySeq
<1>2. 1 \in DOMAIN lv[1].orders
  BY <1>1, LevelTypes, EmptySeq DEF SideOK, LevelOK
<1>3. FrontOrder(lv) = lv[1].orders[1]
  BY DEF FrontOrder
<1>4. FrontOrder(lv) \in Resting(lv) /\ heap[FrontOrder(lv)].price = lv[1].price
  BY <1>1, <1>2, <1>3, RestingIs DEF SideOK, LevelOK
<1>5. ASSUME NEW id \in Resting(lv), id # FrontOrder(lv)
      PROVE  \/ Better(s, heap[FrontOrder(lv)].price, heap[id].price)
             \/ heap[FrontOrder(lv)].price = heap[id].price /\ FrontOrder(lv) < id
  <2>1. PICK i \in DOMAIN lv : \E k \in DOMAIN lv[i].orders : id = lv[i].orders[k]
    BY RestingIs
  <2>2. PICK k \in DOMAIN lv[i].orders : id = lv[i].orders[k]
    BY <2>1
  <2>3. heap[id].price = lv[i].price
    BY <2>2 DEF SideOK, LevelOK
  <2>4. CASE i = 1
    BY <1>2, <1>3, <1>4, <1>5, <2>2, <2>3, <2>4, LevelTypes DEF SideOK, LevelOK
  <2>5. CASE i # 1
    BY <1>1, <1>4, <2>3, <2>5, LevelTypes DEF SideOK, Sorted
  <2> QED BY <2>4, <2>5
<1> QED BY <1>4, <1>5

\* The side without the k-th order of its i-th level, which popFront and remove
\* leave behind.
Without(lv, i, k) ==
  IF Len(lv[i].orders) = 1 THEN RemoveAt(lv, i)
  ELSE [lv EXCEPT ![i].orders = RemoveAt(@, k)]

LEMMA WithoutOne ==
  ASSUME NEW s \in Sides, NEW lv \in Seq(Level), NEW heap, SideOK(s, lv, heap),
         NEW i \in 1..Len(lv), NEW k \in 1..Len(lv[i].orders)
  PROVE  /\ Without(lv, i, k) \in Seq(Level)
         /\ SideOK(s, Without(lv, i, k), heap)
         /\ Resting(Without(lv, i, k)) = Resting(lv) \ {lv[i].orders[k]}
<1> DEFINE new == Without(lv, i, k)
           gone == lv[i].orders[k]
<1>1. CASE Len(lv[i].orders) = 1
  <2> DEFINE from(j) == IF j < i THEN j ELSE j + 1
  <2>1. /\ new \in Seq(Level) /\ Len(new) = Len(lv) - 1 /\ DOMAIN new = 1..(Len(lv) - 1)
        /\ \A j \in 1..(Len(lv) - 1) : new[j] = lv[from(j)]
    <3>1. new = RemoveAt(lv, i)
      BY <1>1 DEF Without
    <3>2. /\ new \in Seq(Level) /\ Len(new) = Len(lv) - 1
          /\ \A j \in 1..(Len(lv) - 1) : new[j] = IF j < i THEN lv[j] ELSE lv[j + 1]
      BY <3>1, RemoveAtPoints
    <3> HIDE DEF new
    <3> QED BY <3>2, LenProperties
  <2>2. Len(lv) \in Nat /\ DOMAIN lv = 1..Len(lv)
    BY LevelTypes
  <2>3. /\ \A j \in DOMAIN new : from(j) \in DOMAIN lv /\ from(j) # i
        /\ \A j, l \in DOMAIN new : j < l => from(j) < from(l)
    BY <2>1, <2>2
  <2>4. \A m \in DOMAIN lv : m # i => \E j \in DOMAIN new : m = from(j)
    <3> TAKE m \in DOMAIN lv
    <3>1. CASE m < i
      BY <2>1, <2>2, <3>1
    <3>2. CASE m > i
      <4>1. m - 1 \in DOMAIN new /\ m = from(m - 1)
        BY <2>1, <2>2, <3>2
      <4> QED BY <4>1
    <3> QED BY <2>2, <3>1, <3>2
  <2> HIDE DEF new, from
  <2>5. SideOK(s, new, heap)
    BY <2>1, <2>3 DEF SideOK, Sorted
  <2>6. Resting(new) = Resting(lv) \ {gone}
    <3>1. ASSUME NEW id \in Resting(new)
          PROVE  id \in Resting(lv) /\ id # gone
      <4>1. PICK j \in DOMAIN new : \E l \in DOMAIN new[j].orders : id = new[j].orders[l]
        BY RestingIs
      <4>2. PICK l \in DOMAIN lv[from(j)].orders : id = lv[from(j)].orders[l]
        BY <2>1, <4>1
      <4>3. from(j) \in DOMAIN lv /\ from(j) # i
        BY <2>3
      <4>4. l \in 1..Len(lv[from(j)].orders) /\ from(j) \in 1..Len(lv)
        BY <4>3, LevelTypes
      <4>5. id # gone
        BY <4>2, <4>3, <4>4, OnePlace
      <4> QED BY <4>2, <4>3, <4>5, RestingIs
    <3>2. ASSUME NEW id \in Resting(lv), id # gone
          PROVE  id \in Resting(new)
      <4>1. PICK m \in DOMAIN lv : \E l \in DOMAIN lv[m].orders : id = lv[m].orders[l]
        BY RestingIs
      <4>2. PICK l \in DOMAIN lv[m].orders : id = lv[m].orders[l]
        BY <4>1
      <4>3. m # i
        BY <1>1, <3>2, <4>2, LevelTypes
      <4>4. PICK j \in DOMAIN new : m = from(j)
        BY <2>4, <4>3
      <4> QED BY <2>1, <4>2, <4>4, RestingIs
    <3> QED BY <3>1, <3>2
  <2> QED BY <2>1, <2>5, <2>6 DEF new
<1>2. CASE Len(lv[i].orders) # 1
  <2> DEFINE q == lv[i].orders
             r == RemoveAt(q, k)
             from(l) == IF l < k THEN l ELSE l + 1
  <2>1. q \in Seq(Nat) /\ Len(q) \in Nat /\ Len(q) > 1 /\ DOMAIN q = 1..Len(q)
    <3>1. q \in Seq(Nat) /\ Len(q) \in Nat /\ DOMAIN q = 1..Len(q)
      BY LevelTypes
    <3>2. Len(q) # 1 /\ k \in 1..Len(q)
      BY <1>2
    <3> HIDE DEF q
    <3> QED BY <3>1, <3>2
  <2>2. /\ r \in Seq(Nat) /\ Len(r) = Len(q) - 1 /\ DOMAIN r = 1..(Len(q) - 1)
        /\ \A l \in 1..(Len(q) - 1) : r[l] = q[from(l)]
    <3>1. /\ r \in Seq(Nat) /\ Len(r) = Len(q) - 1
          /\ \A l \in 1..(Len(q) - 1) : r[l] = IF l < k THEN q[l] ELSE q[l + 1]
      BY <2>1, RemoveAtPoints
    <3> HIDE DEF r
    <3> QED BY <3>1, LenProperties
  <2>k. k \in 1..Len(q)
    OBVIOUS
  <2> HIDE DEF q, r
  <2>3. /\ \A l \in DOMAIN r : from(l) \in DOMAIN q /\ from(l) # k
        /\ \A l, m \in DOMAIN r : l < m => from(l) < from(m)
    <3>1. DOMAIN r = 1..(Len(q) - 1) /\ DOMAIN q = 1..Len(q) /\ Len(q) \in Nat
      BY <2>1, <2>2
    <3> QED BY <3>1, <2>k
  <2>4. \A m \in DOMAIN q : m # k => \E l \in DOMAIN r : m = from(l)
    <3> TAKE m \in DOMAIN q
    <3>1. CASE m < k
      BY <2>1, <2>2, <2>k, <3>1
    <3>2. CASE m > k
      <4>1. m - 1 \in DOMAIN r /\ m = from(m - 1)
        BY <2>1, <2>2, <2>k, <3>2
      <4> QED BY <4>1
    <3> QED BY <2>1, <2>k, <3>1, <3>2
  <2>5. new = [lv EXCEPT ![i].orders = r]
    BY <1>2 DEF Without, q, r
  <2> HIDE DEF from
  <2>6. /\ new \in Seq(Level) /\ DOMAIN new = DOMAIN lv
        /\ \A j \in DOMAIN lv : j # i => new[j] = lv[j]
        /\ new[i].orders = r /\ new[i].price = lv[i].price
    <3> DEFINE level == [lv[i] EXCEPT !.orders = r]
    <3>1. level \in Level /\ level.orders = r /\ level.price = lv[i].price
      BY <2>2, LevelTypes DEF Level
    <3>2. new = [lv EXCEPT ![i] = level]
      BY <2>5
    <3> HIDE DEF level, new
    <3>3. /\ new \in Seq(Level) /\ Len(new) = Len(lv)
          /\ \A j \in 1..Len(lv) : new[j] = IF j = i THEN level ELSE lv[j]
      BY <3>1, <3>2, ExceptSeq
    <3> QED BY <3>1, <3>3, LenProperties
  <2> HIDE DEF new
  <2>7. i \in DOMAIN lv /\ LevelOK(s, lv[i], heap)
    BY LevelTypes DEF SideOK
  <2>8. LevelOK(s, new[i], heap)
    <3>1. r # <<>>
      BY <2>1, <2>2, EmptySeq
    <3>2. \A l \in DOMAIN r : heap[r[l]].side = s /\ heap[r[l]].price = lv[i].price
      BY <2>2, <2>3, <2>7 DEF LevelOK, q
    <3>3. \A l, m \in DOMAIN r : l < m => r[l] < r[m]
      BY <2>2, <2>3, <2>7 DEF LevelOK, q
    <3> QED BY <2>6, <3>1, <3>2, <3>3 DEF LevelOK
  <2>9. SideOK(s, new, heap)
    BY <2>6, <2>8 DEF SideOK, Sorted
  <2>10. Resting(new) = Resting(lv) \ {gone}
    <3>1. ASSUME NEW id \in Resting(new)
          PROVE  id \in Resting(lv) /\ id # gone
      <4>1. PICK j \in DOMAIN new : \E l \in DOMAIN new[j].orders : id = new[j].orders[l]
        BY RestingIs
      <4>2. PICK l \in DOMAIN new[j].orders : id = new[j].orders[l]
        BY <4>1
      <4>3. CASE j = i
        <5>1. from(l) \in DOMAIN q /\ from(l) # k /\ id = q[from(l)]
          BY <2>2, <2>3, <2>6, <4>2, <4>3
        <5>2. id # gone
          BY <2>1, <5>1, OnePlace DEF q
        <5> QED BY <2>7, <5>1, <5>2, RestingIs DEF q
      <4>4. CASE j # i
        <5>1. j \in DOMAIN lv /\ l \in DOMAIN lv[j].orders /\ id = lv[j].orders[l]
          BY <2>6, <4>2, <4>4
        <5>2. j \in 1..Len(lv) /\ l \in 1..Len(lv[j].orders)
          BY <5>1, LevelTypes
        <5>3. id # gone
          BY <4>4, <5>1, <5>2, OnePlace
        <5> QED BY <5>1, <5>3, RestingIs
      <4> QED BY <4>3, <4>4
    <3>2. ASSUME NEW id \in Resting(lv), id # gone
          PROVE  id \in Resting(new)
      <4>1. PICK m \in DOMAIN lv : \E l \in DOMAIN lv[m].orders : id = lv[m].orders[l]
        BY RestingIs
      <4>2. PICK l \in DOMAIN lv[m].orders : id = lv[m].orders[l]
        BY <4>1
      <4>3. CASE m = i
        <5>1. PICK n \in DOMAIN r : l = from(n)
          BY <2>4, <3>2, <4>2, <4>3 DEF q
        <5>2. id = new[i].orders[n] /\ n \in DOMAIN new[i].orders
          BY <2>2, <2>6, <4>2, <4>3, <5>1 DEF q
        <5> QED BY <2>6, <2>7, <5>2, RestingIs
      <4>4. CASE m # i
        BY <2>6, <4>2, <4>4, RestingIs
      <4> QED BY <4>3, <4>4
    <3> QED BY <3>1, <3>2
  <2> QED BY <2>6, <2>9, <2>10 DEF new
<1> QED BY <1>1, <1>2

\* bookSide.popFront takes the front order out, and nothing else.
LEMMA PopFrontTakes ==
  ASSUME NEW s \in Sides, NEW lv \in Seq(Level), NEW heap, SideOK(s, lv, heap), lv # <<>>
  PROVE  /\ PopFront(lv) \in Seq(Level)
         /\ SideOK(s, PopFront(lv), heap)
         /\ Resting(PopFront(lv)) = Resting(lv) \ {FrontOrder(lv)}
<1>1. Len(lv) \in Nat \ {0} /\ 1 \in DOMAIN lv /\ 1 \in 1..Len(lv)
  BY LevelTypes, EmptySeq
<1>2. lv[1].orders \in Seq(Nat) /\ lv[1].orders # <<>> /\ 1 \in 1..Len(lv[1].orders)
  BY <1>1, LevelTypes, EmptySeq DEF SideOK, LevelOK
<1>3. Tail(lv) = RemoveAt(lv, 1)
  BY <1>1, TailOfRemoveAt
<1>4. Tail(lv[1].orders) = RemoveAt(lv[1].orders, 1)
  BY <1>2, TailOfRemoveAt
<1>5. PopFront(lv) = Without(lv, 1, 1)
  BY <1>3, <1>4 DEF PopFront, Without
<1> QED BY <1>1, <1>2, <1>5, WithoutOne DEF FrontOrder

\* bookSide.remove finds every order that rests on the side ...
LEMMA HoldsResting ==
  ASSUME NEW s \in Sides, NEW lv \in Seq(Level), NEW heap, SideOK(s, lv, heap),
         NEW id \in Resting(lv)
  PROVE  Holds(s, lv, id, heap[id].price)
<1>1. PICK i \in DOMAIN lv : \E k \in DOMAIN lv[i].orders : id = lv[i].orders[k]
  BY RestingIs
<1>2. PICK k \in DOMAIN lv[i].orders : id = lv[i].orders[k]
  BY <1>1
<1>3. heap[id].price = lv[i].price
  BY <1>2 DEF SideOK, LevelOK
<1>4. Locate(s, lv, lv[i].price) = i
  BY LocateIsLevel DEF SideOK
<1>5. i <= Len(lv) /\ k \in 1..Len(lv[i].orders)
  BY LevelTypes
<1> QED BY <1>2, <1>3, <1>4, <1>5 DEF Holds, HasLevel, Contains

\* ... and takes it out, and nothing else.
LEMMA RemoveOrderTakes ==
  ASSUME NEW s \in Sides, NEW lv \in Seq(Level), NEW heap, SideOK(s, lv, heap),
         NEW id \in Resting(lv)
  PROVE  /\ RemoveOrder(s, lv, id, heap[id].price) \in Seq(Level)
         /\ SideOK(s, RemoveOrder(s, lv, id, heap[id].price), heap)
         /\ Resting(RemoveOrder(s, lv, id, heap[id].price)) = Resting(lv) \ {id}
<1>1. PICK i \in DOMAIN lv : \E k \in DOMAIN lv[i].orders : id = lv[i].orders[k]
  BY RestingIs
<1>2. PICK k \in DOMAIN lv[i].orders : id = lv[i].orders[k]
  BY <1>1
<1>3. heap[id].price = lv[i].price
  BY <1>2 DEF SideOK, LevelOK
<1>4. Locate(s, lv, lv[i].price) = i
  BY LocateIsLevel DEF SideOK
<1>5. i \in 1..Len(lv) /\ k \in 1..Len(lv[i].orders) /\ lv[i].orders \in Seq(Nat)
  BY LevelTypes
<1>6. RemoveFirst(lv[i].orders, id) = RemoveAt(lv[i].orders, k)
  <2>1. {l \in 1..Len(lv[i].orders) : lv[i].orders[l] = id} = {k}
    BY <1>2, <1>5, OnePlace
  <2>2. Min({k}) = k
    BY <1>5 DEF Min
  <2> QED BY <1>2, <1>5, <2>1, <2>2 DEF RemoveFirst, SelectInSeq
<1>7. RemoveOrder(s, lv, id, heap[id].price) = Without(lv, i, k)
  BY <1>3, <1>4, <1>6, HoldsResting DEF RemoveOrder, Without
<1> QED BY <1>2, <1>5, <1>7, WithoutOne

\* bookSide.add of an order younger than all others puts it behind those of its
\* price, and in front of all levels of lower priority.
LEMMA AddPuts ==
  ASSUME NEW s \in Sides, NEW lv \in Seq(Level), NEW heap, SideOK(s, lv, heap),
         NEW id \in Nat, NEW price \in Nat, heap[id].side = s, heap[id].price = price,
         \A other \in Resting(lv) : heap[other].price = price => other < id
  PROVE  /\ Add(s, lv, id, price) \in Seq(Level)
         /\ SideOK(s, Add(s, lv, id, price), heap)
         /\ Resting(Add(s, lv, id, price)) = Resting(lv) \cup {id}
<1> DEFINE i == Locate(s, lv, price)
           new == Add(s, lv, id, price)
<1> HIDE DEF i
<1>1. /\ i \in 1..(Len(lv) + 1)
      /\ \A j \in 1..Len(lv) : j < i => Better(s, lv[j].price, price)
      /\ \A j \in 1..Len(lv) : j > i => Better(s, price, lv[j].price)
      /\ i <= Len(lv) => Better(s, price, lv[i].price) \/ lv[i].price = price
  BY LocateFinds DEF SideOK, i
<1>2. Len(lv) \in Nat /\ DOMAIN lv = 1..Len(lv)
  BY LevelTypes
<1>3. CASE HasLevel(s, lv, price)
  <2> DEFINE q == lv[i].orders
             r == Append(q, id)
             level == [lv[i] EXCEPT !.orders = r]
  <2>1. i \in 1..Len(lv) /\ lv[i].price = price
    BY <1>1, <1>3 DEF HasLevel, i
  <2>2. q \in Seq(Nat) /\ Len(q) \in Nat /\ DOMAIN q = 1..Len(q)
    BY <2>1, LevelTypes
  <2>3. /\ r \in Seq(Nat) /\ r # <<>> /\ Len(r) = Len(q) + 1 /\ DOMAIN r = 1..(Len(q) + 1)
        /\ \A k \in DOMAIN q : r[k] = q[k]
        /\ r[Len(q) + 1] = id
    <3> HIDE DEF q
    <3>1. /\ r \in Seq(Nat) /\ Len(r) = Len(q) + 1 /\ r[Len(q) + 1] = id
          /\ \A k \in 1..Len(q) : r[k] = q[k]
      BY <2>2, AppendProperties
    <3> HIDE DEF r
    <3>2. DOMAIN r = 1..(Len(q) + 1) /\ Len(r) # 0
      BY <2>2, <3>1, LenProperties
    <3> QED BY <2>2, <3>1, <3>2, EmptySeq
  <2> HIDE DEF q, r
  <2>4. level \in Level /\ level.orders = r /\ level.price = price
    <3>1. lv[i] \in Level
      BY <2>1, LevelTypes
    <3> QED BY <2>1, <2>3, <3>1 DEF Level
  <2> HIDE DEF level
  <2>5. /\ new \in Seq(Level) /\ DOMAIN new = DOMAIN lv
        /\ new[i] = level /\ \A j \in DOMAIN lv : j # i => new[j] = lv[j]
    <3>1. new = [lv EXCEPT ![i] = level]
      BY <1>3 DEF Add, i, level, r, q
    <3> HIDE DEF new
    <3>2. /\ new \in Seq(Level) /\ Len(new) = Len(lv)
          /\ \A j \in 1..Len(lv) : new[j] = IF j = i THEN level ELSE lv[j]
      BY <2>1, <2>4, <3>1, ExceptSeq
    <3> QED BY <1>2, <2>1, <3>2, LenProperties
  <2> HIDE DEF new
  <2>6. i \in DOMAIN lv /\ LevelOK(s, lv[i], heap)
    BY <1>2, <2>1 DEF SideOK
  <2>7. LevelOK(s, level, heap)
    <3>1. \A k \in DOMAIN q : q[k] \in Resting(lv)
      BY <2>6, RestingIs DEF q
    <3>2. \A k \in DOMAIN r : heap[r[k]].side = s /\ heap[r[k]].price = price
      <4> TAKE k \in DOMAIN r
      <4>1. CASE k = Len(q) + 1
        BY <2>3, <4>1
      <4>2. CASE k # Len(q) + 1
        <5>1. k \in DOMAIN q
          BY <2>2, <2>3, <4>2
        <5> QED BY <2>1, <2>3, <2>6, <5>1 DEF LevelOK, q
      <4> QED BY <4>1, <4>2
    <3>3. \A k, l \in DOMAIN r : k < l => r[k] < r[l]
      <4> SUFFICES ASSUME NEW k \in DOMAIN r, NEW l \in DOMAIN r, k < l
                   PROVE  r[k] < r[l]
        OBVIOUS
      <4>1. k \in DOMAIN q
        BY <2>2, <2>3
      <4>2. CASE l = Len(q) + 1
        <5>1. r[k] \in Resting(lv) /\ heap[r[k]].price = price
          BY <2>3, <3>1, <3>2, <4>1
        <5> QED BY <2>3, <4>2, <5>1
      <4>3. CASE l # Len(q) + 1
        <5>1. l \in DOMAIN q
          BY <2>2, <2>3, <4>3
        <5> QED BY <2>3, <2>6, <4>1, <5>1 DEF LevelOK, q
      <4> QED BY <4>2, <4>3
    <3> QED BY <2>3, <2>4, <3>2, <3>3 DEF LevelOK
  <2>8. SideOK(s, new, heap)
    BY <2>1, <2>4, <2>5, <2>7 DEF SideOK, Sorted
  <2>9. Resting(new) = Resting(lv) \cup {id}
    <3>1. ASSUME NEW x \in Resting(new)
          PROVE  x \in Resting(lv) \cup {id}
      <4>1. PICK j \in DOMAIN new : \E k \in DOMAIN new[j].orders : x = new[j].orders[k]
        BY RestingIs
      <4>2. CASE j # i
        BY <2>5, <4>1, <4>2, RestingIs
      <4>3. CASE j = i
        <5>1. PICK k \in DOMAIN r : x = r[k]
          BY <2>4, <2>5, <4>1, <4>3
        <5>2. CASE k = Len(q) + 1
          BY <2>3, <5>1, <5>2
        <5>3. CASE k # Len(q) + 1
          <6>1. k \in DOMAIN q /\ x = q[k]
            BY <2>2, <2>3, <5>1, <5>3
          <6> QED BY <2>6, <6>1, RestingIs DEF q
        <5> QED BY <5>2, <5>3
      <4> QED BY <4>2, <4>3
    <3>2. ASSUME NEW x \in Resting(lv)
          PROVE  x \in Resting(new)
      <4>1. PICK j \in DOMAIN lv : \E k \in DOMAIN lv[j].orders : x = lv[j].orders[k]
        BY RestingIs
      <4>2. CASE j # i
        BY <2>5, <4>1, <4>2, RestingIs
      <4>3. CASE j = i
        <5>1. PICK k \in DOMAIN q : x = q[k]
          BY <4>1, <4>3 DEF q
        <5>2. k \in DOMAIN r /\ x = r[k]
          BY <2>2, <2>3, <5>1
        <5> QED BY <2>4, <2>5, <2>6, <5>2, RestingIs
      <4> QED BY <4>2, <4>3
    <3>3. id \in Resting(new)
      <4>1. Len(q) + 1 \in DOMAIN r
        BY <2>2, <2>3
      <4> QED BY <2>3, <2>4, <2>5, <2>6, <4>1, RestingIs
    <3> QED BY <3>1, <3>2, <3>3
  <2> QED BY <2>5, <2>8, <2>9 DEF new
<1>4. CASE ~HasLevel(s, lv, price)
  <2> DEFINE level == [price |-> price, orders |-> <<id>>]
  <2>1. level \in Level /\ level.orders = <<id>> /\ level.price = price
    BY DEF Level
  <2>2. /\ new \in Seq(Level) /\ DOMAIN new = 1..(Len(lv) + 1)
        /\ \A j \in DOMAIN new : new[j] = IF j < i THEN lv[j] ELSE IF j = i THEN level ELSE lv[j - 1]
    <3>1. new = InsertAt(lv, i, level)
      BY <1>4 DEF Add, i
    <3> HIDE DEF new, level
    <3>2. /\ InsertAt(lv, i, level) \in Seq(Level) /\ Len(InsertAt(lv, i, level)) = Len(lv) + 1
          /\ \A j \in 1..(Len(lv) + 1) :
               InsertAt(lv, i, level)[j] =
                 IF j < i THEN lv[j] ELSE IF j = i THEN level ELSE lv[j - 1]
      BY <1>1, <2>1, InsertAtPoints
    <3> QED BY <3>1, <3>2, LenProperties
  <2> HIDE DEF level, new
  <2>3. i <= Len(lv) => Better(s, price, lv[i].price)
    BY <1>1, <1>4 DEF HasLevel, i
  <2>4. /\ i \in DOMAIN new /\ new[i] = level
        /\ \A j \in DOMAIN new : j < i => j \in DOMAIN lv /\ new[j] = lv[j]
        /\ \A j \in DOMAIN new : j > i => j - 1 \in DOMAIN lv /\ new[j] = lv[j - 1]
    BY <1>1, <1>2, <2>2
  <2>5. \A j \in DOMAIN new : LevelOK(s, new[j], heap)
    <3>1. LevelOK(s, level, heap)
      <4>1. DOMAIN <<id>> = {1} /\ <<id>>[1] = id /\ <<id>> # <<>>
        OBVIOUS
      <4> QED BY <2>1, <4>1 DEF LevelOK
    <3> QED BY <1>1, <2>2, <2>4, <3>1 DEF SideOK
  <2>6. Sorted(s, new)
    <3> SUFFICES ASSUME NEW j \in DOMAIN new, NEW l \in DOMAIN new, j < l
                 PROVE  Better(s, new[j].price, new[l].price)
      BY DEF Sorted
    <3>1. CASE l < i
      BY <1>2, <2>2, <2>4, <3>1 DEF SideOK, Sorted
    <3>2. CASE l = i
      BY <1>1, <1>2, <2>1, <2>2, <2>4, <3>2
    <3>3. CASE l > i /\ j = i
      <4>1. CASE l - 1 = i
        BY <1>2, <2>1, <2>2, <2>3, <2>4, <3>3, <4>1
      <4>2. CASE l - 1 # i
        BY <1>1, <1>2, <2>1, <2>2, <2>4, <3>3, <4>2
      <4> QED BY <4>1, <4>2
    <3>4. CASE l > i /\ j < i
      <4>1. CASE l - 1 = j
        BY <1>1, <2>2, <3>4, <4>1
      <4>2. CASE l - 1 # j
        <5>1. j < l - 1 /\ j \in DOMAIN lv /\ l - 1 \in DOMAIN lv
          BY <1>1, <2>2, <2>4, <3>4, <4>2
        <5> QED BY <2>4, <3>4, <5>1 DEF SideOK, Sorted
      <4> QED BY <4>1, <4>2
    <3>5. CASE l > i /\ j > i
      <4>1. j - 1 < l - 1 /\ j - 1 \in DOMAIN lv /\ l - 1 \in DOMAIN lv
        BY <1>1, <2>2, <2>4, <3>5
      <4> QED BY <2>4, <3>5, <4>1 DEF SideOK, Sorted
    <3> QED BY <1>1, <2>2, <3>1, <3>2, <3>3, <3>4, <3>5
  <2>7. Resting(new) = Resting(lv) \cup {id}
    <3>1. ASSUME NEW x \in Resting(new)
          PROVE  x \in Resting(lv) \cup {id}
      <4>1. PICK j \in DOMAIN new : \E k \in DOMAIN new[j].orders : x = new[j].orders[k]
        BY RestingIs
      <4>2. CASE j = i
        <5>1. DOMAIN <<id>> = {1} /\ <<id>>[1] = id
          OBVIOUS
        <5> QED BY <2>1, <2>4, <4>1, <4>2, <5>1
      <4>3. CASE j < i
        BY <2>4, <4>1, <4>3, RestingIs
      <4>4. CASE j > i
        BY <2>4, <4>1, <4>4, RestingIs
      <4> QED BY <1>1, <2>2, <4>2, <4>3, <4>4
    <3>2. ASSUME NEW x \in Resting(lv)
          PROVE  x \in Resting(new)
      <4>1. PICK j \in DOMAIN lv : \E k \in DOMAIN lv[j].orders : x = lv[j].orders[k]
        BY RestingIs
      <4>2. CASE j < i
        <5>1. j \in DOMAIN new
          BY <1>2, <2>2
        <5> QED BY <2>4, <4>1, <4>2, <5>1, RestingIs
      <4>3. CASE j >= i
        <5>1. j + 1 \in DOMAIN new /\ j + 1 > i /\ (j + 1) - 1 = j
          BY <1>1, <1>2, <2>2, <4>3
        <5>2. new[j + 1] = lv[j]
          BY <2>4, <5>1
        <5> QED BY <4>1, <5>1, <5>2, RestingIs
      <4> QED BY <1>1, <1>2, <4>2, <4>3
    <3>3. id \in Resting(new)
      <4>1. 1 \in DOMAIN <<id>> /\ <<id>>[1] = id
        OBVIOUS
      <4> QED BY <2>1, <2>4, <4>1, RestingIs
    <3> QED BY <3>1, <3>2, <3>3
  <2> QED BY <2>2, <2>5, <2>6, <2>7 DEF SideOK, new
<1> QED BY <1>3, <1>4

-----------------------------------------------------------------------------
(***************************************************************************)
(* The inductive invariant.                                                *)
(***************************************************************************)

SidesOK == \A s \in Sides : SideOK(s, levels[s], order)

IndexOK == index = Resting(levels["buy"]) \cup Resting(levels["sell"])

\* The book is never crossed: the taker is not in it while it is matched.
Uncrossed ==
  \A b \in Resting(levels["buy"]), a \in Resting(levels["sell"]) :
    order[b].price < order[a].price

\* The order being matched is the one received last.
TakerOK == taker # NoOrder => taker = nextSeq - 1

IInv == TypeOK /\ SidesOK /\ IndexOK /\ OnlyOpenOrdersRest /\ Uncrossed /\ TakerOK

LEMMA IndexIs ==
  ASSUME TypeOK, IndexOK
  PROVE  /\ \A s \in Sides : levels[s] \in Seq(Level) /\ Resting(levels[s]) \subseteq index
         /\ \A id \in index :
              /\ id \in DOMAIN order /\ id \in 1..(nextSeq - 1) /\ order[id] \in OrderType
              /\ order[id].filled <= order[id].qty
         /\ \A id \in index : \E s \in Sides : id \in Resting(levels[s])
         /\ nextSeq \in Nat \ {0} /\ nextSeq \notin index /\ NoOrder \notin index
BY NoOrderAssumption DEF TypeOK, IndexOK, Sides

LEMMA InvImpliesBookConsistent == IInv => BookConsistent
<1> SUFFICES ASSUME IInv PROVE BookConsistent
  OBVIOUS
<1>1. BookWellFormed
  BY DEF IInv, SidesOK, SideOK, Sorted, LevelOK, BookWellFormed
<1>2. IndexCoversBook
  <2> SUFFICES ASSUME NEW s \in Sides, NEW t \in Sides,
                      NEW i \in DOMAIN levels[s], NEW j \in DOMAIN levels[t],
                      NEW k \in DOMAIN levels[s][i].orders, NEW l \in DOMAIN levels[t][j].orders,
                      levels[s][i].orders[k] = levels[t][j].orders[l]
               PROVE  s = t /\ i = j /\ k = l
    BY DEF IInv, IndexOK, IndexCoversBook
  <2>1. s = t
    <3>1. order[levels[s][i].orders[k]].side = s
      BY DEF IInv, SidesOK, SideOK, LevelOK
    <3>2. order[levels[t][j].orders[l]].side = t
      BY DEF IInv, SidesOK, SideOK, LevelOK
    <3> QED BY <3>1, <3>2
  <2>2. levels[s] \in Seq(Level) /\ SideOK(s, levels[s], order)
    BY DEF IInv, TypeOK, SidesOK
  <2>3. /\ i \in 1..Len(levels[s]) /\ j \in 1..Len(levels[s])
        /\ k \in 1..Len(levels[s][i].orders) /\ l \in 1..Len(levels[s][j].orders)
    BY <2>1, <2>2, LevelTypes
  <2>4. i = j /\ k = l
    BY <2>1, <2>2, <2>3, OnePlace
  <2> QED BY <2>1, <2>4
<1> QED BY <1>1, <1>2 DEF IInv, BookConsistent, Uncrossed, NotCrossed

\* A step that leaves the book as it is, and its orders but for what is filled of
\* them and their status.
LEMMA SameBook ==
  ASSUME IInv, UNCHANGED <<levels, index>>,
         \A id \in index : /\ order'[id].side = order[id].side
                           /\ order'[id].price = order[id].price
  PROVE  SidesOK' /\ IndexOK' /\ Uncrossed'
<1>1. ASSUME NEW s \in Sides
      PROVE  SideOK(s, levels'[s], order')
  <2>1. /\ levels[s] \in Seq(Level) /\ SideOK(s, levels[s], order)
        /\ \A id \in Resting(levels[s]) : /\ order'[id].side = order[id].side
                                          /\ order'[id].price = order[id].price
    BY IndexIs DEF IInv, SidesOK
  <2> QED BY <2>1, RestingOf
<1>2. Uncrossed'
  BY IndexIs DEF IInv, Uncrossed, Sides
<1> QED BY <1>1, <1>2 DEF IInv, SidesOK, IndexOK

\* A step that takes one order out of the book.
LEMMA OneTakenOut ==
  ASSUME IInv, NEW s \in Sides, NEW id \in Resting(levels[s]), NEW new \in Seq(Level),
         SideOK(s, new, order), Resting(new) = Resting(levels[s]) \ {id},
         levels' = [levels EXCEPT ![s] = new], index' = index \ {id},
         \A other \in index \ {id} : /\ order'[other].side = order[other].side
                                     /\ order'[other].price = order[other].price
  PROVE  levels' \in [Sides -> Seq(Level)] /\ SidesOK' /\ IndexOK' /\ Uncrossed'
<1>1. levels \in [Sides -> Seq(Level)] /\ levels' \in [Sides -> Seq(Level)]
  BY DEF IInv, TypeOK
<1>2. \A t \in Sides : SideOK(t, levels[t], order)
  BY DEF IInv, SidesOK
<1>3. \A t \in Sides : Resting(levels'[t]) = Resting(levels[t]) \ {id}
  <2> TAKE t \in Sides
  <2>1. CASE t = s
    BY <1>1, <2>1
  <2>2. CASE t # s
    <3>1. levels'[t] = levels[t]
      BY <1>1, <2>2
    <3>2. order[id].side = s /\ \A x \in Resting(levels[t]) : order[x].side = t
      BY <1>1, <1>2, RestingOf
    <3> QED BY <2>2, <3>1, <3>2
  <2> QED BY <2>1, <2>2
<1>4. ASSUME NEW t \in Sides
      PROVE  SideOK(t, levels'[t], order')
  <2>1. levels'[t] \in Seq(Level) /\ SideOK(t, levels'[t], order)
    BY <1>1, <1>2
  <2>2. \A x \in Resting(levels'[t]) : x \in index \ {id}
    BY <1>3, IndexIs DEF IInv
  <2> QED BY <2>1, <2>2, RestingOf
<1>5. IndexOK'
  BY <1>3 DEF IInv, IndexOK, Sides
<1>6. Uncrossed'
  <2> SUFFICES ASSUME NEW b \in Resting(levels'["buy"]), NEW a \in Resting(levels'["sell"])
               PROVE  order'[b].price < order'[a].price
    BY DEF Uncrossed
  <2>1. b \in Resting(levels["buy"]) /\ a \in Resting(levels["sell"]) /\ b # id /\ a # id
    BY <1>3 DEF Sides
  <2>2. b \in index \ {id} /\ a \in index \ {id}
    BY <2>1, IndexIs DEF IInv, Sides
  <2> QED BY <2>1, <2>2 DEF IInv, Uncrossed
<1> QED BY <1>1, <1>4, <1>5, <1>6 DEF SidesOK

-----------------------------------------------------------------------------
(***************************************************************************)
(* One lemma for each step of the engine.                                  *)
(***************************************************************************)

LEMMA ReceiveKeeps ==
  ASSUME IInv, NEW r \in Requests, NEW status \in {"new", "rejected"}, Receive(r, status)
  PROVE  /\ nextSeq' \in Nat \ {0} /\ tradeSeq' \in Nat
         /\ DOMAIN order' = index \cup {nextSeq} /\ DOMAIN order' \subseteq 1..(nextSeq' - 1)
         /\ order'[nextSeq] = NewOrder(r, status) /\ NewOrder(r, status) \in OrderType
         /\ \A id \in index : order'[id] = order[id]
         /\ \A i \in DOMAIN order' : order'[i] \in OrderType /\ order'[i].filled <= order'[i].qty
         /\ SidesOK' /\ IndexOK' /\ OnlyOpenOrdersRest' /\ Uncrossed'
<1>1. nextSeq \in Nat \ {0} /\ nextSeq \notin index /\ nextSeq' = nextSeq + 1
  BY IndexIs DEF IInv, Receive
<1>2. r \in RequestType
  BY RequestsAssumption
<1>3. NewOrder(r, status) \in OrderType /\ NewOrder(r, status).filled <= NewOrder(r, status).qty
  BY <1>2 DEF NewOrder, RequestType, OrderType
<1>4. /\ DOMAIN order' = index \cup {nextSeq}
      /\ order'[nextSeq] = NewOrder(r, status)
      /\ \A id \in index : order'[id] = order[id]
  BY <1>1 DEF Receive
<1>5. \A id \in index : id \in 1..(nextSeq - 1) /\ order[id] \in OrderType
                        /\ order[id].filled <= order[id].qty
  BY IndexIs DEF IInv
<1>6. DOMAIN order' \subseteq 1..(nextSeq' - 1)
  BY <1>1, <1>4, <1>5
<1>7. \A i \in DOMAIN order' : order'[i] \in OrderType /\ order'[i].filled <= order'[i].qty
  BY <1>3, <1>4, <1>5
<1>8. SidesOK' /\ IndexOK' /\ Uncrossed'
  BY <1>4, SameBook DEF Receive
<1>9. OnlyOpenOrdersRest'
  BY <1>4 DEF IInv, OnlyOpenOrdersRest, Receive, Remaining, WithStatus, Immediate
<1> QED BY <1>1, <1>3, <1>4, <1>6, <1>7, <1>8, <1>9 DEF IInv, TypeOK, Receive

LEMMA RejectInv ==
  ASSUME IInv, NEW r \in Requests, Reject(r)
  PROVE  IInv'
<1>1. Receive(r, "rejected") /\ taker' = NoOrder
  BY DEF Reject, Receive
<1>2. levels' \in [Sides -> Seq(Level)] /\ index' = index
  BY <1>1 DEF IInv, TypeOK, Receive
<1> QED BY <1>1, <1>2, ReceiveKeeps DEF IInv, TypeOK, TakerOK

LEMMA BeginInv ==
  ASSUME IInv, NEW r \in Requests, Begin(r)
  PROVE  IInv'
<1>1. Receive(r, "new") /\ taker' = nextSeq
  BY DEF Begin
<1>2. levels' \in [Sides -> Seq(Level)] /\ index' = index /\ nextSeq' = nextSeq + 1
  BY <1>1 DEF IInv, TypeOK, Receive
<1>3. nextSeq \in Nat \ {0} /\ nextSeq \notin index
  BY IndexIs DEF IInv
<1>4. taker' \in (DOMAIN order' \ index') /\ taker' = nextSeq' - 1
  BY <1>1, <1>2, <1>3, ReceiveKeeps
<1> QED BY <1>1, <1>2, <1>4, ReceiveKeeps DEF IInv, TypeOK, TakerOK

\* What the loop works with: the taker is not in the book, and the maker is the
\* front of the other side.
LEMMA MakerIs ==
  ASSUME IInv, Matching
  PROVE  LET s == Opposite(order[taker].side)
         IN  /\ s \in Sides /\ levels[s] \in Seq(Level) /\ SideOK(s, levels[s], order)
             /\ levels[s] # <<>> /\ Maker = FrontOrder(levels[s])
             /\ Maker \in Resting(levels[s]) /\ Maker \in index /\ Maker # taker
             /\ taker \in DOMAIN order /\ taker \notin index
             /\ order[taker] \in OrderType /\ order[Maker] \in OrderType
             /\ order[taker].side # s /\ order[Maker].side = s
             /\ Remaining(order[taker]) \in Nat \ {0} /\ Remaining(order[Maker]) \in Nat \ {0}
<1> DEFINE s == Opposite(order[taker].side)
<1>1. /\ taker \in DOMAIN order /\ taker \notin index /\ order[taker] \in OrderType
      /\ order[taker].filled <= order[taker].qty
  BY DEF Matching, IInv, TypeOK
<1>2. s \in Sides /\ order[taker].side # s
  BY <1>1 DEF Opposite, Sides, OrderType
<1>3. levels[s] \in Seq(Level) /\ SideOK(s, levels[s], order)
  BY <1>2 DEF IInv, TypeOK, SidesOK
<1>4. levels[s] # <<>> /\ Maker = FrontOrder(levels[s])
  BY DEF Matching, Maker, FrontOrder
<1>5. Maker \in Resting(levels[s])
  BY <1>2, <1>3, <1>4, FrontIsFirst
<1>6. Maker \in index /\ order[Maker] \in OrderType /\ order[Maker].filled <= order[Maker].qty
  BY <1>2, <1>5, IndexIs DEF IInv
<1>7. order[Maker].side = s
  BY <1>2, <1>3, <1>5, RestingOf
<1>8. Remaining(order[taker]) \in Nat \ {0}
  BY <1>1 DEF Matching, Remaining, OrderType
<1>9. Remaining(order[Maker]) \in Nat \ {0}
  BY <1>6 DEF IInv, OnlyOpenOrdersRest, Remaining, OrderType
<1> QED BY <1>1, <1>2, <1>3, <1>4, <1>5, <1>6, <1>7, <1>8, <1>9

\* popFront in the middle of a call, whatever it does to the two orders.
LEMMA PopMakerKeeps ==
  ASSUME IInv, Matching, PopMaker,
         \A id \in index \ {Maker} : order'[id].side = order[id].side
                                     /\ order'[id].price = order[id].price
  PROVE  levels' \in [Sides -> Seq(Level)] /\ SidesOK' /\ IndexOK' /\ Uncrossed'
<1> DEFINE s == Opposite(order[taker].side)
           new == PopFront(levels[s])
<1>1. /\ s \in Sides /\ levels[s] \in Seq(Level) /\ SideOK(s, levels[s], order)
      /\ levels[s] # <<>> /\ Maker = FrontOrder(levels[s]) /\ Maker \in Resting(levels[s])
  BY MakerIs
<1>2. /\ new \in Seq(Level) /\ SideOK(s, new, order)
      /\ Resting(new) = Resting(levels[s]) \ {Maker}
  BY <1>1, PopFrontTakes
<1>3. levels' = [levels EXCEPT ![s] = new] /\ index' = index \ {Maker}
  BY DEF PopMaker
<1> HIDE DEF s, new
<1> QED BY <1>1, <1>2, <1>3, OneTakenOut

LEMMA CancelOwnMakerInv ==
  ASSUME IInv, CancelOwnMaker
  PROVE  IInv'
<1>1. /\ Matching /\ PopMaker /\ order' = [order EXCEPT ![Maker].status = "canceled"]
      /\ UNCHANGED <<tradeSeq, nextSeq, taker>>
  BY DEF CancelOwnMaker
<1>2. /\ Maker \in index /\ Maker # taker /\ order[Maker] \in OrderType
      /\ taker \in DOMAIN order /\ taker \notin index /\ index \subseteq DOMAIN order
  BY <1>1, MakerIs DEF IInv, TypeOK
<1>3. /\ DOMAIN order' = DOMAIN order
      /\ \A id \in DOMAIN order \ {Maker} : order'[id] = order[id]
      /\ order'[Maker] \in OrderType /\ order'[Maker].filled = order[Maker].filled
      /\ order'[Maker].qty = order[Maker].qty
  BY <1>1, <1>2 DEF OrderType
<1>4. levels' \in [Sides -> Seq(Level)] /\ SidesOK' /\ IndexOK' /\ Uncrossed'
  BY <1>1, <1>2, <1>3, PopMakerKeeps
<1>5. index' = index \ {Maker}
  BY <1>1 DEF PopMaker
<1>6. TypeOK'
  BY <1>1, <1>2, <1>3, <1>4, <1>5 DEF IInv, TypeOK
<1>7. OnlyOpenOrdersRest'
  BY <1>2, <1>3, <1>5 DEF IInv, OnlyOpenOrdersRest, Remaining, WithStatus, Immediate
<1> QED BY <1>1, <1>4, <1>6, <1>7 DEF IInv, TakerOK

\* A trade is for all that one side still wants, and neither side gets more than
\* it wants.
LEMMA TradeQtyIs ==
  ASSUME NEW t, NEW m, Remaining(t) \in Nat \ {0}, Remaining(m) \in Nat \ {0}
  PROVE  /\ TradeQty(t, m) \in Nat \ {0}
         /\ TradeQty(t, m) <= Remaining(t) /\ TradeQty(t, m) <= Remaining(m)
         /\ TradeQty(t, m) \in {Remaining(t), Remaining(m)}
<1> DEFINE S == {Remaining(t), Remaining(m)}
<1>1. S \in SUBSET Nat /\ S # {} /\ \A n \in S : n \in Nat \ {0}
  OBVIOUS
<1>2. Min(S) \in S /\ \A n \in S : Min(S) <= n
  BY <1>1, MinOfNat
<1> QED BY <1>1, <1>2 DEF TradeQty

\* An order that has executed a quantity.
Executed(o, qty) == WithStatus([o EXCEPT !.filled = @ + qty])

LEMMA ExecutedIs ==
  ASSUME NEW o \in OrderType, NEW qty \in Nat \ {0}, Remaining(o) \in Nat, qty <= Remaining(o)
  PROVE  /\ Executed(o, qty) \in OrderType
         /\ Executed(o, qty).filled = o.filled + qty
         /\ Executed(o, qty).filled <= Executed(o, qty).qty
         /\ Remaining(Executed(o, qty)) = Remaining(o) - qty
         /\ Executed(o, qty).status = WithStatus(Executed(o, qty)).status
         /\ \A f \in {"account", "side", "type", "tif", "price", "qty"} :
              Executed(o, qty)[f] = o[f]
<1> DEFINE x == [o EXCEPT !.filled = @ + qty]
<1>1. x \in OrderType /\ x.filled = o.filled + qty /\ x.qty = o.qty
  BY DEF OrderType
<1>2. \A f \in {"account", "side", "type", "tif", "price", "qty"} : x[f] = o[f]
  BY DEF OrderType
<1> HIDE DEF x
<1>3. Executed(o, qty) = WithStatus(x)
  BY DEF Executed, x
<1>4. /\ WithStatus(x) \in OrderType /\ WithStatus(x).filled = x.filled /\ WithStatus(x).qty = x.qty
      /\ \A f \in {"account", "side", "type", "tif", "price", "qty"} : WithStatus(x)[f] = x[f]
  BY <1>1 DEF WithStatus, OrderType
<1>5. WithStatus(x).status = WithStatus(WithStatus(x)).status
  BY <1>1 DEF WithStatus, OrderType, Remaining
<1>6. Remaining(WithStatus(x)) = Remaining(o) - qty /\ x.filled <= x.qty
  BY <1>1, <1>4 DEF Remaining, OrderType
<1> QED BY <1>1, <1>2, <1>3, <1>4, <1>5, <1>6

\* What a trade does to the two orders.
LEMMA TradeIs ==
  ASSUME IInv, Trade
  PROVE  LET qty == TradeQty(order[taker], order[Maker])
             t == Executed(order[taker], qty)
             m == Executed(order[Maker], qty)
         IN  /\ qty \in Nat \ {0}
             /\ qty <= Remaining(order[taker]) /\ qty <= Remaining(order[Maker])
             /\ t \in OrderType /\ m \in OrderType /\ t.filled <= t.qty /\ m.filled <= m.qty
             /\ DOMAIN order' = DOMAIN order
             /\ order'[taker] = t /\ order'[Maker] = m
             /\ \A id \in DOMAIN order \ {taker, Maker} : order'[id] = order[id]
             /\ IF Remaining(m) = 0 THEN PopMaker ELSE UNCHANGED <<levels, index>>
             /\ UNCHANGED <<nextSeq, taker>>
<1> DEFINE qty == TradeQty(order[taker], order[Maker])
           t == Executed(order[taker], qty)
           m == Executed(order[Maker], qty)
<1>1. Matching
  BY DEF Trade
<1>2. /\ Maker \in index /\ Maker # taker /\ taker \in DOMAIN order /\ index \subseteq DOMAIN order
      /\ order[taker] \in OrderType /\ order[Maker] \in OrderType
      /\ Remaining(order[taker]) \in Nat \ {0} /\ Remaining(order[Maker]) \in Nat \ {0}
  BY <1>1, MakerIs DEF IInv, TypeOK
<1>3. /\ qty \in Nat \ {0}
      /\ qty <= Remaining(order[taker]) /\ qty <= Remaining(order[Maker])
  BY <1>2, TradeQtyIs
<1>4. /\ order' = [order EXCEPT ![taker] = t, ![Maker] = m]
      /\ IF Remaining(m) = 0 THEN PopMaker ELSE UNCHANGED <<levels, index>>
      /\ UNCHANGED <<nextSeq, taker>>
  BY DEF Trade, Executed
<1> HIDE DEF qty
<1>5. t \in OrderType /\ m \in OrderType /\ t.filled <= t.qty /\ m.filled <= m.qty
  BY <1>2, <1>3, ExecutedIs
<1> HIDE DEF t, m
<1>6. /\ DOMAIN order' = DOMAIN order
      /\ order'[taker] = t /\ order'[Maker] = m
      /\ \A id \in DOMAIN order \ {taker, Maker} : order'[id] = order[id]
  BY <1>2, <1>4
<1> QED BY <1>3, <1>4, <1>5, <1>6 DEF qty, t, m

LEMMA TradeInv ==
  ASSUME IInv, Trade
  PROVE  IInv'
<1> DEFINE qty == TradeQty(order[taker], order[Maker])
           m == Executed(order[Maker], qty)
<1>1. Matching /\ tradeSeq' = tradeSeq + 1
  BY DEF Trade
<1>2. /\ Maker \in index /\ Maker # taker /\ taker \in DOMAIN order /\ taker \notin index
      /\ index \subseteq DOMAIN order /\ order[Maker] \in OrderType
      /\ Remaining(order[Maker]) \in Nat \ {0}
  BY <1>1, MakerIs DEF IInv, TypeOK
<1>3. /\ qty \in Nat \ {0} /\ qty <= Remaining(order[Maker])
      /\ DOMAIN order' = DOMAIN order /\ order'[Maker] = m
      /\ \A id \in DOMAIN order : order'[id] \in OrderType /\ order'[id].filled <= order'[id].qty
      /\ \A id \in index \ {Maker} : order'[id] = order[id]
      /\ IF Remaining(m) = 0 THEN PopMaker ELSE UNCHANGED <<levels, index>>
      /\ UNCHANGED <<nextSeq, taker>>
  <2>1. \A id \in DOMAIN order : order[id] \in OrderType /\ order[id].filled <= order[id].qty
    BY DEF IInv, TypeOK
  <2> QED BY <1>2, <2>1, TradeIs
<1> HIDE DEF qty
<1>4. /\ Remaining(m) = Remaining(order[Maker]) - qty
      /\ m.status = WithStatus(m).status
      /\ \A f \in {"account", "side", "type", "tif", "price", "qty"} : m[f] = order[Maker][f]
  BY <1>2, <1>3, ExecutedIs
<1> HIDE DEF m
<1>5. \A id \in index : order'[id].side = order[id].side /\ order'[id].price = order[id].price
  BY <1>3, <1>4
<1>6. levels' \in [Sides -> Seq(Level)] /\ SidesOK' /\ IndexOK' /\ Uncrossed'
  <2>1. CASE Remaining(m) = 0
    BY <1>1, <1>3, <1>5, <2>1, PopMakerKeeps
  <2>2. CASE Remaining(m) # 0
    BY <1>3, <1>5, <2>2, SameBook DEF IInv, TypeOK
  <2> QED BY <2>1, <2>2
<1>7. index' \subseteq index /\ (Maker \in index' => Remaining(m) # 0)
  BY <1>3 DEF PopMaker
<1>8. TypeOK'
  BY <1>1, <1>2, <1>3, <1>6, <1>7 DEF IInv, TypeOK
<1>9. OnlyOpenOrdersRest'
  <2> SUFFICES ASSUME NEW id \in index'
               PROVE  /\ Remaining(order'[id]) > 0
                      /\ order'[id].status = WithStatus(order'[id]).status
                      /\ ~Immediate(order'[id])
    BY DEF OnlyOpenOrdersRest, Remaining, WithStatus, Immediate
  <2>1. CASE id = Maker
    <3>1. Remaining(m) > 0
      BY <1>2, <1>3, <1>4, <1>7, <2>1
    <3>2. ~Immediate(m)
      BY <1>2, <1>4 DEF IInv, OnlyOpenOrdersRest, Immediate
    <3> QED BY <1>3, <1>4, <2>1, <3>1, <3>2
  <2>2. CASE id # Maker
    BY <1>3, <1>7, <2>2 DEF IInv, OnlyOpenOrdersRest
  <2> QED BY <2>1, <2>2
<1> QED BY <1>3, <1>6, <1>8, <1>9 DEF IInv, TakerOK

\* When the loop has ended, nothing in the book can be traded with any more.
LEMMA LoopEnded ==
  ASSUME IInv, taker # NoOrder, ~Matching, Remaining(order[taker]) > 0
  PROVE  LET s == Opposite(order[taker].side)
         IN  \A id \in Resting(levels[s]) : ~Crosses(order[taker], order[id].price)
<1> DEFINE s == Opposite(order[taker].side)
<1>1. taker \in DOMAIN order /\ order[taker] \in OrderType
  BY DEF IInv, TypeOK
<1>2. s \in Sides /\ levels[s] \in Seq(Level) /\ SideOK(s, levels[s], order)
  BY <1>1 DEF Opposite, Sides, OrderType, IInv, TypeOK, SidesOK
<1>3. ASSUME NEW id \in Resting(levels[s])
      PROVE  ~Crosses(order[taker], order[id].price)
  <2>1. levels[s] # <<>>
    BY <1>3 DEF Resting
  <2>2. /\ Maker = FrontOrder(levels[s]) /\ Maker \in Resting(levels[s])
        /\ Better(s, order[Maker].price, order[id].price) \/ order[Maker].price = order[id].price
    BY <1>2, <2>1, FrontIsFirst DEF Maker
  <2>3. ~Crosses(order[taker], order[Maker].price)
    <3>1. Maker # NoOrder
      BY <1>2, <2>2, IndexIs DEF IInv
    <3> QED BY <3>1 DEF Matching
  <2>4. order[Maker].price \in Nat /\ order[id].price \in Nat
    BY <1>2, <2>2, RestingOf
  <2>5. order[taker].price \in Nat /\ order[taker].side \in Sides
    BY <1>1 DEF OrderType
  <2> QED BY <2>2, <2>3, <2>4, <2>5 DEF Crosses, Better, Opposite, Sides
<1> QED BY <1>3

LEMMA FinalizeInv ==
  ASSUME IInv, NEW rests \in BOOLEAN,
         NEW status \in {"new", "partially_filled", "filled", "canceled", "rejected"},
         Finalize(status, rests),
         rests => /\ Remaining(order[taker]) > 0 /\ ~Immediate(order[taker])
                  /\ status = WithStatus(order[taker]).status
  PROVE  IInv'
<1> DEFINE o == order[taker]
<1>1. /\ taker \in DOMAIN order /\ taker \notin index /\ taker \in Nat /\ taker = nextSeq - 1
      /\ nextSeq \in Nat \ {0} /\ order[taker] \in OrderType
      /\ \A id \in index : id \in 1..(nextSeq - 1)
  BY IndexIs DEF IInv, TypeOK, TakerOK, Finalize
<1>2. /\ DOMAIN order' = DOMAIN order
      /\ \A id \in DOMAIN order \ {taker} : order'[id] = order[id]
      /\ order'[taker] \in OrderType /\ order'[taker].status = status
      /\ \A f \in {"account", "side", "type", "tif", "price", "qty", "filled"} :
           order'[taker][f] = order[taker][f]
  BY <1>1 DEF Finalize, OrderType
<1>3. /\ taker' = NoOrder /\ UNCHANGED <<tradeSeq, nextSeq>>
      /\ index' = IF rests THEN index \cup {taker} ELSE index
  BY DEF Finalize
<1>4. levels' \in [Sides -> Seq(Level)] /\ SidesOK' /\ IndexOK' /\ Uncrossed'
  <2>1. CASE ~rests
    <3>1. UNCHANGED <<levels, index>>
      BY <2>1 DEF Finalize
    <3>2. \A id \in index : order'[id] = order[id]
      BY <1>1, <1>2 DEF IInv, TypeOK
    <3> QED BY <3>1, <3>2, SameBook DEF IInv, TypeOK
  <2>2. CASE rests
    <3> DEFINE s == o.side
               new == Add(s, levels[s], taker, o.price)
    <3>1. /\ s \in Sides /\ levels \in [Sides -> Seq(Level)] /\ levels[s] \in Seq(Level)
          /\ o.price \in Nat
      BY <1>1 DEF OrderType, IInv, TypeOK
    <3>2. \A t \in Sides : SideOK(t, levels[t], order')
      <4>1. \A t \in Sides : /\ levels[t] \in Seq(Level) /\ SideOK(t, levels[t], order)
                             /\ \A id \in Resting(levels[t]) : order'[id] = order[id]
        BY <1>1, <1>2, IndexIs DEF IInv, TypeOK, SidesOK
      <4> QED BY <4>1, RestingOf
    <3>3. /\ order'[taker].side = s /\ order'[taker].price = o.price
          /\ \A other \in Resting(levels[s]) : other < taker
      <4>1. order'[taker].side = s /\ order'[taker].price = o.price
        BY <1>2
      <4>2. \A other \in Resting(levels[s]) : other \in index
        BY <3>1, IndexIs DEF IInv
      <4> QED BY <1>1, <4>1, <4>2
    <3>4. levels' = [levels EXCEPT ![s] = new]
      BY <2>2 DEF Finalize
    <3>5. /\ new \in Seq(Level) /\ SideOK(s, new, order')
          /\ Resting(new) = Resting(levels[s]) \cup {taker}
      BY <1>1, <3>1, <3>2, <3>3, AddPuts
    <3> HIDE DEF new
    <3>6. levels' \in [Sides -> Seq(Level)] /\ SidesOK'
      BY <3>1, <3>2, <3>4, <3>5 DEF SidesOK
    <3>7. \A t \in Sides : Resting(levels'[t]) =
                             IF t = s THEN Resting(levels[t]) \cup {taker} ELSE Resting(levels[t])
      BY <3>1, <3>4, <3>5
    <3>8. IndexOK'
      BY <1>3, <2>2, <3>1, <3>7 DEF IInv, IndexOK, Sides
    <3>9. Uncrossed'
      <4> SUFFICES ASSUME NEW b \in Resting(levels'["buy"]), NEW a \in Resting(levels'["sell"])
                   PROVE  order'[b].price < order'[a].price
        BY DEF Uncrossed
      <4>1. \A t \in Sides : \A id \in Resting(levels[t]) :
              id # taker /\ order'[id].price = order[id].price
        BY <1>1, <1>2, IndexIs DEF IInv, TypeOK
      <4>2. \A id \in Resting(levels[Opposite(s)]) : ~Crosses(o, order[id].price)
        BY <2>2, LoopEnded DEF Finalize
      <4>3. \A t \in Sides : \A id \in Resting(levels[t]) : order[id].price \in Nat
        BY RestingOf DEF IInv, TypeOK, SidesOK
      <4>4. CASE b # taker /\ a # taker
        <5>1. b \in Resting(levels["buy"]) /\ a \in Resting(levels["sell"])
          BY <3>1, <3>7, <4>4 DEF Sides
        <5> QED BY <4>1, <5>1 DEF IInv, Uncrossed, Sides
      <4>5. CASE b = taker
        <5>1. s = "buy" /\ a \in Resting(levels["sell"])
          BY <3>1, <3>7, <4>1, <4>5 DEF Sides
        <5>2. ~Crosses(o, order[a].price) /\ order[a].price \in Nat
          BY <4>2, <4>3, <5>1 DEF Opposite, Sides
        <5> QED BY <1>2, <3>1, <4>1, <4>5, <5>1, <5>2 DEF Crosses, Sides
      <4>6. CASE a = taker
        <5>1. s = "sell" /\ b \in Resting(levels["buy"])
          BY <3>1, <3>7, <4>1, <4>6 DEF Sides
        <5>2. ~Crosses(o, order[b].price) /\ order[b].price \in Nat
          BY <4>2, <4>3, <5>1 DEF Opposite, Sides
        <5> QED BY <1>2, <3>1, <4>1, <4>6, <5>1, <5>2 DEF Crosses, Sides
      <4> QED BY <4>4, <4>5, <4>6
    <3> QED BY <3>6, <3>8, <3>9
  <2> QED BY <2>1, <2>2
<1>5. TypeOK'
  BY <1>1, <1>2, <1>3, <1>4 DEF IInv, TypeOK
<1>6. OnlyOpenOrdersRest'
  <2> SUFFICES ASSUME NEW id \in index'
               PROVE  /\ Remaining(order'[id]) > 0
                      /\ order'[id].status = WithStatus(order'[id]).status
                      /\ ~Immediate(order'[id])
    BY DEF OnlyOpenOrdersRest, Remaining, WithStatus, Immediate
  <2>1. CASE id \in index
    BY <1>1, <1>2, <2>1 DEF IInv, TypeOK, OnlyOpenOrdersRest
  <2>2. CASE id = taker /\ rests
    <3>1. Remaining(order'[taker]) > 0 /\ ~Immediate(order'[taker])
      BY <1>2, <2>2 DEF Remaining, Immediate
    <3>2. WithStatus(order'[taker]).status = WithStatus(order[taker]).status
      BY <1>1, <1>2 DEF WithStatus, Remaining, OrderType
    <3> QED BY <1>2, <2>2, <3>1, <3>2
  <2> QED BY <1>3, <2>1, <2>2
<1> QED BY <1>3, <1>4, <1>5, <1>6 DEF IInv, TakerOK

LEMMA FinishInv ==
  ASSUME IInv, FinishFilled \/ FinishImmediate \/ Rest
  PROVE  IInv'
<1>1. CASE FinishFilled
  BY <1>1, FinalizeInv DEF FinishFilled
<1>2. CASE FinishImmediate
  BY <1>2, FinalizeInv DEF FinishImmediate
<1>3. CASE Rest
  <2>1. WithStatus(order[taker]).status \in {"new", "partially_filled", "filled", "canceled", "rejected"}
    BY <1>3 DEF WithStatus, Rest, IInv, TypeOK, OrderType
  <2> QED BY <1>3, <2>1, FinalizeInv DEF Rest
<1> QED BY <1>1, <1>2, <1>3

LEMMA CancelInv ==
  ASSUME IInv, NEW id \in index, Cancel(id)
  PROVE  IInv'
<1> DEFINE s == order[id].side
           new == RemoveOrder(s, levels[s], id, order[id].price)
<1>1. /\ levels' = [levels EXCEPT ![s] = new] /\ index' = index \ {id}
      /\ order' = [i \in index |-> IF i = id THEN [order[id] EXCEPT !.status = "canceled"]
                                   ELSE order[i]]
      /\ UNCHANGED <<tradeSeq, nextSeq, taker>> /\ taker = NoOrder
  BY DEF Cancel
<1>2. /\ s \in Sides /\ levels[s] \in Seq(Level) /\ SideOK(s, levels[s], order)
      /\ id \in Resting(levels[s])
  <2>1. PICK t \in Sides : id \in Resting(levels[t])
    BY IndexIs DEF IInv
  <2>2. levels[t] \in Seq(Level) /\ SideOK(t, levels[t], order)
    BY DEF IInv, TypeOK, SidesOK
  <2> QED BY <2>1, <2>2, RestingOf
<1>3. /\ new \in Seq(Level) /\ SideOK(s, new, order)
      /\ Resting(new) = Resting(levels[s]) \ {id}
  BY <1>2, RemoveOrderTakes
<1> HIDE DEF new, s
<1>4. /\ DOMAIN order' = index
      /\ \A i \in index \ {id} : order'[i] = order[i]
      /\ order'[id] \in OrderType /\ order'[id].filled <= order'[id].qty
  <2>1. order[id] \in OrderType /\ order[id].filled <= order[id].qty
    BY IndexIs DEF IInv
  <2> QED BY <1>1, <2>1 DEF OrderType
<1>5. levels' \in [Sides -> Seq(Level)] /\ SidesOK' /\ IndexOK' /\ Uncrossed'
  BY <1>1, <1>2, <1>3, <1>4, OneTakenOut
<1>6. TypeOK'
  BY <1>1, <1>4, <1>5 DEF IInv, TypeOK
<1>7. OnlyOpenOrdersRest'
  BY <1>1, <1>4 DEF IInv, OnlyOpenOrdersRest, Remaining, WithStatus, Immediate
<1> QED BY <1>1, <1>5, <1>6, <1>7 DEF IInv, TakerOK

LEMMA InitInv == Init => IInv
<1> SUFFICES ASSUME Init PROVE IInv
  OBVIOUS
<1>1. /\ order = <<>> /\ levels = [s \in Sides |-> <<>>] /\ index = {} /\ taker = NoOrder
      /\ nextSeq = 1 /\ tradeSeq = 0
  BY DEF Init
<1>2. \A s \in Sides : levels[s] = <<>> /\ Resting(levels[s]) = {}
  BY <1>1 DEF Resting
<1>3. TypeOK
  BY <1>1 DEF TypeOK
<1>4. SidesOK /\ IndexOK /\ Uncrossed
  BY <1>1, <1>2 DEF SidesOK, SideOK, Sorted, IndexOK, Uncrossed, Sides
<1> QED BY <1>1, <1>3, <1>4 DEF IInv, OnlyOpenOrdersRest, TakerOK

LEMMA NextInv == IInv /\ [Next]_vars => IInv'
<1> SUFFICES ASSUME IInv, [Next]_vars PROVE IInv'
  OBVIOUS
<1>1. ASSUME NEW r \in Requests, Reject(r) PROVE IInv'
  BY <1>1, RejectInv
<1>2. ASSUME NEW r \in Requests, Begin(r) PROVE IInv'
  BY <1>2, BeginInv
<1>3. CASE CancelOwnMaker
  BY <1>3, CancelOwnMakerInv
<1>4. CASE Trade
  BY <1>4, TradeInv
<1>5. CASE FinishFilled \/ FinishImmediate \/ Rest
  BY <1>5, FinishInv
<1>6. ASSUME NEW id \in index, Cancel(id) PROVE IInv'
  BY <1>6, CancelInv
<1>7. CASE UNCHANGED vars
  BY <1>7 DEF vars, result, IInv, TypeOK, SidesOK, IndexOK, OnlyOpenOrdersRest, Uncrossed, TakerOK,
              Remaining, WithStatus, Immediate
<1> QED BY <1>1, <1>2, <1>3, <1>4, <1>5, <1>6, <1>7 DEF Next

LEMMA InvHolds == Spec => []IInv
BY InitInv, NextInv, PTL DEF Spec

\* What every call of the engine depends on holds whatever is submitted and
\* canceled, between calls and in the middle of the matching loop: the book's
\* slices and its index agree, no order is filled more than once over, and the
\* book is not crossed.
THEOREM BookAlwaysConsistent == Spec => []BookConsistent
BY InvHolds, InvImpliesBookConsistent, PTL

-----------------------------------------------------------------------------
(***************************************************************************)
(* The execution reports.                                                  *)
(***************************************************************************)

FillType ==
  [id : Nat, price : Nat, qty : Nat, filled : Nat, remaining : Nat,
   status : {"new", "partially_filled", "filled", "canceled", "rejected"}]

\* The reports of a call are about orders of that call.
ReportsInv ==
  /\ fills \in Seq(FillType)
  /\ \A i \in DOMAIN fills : fills[i].id \in DOMAIN order
  /\ LastReportsTrue

LEMMA FillOfIs ==
  ASSUME NEW id \in Nat, NEW o \in OrderType, NEW price \in Nat, NEW qty \in Nat,
         o.filled <= o.qty
  PROVE  /\ FillOf(id, o, price, qty) \in FillType
         /\ FillOf(id, o, price, qty).id = id
         /\ FillOf(id, o, price, qty).filled = o.filled
         /\ FillOf(id, o, price, qty).remaining = Remaining(o)
BY DEF FillOf, FillType, OrderType, Remaining

\* Steps that report nothing, and change no quantity of an order.
LEMMA NoReport ==
  ASSUME ReportsInv, UNCHANGED fills, DOMAIN order \subseteq DOMAIN order',
         \A id \in DOMAIN order : /\ order'[id].filled = order[id].filled
                                  /\ order'[id].qty = order[id].qty
  PROVE  ReportsInv'
BY DEF ReportsInv, LastReportsTrue, Remaining

LEMMA TradeReports ==
  ASSUME IInv, ReportsInv, Trade
  PROVE  ReportsInv'
<1> DEFINE qty == TradeQty(order[taker], order[Maker])
           t == Executed(order[taker], qty)
           m == Executed(order[Maker], qty)
           price == order[Maker].price
           ft == FillOf(taker, t, price, qty)
           fm == FillOf(Maker, m, price, qty)
           n == Len(fills)
<1>1. /\ Maker # taker /\ taker \in DOMAIN order /\ Maker \in DOMAIN order /\ price \in Nat
      /\ taker \in Nat /\ Maker \in Nat
  <2>1. Matching
    BY DEF Trade
  <2> QED BY <2>1, MakerIs DEF IInv, TypeOK, OrderType
<1>2. /\ qty \in Nat
      /\ t \in OrderType /\ m \in OrderType /\ t.filled <= t.qty /\ m.filled <= m.qty
      /\ DOMAIN order' = DOMAIN order
      /\ order'[taker] = t /\ order'[Maker] = m
      /\ \A id \in DOMAIN order \ {taker, Maker} : order'[id] = order[id]
  BY TradeIs
<1>3. fills' = fills \o <<ft, fm>>
  BY DEF Trade, Executed
<1> HIDE DEF qty, t, m, price
<1>4. /\ ft \in FillType /\ ft.id = taker /\ ft.filled = t.filled /\ ft.remaining = Remaining(t)
      /\ fm \in FillType /\ fm.id = Maker /\ fm.filled = m.filled /\ fm.remaining = Remaining(m)
  BY <1>1, <1>2, FillOfIs
<1> HIDE DEF ft, fm
<1>5. /\ n \in Nat /\ DOMAIN fills = 1..n
      /\ fills' \in Seq(FillType) /\ DOMAIN fills' = 1..(n + 2)
      /\ \A i \in 1..n : fills'[i] = fills[i]
      /\ fills'[n + 1] = ft /\ fills'[n + 2] = fm
  <2>1. /\ <<ft, fm>> \in Seq(FillType) /\ Len(<<ft, fm>>) = 2
        /\ <<ft, fm>>[1] = ft /\ <<ft, fm>>[2] = fm
    BY <1>4
  <2>2. fills \in Seq(FillType) /\ n \in Nat /\ DOMAIN fills = 1..n
    BY LenProperties DEF ReportsInv
  <2>3. /\ fills' \in Seq(FillType) /\ Len(fills') = n + 2
        /\ \A i \in 1..(n + 2) : fills'[i] = IF i <= n THEN fills[i] ELSE <<ft, fm>>[i - n]
    BY <1>3, <2>1, <2>2, ConcatProperties
  <2> QED BY <2>1, <2>2, <2>3, LenProperties
<1> HIDE DEF n
<1>6. ASSUME NEW i \in DOMAIN fills'
      PROVE  fills'[i].id \in DOMAIN order'
  <2>1. i \in 1..n \/ i = n + 1 \/ i = n + 2
    BY <1>5
  <2> QED BY <1>1, <1>2, <1>4, <1>5, <2>1 DEF ReportsInv
<1>7. ASSUME NEW i \in DOMAIN fills', \A j \in DOMAIN fills' : j > i => fills'[j].id # fills'[i].id
      PROVE  /\ fills'[i].filled = order'[fills'[i].id].filled
             /\ fills'[i].remaining = Remaining(order'[fills'[i].id])
  <2>1. CASE i \in 1..n
    <3>1. fills[i].id # taker /\ fills[i].id # Maker
      BY <1>4, <1>5, <1>7, <2>1
    <3>2. \A j \in DOMAIN fills : j > i => fills[j].id # fills[i].id
      BY <1>5, <1>7, <2>1
    <3>3. order'[fills[i].id] = order[fills[i].id]
      BY <1>2, <1>5, <2>1, <3>1 DEF ReportsInv
    <3> QED BY <1>5, <2>1, <3>2, <3>3 DEF ReportsInv, LastReportsTrue
  <2>2. CASE i = n + 1
    BY <1>2, <1>4, <1>5, <2>2
  <2>3. CASE i = n + 2
    BY <1>2, <1>4, <1>5, <2>3
  <2> QED BY <1>5, <2>1, <2>2, <2>3
<1> QED BY <1>5, <1>6, <1>7 DEF ReportsInv, LastReportsTrue, Remaining

LEMMA NextReports == IInv /\ ReportsInv /\ [Next]_vars => ReportsInv'
<1> SUFFICES ASSUME IInv, ReportsInv, [Next]_vars PROVE ReportsInv'
  OBVIOUS
<1>1. ASSUME fills' = <<>> PROVE ReportsInv'
  BY <1>1 DEF ReportsInv, LastReportsTrue
<1>2. ASSUME NEW r \in Requests, Reject(r) \/ Begin(r) PROVE ReportsInv'
  BY <1>1, <1>2 DEF Reject, Begin, Receive
<1>3. CASE CancelOwnMaker
  <2>1. Maker \in DOMAIN order /\ order[Maker] \in OrderType
    BY <1>3, MakerIs DEF CancelOwnMaker, IInv, TypeOK
  <2> QED BY <1>3, <2>1, NoReport DEF CancelOwnMaker, OrderType
<1>4. CASE Trade
  BY <1>4, TradeReports
<1>5. CASE FinishFilled \/ FinishImmediate \/ Rest
  <2>1. PICK status, rests : Finalize(status, rests)
    BY <1>5 DEF FinishFilled, FinishImmediate, Rest
  <2>2. taker \in DOMAIN order /\ order[taker] \in OrderType
    BY <2>1 DEF Finalize, IInv, TypeOK
  <2>3. order' = [order EXCEPT ![taker].status = status] /\ fills' = fills
    BY <2>1 DEF Finalize, result
  <2> QED BY <2>2, <2>3, NoReport DEF OrderType
<1>6. ASSUME NEW id \in index, Cancel(id) PROVE ReportsInv'
  BY <1>1, <1>6 DEF Cancel
<1>7. CASE UNCHANGED vars
  BY <1>7, NoReport DEF vars, result
<1> QED BY <1>2, <1>3, <1>4, <1>5, <1>6, <1>7 DEF Next

\* The last execution report of an order in a call tells its real fill, whatever
\* came before it in the call: what the gateway releases of a hold is not wrong.
THEOREM LastReportsAlwaysTrue == Spec => []LastReportsTrue
<1>1. Init => ReportsInv
  BY DEF Init, ReportsInv, LastReportsTrue
<1>2. ReportsInv => LastReportsTrue
  BY DEF ReportsInv
<1> QED BY <1>1, <1>2, InvHolds, NextReports, PTL DEF Spec

-----------------------------------------------------------------------------
(***************************************************************************)
(* The engine implements PriceTimeMarket, step by step.                    *)
(***************************************************************************)

\* What an order is for the market.
MO(o, id) ==
  [id |-> id, account |-> o.account, side |-> o.side, market |-> o.type = "market",
   price |-> o.price, open |-> Remaining(o)]

LEMMA MarketOrderIs == \A id : MarketOrder(id) = MO(order[id], id)
BY DEF MarketOrder, MO

LEMMA MOIs ==
  ASSUME NEW o \in OrderType, NEW id \in Nat, o.filled <= o.qty
  PROVE  /\ MO(o, id) # NoOrder
         /\ MO(o, id).id = id /\ MO(o, id).account = o.account /\ MO(o, id).side = o.side
         /\ MO(o, id).market = (o.type = "market") /\ MO(o, id).price = o.price
         /\ MO(o, id).open = Remaining(o)
<1>1. MO(o, id) \in [id : Nat, account : Accounts, side : Sides, market : BOOLEAN,
                     price : Nat, open : Nat]
  BY DEF MO, OrderType, Remaining
<1> QED BY <1>1, NoOrderIsNone DEF MO

LEMMA MOExecuted ==
  ASSUME NEW o \in OrderType, NEW id \in Nat, NEW qty \in Nat \ {0},
         Remaining(o) \in Nat, qty <= Remaining(o)
  PROVE  MO(Executed(o, qty), id) = [MO(o, id) EXCEPT !.open = @ - qty]
<1>1. /\ Remaining(Executed(o, qty)) = Remaining(o) - qty
      /\ \A f \in {"account", "side", "type", "tif", "price", "qty"} : Executed(o, qty)[f] = o[f]
  BY ExecutedIs
<1>2. /\ Executed(o, qty).account = o.account /\ Executed(o, qty).side = o.side
      /\ Executed(o, qty).type = o.type /\ Executed(o, qty).price = o.price
  BY <1>1
<1> QED BY <1>1, <1>2 DEF MO

LEMMA RestingIsIndex ==
  ASSUME IndexOK
  PROVE  MarketResting = {MO(order[id], id) : id \in index}
BY MarketOrderIs DEF MarketResting, IndexOK

LEMMA NextRestingIsIndex ==
  ASSUME IndexOK'
  PROVE  MarketResting' = {MO(order'[id], id) : id \in index'}
BY DEF MarketResting, MarketOrder, MO, IndexOK

LEMMA ActiveIs ==
  ASSUME TypeOK, taker # NoOrder
  PROVE  /\ MarketActive = MO(order[taker], taker) /\ MarketActive # NoOrder
         /\ taker \in Nat /\ order[taker] \in OrderType /\ order[taker].filled <= order[taker].qty
<1>1. /\ taker \in DOMAIN order /\ taker \in Nat
      /\ order[taker] \in OrderType /\ order[taker].filled <= order[taker].qty
  BY DEF TypeOK
<1> QED BY <1>1, MOIs, MarketOrderIs DEF MarketActive

\* The orders against the taker are those of the other side.
LEMMA AgainstIs ==
  ASSUME IInv, taker # NoOrder
  PROVE  Market!Against(MarketActive) =
           {MO(order[id], id) : id \in Resting(levels[Opposite(order[taker].side)])}
<1> DEFINE s == Opposite(order[taker].side)
<1>1. MarketActive.side = order[taker].side /\ order[taker].side \in Sides
  BY ActiveIs, MOIs DEF IInv, OrderType
<1>2. \A id \in index : MO(order[id], id).side = order[id].side
  BY DEF MO
<1>3. \A id \in index : order[id].side # order[taker].side <=> id \in Resting(levels[s])
  <2>1. \A t \in Sides : \A id \in Resting(levels[t]) : id \in index /\ order[id].side = t
    BY RestingOf, IndexIs DEF IInv, TypeOK, SidesOK
  <2>2. \A id \in index : id \in Resting(levels["buy"]) \/ id \in Resting(levels["sell"])
    BY DEF IInv, IndexOK
  <2> QED BY <1>1, <2>1, <2>2 DEF Opposite, Sides
<1>4. Resting(levels[s]) \subseteq index
  BY <1>1, IndexIs DEF IInv, Opposite, Sides
<1>5. Market!Against(MarketActive) = {x \in MarketResting : x.side # order[taker].side}
  BY <1>1 DEF Market!Against
<1>6. MarketResting = {MO(order[id], id) : id \in index}
  BY RestingIsIndex DEF IInv
<1> QED BY <1>2, <1>3, <1>4, <1>5, <1>6

\* The maker is the best counterparty.
LEMMA MakerIsBest ==
  ASSUME IInv, Matching
  PROVE  /\ MO(order[Maker], Maker) \in MarketResting
         /\ Market!IsBest(MO(order[Maker], Maker), MarketActive)
         /\ Market!Tradable(MarketActive, MO(order[Maker], Maker))
<1> DEFINE s == Opposite(order[taker].side)
           m == MO(order[Maker], Maker)
<1>1. /\ s \in Sides /\ levels[s] \in Seq(Level) /\ SideOK(s, levels[s], order)
      /\ levels[s] # <<>> /\ Maker = FrontOrder(levels[s]) /\ Maker \in Resting(levels[s])
      /\ Maker \in index /\ order[Maker].side = s
  BY MakerIs
<1>2. taker # NoOrder /\ Crosses(order[taker], order[Maker].price)
  BY DEF Matching
<1>3. m \in MarketResting
  BY <1>1, RestingIsIndex DEF IInv
<1>4. m.side = s /\ m.price = order[Maker].price /\ m.id = Maker
  BY <1>1 DEF MO
<1>5. ASSUME NEW id \in Resting(levels[s]), MO(order[id], id) # m
      PROVE  Market!Before(m, MO(order[id], id))
  <2>1. id # Maker
    BY <1>5
  <2>2. \/ Better(s, order[Maker].price, order[id].price)
        \/ order[Maker].price = order[id].price /\ Maker < id
    BY <1>1, <2>1, FrontIsFirst
  <2>3. MO(order[id], id).price = order[id].price /\ MO(order[id], id).id = id
    BY DEF MO
  <2> HIDE DEF m
  <2> QED BY <1>4, <2>2, <2>3 DEF Market!Before, Better
<1>6. Market!IsBest(m, MarketActive)
  <2>1. m \in Market!Against(MarketActive)
    BY <1>1, <1>2, AgainstIs
  <2>2. \A n \in Market!Against(MarketActive) \ {m} : Market!Before(m, n)
    BY <1>2, <1>5, AgainstIs
  <2> QED BY <2>1, <2>2 DEF Market!IsBest
<1>7. Market!Tradable(MarketActive, m)
  <2>1. /\ MarketActive.side = order[taker].side /\ MarketActive.price = order[taker].price
        /\ MarketActive.market = (order[taker].type = "market")
    BY <1>2, ActiveIs, MOIs DEF IInv
  <2> HIDE DEF m
  <2> QED BY <1>2, <1>4, <2>1 DEF Crosses, Market!Tradable
<1> QED BY <1>3, <1>6, <1>7

LEMMA NothingTradable ==
  ASSUME IInv, taker # NoOrder, ~Matching, Remaining(order[taker]) > 0
  PROVE  \A m \in Market!Against(MarketActive) : ~Market!Tradable(MarketActive, m)
<1> SUFFICES ASSUME NEW id \in Resting(levels[Opposite(order[taker].side)])
             PROVE  ~Market!Tradable(MarketActive, MO(order[id], id))
  BY AgainstIs
<1>1. ~Crosses(order[taker], order[id].price)
  BY LoopEnded
<1>2. /\ MarketActive.side = order[taker].side /\ MarketActive.price = order[taker].price
      /\ MarketActive.market = (order[taker].type = "market")
  BY ActiveIs, MOIs DEF IInv
<1>3. MO(order[id], id).price = order[id].price
  BY DEF MO
<1> QED BY <1>1, <1>2, <1>3 DEF Crosses, Market!Tradable

TradeType == [id : Nat, taker : Nat, maker : Nat, price : Nat, qty : Nat]
TapeType == [taker : Nat, maker : Nat, price : Nat, qty : Nat]

\* What trades are for the market.
Told(t) == [taker |-> t.taker, maker |-> t.maker, price |-> t.price, qty |-> t.qty]
Tape(ts) == [i \in DOMAIN ts |-> Told(ts[i])]

LEMMA TapeGrows ==
  ASSUME NEW ts \in Seq(TradeType), NEW t \in TradeType
  PROVE  Tape(Append(ts, t)) = Append(Tape(ts), Told(t))
<1> DEFINE n == Len(ts)
<1>1. \A x \in TradeType : Told(x) \in TapeType
  BY DEF TradeType, TapeType, Told
<1>2. n \in Nat /\ DOMAIN ts = 1..n /\ \A i \in 1..n : ts[i] \in TradeType
  BY LenProperties, ElementOfSeq
<1>3. /\ Append(ts, t) \in Seq(TradeType) /\ DOMAIN Append(ts, t) = 1..(n + 1)
      /\ \A i \in 1..n : Append(ts, t)[i] = ts[i]
      /\ Append(ts, t)[n + 1] = t
  BY AppendProperties, LenProperties
<1> HIDE DEF n
<1>4. ASSUME NEW m \in Nat, NEW x, DOMAIN x = 1..m, \A i \in 1..m : x[i] \in TradeType
      PROVE  Tape(x) \in Seq(TapeType) /\ Len(Tape(x)) = m /\ DOMAIN Tape(x) = 1..m
             /\ \A i \in 1..m : Tape(x)[i] = Told(x[i])
  <2>1. Tape(x) \in [1..m -> TapeType] /\ \A i \in 1..m : Tape(x)[i] = Told(x[i])
    BY <1>1, <1>4 DEF Tape
  <2> QED BY <2>1
<1>5. /\ Tape(ts) \in Seq(TapeType) /\ Len(Tape(ts)) = n
      /\ \A i \in 1..n : Tape(ts)[i] = Told(ts[i])
  BY <1>2, <1>4
<1>6. /\ Tape(Append(ts, t)) \in Seq(TapeType) /\ Len(Tape(Append(ts, t))) = n + 1
      /\ \A i \in 1..(n + 1) : Tape(Append(ts, t))[i] = Told(Append(ts, t)[i])
  <2> DEFINE x == Append(ts, t)
             m == n + 1
  <2>1. m \in Nat /\ DOMAIN x = 1..m
    BY <1>2, <1>3
  <2>2. \A i \in 1..m : x[i] \in TradeType
    BY <1>2, <1>3
  <2> HIDE DEF x, m
  <2>3. /\ Tape(x) \in Seq(TapeType) /\ Len(Tape(x)) = m
        /\ \A i \in 1..m : Tape(x)[i] = Told(x[i])
    BY <1>4, <2>1, <2>2
  <2> QED BY <2>3 DEF x, m
<1>7. /\ Append(Tape(ts), Told(t)) \in Seq(TapeType)
      /\ Len(Append(Tape(ts), Told(t))) = n + 1
      /\ \A i \in 1..n : Append(Tape(ts), Told(t))[i] = Tape(ts)[i]
      /\ Append(Tape(ts), Told(t))[n + 1] = Told(t)
  BY <1>1, <1>5, AppendProperties
<1>8. \A i \in 1..(n + 1) : Tape(Append(ts, t))[i] = Append(Tape(ts), Told(t))[i]
  <2> TAKE i \in 1..(n + 1)
  <2>1. CASE i = n + 1
    BY <1>2, <1>3, <1>6, <1>7, <2>1
  <2>2. CASE i # n + 1
    <3>1. i \in 1..n
      BY <1>2, <2>2
    <3> QED BY <1>3, <1>5, <1>6, <1>7, <3>1
  <2> QED BY <2>1, <2>2
<1> QED BY <1>6, <1>7, <1>8, SeqEqual

LEMMA TapeIs ==
  /\ MarketTape = Tape(trades)
  /\ trades = <<>> => MarketTape = <<>>
<1>1. MarketTape = Tape(trades)
  BY DEF MarketTape, Tape, Told
<1>2. trades = <<>> => Tape(trades) = <<>>
  BY DEF Tape
<1> QED BY <1>1, <1>2

\* The same of the next state.
LEMMA NextTapeIs ==
  /\ MarketTape' = Tape(trades')
  /\ trades' = <<>> => MarketTape' = <<>>
<1>1. MarketTape' = Tape(trades')
  BY DEF MarketTape, Tape, Told
<1>2. trades' = <<>> => Tape(trades') = <<>>
  BY DEF Tape
<1> QED BY <1>1, <1>2

LEMMA NextActiveIs ==
  /\ taker' = NoOrder => MarketActive' = NoOrder
  /\ taker' # NoOrder => MarketActive' = MO(order'[taker'], taker')
BY DEF MarketActive, MarketOrder, MO

LEMMA NextTradesTyped ==
  IInv /\ trades \in Seq(TradeType) /\ [Next]_vars => (trades \in Seq(TradeType))'
<1> SUFFICES ASSUME IInv, trades \in Seq(TradeType), [Next]_vars
             PROVE  trades' \in Seq(TradeType)
  OBVIOUS
<1>1. CASE Trade
  <2>1. Matching /\ tradeSeq' = tradeSeq + 1 /\ tradeSeq \in Nat
    BY <1>1 DEF Trade, IInv, TypeOK
  <2>2. taker \in Nat /\ Maker \in Nat /\ order[Maker].price \in Nat
    BY <2>1, MakerIs DEF IInv, TypeOK, OrderType
  <2>3. TradeQty(order[taker], order[Maker]) \in Nat
    BY <1>1, TradeIs
  <2> DEFINE t == [id |-> tradeSeq', taker |-> taker, maker |-> Maker,
                   price |-> order[Maker].price, qty |-> TradeQty(order[taker], order[Maker])]
  <2>4. trades' = Append(trades, t)
    BY <1>1 DEF Trade
  <2>5. t \in TradeType
    BY <2>1, <2>2, <2>3 DEF TradeType
  <2> HIDE DEF t
  <2>6. Append(trades, t) \in Seq(TradeType)
    BY <2>5, AppendProperties
  <2> QED BY <2>4, <2>6
<1>2. CASE ~Trade
  <2>1. trades' = <<>> \/ trades' = trades
    BY <1>2 DEF Next, vars, result, Reject, Begin, Receive, CancelOwnMaker, FinishFilled,
                FinishImmediate, Rest, Finalize, Cancel
  <2>2. <<>> \in Seq(TradeType)
    BY EmptySeq
  <2> QED BY <2>1, <2>2
<1> QED BY <1>1, <1>2

LEMMA MarketInit == Init => Market!Init
<1> SUFFICES ASSUME Init PROVE Market!Init
  OBVIOUS
<1>1. Resting(levels["buy"]) = {} /\ Resting(levels["sell"]) = {}
  BY DEF Init, Resting, Sides
<1>2. MarketResting = {}
  BY <1>1 DEF MarketResting
<1>3. MarketActive = NoOrder /\ MarketTape = <<>>
  BY TapeIs DEF Init, MarketActive
<1> QED BY <1>2, <1>3 DEF Market!Init

LEMMA RejectRefuses ==
  ASSUME IInv, IInv', NEW r \in Requests, Reject(r)
  PROVE  Market!Refuse
<1>1. /\ taker = NoOrder /\ taker' = NoOrder /\ trades' = <<>> /\ index' = index
      /\ \A id \in index : order'[id] = order[id]
  BY ReceiveKeeps DEF Reject, Receive
<1>2. MarketResting' = MarketResting
  BY <1>1, RestingIsIndex, NextRestingIsIndex DEF IInv
<1> QED BY <1>1, <1>2, NextTapeIs, NextActiveIs DEF Market!Refuse, MarketActive

LEMMA BeginArrives ==
  ASSUME IInv, IInv', NEW r \in Requests, Begin(r)
  PROVE  \E o \in MarketOrders : Market!Arrive(o)
<1> DEFINE o == MO(NewOrder(r, "new"), nextSeq)
<1>1. /\ taker = NoOrder /\ taker' = nextSeq /\ trades' = <<>> /\ index' = index
      /\ order'[nextSeq] = NewOrder(r, "new") /\ nextSeq <= MaxOrders
      /\ \A id \in index : order'[id] = order[id]
  BY ReceiveKeeps DEF Begin, Receive
<1>2. nextSeq \in Nat \ {0} /\ \A id \in index : id \in Nat /\ id < nextSeq
  BY IndexIs DEF IInv
<1>3. r \in RequestType /\ r.qty > 0
  BY RequestsAssumption DEF Begin, Valid
<1>4. o.open = r.qty /\ o.id = nextSeq
  BY <1>3 DEF MO, NewOrder, Remaining, RequestType
<1>5. o \in MarketOrders
  <2>1. o.open = r.qty /\ o = [id |-> nextSeq, account |-> r.account, side |-> r.side,
                               market |-> r.type = "market", price |-> r.price, open |-> r.qty]
    BY <1>3 DEF MO, NewOrder, Remaining, RequestType
  <2>2. nextSeq \in 1..MaxOrders
    BY <1>1, <1>2, BoundAssumption
  <2>3. r.account \in Accounts /\ r.side \in Sides
    BY <1>3 DEF RequestType
  <2> HIDE DEF o
  <2> QED BY <2>1, <2>2, <2>3 DEF MarketOrders
<1>6. MarketResting' = MarketResting
  BY <1>1, RestingIsIndex, NextRestingIsIndex DEF IInv
<1>7. \A m \in MarketResting : m.id < o.id
  <2>1. \A id \in index : MO(order[id], id).id = id
    BY DEF MO
  <2> HIDE DEF o
  <2> QED BY <1>2, <1>4, <2>1, RestingIsIndex DEF IInv
<1>8. MarketActive = NoOrder /\ MarketActive' = o
  <2>1. taker' # NoOrder
    BY <1>1, <1>2, NoOrderAssumption
  <2> QED BY <1>1, <2>1, NextActiveIs DEF MarketActive
<1>9. Market!Arrive(o)
  BY <1>1, <1>3, <1>4, <1>6, <1>7, <1>8, NextTapeIs DEF Market!Arrive
<1> QED BY <1>5, <1>9

\* The resting orders but one: ids tell orders apart.
LEMMA OthersRest ==
  ASSUME IInv, NEW id \in index
  PROVE  {MO(order[x], x) : x \in index \ {id}} = MarketResting \ {MO(order[id], id)}
<1>1. \A x \in index : MO(order[x], x).id = x
  BY DEF MO
<1> QED BY <1>1, RestingIsIndex DEF IInv

LEMMA CancelOwnMakerPrevents ==
  ASSUME IInv, IInv', CancelOwnMaker
  PROVE  \E m \in MarketResting : Market!PreventSelfTrade(m)
<1> DEFINE m == MO(order[Maker], Maker)
<1>1. Matching /\ PopMaker /\ UNCHANGED <<taker, trades>> /\ taker # NoOrder
      /\ order' = [order EXCEPT ![Maker].status = "canceled"]
      /\ order[Maker].account = order[taker].account
  BY DEF CancelOwnMaker, Matching
<1>2. /\ Maker \in index /\ Maker # taker /\ index' = index \ {Maker}
      /\ taker \in DOMAIN order /\ index \subseteq DOMAIN order
      /\ Remaining(order[taker]) > 0
  BY <1>1, MakerIs DEF PopMaker, IInv, TypeOK
<1>3. \A id \in DOMAIN order \ {Maker} : order'[id] = order[id]
  BY <1>1, <1>2
<1>4. MarketResting' = MarketResting \ {m}
  BY <1>2, <1>3, OthersRest, NextRestingIsIndex DEF IInv
<1>5. MarketActive' = MarketActive /\ MarketActive # NoOrder
      /\ MarketActive.open > 0 /\ m.account = MarketActive.account
  <2>1. MarketActive' = MarketActive /\ MarketActive # NoOrder
    BY <1>1, <1>2, <1>3, ActiveIs, NextActiveIs DEF IInv
  <2>2. MarketActive.open = Remaining(order[taker]) /\ MarketActive.account = order[taker].account
    BY <1>1, ActiveIs, MOIs DEF IInv
  <2>3. m.account = order[Maker].account
    BY DEF MO
  <2> QED BY <1>1, <1>2, <2>1, <2>2, <2>3
<1>6. MarketTape' = MarketTape
  BY <1>1, TapeIs, NextTapeIs
<1>7. m \in MarketResting /\ Market!IsBest(m, MarketActive) /\ Market!Tradable(MarketActive, m)
  BY <1>1, MakerIsBest
<1> HIDE DEF m
<1> QED BY <1>4, <1>5, <1>6, <1>7 DEF Market!PreventSelfTrade

\* A trade of the engine is one of the market: with the best counterparty, at its
\* price, for all that one side still wants; only a filled maker leaves.
LEMMA TradeExecutes ==
  ASSUME IInv, IInv', trades \in Seq(TradeType), Trade
  PROVE  \E m \in MarketResting : Market!Execute(m)
<1> DEFINE m == MO(order[Maker], Maker)
           qty == TradeQty(order[taker], order[Maker])
           left == [m EXCEPT !.open = @ - qty]
           t == [id |-> tradeSeq', taker |-> taker, maker |-> Maker,
                 price |-> order[Maker].price, qty |-> qty]
<1>1. /\ Matching /\ taker # NoOrder /\ tradeSeq' = tradeSeq + 1 /\ trades' = Append(trades, t)
      /\ order[Maker].account # order[taker].account
  BY DEF Trade, Matching
<1>2. /\ Maker \in index /\ Maker # taker /\ taker \in DOMAIN order /\ taker \notin index
      /\ index \subseteq DOMAIN order
      /\ order[taker] \in OrderType /\ order[Maker] \in OrderType
      /\ Remaining(order[taker]) \in Nat \ {0} /\ Remaining(order[Maker]) \in Nat \ {0}
      /\ taker \in Nat /\ Maker \in Nat /\ tradeSeq \in Nat
      /\ order[taker].filled <= order[taker].qty /\ order[Maker].filled <= order[Maker].qty
  BY <1>1, MakerIs DEF IInv, TypeOK
<1>3. /\ qty \in Nat \ {0}
      /\ qty <= Remaining(order[taker]) /\ qty <= Remaining(order[Maker])
      /\ qty \in {Remaining(order[taker]), Remaining(order[Maker])}
  BY <1>2, TradeQtyIs
<1>4. /\ order'[taker] = Executed(order[taker], qty)
      /\ order'[Maker] = Executed(order[Maker], qty)
      /\ \A id \in DOMAIN order \ {taker, Maker} : order'[id] = order[id]
      /\ IF Remaining(Executed(order[Maker], qty)) = 0 THEN PopMaker ELSE UNCHANGED <<levels, index>>
      /\ taker' = taker
  BY TradeIs
<1>5. /\ m.id = Maker /\ m.account = order[Maker].account /\ m.price = order[Maker].price
      /\ m.open = Remaining(order[Maker])
  BY <1>2, MOIs
<1>6. /\ MarketActive # NoOrder /\ MarketActive.id = taker
      /\ MarketActive.open = Remaining(order[taker])
      /\ MarketActive.account = order[taker].account
  BY <1>1, <1>2, ActiveIs, MOIs DEF IInv
<1>7. m \in MarketResting /\ Market!IsBest(m, MarketActive) /\ Market!Tradable(MarketActive, m)
  BY <1>1, MakerIsBest
<1> HIDE DEF qty
<1>8. qty = IF MarketActive.open <= m.open THEN MarketActive.open ELSE m.open
  BY <1>2, <1>3, <1>5, <1>6
<1>9. MarketActive' = [MarketActive EXCEPT !.open = @ - qty]
  <2>1. MarketActive' = MO(Executed(order[taker], qty), taker)
    BY <1>1, <1>4, NextActiveIs
  <2>2. MarketActive = MO(order[taker], taker)
    BY <1>1, ActiveIs DEF IInv
  <2> QED BY <1>2, <1>3, <2>1, <2>2, MOExecuted
<1>10. /\ MO(order'[Maker], Maker) = left /\ left.open = m.open - qty
       /\ Remaining(Executed(order[Maker], qty)) = m.open - qty
  <2>1. MO(order'[Maker], Maker) = left
    BY <1>2, <1>3, <1>4, MOExecuted
  <2>2. Remaining(Executed(order[Maker], qty)) = m.open - qty
    BY <1>2, <1>3, <1>5, ExecutedIs
  <2>3. left.open = m.open - qty
    BY DEF MO
  <2> QED BY <2>1, <2>2, <2>3
<1>11. MarketTape' = Append(MarketTape, [taker |-> MarketActive.id, maker |-> m.id,
                                         price |-> m.price, qty |-> qty])
  <2>1. t \in TradeType
    BY <1>1, <1>2, <1>3 DEF TradeType, OrderType
  <2>2. Told(t) = [taker |-> MarketActive.id, maker |-> m.id, price |-> m.price, qty |-> qty]
    BY <1>5, <1>6 DEF Told
  <2> HIDE DEF t, m
  <2> QED BY <1>1, <2>1, <2>2, TapeIs, NextTapeIs, TapeGrows
<1> HIDE DEF t
<1>12. {MO(order'[id], id) : id \in index \ {Maker}} = MarketResting \ {m}
  <2>1. \A id \in index \ {Maker} : order'[id] = order[id]
    BY <1>2, <1>4
  <2>2. {MO(order'[id], id) : id \in index \ {Maker}} = {MO(order[id], id) : id \in index \ {Maker}}
    BY <2>1
  <2>3. {MO(order[id], id) : id \in index \ {Maker}} = MarketResting \ {m}
    BY <1>2, OthersRest
  <2> QED BY <2>2, <2>3
<1>13. MarketResting' = {MO(order'[id], id) : id \in index'}
  BY NextRestingIsIndex DEF IInv
<1> HIDE DEF left
<1>14. MarketResting' = (MarketResting \ {m}) \cup {l \in {left} : l.open > 0}
  <2>1. CASE m.open - qty = 0
    <3>1. index' = index \ {Maker}
      BY <1>4, <1>10, <2>1 DEF PopMaker
    <3>2. {l \in {left} : l.open > 0} = {}
      BY <1>10, <2>1
    <3> QED BY <1>12, <1>13, <3>1, <3>2
  <2>2. CASE m.open - qty # 0
    <3>1. index' = (index \ {Maker}) \cup {Maker}
      BY <1>2, <1>4, <1>10, <2>2
    <3>2. {l \in {left} : l.open > 0} = {left}
      BY <1>2, <1>3, <1>5, <1>10, <2>2
    <3>3. MarketResting' = {MO(order'[id], id) : id \in index \ {Maker}} \cup {MO(order'[Maker], Maker)}
      BY <1>13, <3>1
    <3> QED BY <1>10, <1>12, <3>2, <3>3
  <2> QED BY <2>1, <2>2
<1>15. MarketActive.open > 0 /\ m.account # MarketActive.account
  BY <1>1, <1>2, <1>5, <1>6
<1> HIDE DEF m
<1>16. Market!Execute(m)
  BY <1>6, <1>7, <1>8, <1>9, <1>11, <1>14, <1>15 DEF Market!Execute, left
<1> QED BY <1>7, <1>16

\* The taker leaves when it is filled or nothing it could trade with is left.
LEMMA FinishLeaves ==
  ASSUME IInv, IInv', FinishFilled \/ FinishImmediate \/ Rest
  PROVE  Market!Leave
<1>1. PICK status, rests :
        /\ rests \in BOOLEAN /\ Finalize(status, rests)
        /\ rests => Remaining(order[taker]) > 0 /\ ~Immediate(order[taker])
  <2>1. CASE FinishFilled
    <3>1. Finalize("filled", FALSE)
      BY <2>1 DEF FinishFilled
    <3> QED BY <3>1
  <2>2. CASE FinishImmediate
    <3>1. PICK status : Finalize(status, FALSE)
      BY <2>2 DEF FinishImmediate
    <3> QED BY <3>1
  <2>3. CASE Rest
    <3>1. PICK status : Finalize(status, TRUE)
      BY <2>3 DEF Rest
    <3>2. Remaining(order[taker]) > 0 /\ ~Immediate(order[taker])
      BY <2>3 DEF Rest
    <3> QED BY <3>1, <3>2
  <2> QED BY <2>1, <2>2, <2>3
<1>2. /\ taker # NoOrder /\ ~Matching /\ taker' = NoOrder /\ trades' = trades
      /\ order' = [order EXCEPT ![taker].status = status]
      /\ index' = IF rests THEN index \cup {taker} ELSE index
  BY <1>1 DEF Finalize, result
<1>3. /\ taker \in DOMAIN order /\ taker \notin index /\ index \subseteq DOMAIN order
      /\ order[taker] \in OrderType /\ order[taker].filled <= order[taker].qty /\ taker \in Nat
  BY <1>2, ActiveIs DEF IInv, TypeOK
<1>4. \A id \in index : order'[id] = order[id]
  BY <1>2, <1>3
<1>5. MO(order'[taker], taker) = MarketActive
  <2>1. MarketActive = MO(order[taker], taker)
    BY <1>2, ActiveIs DEF IInv
  <2>2. order'[taker] = [order[taker] EXCEPT !.status = status]
    BY <1>2, <1>3
  <2> QED BY <1>3, <2>1, <2>2 DEF MO, OrderType, Remaining
<1>6. MarketResting' = {MO(order'[id], id) : id \in index'}
      /\ MarketResting = {MO(order[id], id) : id \in index}
  BY RestingIsIndex, NextRestingIsIndex DEF IInv
<1>7. /\ MarketActive # NoOrder /\ MarketActive.open = Remaining(order[taker])
      /\ MarketActive.market = (order[taker].type = "market")
  BY <1>2, ActiveIs, MOIs DEF IInv
<1>8. \/ UNCHANGED MarketResting
      \/ MarketActive.open > 0 /\ ~MarketActive.market /\ MarketResting' = MarketResting \cup {MarketActive}
  <2>1. CASE ~rests
    BY <1>2, <1>4, <1>6, <2>1
  <2>2. CASE rests
    <3>1. MarketActive.open > 0 /\ ~MarketActive.market
      BY <1>1, <1>7, <2>2 DEF Immediate
    <3>2. MarketResting' = {MO(order'[id], id) : id \in index} \cup {MO(order'[taker], taker)}
      BY <1>2, <1>6, <2>2
    <3>3. {MO(order'[id], id) : id \in index} = {MO(order[id], id) : id \in index}
      BY <1>4
    <3> QED BY <1>5, <1>6, <3>1, <3>2, <3>3
  <2> QED BY <2>1, <2>2
<1>9. MarketActive.open = 0 \/ \A m \in Market!Against(MarketActive) : ~Market!Tradable(MarketActive, m)
  <2>1. CASE Remaining(order[taker]) > 0
    BY <1>2, <2>1, NothingTradable
  <2>2. CASE ~(Remaining(order[taker]) > 0)
    BY <1>3, <1>7, <2>2 DEF Remaining, OrderType
  <2> QED BY <2>1, <2>2
<1>10. MarketActive' = NoOrder /\ MarketTape' = MarketTape
  BY <1>2, NextActiveIs, TapeIs, NextTapeIs
<1> QED BY <1>7, <1>8, <1>9, <1>10 DEF Market!Leave

LEMMA CancelWithdraws ==
  ASSUME IInv, IInv', NEW id \in index, Cancel(id)
  PROVE  \E m \in MarketResting : Market!Withdraw(m)
<1>1. /\ taker = NoOrder /\ taker' = NoOrder /\ trades' = <<>> /\ index' = index \ {id}
      /\ \A x \in index \ {id} : order'[x] = order[x]
  BY DEF Cancel
<1>2. MO(order[id], id) \in MarketResting
  BY RestingIsIndex DEF IInv
<1>3. MarketResting' = MarketResting \ {MO(order[id], id)}
  BY <1>1, OthersRest, NextRestingIsIndex DEF IInv
<1>4. Market!Withdraw(MO(order[id], id))
  BY <1>1, <1>3, NextTapeIs, NextActiveIs DEF Market!Withdraw, MarketActive
<1> QED BY <1>2, <1>4

LEMMA StepSimulates ==
  ASSUME IInv, IInv', trades \in Seq(TradeType), [Next]_vars
  PROVE  [Market!Next]_(Market!vars)
<1>1. ASSUME NEW r \in Requests, Reject(r) PROVE Market!Next
  BY <1>1, RejectRefuses DEF Market!Next
<1>2. ASSUME NEW r \in Requests, Begin(r) PROVE Market!Next
  BY <1>2, BeginArrives DEF Market!Next
<1>3. CASE CancelOwnMaker
  BY <1>3, CancelOwnMakerPrevents DEF Market!Next
<1>4. CASE Trade
  BY <1>4, TradeExecutes DEF Market!Next
<1>5. CASE FinishFilled \/ FinishImmediate \/ Rest
  BY <1>5, FinishLeaves DEF Market!Next
<1>6. ASSUME NEW id \in index, Cancel(id) PROVE Market!Next
  BY <1>6, CancelWithdraws DEF Market!Next
<1>7. CASE UNCHANGED vars
  BY <1>7 DEF vars, result, Market!vars, MarketResting, MarketActive, MarketTape,
              MarketOrder, Remaining
<1> QED BY <1>1, <1>2, <1>3, <1>4, <1>5, <1>6, <1>7 DEF Next

\* Price-time priority: for any requests, every step of the engine is a step of
\* the abstract market, or none. So whatever the slices and the binary search do,
\* an order trades with the best counterparty, the older one of equal prices, at
\* its price, never with its own account, and stops when nothing is tradable.
THEOREM EngineImplementsMarket == Spec => ImplementsMarket
<1>1. Init => trades \in Seq(TradeType)
  BY EmptySeq DEF Init
<1>2. /\ IInv /\ IInv' /\ trades \in Seq(TradeType) /\ [Next]_vars
      => [Market!Next]_(Market!vars)
  BY StepSimulates
<1> QED BY <1>1, <1>2, MarketInit, InvHolds, NextTradesTyped, PTL
        DEF Spec, ImplementsMarket, Market!Spec

-----------------------------------------------------------------------------
(***************************************************************************)
(* The trades of a call add up.                                            *)
(***************************************************************************)

\* What trades ts are for, together.
Sold(ts) == SumFunctionOnSet([i \in DOMAIN ts |-> ts[i].qty], DOMAIN ts)

LEMMA SoldGrows ==
  ASSUME NEW ts \in Seq(TradeType), NEW t \in TradeType
  PROVE  Sold(Append(ts, t)) = Sold(ts) + t.qty /\ Sold(ts) \in Nat
<1> DEFINE new == Append(ts, t)
           n == Len(ts)
           f == [i \in DOMAIN ts |-> ts[i].qty]
           g == [i \in DOMAIN new |-> new[i].qty]
<1>1. /\ n \in Nat /\ DOMAIN ts = 1..n /\ DOMAIN new = 1..(n + 1)
      /\ \A i \in 1..n : new[i] = ts[i] /\ ts[i] \in TradeType
      /\ new[n + 1] = t
  <2>1. n \in Nat /\ DOMAIN ts = 1..n /\ \A i \in 1..n : ts[i] \in TradeType
    BY LenProperties, ElementOfSeq
  <2>2. /\ new \in Seq(TradeType) /\ Len(new) = n + 1
        /\ \A i \in 1..n : new[i] = ts[i] /\ new[n + 1] = t
    BY AppendProperties
  <2>3. DOMAIN new = 1..(n + 1) /\ new[n + 1] = t
    <3> HIDE DEF new
    <3>1. DOMAIN new = 1..Len(new)
      BY <2>2, LenProperties
    <3>2. new[n + 1] = t
      BY AppendProperties DEF new
    <3> QED BY <2>2, <3>1, <3>2
  <2> HIDE DEF new
  <2> QED BY <2>1, <2>2, <2>3
<1> HIDE DEF new, n
<1>2. IsFiniteSet(1..n) /\ n + 1 \notin 1..n /\ 1..(n + 1) = (1..n) \cup {n + 1}
  <2>1. IsFiniteSet(1..n)
    BY <1>1, FS_Interval
  <2> QED BY <1>1, <2>1
<1>3. \A i \in 1..n : f[i] = g[i] /\ f[i] \in Nat
  BY <1>1 DEF TradeType
<1>4. \A i \in (1..n) \cup {n + 1} : g[i] \in Int
  BY <1>1, <1>2 DEF TradeType
<1>5. g[n + 1] = t.qty /\ t.qty \in Nat
  BY <1>1 DEF TradeType
<1>6. Sold(ts) = SumFunctionOnSet(f, 1..n) /\ Sold(new) = SumFunctionOnSet(g, (1..n) \cup {n + 1})
  BY <1>1, <1>2 DEF Sold
<1> HIDE DEF f, g
<1>7. SumFunctionOnSet(g, (1..n) \cup {n + 1}) = g[n + 1] + SumFunctionOnSet(g, 1..n)
  BY <1>2, <1>4, SumAdd
<1>8. SumFunctionOnSet(g, 1..n) = SumFunctionOnSet(f, 1..n)
  <2>1. \A i \in 1..n : g[i] = f[i]
    BY <1>3
  <2> QED BY <1>2, <2>1, SumSame
<1>9. SumFunctionOnSet(f, 1..n) \in Nat
  BY <1>2, <1>3, SumType
<1> QED BY <1>5, <1>6, <1>7, <1>8, <1>9 DEF new

LEMMA NothingSold == Sold(<<>>) = 0
<1>1. DOMAIN <<>> = {}
  OBVIOUS
<1> QED BY <1>1, SumRec, FS_EmptySet DEF Sold

\* The first report of a call is the taker's, and what is filled of it is what
\* was sold to it or by it.
AddUpInv ==
  /\ trades \in Seq(TradeType)
  /\ fills = <<>> => trades = <<>> /\ (taker # NoOrder => order[taker].filled = 0)
  /\ fills # <<>> => /\ fills[1].id \in DOMAIN order
                     /\ order[fills[1].id].filled = Sold(trades)
                     /\ taker # NoOrder => fills[1].id = taker

\* Steps that trade nothing and fill nothing.
LEMMA NoSale ==
  ASSUME AddUpInv, UNCHANGED <<fills, trades>>, taker' = taker \/ taker' = NoOrder,
         taker # NoOrder => taker \in DOMAIN order,
         \A id \in DOMAIN order : id \in DOMAIN order' /\ order'[id].filled = order[id].filled
  PROVE  AddUpInv'
BY DEF AddUpInv

LEMMA TradeAddsUp ==
  ASSUME IInv, ReportsInv, AddUpInv, Trade, trades' \in Seq(TradeType)
  PROVE  AddUpInv'
<1> DEFINE qty == TradeQty(order[taker], order[Maker])
           t == Executed(order[taker], qty)
           m == Executed(order[Maker], qty)
           price == order[Maker].price
           ft == FillOf(taker, t, price, qty)
           fm == FillOf(Maker, m, price, qty)
           sale == [id |-> tradeSeq', taker |-> taker, maker |-> Maker, price |-> price, qty |-> qty]
<1>1. /\ taker # NoOrder /\ taker \in DOMAIN order /\ taker \in Nat /\ Maker \in Nat
      /\ order[taker] \in OrderType /\ Remaining(order[taker]) \in Nat /\ price \in Nat
      /\ tradeSeq' \in Nat
  <2>1. Matching /\ tradeSeq' = tradeSeq + 1 /\ tradeSeq \in Nat
    BY DEF Trade, IInv, TypeOK
  <2>2. /\ taker # NoOrder /\ taker \in DOMAIN order /\ taker \in Nat /\ Maker \in Nat
        /\ price \in Nat
    BY <2>1, MakerIs DEF Matching, IInv, TypeOK, OrderType
  <2>3. order[taker] \in OrderType /\ Remaining(order[taker]) \in Nat
    BY <2>1, MakerIs
  <2> QED BY <2>1, <2>2, <2>3
<1>2. /\ qty \in Nat \ {0} /\ qty <= Remaining(order[taker])
      /\ t \in OrderType /\ m \in OrderType /\ t.filled <= t.qty /\ m.filled <= m.qty
      /\ DOMAIN order' = DOMAIN order /\ order'[taker] = t /\ taker' = taker
  BY TradeIs
<1>3. trades' = Append(trades, sale) /\ fills' = fills \o <<ft, fm>>
  BY DEF Trade, Executed
<1> HIDE DEF qty
<1>4. t.filled = order[taker].filled + qty /\ order[taker].filled \in Nat
  <2>1. t.filled = order[taker].filled + qty
    BY <1>1, <1>2, ExecutedIs
  <2> QED BY <1>1, <2>1 DEF OrderType
<1>5. sale \in TradeType /\ sale.qty = qty
  BY <1>1, <1>2 DEF TradeType
<1> HIDE DEF t, m, price, sale
<1>6. ft \in FillType /\ ft.id = taker /\ fm \in FillType
  BY <1>1, <1>2, FillOfIs
<1> HIDE DEF ft, fm
<1>7. fills' # <<>> /\ fills'[1] = IF fills = <<>> THEN ft ELSE fills[1]
  <2>1. fills \in Seq(FillType) /\ <<ft, fm>> \in Seq(FillType) /\ Len(<<ft, fm>>) = 2
        /\ <<ft, fm>>[1] = ft
    BY <1>6 DEF ReportsInv
  <2>2. /\ fills' \in Seq(FillType) /\ Len(fills') = Len(fills) + 2
        /\ \A i \in 1..(Len(fills) + 2) :
             fills'[i] = IF i <= Len(fills) THEN fills[i] ELSE <<ft, fm>>[i - Len(fills)]
    BY <1>3, <2>1, ConcatProperties
  <2>3. Len(fills) \in Nat /\ (fills = <<>> <=> Len(fills) = 0)
    BY <2>1, LenProperties, EmptySeq
  <2>4. fills' # <<>>
    <3>1. Len(fills') # 0
      BY <2>2, <2>3
    <3> QED BY <2>2, <3>1, EmptySeq
  <2>5. CASE fills = <<>>
    BY <2>1, <2>2, <2>3, <2>4, <2>5
  <2>6. CASE fills # <<>>
    BY <2>2, <2>3, <2>4, <2>6
  <2> QED BY <2>5, <2>6
<1>8. Sold(trades') = Sold(trades) + qty /\ Sold(trades) \in Nat
  BY <1>3, <1>5, SoldGrows DEF AddUpInv
<1>9. fills'[1].id = taker /\ order[taker].filled = Sold(trades)
  <2>1. CASE fills = <<>>
    BY <1>1, <1>6, <1>7, <2>1, NothingSold DEF AddUpInv
  <2>2. CASE fills # <<>>
    BY <1>1, <1>7, <2>2 DEF AddUpInv
  <2> QED BY <2>1, <2>2
<1>10. order'[fills'[1].id].filled = Sold(trades')
  BY <1>2, <1>4, <1>8, <1>9
<1> QED BY <1>1, <1>2, <1>7, <1>9, <1>10 DEF AddUpInv

LEMMA NextAddsUp == IInv /\ ReportsInv /\ AddUpInv /\ [Next]_vars => AddUpInv'
<1> SUFFICES ASSUME IInv, ReportsInv, AddUpInv, [Next]_vars PROVE AddUpInv'
  OBVIOUS
<1>1. <<>> \in Seq(TradeType)
  BY EmptySeq
<1>2. taker # NoOrder => taker \in DOMAIN order
  BY DEF IInv, TypeOK
<1>3. ASSUME NEW r \in Requests, Reject(r) PROVE AddUpInv'
  BY <1>1, <1>3 DEF Reject, Receive, AddUpInv
<1>4. ASSUME NEW r \in Requests, Begin(r) PROVE AddUpInv'
  <2>1. fills' = <<>> /\ trades' = <<>> /\ order'[taker'].filled = 0
    BY <1>4, ReceiveKeeps DEF Begin, Receive, NewOrder
  <2> QED BY <1>1, <2>1 DEF AddUpInv
<1>5. CASE CancelOwnMaker
  <2>1. Maker \in DOMAIN order /\ order[Maker] \in OrderType
    BY <1>5, MakerIs DEF CancelOwnMaker, IInv, TypeOK
  <2> QED BY <1>2, <1>5, <2>1, NoSale DEF CancelOwnMaker, OrderType
<1>6. CASE Trade
  <2>1. trades' \in Seq(TradeType)
    BY NextTradesTyped DEF AddUpInv
  <2> QED BY <1>6, <2>1, TradeAddsUp
<1>7. CASE FinishFilled \/ FinishImmediate \/ Rest
  <2>1. PICK status, rests : Finalize(status, rests)
    BY <1>7 DEF FinishFilled, FinishImmediate, Rest
  <2>2. taker \in DOMAIN order /\ order[taker] \in OrderType
    BY <2>1 DEF Finalize, IInv, TypeOK
  <2>3. order' = [order EXCEPT ![taker].status = status] /\ fills' = fills /\ trades' = trades
        /\ taker' = NoOrder
    BY <2>1 DEF Finalize, result
  <2> QED BY <1>2, <2>2, <2>3, NoSale DEF OrderType
<1>8. ASSUME NEW id \in index, Cancel(id) PROVE AddUpInv'
  BY <1>1, <1>8 DEF Cancel, AddUpInv
<1>9. CASE UNCHANGED vars
  BY <1>2, <1>9, NoSale DEF vars, result
<1> QED BY <1>3, <1>4, <1>5, <1>6, <1>7, <1>8, <1>9 DEF Next

\* The reports of a call agree with the orders they report and with its trades,
\* in the middle of the loop too.
THEOREM ReportsAlwaysAgree == Spec => []ReportsAgree
<1>1. Init => AddUpInv
  <2>1. <<>> \in Seq(TradeType)
    BY EmptySeq
  <2> QED BY <2>1 DEF Init, AddUpInv
<1>2. AddUpInv => TradesAddUp
  BY DEF AddUpInv, TradesAddUp, Sold
<1>3. Init => ReportsInv
  BY DEF Init, ReportsInv, LastReportsTrue
<1> QED BY <1>1, <1>2, <1>3, InvHolds, NextReports, NextAddsUp, LastReportsAlwaysTrue, PTL
        DEF Spec, ReportsAgree

-----------------------------------------------------------------------------
(***************************************************************************)
(* Fill-or-kill: what the check before the loop counts level by level is   *)
(* what the loop can execute order by order.                               *)
(***************************************************************************)

\* The orders of levels lv that t can trade with, and what is left of them.
Reachable(lv, heap, t) == {id \in Resting(lv) : Crosses(t, heap[id].price)}
LeftOf(heap) == [id \in DOMAIN heap |-> Remaining(heap[id])]
Liquidity(lv, heap, t) == SumFunctionOnSet(LeftOf(heap), Reachable(lv, heap, t))

LEMMA QueueFinite ==
  ASSUME NEW q \in Seq(Nat)
  PROVE  IsFiniteSet(ToSet(q))
<1>1. Len(q) \in Nat /\ DOMAIN q = 1..Len(q) /\ IsFiniteSet(1..Len(q))
  BY LenProperties, FS_Interval
<1>2. q \in Surjection(1..Len(q), ToSet(q))
  BY <1>1 DEF Surjection, ToSet
<1> QED BY <1>1, <1>2, FS_Surjection

\* Every order rests in one level, at its price: sums by level are sums by order.
LEMMA LevelsSum ==
  ASSUME NEW s \in Sides, NEW lv \in Seq(Level), NEW heap, SideOK(s, lv, heap), NEW t,
         NEW f, \A id \in Resting(lv) : f[id] \in Int
  PROVE  /\ IsFiniteSet(Reachable(lv, heap, t))
         /\ SumFunctionOnSet([i \in DOMAIN lv |-> SumFunctionOnSet(f, ToSet(lv[i].orders))],
                             {i \in DOMAIN lv : Crosses(t, lv[i].price)})
              = SumFunctionOnSet(f, Reachable(lv, heap, t))
<1> DEFINE I == {i \in DOMAIN lv : Crosses(t, lv[i].price)}
           G == [i \in DOMAIN lv |-> ToSet(lv[i].orders)]
           g == [i \in DOMAIN lv |-> SumFunctionOnSet(f, ToSet(lv[i].orders))]
<1>1. /\ Len(lv) \in Nat /\ DOMAIN lv = 1..Len(lv)
      /\ \A i \in DOMAIN lv : lv[i].orders \in Seq(Nat)
  BY LevelTypes
<1>2. IsFiniteSet(I)
  <2>1. IsFiniteSet(1..Len(lv)) /\ I \subseteq 1..Len(lv)
    BY <1>1, FS_Interval
  <2> HIDE DEF I
  <2> QED BY <2>1, FS_Subset
<1>3. \A i \in DOMAIN lv : G[i] \subseteq Resting(lv) /\ IsFiniteSet(G[i])
  <2>1. \A i \in DOMAIN lv : ToSet(lv[i].orders) \subseteq Resting(lv)
    BY DEF Resting
  <2> QED BY <1>1, <2>1, QueueFinite
<1>4. \A i, j \in DOMAIN lv : i # j => G[i] \cap G[j] = {}
  <2> SUFFICES ASSUME NEW i \in DOMAIN lv, NEW j \in DOMAIN lv, NEW x \in G[i], x \in G[j]
               PROVE  i = j
    OBVIOUS
  <2>1. PICK k \in DOMAIN lv[i].orders : x = lv[i].orders[k]
    BY DEF ToSet
  <2>2. PICK l \in DOMAIN lv[j].orders : x = lv[j].orders[l]
    BY DEF ToSet
  <2>3. /\ i \in 1..Len(lv) /\ j \in 1..Len(lv)
        /\ k \in 1..Len(lv[i].orders) /\ l \in 1..Len(lv[j].orders)
    BY <1>1, LevelTypes
  <2> QED BY <2>1, <2>2, <2>3, OnePlace
<1>5. UNION {G[i] : i \in I} = Reachable(lv, heap, t)
  <2>1. \A i \in DOMAIN lv : \A x \in G[i] : heap[x].price = lv[i].price
    BY DEF SideOK, LevelOK, ToSet
  <2>2. \A x : x \in Resting(lv) <=> \E i \in DOMAIN lv : x \in G[i]
    BY DEF Resting
  <2> HIDE DEF G
  <2> QED BY <2>1, <2>2 DEF Reachable
<1>6. \A i \in I : g[i] = SumFunctionOnSet(f, G[i])
  OBVIOUS
<1>7. I \subseteq DOMAIN lv
  OBVIOUS
<1>8. \A i \in I : IsFiniteSet(G[i]) /\ \A x \in G[i] : f[x] \in Int
  BY <1>3, <1>7
<1>9. \A i, j \in I : i # j => G[i] \cap G[j] = {}
  BY <1>4, <1>7
<1> HIDE DEF I, G, g
<1>10. /\ IsFiniteSet(UNION {G[i] : i \in I})
       /\ SumFunctionOnSet(g, I) = SumFunctionOnSet(f, UNION {G[i] : i \in I})
  BY <1>2, <1>6, <1>8, <1>9, SumGroups
<1> QED BY <1>5, <1>10 DEF I, g

\* What a side offers an order, whoever asks: numbers, and finitely many.
LEMMA Offer ==
  ASSUME IInv, NEW s \in Sides, NEW t
  PROVE  /\ levels[s] \in Seq(Level) /\ SideOK(s, levels[s], order)
         /\ Resting(levels[s]) \subseteq index
         /\ \A id \in Resting(levels[s]) :
              id \in DOMAIN order /\ Remaining(order[id]) \in Nat
              /\ LeftOf(order)[id] = Remaining(order[id])
         /\ IsFiniteSet(Reachable(levels[s], order, t))
         /\ Liquidity(levels[s], order, t) \in Nat
<1>1. levels[s] \in Seq(Level) /\ SideOK(s, levels[s], order) /\ Resting(levels[s]) \subseteq index
  BY IndexIs DEF IInv, SidesOK
<1>2. \A id \in Resting(levels[s]) :
        id \in DOMAIN order /\ Remaining(order[id]) \in Nat
        /\ LeftOf(order)[id] = Remaining(order[id])
  BY <1>1, IndexIs DEF IInv, Remaining, OrderType, LeftOf
<1>3. IsFiniteSet(Reachable(levels[s], order, t))
  <2>1. \A id \in Resting(levels[s]) : LeftOf(order)[id] \in Int
    BY <1>2
  <2> QED BY <1>1, <2>1, LevelsSum
<1>4. Liquidity(levels[s], order, t) \in Nat
  <2>1. \A id \in Reachable(levels[s], order, t) : LeftOf(order)[id] \in Nat
    BY <1>2 DEF Reachable
  <2> QED BY <1>3, <2>1, SumType DEF Liquidity
<1> QED BY <1>1, <1>2, <1>3, <1>4

LEMMA OppositeSide ==
  ASSUME NEW s \in Sides
  PROVE  Opposite(s) \in Sides
BY DEF Opposite, Sides

\* canFullyFill adds up what the order can reach.
LEMMA CanFullyFillIs ==
  ASSUME IInv, NEW t, t.side \in Sides
  PROVE  CanFullyFill(t) <=> Liquidity(levels[Opposite(t.side)], order, t) >= t.qty
<1> DEFINE s == Opposite(t.side)
           lv == levels[s]
<1>1. s \in Sides
  BY OppositeSide
<1>2. OpenQty = LeftOf(order)
  BY DEF OpenQty, LeftOf
<1>3. lv \in Seq(Level) /\ SideOK(s, lv, order) /\ \A id \in Resting(lv) : LeftOf(order)[id] \in Int
  BY <1>1, Offer
<1> HIDE DEF lv, s
<1>4. SumFunctionOnSet([i \in DOMAIN lv |-> SumFunctionOnSet(LeftOf(order), ToSet(lv[i].orders))],
                       {i \in DOMAIN lv : Crosses(t, lv[i].price)})
        = SumFunctionOnSet(LeftOf(order), Reachable(lv, order, t))
  BY <1>1, <1>3, LevelsSum
<1> QED BY <1>2, <1>4 DEF CanFullyFill, LevelQty, Liquidity, lv, s

\* While no own order has been met, a fill-or-kill order can still reach what
\* it lacks.
FokInv ==
  taker # NoOrder /\ order[taker].tif = "fok" /\ canceledMakers = <<>> =>
    Remaining(order[taker]) <= Liquidity(levels[Opposite(order[taker].side)], order, order[taker])

\* What is liquidity to the order it is checked for is liquidity to the taker
\* it becomes.
LEMMA BeginFok ==
  ASSUME IInv, NEW r \in Requests, Begin(r)
  PROVE  FokInv'
<1> DEFINE n == NewOrder(r, "new")
           s == Opposite(r.side)
           R == Reachable(levels[s], order, r)
<1>1. /\ Receive(r, "new") /\ taker' = nextSeq /\ levels' = levels
      /\ r.tif = "fok" => CanFullyFill(r)
  BY DEF Begin, Receive
<1>2. r.side \in Sides /\ r.qty \in Nat /\ s \in Sides
  <2>1. r.side \in Sides /\ r.qty \in Nat
    BY RequestsAssumption DEF RequestType
  <2> QED BY <2>1, OppositeSide
<1>3. /\ order'[nextSeq] = n /\ DOMAIN order' = index \cup {nextSeq}
      /\ \A id \in index : order'[id] = order[id]
  BY <1>1, ReceiveKeeps
<1>4. /\ n.side = r.side /\ n.tif = r.tif /\ Remaining(n) = r.qty
      /\ \A p : Crosses(n, p) <=> Crosses(r, p)
  BY <1>2 DEF NewOrder, Remaining, Crosses
<1>5. /\ Resting(levels[s]) \subseteq index /\ IsFiniteSet(R)
      /\ \A id \in Resting(levels[s]) : id \in DOMAIN order
  BY <1>2, Offer
<1> HIDE DEF n, s
<1>6. Reachable(levels[s], order', n) = R
  BY <1>3, <1>4, <1>5 DEF Reachable
<1>7. \A id \in R : LeftOf(order')[id] = LeftOf(order)[id]
  <2>1. \A id \in R : id \in index /\ id \in DOMAIN order /\ id \in DOMAIN order'
    BY <1>3, <1>5 DEF Reachable
  <2> QED BY <1>3, <2>1 DEF LeftOf
<1>8. Liquidity(levels[s], order', n) = Liquidity(levels[s], order, r)
  <2>1. SumFunctionOnSet(LeftOf(order'), R) = SumFunctionOnSet(LeftOf(order), R)
    <3> HIDE DEF R
    <3> QED BY <1>5, <1>7, SumSame
  <2> QED BY <1>6, <2>1 DEF Liquidity
<1>9. r.tif = "fok" => Liquidity(levels[s], order, r) >= r.qty
  BY <1>1, <1>2, CanFullyFillIs DEF s
<1>10. /\ Liquidity(levels[s], order, r) \in Nat
       /\ r.tif = "fok" => r.qty <= Liquidity(levels[s], order', n)
  <2>1. Liquidity(levels[s], order, r) \in Nat
    BY <1>2, Offer
  <2> QED BY <1>2, <1>8, <1>9, <2>1
<1> QED BY <1>1, <1>3, <1>4, <1>10 DEF FokInv, s

\* A trade takes from what the taker can reach what it takes from its remainder.
LEMMA TradeLiquidity ==
  ASSUME IInv, IInv', Trade
  PROVE  LET s == Opposite(order[taker].side)
             qty == TradeQty(order[taker], order[Maker])
         IN  Liquidity(levels'[s], order', order'[taker])
               = Liquidity(levels[s], order, order[taker]) - qty
<1> DEFINE s == Opposite(order[taker].side)
           lv == levels[s]
           qty == TradeQty(order[taker], order[Maker])
           t == Executed(order[taker], qty)
           m == Executed(order[Maker], qty)
           f == LeftOf(order)
           g == LeftOf(order')
           R == Reachable(lv, order, order[taker])
<1>1. Matching
  BY DEF Trade
<1>2. /\ s \in Sides /\ lv \in Seq(Level) /\ SideOK(s, lv, order) /\ lv # <<>>
      /\ Maker = FrontOrder(lv) /\ Maker \in Resting(lv) /\ Maker \in index /\ Maker # taker
      /\ taker \notin index /\ order[taker] \in OrderType /\ order[Maker] \in OrderType
      /\ Remaining(order[taker]) \in Nat /\ Remaining(order[Maker]) \in Nat
  BY <1>1, MakerIs
<1>3. Crosses(order[taker], order[Maker].price)
  BY <1>1 DEF Matching
<1>4. /\ qty \in Nat \ {0}
      /\ qty <= Remaining(order[taker]) /\ qty <= Remaining(order[Maker])
      /\ DOMAIN order' = DOMAIN order /\ order'[taker] = t /\ order'[Maker] = m
      /\ \A id \in DOMAIN order \ {taker, Maker} : order'[id] = order[id]
      /\ IF Remaining(m) = 0 THEN PopMaker ELSE UNCHANGED <<levels, index>>
  BY TradeIs
<1>5. /\ Resting(lv) \subseteq index /\ IsFiniteSet(R)
      /\ \A id \in Resting(lv) : id \in DOMAIN order /\ f[id] = Remaining(order[id]) /\ f[id] \in Nat
  BY <1>2, Offer
<1> HIDE DEF s, lv, qty
<1>6. /\ t.type = order[taker].type /\ t.side = order[taker].side /\ t.price = order[taker].price
      /\ m.price = order[Maker].price /\ Remaining(m) = Remaining(order[Maker]) - qty
  BY <1>2, <1>4, ExecutedIs
<1> HIDE DEF t, m, f, g
<1>7. \A p : Crosses(t, p) <=> Crosses(order[taker], p)
  BY <1>6 DEF Crosses
<1>8. \A id \in Resting(lv) : /\ order'[id].price = order[id].price
                              /\ g[id] = Remaining(order'[id])
                              /\ id # Maker => g[id] = f[id]
  <2> SUFFICES ASSUME NEW id \in Resting(lv)
               PROVE  /\ order'[id].price = order[id].price /\ g[id] = Remaining(order'[id])
                      /\ id # Maker => g[id] = f[id]
    OBVIOUS
  <2>1. id \in DOMAIN order /\ id # taker /\ f[id] = Remaining(order[id])
    BY <1>2, <1>5
  <2>2. g[id] = Remaining(order'[id])
    BY <1>4, <2>1 DEF g, LeftOf
  <2> QED BY <1>4, <1>6, <2>1, <2>2
<1>9. Maker \in R /\ R \subseteq Resting(lv)
  BY <1>2, <1>3 DEF Reachable
<1> DEFINE Others == R \ {Maker}
           rest == SumFunctionOnSet(f, Others)
<1>10. SumFunctionOnSet(f, R) = f[Maker] + rest
  <2>1. \A id \in R : f[id] \in Int
    BY <1>5, <1>9
  <2> HIDE DEF R
  <2> QED BY <1>5, <1>9, <2>1, SumRemove
<1>11. IsFiniteSet(Others) /\ \A id \in Others : g[id] = f[id] /\ f[id] \in Nat
  <2>1. \A id \in Others : g[id] = f[id] /\ f[id] \in Nat
    BY <1>5, <1>8, <1>9
  <2> HIDE DEF R
  <2> QED BY <1>5, <2>1, FS_Subset
<1>12. SumFunctionOnSet(g, Others) = rest /\ rest \in Nat
  <2> HIDE DEF Others
  <2> QED BY <1>11, SumSame, SumType
<1>13. f[Maker] = Remaining(order[Maker]) /\ g[Maker] = Remaining(order[Maker]) - qty
  BY <1>2, <1>4, <1>5, <1>6, <1>8
<1>14. CASE Remaining(m) = 0
  <2>1. levels'[s] = PopFront(lv)
    BY <1>2, <1>4, <1>14 DEF PopMaker, s, lv, IInv, TypeOK
  <2>2. Resting(PopFront(lv)) = Resting(lv) \ {Maker}
    BY <1>2, PopFrontTakes
  <2>3. Reachable(levels'[s], order', t) = Others
    BY <1>7, <1>8, <2>1, <2>2 DEF Reachable
  <2>4. f[Maker] = qty
    BY <1>2, <1>4, <1>6, <1>13, <1>14
  <2> HIDE DEF Others, R, rest
  <2>5. Liquidity(levels'[s], order', t) = rest
    BY <1>12, <2>3 DEF Liquidity, g
  <2>6. Liquidity(levels[s], order, order[taker]) = qty + rest
    BY <1>10, <2>4 DEF Liquidity, f, R, lv
  <2> QED BY <1>4, <1>12, <2>5, <2>6 DEF s, qty
<1>15. CASE Remaining(m) # 0
  <2>1. levels'[s] = lv
    BY <1>4, <1>15 DEF lv
  <2>2. Reachable(levels'[s], order', t) = R
    BY <1>7, <1>8, <2>1 DEF Reachable
  <2>3. \A id \in R : g[id] \in Int
    <3>1. g[Maker] \in Int
      BY <1>2, <1>4, <1>13
    <3> QED BY <1>11, <3>1
  <2>4. SumFunctionOnSet(g, R) = g[Maker] + SumFunctionOnSet(g, Others)
    <3> HIDE DEF R
    <3> QED BY <1>5, <1>9, <2>3, SumRemove
  <2> HIDE DEF Others, R, rest
  <2>5. Liquidity(levels'[s], order', t) = g[Maker] + rest
    BY <1>12, <2>2, <2>4 DEF Liquidity, g
  <2>6. Liquidity(levels[s], order, order[taker]) = f[Maker] + rest
    BY <1>10 DEF Liquidity, f, R, lv
  <2> QED BY <1>2, <1>4, <1>12, <1>13, <2>5, <2>6 DEF s, qty
<1> QED BY <1>14, <1>15

LEMMA TradeFok ==
  ASSUME IInv, IInv', FokInv, Trade
  PROVE  FokInv'
<1> DEFINE s == Opposite(order[taker].side)
           qty == TradeQty(order[taker], order[Maker])
           t == Executed(order[taker], qty)
<1>1. Matching /\ canceledMakers' = canceledMakers /\ taker # NoOrder
  BY DEF Trade, Matching
<1>2. order[taker] \in OrderType /\ Remaining(order[taker]) \in Nat /\ s \in Sides
  BY <1>1, MakerIs
<1>3. /\ qty \in Nat \ {0} /\ qty <= Remaining(order[taker])
      /\ order'[taker] = t /\ taker' = taker
  BY TradeIs
<1>4. Liquidity(levels'[s], order', order'[taker]) = Liquidity(levels[s], order, order[taker]) - qty
  BY TradeLiquidity
<1>5. Liquidity(levels[s], order, order[taker]) \in Nat
  BY <1>2, Offer
<1> HIDE DEF qty
<1>6. t.tif = order[taker].tif /\ t.side = order[taker].side
      /\ Remaining(t) = Remaining(order[taker]) - qty
  BY <1>2, <1>3, ExecutedIs
<1> HIDE DEF t
<1>7. order[taker].tif = "fok" /\ canceledMakers = <<>> =>
        Remaining(order[taker]) <= Liquidity(levels[s], order, order[taker])
  BY <1>1 DEF FokInv
<1>8. order'[taker].tif = "fok" /\ canceledMakers = <<>> =>
        Remaining(order'[taker]) <= Liquidity(levels'[s], order', order'[taker])
  BY <1>2, <1>3, <1>4, <1>5, <1>6, <1>7
<1>9. Opposite(order'[taker].side) = s
  BY <1>3, <1>6
<1> QED BY <1>1, <1>3, <1>8, <1>9 DEF FokInv

LEMMA NextCanceledTyped ==
  IInv /\ canceledMakers \in Seq(Nat) /\ [Next]_vars => (canceledMakers \in Seq(Nat))'
<1> SUFFICES ASSUME IInv, canceledMakers \in Seq(Nat), [Next]_vars
             PROVE  canceledMakers' \in Seq(Nat)
  OBVIOUS
<1>1. <<>> \in Seq(Nat)
  BY EmptySeq
<1>2. ASSUME NEW r \in Requests, Reject(r) \/ Begin(r) PROVE canceledMakers' \in Seq(Nat)
  BY <1>1, <1>2 DEF Reject, Begin, Receive
<1>3. CASE CancelOwnMaker
  <2>1. Matching /\ canceledMakers' = Append(canceledMakers, Maker)
    BY <1>3 DEF CancelOwnMaker
  <2>2. Maker \in Nat
    BY <2>1, MakerIs DEF IInv, TypeOK
  <2> QED BY <2>1, <2>2, AppendProperties
<1>4. CASE Trade \/ FinishFilled \/ FinishImmediate \/ Rest
  BY <1>4 DEF Trade, FinishFilled, FinishImmediate, Rest, Finalize, result
<1>5. ASSUME NEW id \in index, Cancel(id) PROVE canceledMakers' \in Seq(Nat)
  BY <1>1, <1>5 DEF Cancel
<1>6. CASE UNCHANGED vars
  BY <1>6 DEF vars, result
<1> QED BY <1>2, <1>3, <1>4, <1>5, <1>6 DEF Next

LEMMA NextFok ==
  IInv /\ IInv' /\ FokInv /\ canceledMakers \in Seq(Nat) /\ [Next]_vars => FokInv'
<1> SUFFICES ASSUME IInv, IInv', FokInv, canceledMakers \in Seq(Nat), [Next]_vars PROVE FokInv'
  OBVIOUS
<1>1. ASSUME NEW r \in Requests, Reject(r) PROVE FokInv'
  BY <1>1 DEF Reject, Receive, FokInv
<1>2. ASSUME NEW r \in Requests, Begin(r) PROVE FokInv'
  BY <1>2, BeginFok
<1>3. CASE CancelOwnMaker
  <2>1. Maker \in Nat
    BY <1>3, MakerIs DEF CancelOwnMaker, IInv, TypeOK
  <2>2. /\ Len(Append(canceledMakers, Maker)) = Len(canceledMakers) + 1
        /\ Len(canceledMakers) \in Nat
    BY <2>1, AppendProperties, LenProperties
  <2>3. Append(canceledMakers, Maker) # <<>>
    BY <2>2, EmptySeq
  <2> QED BY <1>3, <2>3 DEF CancelOwnMaker, FokInv
<1>4. CASE Trade
  BY <1>4, TradeFok
<1>5. CASE FinishFilled \/ FinishImmediate \/ Rest
  BY <1>5 DEF FinishFilled, FinishImmediate, Rest, Finalize, FokInv
<1>6. ASSUME NEW id \in index, Cancel(id) PROVE FokInv'
  BY <1>6 DEF Cancel, FokInv
<1>7. CASE UNCHANGED vars
  BY <1>7 DEF vars, result, FokInv
<1> QED BY <1>1, <1>2, <1>3, <1>4, <1>5, <1>6, <1>7 DEF Next

\* The loop ends when nothing reachable is left, so nothing may be lacking then.
LEMMA FokFinishes ==
  ASSUME IInv, FokInv, taker # NoOrder, ~Matching, order[taker].tif = "fok", canceledMakers = <<>>
  PROVE  Remaining(order[taker]) = 0
<1> DEFINE s == Opposite(order[taker].side)
<1>1. Remaining(order[taker]) \in Nat /\ s \in Sides
  <2>1. order[taker] \in OrderType /\ order[taker].filled <= order[taker].qty
    BY DEF IInv, TypeOK
  <2>2. order[taker].side \in Sides
    BY <2>1 DEF OrderType
  <2> QED BY <2>1, <2>2, OppositeSide DEF OrderType, Remaining
<1> SUFFICES ASSUME Remaining(order[taker]) > 0 PROVE FALSE
  BY <1>1
<1>2. \A id \in Resting(levels[s]) : ~Crosses(order[taker], order[id].price)
  BY LoopEnded
<1>3. Reachable(levels[s], order, order[taker]) = {}
  BY <1>2 DEF Reachable
<1>4. Liquidity(levels[s], order, order[taker]) = 0
  BY <1>3, SumRec, FS_EmptySet DEF Liquidity
<1> QED BY <1>1, <1>4 DEF FokInv

\* Fill-or-kill: a call that meets no order of its own account executes all it
\* accepted to execute, whatever the levels and queues the check added up.
THEOREM FOKAlwaysFills == Spec => FOKFillsWithoutOwnOrders
<1> DEFINE Leaves == taker # NoOrder /\ taker' = NoOrder /\ order[taker].tif = "fok"
                     /\ canceledMakers = <<>>
<1>1. Init => FokInv /\ canceledMakers \in Seq(Nat)
  <2>1. <<>> \in Seq(Nat)
    BY EmptySeq
  <2> QED BY <2>1 DEF Init, FokInv
<1>2. IInv /\ FokInv /\ [Next]_vars => [Leaves => order'[taker].status = "filled"]_vars
  <2> SUFFICES ASSUME IInv, FokInv, Next, Leaves PROVE order'[taker].status = "filled"
    OBVIOUS
  <2>1. ASSUME NEW r \in Requests, Reject(r) \/ Begin(r) PROVE FALSE
    BY <2>1 DEF Reject, Begin, Receive
  <2>2. ASSUME CancelOwnMaker \/ Trade PROVE FALSE
    BY <2>2 DEF CancelOwnMaker, Trade
  <2>3. ASSUME NEW id \in index, Cancel(id) PROVE FALSE
    BY <2>3 DEF Cancel
  <2>4. ASSUME FinishImmediate \/ Rest PROVE FALSE
    <3>1. ~Matching /\ Remaining(order[taker]) > 0
      BY <2>4 DEF FinishImmediate, Rest, Finalize
    <3> QED BY <3>1, FokFinishes
  <2>5. CASE FinishFilled
    <3>1. taker \in DOMAIN order /\ order[taker] \in OrderType
      BY DEF IInv, TypeOK
    <3> QED BY <2>5, <3>1 DEF FinishFilled, Finalize, OrderType
  <2> QED BY <2>1, <2>2, <2>3, <2>4, <2>5 DEF Next
<1>3. IInv /\ [Next]_vars => IInv'
  BY NextInv
<1> QED BY <1>1, <1>2, <1>3, InitInv, NextFok, NextCanceledTyped, PTL DEF Spec, FOKFillsWithoutOwnOrders

-----------------------------------------------------------------------------
(***************************************************************************)
(* Snapshots: reinserting a book's orders one by one rebuilds it. A side   *)
(* is determined by which orders rest there (SameSide), so it is enough    *)
(* that the list has those, with the orders of one price in order of       *)
(* arrival (InArrivalOrder), and that each insertion adds its order.       *)
(***************************************************************************)

LEMMA SortedSame ==
  ASSUME NEW s \in Sides, NEW a \in Seq(Nat), NEW b \in Seq(Nat),
         \A i, j \in DOMAIN a : i < j => Better(s, a[i], a[j]),
         \A i, j \in DOMAIN b : i < j => Better(s, b[i], b[j]),
         \A x : (\E i \in DOMAIN a : a[i] = x) <=> (\E i \in DOMAIN b : b[i] = x)
  PROVE  a = b
<1>1. /\ Len(a) \in Nat /\ DOMAIN a = 1..Len(a) /\ \A i \in DOMAIN a : a[i] \in Nat
      /\ Len(b) \in Nat /\ DOMAIN b = 1..Len(b) /\ \A i \in DOMAIN b : b[i] \in Nat
  BY LenProperties, ElementOfSeq
<1>2. \A i \in DOMAIN a \cap DOMAIN b : a[i] = b[i]
  <2> DEFINE D == {i \in DOMAIN a \cap DOMAIN b : a[i] # b[i]}
  <2> SUFFICES ASSUME D # {} PROVE FALSE
    OBVIOUS
  <2>1. PICK m \in D : \A n \in D : ~(n < m)
    <3>1. D \in SUBSET Nat
      BY <1>1
    <3> HIDE DEF D
    <3> QED BY <3>1, LeastOfNat
  <2>2. /\ m \in DOMAIN a /\ m \in DOMAIN b /\ a[m] # b[m] /\ a[m] \in Nat /\ b[m] \in Nat
        /\ \A n \in DOMAIN a \cap DOMAIN b : n < m => a[n] = b[n]
    BY <1>1, <2>1
  <2> HIDE DEF D
  <2>3. PICK i \in DOMAIN b : b[i] = a[m]
    BY <2>2
  <2>4. PICK j \in DOMAIN a : a[j] = b[m]
    BY <2>2
  <2>5. i > m
    <3>1. i < m => i \in DOMAIN a /\ a[i] = a[m] /\ Better(s, a[i], a[m])
      BY <1>1, <2>2, <2>3
    <3>2. ~(i < m)
      BY <2>2, <3>1 DEF Better
    <3> QED BY <1>1, <2>2, <2>3, <3>2
  <2>6. j > m
    <3>1. j < m => j \in DOMAIN b /\ b[j] = b[m] /\ Better(s, b[j], b[m])
      BY <1>1, <2>2, <2>4
    <3>2. ~(j < m)
      BY <2>2, <3>1 DEF Better
    <3> QED BY <1>1, <2>2, <2>4, <3>2
  <2>7. Better(s, b[m], a[m]) /\ Better(s, a[m], b[m])
    BY <2>2, <2>3, <2>4, <2>5, <2>6
  <2> QED BY <2>2, <2>7 DEF Better
<1>3. Len(a) = Len(b)
  <2>1. ASSUME Len(a) < Len(b) PROVE FALSE
    <3> DEFINE n == Len(a) + 1
    <3>1. n \in DOMAIN b
      BY <1>1, <2>1
    <3>2. PICK i \in DOMAIN a : a[i] = b[n]
      BY <3>1
    <3>3. i \in DOMAIN b /\ i < n /\ b[i] = b[n]
      BY <1>1, <1>2, <2>1, <3>2
    <3> HIDE DEF n
    <3>4. Better(s, b[i], b[n]) /\ b[n] \in Nat
      BY <1>1, <3>1, <3>3
    <3> QED BY <3>3, <3>4 DEF Better
  <2>2. ASSUME Len(b) < Len(a) PROVE FALSE
    <3> DEFINE n == Len(b) + 1
    <3>1. n \in DOMAIN a
      BY <1>1, <2>2
    <3>2. PICK i \in DOMAIN b : b[i] = a[n]
      BY <3>1
    <3>3. i \in DOMAIN a /\ i < n /\ a[i] = a[n]
      BY <1>1, <1>2, <2>2, <3>2
    <3> HIDE DEF n
    <3>4. Better(s, a[i], a[n]) /\ a[n] \in Nat
      BY <1>1, <3>1, <3>3
    <3> QED BY <3>3, <3>4 DEF Better
  <2>3. Len(a) \in Nat /\ Len(b) \in Nat
    BY <1>1
  <2> QED BY <2>1, <2>2, <2>3
<1> QED BY <1>1, <1>2, <1>3, SeqEqual

Prices(lv) == {lv[i].price : i \in DOMAIN lv}
OrderPrices(lv, heap) == {heap[id].price : id \in Resting(lv)}

\* The levels of a side are the prices of its orders, the queue of a level the
\* orders of its price.
LEMMA LevelIs ==
  ASSUME NEW s \in Sides, NEW lv \in Seq(Level), NEW heap, SideOK(s, lv, heap)
  PROVE  /\ Prices(lv) = OrderPrices(lv, heap)
         /\ \A i \in DOMAIN lv : \A id :
              (\E k \in DOMAIN lv[i].orders : lv[i].orders[k] = id)
                <=> (id \in Resting(lv) /\ heap[id].price = lv[i].price)
<1>1. /\ DOMAIN lv = 1..Len(lv) /\ Len(lv) \in Nat
      /\ \A i \in DOMAIN lv : /\ lv[i].price \in Nat /\ lv[i].orders # <<>>
                              /\ lv[i].orders \in Seq(Nat)
                              /\ DOMAIN lv[i].orders = 1..Len(lv[i].orders)
                              /\ Len(lv[i].orders) \in Nat
  BY LevelTypes DEF SideOK, LevelOK
<1>2. \A i \in DOMAIN lv : 1 \in DOMAIN lv[i].orders
  <2> SUFFICES ASSUME NEW i \in DOMAIN lv PROVE 1 \in DOMAIN lv[i].orders
    OBVIOUS
  <2>1. Len(lv[i].orders) # 0
    BY <1>1, EmptySeq
  <2> QED BY <1>1, <2>1
<1>3. \A i \in DOMAIN lv : \A k \in DOMAIN lv[i].orders :
        heap[lv[i].orders[k]].price = lv[i].price
  BY DEF SideOK, LevelOK
<1>4. \A i, j \in DOMAIN lv : lv[i].price = lv[j].price => i = j
  <2> SUFFICES ASSUME NEW i \in DOMAIN lv, NEW j \in DOMAIN lv, lv[i].price = lv[j].price, i # j
               PROVE  FALSE
    OBVIOUS
  <2>1. Better(s, lv[i].price, lv[j].price) \/ Better(s, lv[j].price, lv[i].price)
    BY <1>1 DEF SideOK, Sorted
  <2> QED BY <1>1, <2>1 DEF Better
<1>5. \A id : id \in Resting(lv) <=>
              \E i \in DOMAIN lv : \E k \in DOMAIN lv[i].orders : id = lv[i].orders[k]
  BY RestingIs
<1>6. ASSUME NEW i \in DOMAIN lv
      PROVE  \E id \in Resting(lv) : heap[id].price = lv[i].price
  BY <1>2, <1>3, <1>5
<1>7. ASSUME NEW i \in DOMAIN lv, NEW id \in Resting(lv), heap[id].price = lv[i].price
      PROVE  \E k \in DOMAIN lv[i].orders : lv[i].orders[k] = id
  BY <1>3, <1>4, <1>5, <1>7
<1>8. ASSUME NEW i \in DOMAIN lv, NEW k \in DOMAIN lv[i].orders
      PROVE  lv[i].orders[k] \in Resting(lv) /\ heap[lv[i].orders[k]].price = lv[i].price
  BY <1>3, <1>5
<1>9. ASSUME NEW id \in Resting(lv) PROVE \E i \in DOMAIN lv : lv[i].price = heap[id].price
  BY <1>3, <1>5
<1>10. Prices(lv) = OrderPrices(lv, heap)
  BY <1>6, <1>9 DEF Prices, OrderPrices
<1> QED BY <1>7, <1>8, <1>10

LEMMA SameSide ==
  ASSUME NEW s \in Sides, NEW lv \in Seq(Level), NEW lw \in Seq(Level), NEW heap,
         SideOK(s, lv, heap), SideOK(s, lw, heap), Resting(lv) = Resting(lw)
  PROVE  lv = lw
<1> DEFINE p == [i \in 1..Len(lv) |-> lv[i].price]
           q == [i \in 1..Len(lw) |-> lw[i].price]
<1>1. /\ Len(lv) \in Nat /\ DOMAIN lv = 1..Len(lv)
      /\ \A i \in DOMAIN lv : lv[i] \in Level /\ lv[i].price \in Nat /\ lv[i].orders \in Seq(Nat)
  BY LevelTypes
<1>2. /\ Len(lw) \in Nat /\ DOMAIN lw = 1..Len(lw)
      /\ \A i \in DOMAIN lw : lw[i] \in Level /\ lw[i].price \in Nat /\ lw[i].orders \in Seq(Nat)
  BY LevelTypes
<1>3. /\ p \in Seq(Nat) /\ Len(p) = Len(lv) /\ DOMAIN p = DOMAIN lv
      /\ q \in Seq(Nat) /\ Len(q) = Len(lw) /\ DOMAIN q = DOMAIN lw
  <2>1. p \in [1..Len(lv) -> Nat] /\ q \in [1..Len(lw) -> Nat]
    BY <1>1, <1>2
  <2>2. p \in Seq(Nat) /\ q \in Seq(Nat)
    <3>1. Len(lv) \in Nat /\ Len(lw) \in Nat
      BY <1>1, <1>2
    <3> HIDE DEF p, q
    <3> QED BY <2>1, <3>1, SeqDef
  <2> QED BY <1>1, <1>2, <2>2, LenProperties
<1>4. p = q
  <2>1. /\ \A i, j \in DOMAIN p : i < j => Better(s, p[i], p[j])
        /\ \A i, j \in DOMAIN q : i < j => Better(s, q[i], q[j])
    BY <1>1, <1>2 DEF SideOK, Sorted
  <2>2. \A x : (\E i \in DOMAIN p : p[i] = x) <=> (\E i \in DOMAIN q : q[i] = x)
    <3>1. /\ \A x : x \in Prices(lv) <=> \E i \in DOMAIN p : p[i] = x
          /\ \A x : x \in Prices(lw) <=> \E i \in DOMAIN q : q[i] = x
      BY <1>1, <1>2 DEF Prices
    <3>2. Prices(lv) = OrderPrices(lv, heap) /\ Prices(lw) = OrderPrices(lw, heap)
      BY LevelIs
    <3>3. Prices(lv) = Prices(lw)
      BY <3>2 DEF OrderPrices
    <3> HIDE DEF p, q
    <3> QED BY <3>1, <3>3
  <2> HIDE DEF p, q
  <2> QED BY <1>3, <2>1, <2>2, SortedSame
<1>5. Len(lv) = Len(lw) /\ \A i \in DOMAIN lv : lv[i].price = lw[i].price
  <2>1. DOMAIN lv = DOMAIN lw /\ Len(lv) = Len(lw)
    BY <1>3, <1>4
  <2> QED BY <1>1, <1>2, <1>4, <2>1
<1>6. ASSUME NEW i \in DOMAIN lv PROVE lv[i].orders = lw[i].orders
  <2>1. i \in DOMAIN lw /\ lv[i].price = lw[i].price
    BY <1>1, <1>2, <1>5
  <2> DEFINE a == lv[i].orders
             b == lw[i].orders
  <2>2. a \in Seq(Nat) /\ b \in Seq(Nat)
    BY <1>1, <1>2, <2>1
  <2>3. /\ \A k, l \in DOMAIN a : k < l => Better("sell", a[k], a[l])
        /\ \A k, l \in DOMAIN b : k < l => Better("sell", b[k], b[l])
    BY <2>1 DEF SideOK, LevelOK, Better
  <2>4. \A x : (\E k \in DOMAIN a : a[k] = x) <=> (\E k \in DOMAIN b : b[k] = x)
    <3>1. \A x : (\E k \in DOMAIN a : a[k] = x)
                   <=> x \in Resting(lv) /\ heap[x].price = lv[i].price
      BY LevelIs
    <3>2. \A x : (\E k \in DOMAIN b : b[k] = x)
                   <=> x \in Resting(lw) /\ heap[x].price = lw[i].price
      BY <2>1, LevelIs
    <3> HIDE DEF a, b
    <3> QED BY <2>1, <3>1, <3>2
  <2> HIDE DEF a, b
  <2>5. "sell" \in Sides
    BY DEF Sides
  <2> QED BY <2>2, <2>3, <2>4, <2>5, SortedSame DEF a, b
<1>7. ASSUME NEW i \in 1..Len(lv) PROVE lv[i] = lw[i]
  <2>1. i \in DOMAIN lv /\ i \in DOMAIN lw
    BY <1>1, <1>2, <1>5
  <2>2. lv[i] \in Level /\ lw[i] \in Level
    BY <1>1, <1>2, <2>1
  <2>3. lv[i].price = lw[i].price /\ lv[i].orders = lw[i].orders
    BY <1>5, <1>6, <2>1
  <2>4. /\ lv[i] = [price |-> lv[i].price, orders |-> lv[i].orders]
        /\ lw[i] = [price |-> lw[i].price, orders |-> lw[i].orders]
    BY <2>2 DEF Level
  <2> QED BY <2>3, <2>4
<1> QED BY <1>5, <1>7, SeqEqual


InArrivalOrder(q, heap) ==
  \A k, l \in DOMAIN q :
    (k < l /\ heap[q[k]].side = heap[q[l]].side /\ heap[q[k]].price = heap[q[l]].price)
    => q[k] < q[l]

LEMMA ConcatElements ==
  ASSUME NEW a \in Seq(Nat), NEW b \in Seq(Nat)
  PROVE  a \o b \in Seq(Nat) /\ ToSet(a \o b) = ToSet(a) \cup ToSet(b)
<1> DEFINE c == a \o b
<1>1. /\ DOMAIN a = 1..Len(a) /\ Len(a) \in Nat /\ DOMAIN b = 1..Len(b) /\ Len(b) \in Nat
  BY LenProperties
<1>2. /\ c \in Seq(Nat) /\ Len(c) = Len(a) + Len(b)
      /\ \A i \in 1..(Len(a) + Len(b)) : c[i] = IF i <= Len(a) THEN a[i] ELSE b[i - Len(a)]
  BY ConcatProperties
<1> HIDE DEF c
<1>3. DOMAIN c = 1..(Len(a) + Len(b))
  BY <1>2, LenProperties
<1>4. ASSUME NEW x \in ToSet(c) PROVE x \in ToSet(a) \cup ToSet(b)
  <2>1. PICK i \in DOMAIN c : x = c[i]
    BY <1>4 DEF ToSet
  <2>2. CASE i <= Len(a)
    BY <1>1, <1>2, <1>3, <2>1, <2>2 DEF ToSet
  <2>3. CASE i > Len(a)
    <3>1. i - Len(a) \in DOMAIN b /\ x = b[i - Len(a)]
      BY <1>1, <1>2, <1>3, <2>1, <2>3
    <3> QED BY <3>1 DEF ToSet
  <2> QED BY <1>1, <1>3, <2>2, <2>3
<1>5. ASSUME NEW x \in ToSet(a) PROVE x \in ToSet(c)
  <2>1. PICK i \in DOMAIN a : x = a[i]
    BY <1>5 DEF ToSet
  <2>2. i \in DOMAIN c /\ x = c[i]
    BY <1>1, <1>2, <1>3, <2>1
  <2> QED BY <2>2 DEF ToSet
<1>6. ASSUME NEW x \in ToSet(b) PROVE x \in ToSet(c)
  <2>1. PICK i \in DOMAIN b : x = b[i]
    BY <1>6 DEF ToSet
  <2> DEFINE j == Len(a) + i
  <2>2. i \in 1..Len(b) /\ j \in 1..(Len(a) + Len(b)) /\ ~(j <= Len(a)) /\ j - Len(a) = i
    BY <1>1, <2>1
  <2> HIDE DEF j
  <2>3. j \in DOMAIN c /\ x = c[j]
    BY <1>2, <1>3, <2>1, <2>2
  <2> QED BY <2>3 DEF ToSet
<1> QED BY <1>2, <1>4, <1>5, <1>6 DEF c

LEMMA ConcatInOrder ==
  ASSUME NEW heap, NEW a \in Seq(Nat), NEW b \in Seq(Nat),
         InArrivalOrder(a, heap), InArrivalOrder(b, heap),
         \A x \in ToSet(a), y \in ToSet(b) :
           heap[x].side # heap[y].side \/ heap[x].price # heap[y].price
  PROVE  InArrivalOrder(a \o b, heap)
<1> DEFINE c == a \o b
<1>1. /\ DOMAIN a = 1..Len(a) /\ Len(a) \in Nat /\ DOMAIN b = 1..Len(b) /\ Len(b) \in Nat
  BY LenProperties
<1>2. /\ c \in Seq(Nat) /\ Len(c) = Len(a) + Len(b)
      /\ \A i \in 1..(Len(a) + Len(b)) : c[i] = IF i <= Len(a) THEN a[i] ELSE b[i - Len(a)]
  BY ConcatProperties
<1> HIDE DEF c
<1>3. DOMAIN c = 1..(Len(a) + Len(b))
  BY <1>2, LenProperties
<1> SUFFICES ASSUME NEW k \in DOMAIN c, NEW l \in DOMAIN c, k < l,
                    heap[c[k]].side = heap[c[l]].side, heap[c[k]].price = heap[c[l]].price
             PROVE  c[k] < c[l]
  BY DEF InArrivalOrder, c
<1>4. CASE l <= Len(a)
  <2>1. k \in DOMAIN a /\ l \in DOMAIN a /\ c[k] = a[k] /\ c[l] = a[l]
    BY <1>1, <1>2, <1>3, <1>4
  <2> QED BY <2>1 DEF InArrivalOrder
<1>5. CASE k > Len(a)
  <2> DEFINE i == k - Len(a)
             j == l - Len(a)
  <2>1. /\ k \in 1..(Len(a) + Len(b)) /\ l \in 1..(Len(a) + Len(b))
        /\ ~(k <= Len(a)) /\ ~(l <= Len(a))
        /\ i \in DOMAIN b /\ j \in DOMAIN b /\ i < j
    BY <1>1, <1>3, <1>5
  <2>2. c[k] = b[i] /\ c[l] = b[j]
    BY <1>2, <2>1
  <2> HIDE DEF i, j
  <2> QED BY <2>1, <2>2 DEF InArrivalOrder
<1>6. CASE k <= Len(a) /\ l > Len(a)
  <2>1. k \in DOMAIN a /\ l - Len(a) \in DOMAIN b /\ c[k] = a[k] /\ c[l] = b[l - Len(a)]
    BY <1>1, <1>2, <1>3, <1>6
  <2>2. c[k] \in ToSet(a) /\ c[l] \in ToSet(b)
    BY <2>1 DEF ToSet
  <2> QED BY <2>2
<1> QED BY <1>1, <1>3, <1>4, <1>5, <1>6

\* q lists the first n levels.
FirstLevels(lv, n) == UNION {ToSet(lv[i].orders) : i \in 1..n}
Listed(q, lv, heap, n) ==
  q \in Seq(Nat) /\ ToSet(q) = FirstLevels(lv, n) /\ InArrivalOrder(q, heap)

LEMMA QueueListed ==
  ASSUME NEW s \in Sides, NEW lv \in Seq(Level), NEW heap, SideOK(s, lv, heap), NEW i \in DOMAIN lv
  PROVE  /\ lv[i].orders \in Seq(Nat) /\ InArrivalOrder(lv[i].orders, heap)
         /\ \A x \in ToSet(lv[i].orders) : heap[x].price = lv[i].price
<1>1. lv[i].orders \in Seq(Nat)
  BY LevelTypes
<1> QED BY <1>1 DEF SideOK, LevelOK, InArrivalOrder, ToSet

LEMMA NextListed ==
  ASSUME NEW s \in Sides, NEW lv \in Seq(Level), NEW heap, SideOK(s, lv, heap),
         NEW n \in Nat, n + 1 \in DOMAIN lv, NEW q, Listed(q, lv, heap, n)
  PROVE  Listed(q \o lv[n + 1].orders, lv, heap, n + 1)
<1> DEFINE a == lv[n + 1].orders
<1>1. /\ a \in Seq(Nat) /\ InArrivalOrder(a, heap)
      /\ \A y \in ToSet(a) : heap[y].price = lv[n + 1].price
  BY QueueListed
<1>2. q \in Seq(Nat) /\ ToSet(q) = FirstLevels(lv, n) /\ InArrivalOrder(q, heap)
  BY DEF Listed
<1>3. \A x \in ToSet(q) : heap[x].price # lv[n + 1].price
  <2> SUFFICES ASSUME NEW x \in ToSet(q), heap[x].price = lv[n + 1].price PROVE FALSE
    OBVIOUS
  <2>1. PICK i \in 1..n : x \in ToSet(lv[i].orders)
    BY <1>2 DEF FirstLevels
  <2>2. i \in DOMAIN lv /\ i < n + 1 /\ lv[i].price \in Nat
    BY LevelTypes
  <2>3. heap[x].price = lv[i].price
    BY <2>1, <2>2, QueueListed
  <2>4. Better(s, lv[i].price, lv[n + 1].price)
    BY <2>2 DEF SideOK, Sorted
  <2> QED BY <2>2, <2>3, <2>4 DEF Better
<1>4. FirstLevels(lv, n + 1) = FirstLevels(lv, n) \cup ToSet(a)
  <2>1. 1..(n + 1) = (1..n) \cup {n + 1}
    OBVIOUS
  <2> QED BY <2>1 DEF FirstLevels
<1> HIDE DEF a
<1>5. q \o a \in Seq(Nat) /\ ToSet(q \o a) = ToSet(q) \cup ToSet(a)
  BY <1>1, <1>2, ConcatElements
<1>6. InArrivalOrder(q \o a, heap)
  <2>1. \A x \in ToSet(q), y \in ToSet(a) :
          heap[x].side # heap[y].side \/ heap[x].price # heap[y].price
    BY <1>1, <1>3
  <2> QED BY <1>1, <1>2, <2>1, ConcatInOrder
<1> QED BY <1>2, <1>4, <1>5, <1>6 DEF Listed, a

\* The recursion of FlattenSeq, on the first n sequences, has a solution.
Flattening(h, seqs, n) == h = [i \in 1..n |-> IF i = 1 THEN seqs[i] ELSE h[i - 1] \o seqs[i]]

LEMMA FlatteningExists ==
  ASSUME NEW seqs, NEW n \in Nat
  PROVE  \E h : Flattening(h, seqs, n)
<1> DEFINE B == {m \in Nat : ~\E h : Flattening(h, seqs, m)}
<1> SUFFICES ASSUME n \in B PROVE FALSE
  OBVIOUS
<1>1. PICK m \in B : \A k \in B : ~(k < m)
  <2>1. B \in SUBSET Nat /\ B # {}
    OBVIOUS
  <2> HIDE DEF B
  <2> QED BY <2>1, LeastOfNat
<1>2. m \in Nat /\ ~\E h : Flattening(h, seqs, m)
  BY <1>1
<1>3. m # 0
  <2>1. Flattening(<<>>, seqs, 0)
    BY DEF Flattening
  <2> QED BY <1>2, <2>1
<1>4. PICK g : Flattening(g, seqs, m - 1)
  <2>1. m - 1 \in Nat /\ m - 1 < m
    BY <1>2, <1>3
  <2> QED BY <1>1, <2>1
<1> DEFINE h == [i \in 1..m |-> IF i = 1 THEN seqs[i] ELSE g[i - 1] \o seqs[i]]
<1>5. \A i \in 1..(m - 1) : h[i] = g[i]
  <2>1. \A i \in 1..(m - 1) : g[i] = IF i = 1 THEN seqs[i] ELSE g[i - 1] \o seqs[i]
    BY <1>4 DEF Flattening
  <2>2. \A i \in 1..m : h[i] = IF i = 1 THEN seqs[i] ELSE g[i - 1] \o seqs[i]
    OBVIOUS
  <2>3. \A i \in 1..(m - 1) : i \in 1..m
    BY <1>2
  <2> HIDE DEF h
  <2> QED BY <2>1, <2>2, <2>3
<1>6. \A i \in 1..m : i # 1 => i - 1 \in 1..(m - 1)
  BY <1>2
<1>7. Flattening(h, seqs, m)
  <2>1. h = [i \in 1..m |-> IF i = 1 THEN seqs[i] ELSE h[i - 1] \o seqs[i]]
    BY <1>5, <1>6
  <2> HIDE DEF h
  <2> QED BY <2>1 DEF Flattening
<1> QED BY <1>2, <1>7

LEMMA PriorityOrderListed ==
  ASSUME NEW s \in Sides, NEW lv \in Seq(Level), NEW heap, SideOK(s, lv, heap)
  PROVE  /\ InPriorityOrder(lv) \in Seq(Nat) /\ ToSet(InPriorityOrder(lv)) = Resting(lv)
         /\ InArrivalOrder(InPriorityOrder(lv), heap)
<1> DEFINE seqs == [i \in DOMAIN lv |-> lv[i].orders]
           n == Len(lv)
           h == CHOOSE h : Flattening(h, seqs, n)
<1>1. n \in Nat /\ DOMAIN lv = 1..n /\ Len(seqs) = n
  BY LenProperties
<1>2. Resting(lv) = FirstLevels(lv, n)
  BY <1>1 DEF Resting, FirstLevels
<1>3. InPriorityOrder(lv) = IF n = 0 THEN seqs ELSE h[n]
  BY <1>1 DEF InPriorityOrder, FlattenSeq, Flattening
<1>4. CASE n = 0
  <2>1. lv = <<>> /\ seqs = <<>>
    BY <1>1, <1>4, EmptySeq
  <2>2. InPriorityOrder(lv) = <<>>
    BY <1>3, <1>4, <2>1
  <2>3. Resting(lv) = {}
    BY <2>1 DEF Resting
  <2>4. <<>> \in Seq(Nat) /\ ToSet(<<>>) = {} /\ InArrivalOrder(<<>>, heap)
    BY EmptySeq DEF ToSet, InArrivalOrder
  <2> QED BY <2>2, <2>3, <2>4
<1>5. CASE n # 0
  <2>1. Flattening(h, seqs, n)
    BY <1>1, FlatteningExists
  <2>2. \A i \in 1..n : h[i] = IF i = 1 THEN lv[i].orders ELSE h[i - 1] \o lv[i].orders
    <3>1. \A i \in 1..n : seqs[i] = lv[i].orders
      BY <1>1
    <3> HIDE DEF h, seqs, n
    <3>2. \A i \in 1..n : h[i] = IF i = 1 THEN seqs[i] ELSE h[i - 1] \o seqs[i]
      BY <2>1 DEF Flattening
    <3> QED BY <3>1, <3>2
  <2> HIDE DEF h, seqs
  <2> DEFINE B == {i \in 1..n : ~Listed(h[i], lv, heap, i)}
  <2>3. B = {}
    <3> SUFFICES ASSUME B # {} PROVE FALSE
      OBVIOUS
    <3>1. PICK m \in B : \A k \in B : ~(k < m)
      <4>1. B \in SUBSET Nat
        BY <1>1
      <4> HIDE DEF B
      <4> QED BY <4>1, LeastOfNat
    <3>2. m \in 1..n /\ m \in DOMAIN lv /\ ~Listed(h[m], lv, heap, m)
      BY <1>1, <3>1
    <3>3. CASE m = 1
      <4>1. h[m] = lv[1].orders
        BY <2>2, <3>2, <3>3
      <4>2. lv[1].orders \in Seq(Nat) /\ InArrivalOrder(lv[1].orders, heap)
        BY <3>2, <3>3, QueueListed
      <4>3. FirstLevels(lv, 1) = ToSet(lv[1].orders)
        BY DEF FirstLevels
      <4> QED BY <3>2, <3>3, <4>1, <4>2, <4>3 DEF Listed
    <3>4. CASE m # 1
      <4> DEFINE k == m - 1
      <4>1. k \in 1..n /\ k \in Nat /\ k < m /\ k + 1 = m
        BY <1>1, <3>2, <3>4
      <4>2. Listed(h[k], lv, heap, k)
        BY <3>1, <4>1
      <4>3. h[m] = h[k] \o lv[m].orders
        BY <2>2, <3>2, <3>4
      <4> HIDE DEF k
      <4>4. Listed(h[k] \o lv[k + 1].orders, lv, heap, k + 1)
        BY <3>2, <4>1, <4>2, NextListed
      <4> QED BY <3>2, <4>1, <4>3, <4>4
    <3> QED BY <3>3, <3>4
  <2>4. Listed(h[n], lv, heap, n)
    <3>1. n \in 1..n
      BY <1>1, <1>5
    <3> QED BY <2>3, <3>1
  <2> QED BY <1>2, <1>3, <1>5, <2>4 DEF Listed
<1> QED BY <1>4, <1>5


LEMMA MaxIs ==
  ASSUME NEW n \in Nat, NEW T \in SUBSET (1..n), T # {}
  PROVE  Max(T) \in T /\ \A i \in T : Max(T) >= i
<1> DEFINE B == {n - i : i \in T}
<1>1. B \in SUBSET Nat /\ B # {}
  <2>1. \A i \in T : n - i \in Nat
    OBVIOUS
  <2>2. \E i \in T : n - i \in B
    OBVIOUS
  <2> QED BY <2>1, <2>2
<1>2. PICK m \in B : \A k \in B : ~(k < m)
  <2> HIDE DEF B
  <2> QED BY <1>1, LeastOfNat
<1>3. PICK i \in T : m = n - i
  OBVIOUS
<1>4. ASSUME NEW j \in T PROVE i >= j
  <2>1. n - j \in B /\ ~(n - j < m)
    BY <1>2
  <2> QED BY <1>3, <2>1
<1> QED BY <1>4 DEF Max

\* A list that can be reinserted, and the book of those at places T of it.
Input(ids) ==
  /\ ids \in Seq(Nat) /\ InArrivalOrder(ids, order)
  /\ \A i \in DOMAIN ids : order[ids[i]].side \in Sides /\ order[ids[i]].price \in Nat

OnSide(T, ids, s) == {ids[i] : i \in {j \in T : order[ids[j]].side = s}}

IsBook(b, T, ids) ==
  /\ b \in [Sides -> Seq(Level)]
  /\ \A s \in Sides : SideOK(s, b[s], order) /\ Resting(b[s]) = OnSide(T, ids, s)

EmptyBook == [s \in Sides |-> <<>>]

LEMMA EmptyIsBook == ASSUME NEW ids PROVE IsBook(EmptyBook, {}, ids)
<1>1. <<>> \in Seq(Level)
  BY EmptySeq
<1>2. \A s : SideOK(s, <<>>, order) /\ Resting(<<>>) = {}
  BY DEF SideOK, Sorted, Resting
<1> QED BY <1>1, <1>2 DEF IsBook, EmptyBook, OnSide

LEMMA OneMore ==
  ASSUME NEW ids, Input(ids), NEW T \in SUBSET DOMAIN ids, T # {},
         NEW b, IsBook(b, T \ {Max(T)}, ids)
  PROVE  IsBook(AddResting(b, ids[Max(T)]), T, ids)
<1> DEFINE m == Max(T)
           R == T \ {m}
           id == ids[m]
           s == order[id].side
           price == order[id].price
           new == Add(s, b[s], id, price)
<1>1. DOMAIN ids = 1..Len(ids) /\ Len(ids) \in Nat /\ \A i \in DOMAIN ids : ids[i] \in Nat
  BY LenProperties, ElementOfSeq DEF Input
<1>2. m \in T /\ \A i \in T : m >= i
  BY <1>1, MaxIs
<1> HIDE DEF m
<1>3. id \in Nat /\ s \in Sides /\ price \in Nat
  BY <1>1, <1>2 DEF Input
<1> HIDE DEF id
<1>4. /\ b \in [Sides -> Seq(Level)]
      /\ \A r \in Sides : SideOK(r, b[r], order) /\ Resting(b[r]) = OnSide(R, ids, r)
  BY DEF IsBook, m
<1>5. \A other \in Resting(b[s]) : order[other].price = price => other < id
  <2> SUFFICES ASSUME NEW other \in Resting(b[s]), order[other].price = price PROVE other < id
    OBVIOUS
  <2>1. PICK i \in R : order[ids[i]].side = s /\ other = ids[i]
    BY <1>3, <1>4 DEF OnSide
  <2>2. i \in DOMAIN ids /\ m \in DOMAIN ids /\ i < m
    BY <1>1, <1>2
  <2> QED BY <2>1, <2>2 DEF Input, InArrivalOrder, id
<1>6. /\ new \in Seq(Level) /\ SideOK(s, new, order)
      /\ Resting(new) = Resting(b[s]) \cup {id}
  <2>1. b[s] \in Seq(Level) /\ SideOK(s, b[s], order)
    BY <1>3, <1>4
  <2> HIDE DEF new
  <2> QED BY <1>3, <1>5, <2>1, AddPuts DEF new
<1>7. AddResting(b, id) = [b EXCEPT ![s] = new]
  BY DEF AddResting
<1> HIDE DEF s, new
<1>8. OnSide(T, ids, s) = OnSide(R, ids, s) \cup {id}
  BY <1>2 DEF OnSide, s, id
<1>9. \A r \in Sides \ {s} : OnSide(T, ids, r) = OnSide(R, ids, r)
  BY <1>2 DEF OnSide, s, id
<1>10. /\ [b EXCEPT ![s] = new] \in [Sides -> Seq(Level)]
       /\ \A r \in Sides : [b EXCEPT ![s] = new][r] = IF r = s THEN new ELSE b[r]
  BY <1>3, <1>4, <1>6
<1>11. IsBook([b EXCEPT ![s] = new], T, ids)
  BY <1>4, <1>6, <1>8, <1>9, <1>10 DEF IsBook
<1> QED BY <1>7, <1>11 DEF id, m

LEMMA OneBook ==
  ASSUME NEW ids, NEW T, NEW a, IsBook(a, T, ids), NEW b, IsBook(b, T, ids)
  PROVE  a = b
<1>1. \A s \in Sides : a[s] = b[s]
  BY SameSide DEF IsBook
<1> QED BY <1>1 DEF IsBook

LEMMA BookExists ==
  ASSUME NEW ids, Input(ids), NEW S \in SUBSET DOMAIN ids
  PROVE  \E b : IsBook(b, S, ids)
<1> DEFINE B == {T \in SUBSET S : ~\E b : IsBook(b, T, ids)}
<1> SUFFICES ASSUME S \in B PROVE FALSE
  OBVIOUS
<1>1. DOMAIN ids = 1..Len(ids) /\ Len(ids) \in Nat /\ IsFiniteSet(S)
  <2>1. DOMAIN ids = 1..Len(ids) /\ Len(ids) \in Nat
    BY LenProperties DEF Input
  <2>2. IsFiniteSet(1..Len(ids))
    BY <2>1, FS_Interval
  <2> QED BY <2>1, <2>2, FS_Subset
<1>2. PICK T \in B : \A V \in B : V \subseteq T => V = T
  <2>1. B \in SUBSET (SUBSET S) /\ B # {}
    OBVIOUS
  <2> HIDE DEF B
  <2> QED BY <1>1, <2>1, LeastSubset
<1>3. T \subseteq S /\ ~\E b : IsBook(b, T, ids)
  BY <1>2
<1>4. T # {}
  BY <1>3, EmptyIsBook
<1> DEFINE R == T \ {Max(T)}
<1>5. Max(T) \in T
  BY <1>1, <1>3, <1>4, MaxIs
<1>6. \E b : IsBook(b, R, ids)
  <2>1. R \in SUBSET S /\ R \subseteq T /\ R # T
    BY <1>3, <1>5
  <2> HIDE DEF R
  <2> QED BY <1>2, <2>1
<1>7. PICK b : IsBook(b, T \ {Max(T)}, ids)
  BY <1>6
<1>8. IsBook(AddResting(b, ids[Max(T)]), T, ids)
  BY <1>3, <1>4, <1>7, OneMore
<1> QED BY <1>3, <1>8

\* The recursion of FoldLeft, inserting what comes first first.
Reinserting(h, ids) ==
  h = [T \in SUBSET DOMAIN ids |->
         IF T = {} THEN EmptyBook ELSE AddResting(h[T \ {Max(T)}], ids[Max(T)])]

LEMMA RestoreIs ==
  ASSUME NEW ids
  PROVE  Restore(ids) = (CHOOSE h : Reinserting(h, ids))[DOMAIN ids]
BY DEF Restore, FoldLeft, MapThenFoldSet, Reinserting, EmptyBook

LEMMA RestoreBuilds ==
  ASSUME NEW ids, Input(ids)
  PROVE  IsBook(Restore(ids), DOMAIN ids, ids)
<1> DEFINE All == SUBSET DOMAIN ids
           g == [T \in All |-> CHOOSE b : IsBook(b, T, ids)]
           h == CHOOSE h : Reinserting(h, ids)
<1>1. DOMAIN ids = 1..Len(ids) /\ Len(ids) \in Nat /\ IsFiniteSet(DOMAIN ids)
  <2>1. DOMAIN ids = 1..Len(ids) /\ Len(ids) \in Nat
    BY LenProperties DEF Input
  <2> QED BY <2>1, FS_Interval
<1>2. \A T \in All : T # {} => Max(T) \in T /\ T \ {Max(T)} \in All
  BY <1>1, MaxIs
<1>3. \A T \in All : IsBook(g[T], T, ids)
  <2> SUFFICES ASSUME NEW T \in All PROVE IsBook(g[T], T, ids)
    OBVIOUS
  <2>1. \E b : IsBook(b, T, ids)
    BY BookExists
  <2>2. g[T] = CHOOSE b : IsBook(b, T, ids)
    OBVIOUS
  <2> HIDE DEF g
  <2> QED BY <2>1, <2>2
<1>4. Reinserting(g, ids)
  <2>1. ASSUME NEW T \in All
        PROVE  g[T] = IF T = {} THEN EmptyBook ELSE AddResting(g[T \ {Max(T)}], ids[Max(T)])
    <3>1. CASE T = {}
      BY <1>3, <3>1, EmptyIsBook, OneBook
    <3>2. CASE T # {}
      <4> DEFINE R == T \ {Max(T)}
      <4>1. IsBook(g[R], R, ids)
        <5>1. R \in All
          BY <1>2, <3>2
        <5> HIDE DEF g, R
        <5> QED BY <1>3, <5>1
      <4>2. IsBook(AddResting(g[R], ids[Max(T)]), T, ids)
        <5> HIDE DEF g
        <5> QED BY <3>2, <4>1, OneMore
      <4> HIDE DEF g
      <4> QED BY <1>3, <3>2, <4>2, OneBook
    <3> QED BY <3>1, <3>2
  <2>2. g = [T \in All |-> g[T]]
    OBVIOUS
  <2> HIDE DEF g
  <2> QED BY <2>1, <2>2 DEF Reinserting
<1>5. Reinserting(h, ids)
  <2> HIDE DEF g
  <2> QED BY <1>4
<1> HIDE DEF g, h
<1>6. \A T \in All : h[T] = IF T = {} THEN EmptyBook ELSE AddResting(h[T \ {Max(T)}], ids[Max(T)])
  BY <1>5 DEF Reinserting
<1> DEFINE B == {T \in All : ~IsBook(h[T], T, ids)}
<1>7. B = {}
  <2> SUFFICES ASSUME B # {} PROVE FALSE
    OBVIOUS
  <2>1. PICK T \in B : \A V \in B : V \subseteq T => V = T
    <3>1. B \in SUBSET (SUBSET DOMAIN ids)
      OBVIOUS
    <3> HIDE DEF B
    <3> QED BY <1>1, <3>1, LeastSubset
  <2>2. T \in All /\ ~IsBook(h[T], T, ids)
    BY <2>1
  <2>3. T # {}
    BY <1>6, <2>2, EmptyIsBook
  <2>4. IsBook(h[T \ {Max(T)}], T \ {Max(T)}, ids)
    <3>1. Max(T) \in T /\ T \ {Max(T)} \in All
      BY <1>2, <2>2, <2>3
    <3> QED BY <2>1, <3>1
  <2>5. IsBook(AddResting(h[T \ {Max(T)}], ids[Max(T)]), T, ids)
    BY <2>2, <2>3, <2>4, OneMore
  <2> QED BY <1>6, <2>2, <2>3, <2>5
<1>8. IsBook(h[DOMAIN ids], DOMAIN ids, ids)
  BY <1>7
<1> QED BY <1>8, RestoreIs DEF h

\* A book's orders, bids and then asks, are such a list.
LEMMA AllOrdersAre ==
  ASSUME IInv
  PROVE  Input(AllOrders) /\ \A s \in Sides : OnSide(DOMAIN AllOrders, AllOrders, s) = Resting(levels[s])
<1> DEFINE a == InPriorityOrder(levels["buy"])
           b == InPriorityOrder(levels["sell"])
<1>1. "buy" \in Sides /\ "sell" \in Sides /\ Sides = {"buy", "sell"}
  BY DEF Sides
<1>2. \A s \in Sides : levels[s] \in Seq(Level) /\ SideOK(s, levels[s], order)
  BY Offer
<1>3. \A s \in Sides : \A id \in Resting(levels[s]) :
        order[id].side = s /\ order[id].price \in Nat
  BY <1>2, RestingOf
<1>4. /\ a \in Seq(Nat) /\ ToSet(a) = Resting(levels["buy"]) /\ InArrivalOrder(a, order)
      /\ b \in Seq(Nat) /\ ToSet(b) = Resting(levels["sell"]) /\ InArrivalOrder(b, order)
  BY <1>1, <1>2, PriorityOrderListed
<1> HIDE DEF a, b
<1>5. AllOrders = a \o b
  BY DEF AllOrders, a, b
<1>6. AllOrders \in Seq(Nat) /\ ToSet(AllOrders) = Resting(levels["buy"]) \cup Resting(levels["sell"])
  BY <1>4, <1>5, ConcatElements
<1>7. InArrivalOrder(AllOrders, order)
  <2>1. \A x \in ToSet(a), y \in ToSet(b) :
          order[x].side # order[y].side \/ order[x].price # order[y].price
    BY <1>1, <1>3, <1>4
  <2> QED BY <1>4, <1>5, <2>1, ConcatInOrder
<1>8. \A i \in DOMAIN AllOrders : \E s \in Sides : AllOrders[i] \in Resting(levels[s])
  <2>1. \A i \in DOMAIN AllOrders : AllOrders[i] \in ToSet(AllOrders)
    BY DEF ToSet
  <2> QED BY <1>1, <1>6, <2>1
<1>9. Input(AllOrders)
  BY <1>3, <1>6, <1>7, <1>8 DEF Input
<1>10. ASSUME NEW s \in Sides
       PROVE  OnSide(DOMAIN AllOrders, AllOrders, s) = Resting(levels[s])
  <2>1. ASSUME NEW id \in OnSide(DOMAIN AllOrders, AllOrders, s) PROVE id \in Resting(levels[s])
    <3>1. PICK i \in DOMAIN AllOrders : order[AllOrders[i]].side = s /\ id = AllOrders[i]
      BY <2>1 DEF OnSide
    <3> QED BY <1>3, <1>8, <3>1
  <2>2. ASSUME NEW id \in Resting(levels[s]) PROVE id \in OnSide(DOMAIN AllOrders, AllOrders, s)
    <3>1. id \in ToSet(AllOrders)
      BY <1>1, <1>6
    <3>2. PICK i \in DOMAIN AllOrders : id = AllOrders[i]
      BY <3>1 DEF ToSet
    <3> QED BY <1>3, <3>2 DEF OnSide
  <2> QED BY <2>1, <2>2
<1> QED BY <1>9, <1>10

\* A restored engine has the very book of the one that took the snapshot, so it
\* matches identically.
THEOREM RestoreAlwaysRebuilds == Spec => []RestoreRebuilds
<1>1. IInv => RestoreRebuilds
  <2> SUFFICES ASSUME IInv PROVE Restore(AllOrders) = levels
    BY DEF RestoreRebuilds
  <2>1. IsBook(Restore(AllOrders), DOMAIN AllOrders, AllOrders)
    BY AllOrdersAre, RestoreBuilds
  <2>2. levels \in [Sides -> Seq(Level)] /\ \A s \in Sides : SideOK(s, levels[s], order)
    BY DEF IInv, TypeOK, SidesOK
  <2>3. IsBook(levels, DOMAIN AllOrders, AllOrders)
    BY <2>2, AllOrdersAre DEF IsBook
  <2> QED BY <2>1, <2>3, OneBook
<1> QED BY <1>1, InvHolds, PTL

=============================================================================
