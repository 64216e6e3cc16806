--------------------------- MODULE DeliveryProofs ---------------------------
(***************************************************************************)
(* Proofs about EventDelivery, for any events, limits and number of        *)
(* faults.                                                                 *)
(*                                                                         *)
(* NothingVanishes and AuditTrail rest on what a half-done handler has     *)
(* behind it (Halves): a delivery that a crash takes from the handler's    *)
(* hands is already settled, or marked. That the mark is there and the row *)
(* is not is also what keeps rows unique. ProjectedInOrder needs the order *)
(* of what waits and of what may come back as well as of what is applied   *)
(* (OrderInv).                                                             *)
(***************************************************************************)
EXTENDS EventDelivery, SequenceTheorems, TLAPS

\* What can be in a queue: events, and the postings of what the ledger settles.
Real == Range(Events) \cup {Posted(e) : e \in {x \in Range(Events) : x.rk \in Settled}}
Routed(q) == {m \in Real : q \in BoundTo(m)}

\* Types, and what a consumer knows of its last delivery.
Shape ==
  /\ emitted \in 0..Len(Events) /\ confirmed \subseteq EmittedEvents
  /\ DOMAIN queue = Queues /\ DOMAIN recent = Queues
  /\ \A q \in Queues : queue[q] \in Seq(Routed(q)) /\ recent[q] \in Seq(Routed(q))
  /\ working \in [Queues -> [e : Real \cup {Nothing}, owned : BOOLEAN]]
  /\ rows \in Seq(Real) /\ applied \in Seq(Range(Events))
  /\ dead \cup dropped \cup lost \subseteq Queues \X Real
  /\ faults \in [FaultKinds -> Nat]

InHand ==
  \A q \in Queues :
    /\ Len(recent[q]) <= Prefetch
    /\ Busy(q) /\ working[q].owned => recent[q] # <<>> /\ Last(recent[q]) = working[q].e

\* A handler that is half done has done its first half: the trade is settled, or
\* the mark is there and the row is not. Rows have marks.
RowTxs == {rows[i].tx : i \in DOMAIN rows}
Halves ==
  /\ Busy("ledger") => /\ working["ledger"].e \in Range(Events)
                       /\ working["ledger"].e.rk = "trade.executed"
                       /\ working["ledger"].e.tx \in settled
  /\ Busy("audit") => working["audit"].e.tx \in marks \ RowTxs
  /\ RowTxs \subseteq marks
  /\ marks \subseteq {e.tx : e \in Real} \ {""}

IInv == Shape /\ InHand /\ Halves /\ NothingVanishes /\ AuditTrail

-----------------------------------------------------------------------------
(***************************************************************************)
(* Sequences.                                                              *)
(***************************************************************************)

\* t is what is left of s when its first elements are taken off.
Suffix(t, s) ==
  \E n \in 0..Len(s) :
    Len(t) = Len(s) - n /\ \A i \in 1..(Len(s) - n) : t[i] = s[n + i]

LEMMA SeqIs ==
  ASSUME NEW S, NEW s \in Seq(S)
  PROVE  /\ Len(s) \in Nat /\ DOMAIN s = 1..Len(s) /\ \A i \in 1..Len(s) : s[i] \in S
         /\ Range(s) = {s[i] : i \in 1..Len(s)} /\ Range(s) \subseteq S
         /\ s = <<>> <=> Len(s) = 0
<1>1. Len(s) \in Nat /\ DOMAIN s = 1..Len(s) /\ \A i \in 1..Len(s) : s[i] \in S
  BY LenProperties, ElementOfSeq
<1>2. Range(s) = {s[i] : i \in 1..Len(s)}
  BY <1>1 DEF Range
<1>3. s = <<>> <=> Len(s) = 0
  BY EmptySeq, <1>1
<1> QED BY <1>1, <1>2, <1>3

LEMMA AppendRange ==
  ASSUME NEW S, NEW s \in Seq(S), NEW e \in S
  PROVE  /\ Append(s, e) \in Seq(S) /\ Range(Append(s, e)) = Range(s) \cup {e}
         /\ Len(Append(s, e)) = Len(s) + 1
         /\ \A i \in 1..Len(s) : Append(s, e)[i] = s[i]
         /\ Append(s, e)[Len(s) + 1] = e
<1> DEFINE t == Append(s, e)
<1>1. /\ t \in Seq(S) /\ Len(t) = Len(s) + 1
      /\ \A i \in 1..Len(s) : t[i] = s[i]
      /\ t[Len(s) + 1] = e
  BY AppendProperties
<1> HIDE DEF t
<1>2. /\ Range(t) = {t[i] : i \in 1..Len(t)} /\ Range(s) = {s[i] : i \in 1..Len(s)}
      /\ Len(s) \in Nat
  BY <1>1, SeqIs
<1>3. \A i \in 1..Len(t) : i \in 1..Len(s) \/ i = Len(s) + 1
  BY <1>1, <1>2
<1>4. \A i \in 1..Len(s) : i \in 1..Len(t)
  BY <1>1, <1>2
<1>5. Len(s) + 1 \in 1..Len(t)
  BY <1>1, <1>2
<1>6. Range(t) = Range(s) \cup {e}
  BY <1>1, <1>2, <1>3, <1>4, <1>5
<1> QED BY <1>1, <1>6 DEF t

LEMMA TailRange ==
  ASSUME NEW S, NEW s \in Seq(S), s # <<>>
  PROVE  /\ Head(s) \in S /\ Head(s) = s[1] /\ Head(s) \in Range(s)
         /\ Tail(s) \in Seq(S) /\ Len(Tail(s)) = Len(s) - 1
         /\ \A i \in 1..(Len(s) - 1) : Tail(s)[i] = s[i + 1]
         /\ Range(s) = Range(Tail(s)) \cup {Head(s)}
         /\ Len(s) \in Nat \ {0}
<1> DEFINE t == Tail(s)
<1>1. /\ Head(s) \in S /\ Head(s) = s[1] /\ t \in Seq(S) /\ Len(t) = Len(s) - 1
      /\ \A i \in 1..Len(t) : t[i] = s[i + 1]
  BY HeadTailProperties
<1> HIDE DEF t
<1>2. /\ Range(t) = {t[i] : i \in 1..Len(t)} /\ Range(s) = {s[i] : i \in 1..Len(s)}
      /\ Len(s) \in Nat /\ Len(s) # 0
  BY <1>1, SeqIs
<1>3. \A i \in 1..Len(s) : i = 1 \/ (i - 1 \in 1..Len(t) /\ (i - 1) + 1 = i)
  BY <1>1, <1>2
<1>4. 1 \in 1..Len(s) /\ \A i \in 1..Len(t) : i + 1 \in 1..Len(s)
  BY <1>1, <1>2
<1>5. Range(s) = Range(t) \cup {Head(s)}
  <2>1. ASSUME NEW x \in Range(s) PROVE x \in Range(t) \cup {Head(s)}
    <3>1. PICK i \in 1..Len(s) : x = s[i]
      BY <1>2
    <3>2. CASE i = 1
      BY <1>1, <3>1, <3>2
    <3>3. CASE i # 1
      <4>1. i - 1 \in 1..Len(t) /\ (i - 1) + 1 = i
        BY <1>3, <3>3
      <4>2. t[i - 1] = s[i]
        BY <1>1, <4>1
      <4> QED BY <1>2, <3>1, <4>1, <4>2
    <3> QED BY <3>2, <3>3
  <2>2. \A x \in Range(t) \cup {Head(s)} : x \in Range(s)
    BY <1>1, <1>2, <1>4
  <2> QED BY <2>1, <2>2
<1> QED BY <1>1, <1>2, <1>5 DEF t

LEMMA SuffixIs ==
  ASSUME NEW S, NEW s \in Seq(S), NEW n \in 0..Len(s)
  PROVE  /\ SubSeq(s, n + 1, Len(s)) \in Seq(S)
         /\ Suffix(SubSeq(s, n + 1, Len(s)), s)
         /\ n = 0 => SubSeq(s, n + 1, Len(s)) = s
<1> DEFINE t == SubSeq(s, n + 1, Len(s))
<1>1. Len(s) \in Nat /\ \A i \in 1..Len(s) : s[i] \in S
  BY SeqIs
<1>2. \A i \in (n + 1)..Len(s) : s[i] \in S
  BY <1>1
<1>3. /\ t \in Seq(S) /\ Len(t) = IF n + 1 <= Len(s) THEN Len(s) - (n + 1) + 1 ELSE 0
      /\ \A i \in 1..(Len(s) - (n + 1) + 1) : t[i] = s[(n + 1) + i - 1]
  BY <1>1, <1>2, SubSeqProperties
<1>4. n = 0 => t = s
  BY SubSeqFull
<1> HIDE DEF t
<1>5. Len(t) = Len(s) - n /\ \A i \in 1..(Len(s) - n) : t[i] = s[n + i]
  BY <1>1, <1>3
<1> QED BY <1>3, <1>4, <1>5 DEF Suffix, t

-----------------------------------------------------------------------------
(***************************************************************************)
(* The broker and the consumers' connections.                              *)
(***************************************************************************)

LEMMA RoutedIs ==
  /\ Real \subseteq Messages
  /\ \A q \in Queues : Routed(q) \subseteq Real
  /\ \A m \in Real : /\ m # Nothing /\ (m.tx = "" <=> m.rk \in Skipped)
                     /\ (m.rk \in Settled \/ m.rk = "book.updated" => m \in Range(Events))
  /\ \A m \in Routed("ledger") : m \in Range(Events) /\ m.rk \in Settled
  /\ \A m \in Range(Events) : m \in Real /\ (m.rk \in Settled => Posted(m) \in Real)
<1>1. \A m \in Range(Events) :
        /\ m.rk \in Settled \cup Skipped \cup {"order.accepted", "order.filled"}
        /\ (m.tx = "" <=> m.rk \in Skipped)
  BY DeliveryAssumption DEF Range
<1>2. /\ \A m \in Range(Events) : m.rk \notin {"none", "ledger.posted"}
      /\ Nothing.rk = "none"
  BY <1>1 DEF Nothing, Settled, Skipped
<1>3. \A m \in Real \ Range(Events) :
        /\ m.rk = "ledger.posted"
        /\ \E e \in Range(Events) : e.rk \in Settled /\ m.tx = e.tx
  BY DEF Real, Posted
<1>4. \A m \in Real \ Range(Events) :
        /\ m.rk \notin Skipped \cup Settled \cup {"none", "book.updated"}
        /\ m.tx # ""
  <2> TAKE m \in Real \ Range(Events)
  <2>1. m.rk = "ledger.posted"
    BY <1>3
  <2>2. PICK e \in Range(Events) : e.rk \in Settled /\ m.tx = e.tx
    BY <1>3
  <2>3. e.tx # ""
    BY <1>1, <2>2 DEF Settled, Skipped
  <2> QED BY <2>1, <2>2, <2>3 DEF Settled, Skipped
<1>7. \A m \in Real : m # Nothing
  BY <1>2, <1>4
<1>5. Real \subseteq Messages
  BY DEF Real, Messages
<1>6. \A m \in Routed("ledger") : m \in Real /\ m.rk \in Settled
  BY DEF Routed, BoundTo
<1> QED BY <1>1, <1>4, <1>5, <1>6, <1>7 DEF Routed, Real

LEMMA FaultIs ==
  ASSUME NEW kind \in FaultKinds, faults \in [FaultKinds -> Nat], Fault(kind)
  PROVE  /\ faults' \in [FaultKinds -> Nat] /\ faults'[kind] > 0
         /\ \A other \in FaultKinds : faults[other] <= faults'[other]
<1>1. faults' = [faults EXCEPT ![kind] = @ + 1]
  BY DEF Fault
<1> QED BY <1>1

LEMMA SurplusIs ==
  ASSUME NEW q \in Queues, NEW S, NEW s \in Seq(S)
  PROVE  Surplus(q, s) \in 0..Len(s) /\ (q # "market" => Surplus(q, s) = 0)
<1>1. Len(s) \in Nat
  BY SeqIs
<1>2. MaxLength["market"] \in Nat
  BY DeliveryAssumption
<1> QED BY <1>1, <1>2 DEF Surplus

LEMMA StoreIs ==
  ASSUME NEW c, \A q \in Queues : c[q] \in Seq(Routed(q)),
         dropped \subseteq Queues \X Real, Store(c)
  PROVE  /\ DOMAIN queue' = Queues
         /\ \A q \in Queues : queue'[q] \in Seq(Routed(q))
         /\ \A q \in Queues \ {"market"} : queue'[q] = c[q]
         /\ Suffix(queue'["market"], c["market"])
         /\ dropped \subseteq dropped' /\ dropped' \subseteq Queues \X Real
<1>1. /\ queue' = [q \in Queues |-> SubSeq(c[q], Surplus(q, c[q]) + 1, Len(c[q]))]
      /\ dropped' = dropped \cup UNION {{<<q, c[q][i]>> : i \in 1..Surplus(q, c[q])} : q \in Queues}
  BY DEF Store
<1>2. \A q \in Queues : /\ Surplus(q, c[q]) \in 0..Len(c[q])
                        /\ q # "market" => Surplus(q, c[q]) = 0
  BY SurplusIs
<1>3. \A q \in Queues : /\ queue'[q] \in Seq(Routed(q)) /\ Suffix(queue'[q], c[q])
                        /\ (q # "market" => queue'[q] = c[q])
  <2> TAKE q \in Queues
  <2>1. queue'[q] = SubSeq(c[q], Surplus(q, c[q]) + 1, Len(c[q]))
    BY <1>1
  <2> DEFINE s == c[q]
             n == Surplus(q, s)
  <2>2. s \in Seq(Routed(q)) /\ n \in 0..Len(s) /\ (q # "market" => n = 0)
    BY <1>2
  <2>3. queue'[q] = SubSeq(s, n + 1, Len(s))
    BY <2>1
  <2> HIDE DEF n, s
  <2>4. /\ queue'[q] \in Seq(Routed(q)) /\ Suffix(queue'[q], s)
        /\ (q # "market" => queue'[q] = s)
    BY <2>2, <2>3, SuffixIs
  <2> QED BY <2>4 DEF s
<1>4. \A q \in Queues : \A i \in 1..Surplus(q, c[q]) : c[q][i] \in Real
  <2> TAKE q \in Queues
  <2>1. Len(c[q]) \in Nat /\ \A i \in 1..Len(c[q]) : c[q][i] \in Routed(q)
    BY SeqIs
  <2>2. \A i \in 1..Surplus(q, c[q]) : i \in 1..Len(c[q])
    BY <1>2, <2>1
  <2> QED BY <2>1, <2>2, RoutedIs
<1>5. dropped \subseteq dropped' /\ dropped' \subseteq Queues \X Real
  BY <1>1, <1>4
<1>6. "market" \in Queues
  BY DEF Queues
<1> QED BY <1>1, <1>3, <1>5, <1>6

\* What a publication changes: the queues of the ledger and of the audit trail
\* only grow, and if it is confirmed have the message; the gateway's may have it
\* as its last, and may lose its first ones.
Grows(e) ==
  /\ DOMAIN queue' = Queues
  /\ \A q \in Queues : queue'[q] \in Seq(Routed(q))
  /\ \A q \in Queues \ {"market"} : Range(queue[q]) \subseteq Range(queue'[q])
  /\ \/ Suffix(queue'["market"], Append(queue["market"], e))
     \/ queue'["market"] = queue["market"]
  /\ dropped \subseteq dropped' /\ dropped' \subseteq Queues \X Real

LEMMA EnqueueIs ==
  ASSUME Shape, NEW e \in Real, Enqueue(e)
  PROVE  /\ Grows(e)
         /\ \A q \in BoundTo(e) \ {"market"} : ~Refuses(q) => e \in Range(queue'[q])
<1> DEFINE c == [q \in Queues |->
                   IF q \in BoundTo(e) /\ ~Refuses(q) THEN Append(queue[q], e) ELSE queue[q]]
<1>1. \A q \in Queues :
        /\ queue[q] \in Seq(Routed(q))
        /\ q \in BoundTo(e) => /\ Append(queue[q], e) \in Seq(Routed(q))
                               /\ Range(Append(queue[q], e)) = Range(queue[q]) \cup {e}
  <2> TAKE q \in Queues
  <2>1. queue[q] \in Seq(Routed(q))
    BY DEF Shape
  <2>2. q \in BoundTo(e) => e \in Routed(q)
    BY DEF Routed
  <2> QED BY <2>1, <2>2, AppendRange
<1>2. \A q \in Queues : c[q] = IF q \in BoundTo(e) /\ ~Refuses(q) THEN Append(queue[q], e) ELSE queue[q]
  OBVIOUS
<1>3. Store(c)
  BY DEF Enqueue
<1> HIDE DEF c
<1>4. \A q \in Queues : c[q] \in Seq(Routed(q)) /\ Range(queue[q]) \subseteq Range(c[q])
                        /\ (q \in BoundTo(e) /\ ~Refuses(q) => e \in Range(c[q]))
  BY <1>1, <1>2
<1>5. dropped \subseteq Queues \X Real
  BY DEF Shape
<1>6. c["market"] = Append(queue["market"], e)
  BY <1>2 DEF Queues, BoundTo, Refuses
<1>7. BoundTo(e) \subseteq Queues
  BY DEF BoundTo
<1> QED BY <1>3, <1>4, <1>5, <1>6, <1>7, StoreIs DEF Grows

LEMMA PublishIs ==
  ASSUME Shape, NEW e \in Real, NEW ok \in BOOLEAN, Publish(e, ok)
  PROVE  /\ Grows(e)
         /\ ok => \A q \in BoundTo(e) \ {"market"} : e \in Range(queue'[q])
         /\ faults' \in [FaultKinds -> Nat] /\ \A kind \in FaultKinds : faults[kind] <= faults'[kind]
<1>1. faults' \in [FaultKinds -> Nat] /\ \A kind \in FaultKinds : faults[kind] <= faults'[kind]
  <2>1. UNCHANGED faults \/ Fault("confirm") \/ Fault("publish")
    BY DEF Publish
  <2> QED BY <2>1, FaultIs DEF Shape, FaultKinds
<1>2. CASE Enqueue(e)
  <2>1. /\ Grows(e)
        /\ \A q \in BoundTo(e) \ {"market"} : ~Refuses(q) => e \in Range(queue'[q])
    BY <1>2, EnqueueIs
  <2>2. ok => \A q \in BoundTo(e) : ~Refuses(q)
    BY DEF Publish
  <2> QED BY <1>1, <2>1, <2>2
<1>3. CASE ~Enqueue(e)
  <2>1. ok = FALSE /\ UNCHANGED <<queue, dropped>>
    BY <1>3 DEF Publish
  <2> QED BY <1>1, <2>1 DEF Shape, Grows
<1> QED BY <1>2, <1>3

LEMMA TakeIs ==
  ASSUME Shape, NEW q \in Queues, NEW e, Take(q, e)
  PROVE  /\ ~Busy(q) /\ e \in Routed(q) /\ e \in Real
         /\ queue[q] # <<>> /\ e = Head(queue[q]) /\ queue' = [queue EXCEPT ![q] = Tail(@)]
         /\ DOMAIN queue' = Queues /\ DOMAIN recent' = Queues
         /\ \A p \in Queues : queue'[p] \in Seq(Routed(p)) /\ recent'[p] \in Seq(Routed(p))
         /\ \A p \in Queues \ {q} : queue'[p] = queue[p] /\ recent'[p] = recent[p]
         /\ Range(queue[q]) = Range(queue'[q]) \cup {e}
         /\ \/ recent'[q] = Append(recent[q], e) /\ Len(recent'[q]) <= Prefetch
            \/ recent'[q] = Tail(Append(recent[q], e)) /\ Len(Append(recent[q], e)) > Prefetch
         /\ UNCHANGED <<dropped, emitted, confirmed>>
<1>1. /\ ~Busy(q) /\ queue[q] # <<>> /\ e = Head(queue[q])
      /\ queue' = [queue EXCEPT ![q] = Tail(@)]
      /\ recent' = [recent EXCEPT ![q] = IF Len(Append(recent[q], e)) > Prefetch
                                         THEN Tail(Append(recent[q], e)) ELSE Append(recent[q], e)]
      /\ UNCHANGED <<dropped, emitted, confirmed>>
  BY DEF Take, engineVars
<1>2. /\ DOMAIN queue = Queues /\ DOMAIN recent = Queues
      /\ queue[q] \in Seq(Routed(q)) /\ recent[q] \in Seq(Routed(q))
      /\ \A p \in Queues : queue[p] \in Seq(Routed(p)) /\ recent[p] \in Seq(Routed(p))
  BY DEF Shape
<1>3. /\ e \in Routed(q) /\ Tail(queue[q]) \in Seq(Routed(q))
      /\ Range(queue[q]) = Range(Tail(queue[q])) \cup {e}
  BY <1>1, <1>2, TailRange
<1>4. Append(recent[q], e) \in Seq(Routed(q)) /\ Append(recent[q], e) # <<>>
  BY <1>2, <1>3, AppendProperties
<1>5. Tail(Append(recent[q], e)) \in Seq(Routed(q))
  BY <1>4, HeadTailProperties
<1>6. Prefetch \in Nat /\ Len(Append(recent[q], e)) \in Nat
  BY <1>4, SeqIs, DeliveryAssumption
<1>7. \/ recent'[q] = Append(recent[q], e) /\ Len(recent'[q]) <= Prefetch
      \/ recent'[q] = Tail(Append(recent[q], e)) /\ Len(Append(recent[q], e)) > Prefetch
  BY <1>1, <1>2, <1>6
<1>8. /\ DOMAIN queue' = Queues /\ DOMAIN recent' = Queues
      /\ queue'[q] = Tail(queue[q])
      /\ \A p \in Queues \ {q} : queue'[p] = queue[p] /\ recent'[p] = recent[p]
  BY <1>1, <1>2
<1>9. e \in Real
  BY <1>3, RoutedIs
<1> QED BY <1>1, <1>2, <1>3, <1>4, <1>5, <1>7, <1>8, <1>9

\* The delivery in hand is the last of its connection.
LEMMA TakeInHand ==
  ASSUME Shape, InHand, NEW q \in Queues, NEW e, Take(q, e),
         UNCHANGED working \/ HalfDone(q, e)
  PROVE  /\ InHand' /\ working' \in [Queues -> [e : Real \cup {Nothing}, owned : BOOLEAN]]
         /\ \A p \in Queues \ {q} : working'[p] = working[p]
<1> DEFINE r == Append(recent[q], e)
<1>1. /\ ~Busy(q) /\ e \in Routed(q) /\ e \in Real
      /\ recent[q] \in Seq(Routed(q)) /\ recent'[q] \in Seq(Routed(q))
      /\ \A p \in Queues \ {q} : recent'[p] = recent[p]
      /\ \/ recent'[q] = r /\ Len(recent'[q]) <= Prefetch
         \/ recent'[q] = Tail(r) /\ Len(r) > Prefetch
  BY TakeIs DEF Shape
<1>2. Len(recent[q]) <= Prefetch /\ Prefetch \in Nat \ {0} /\ Len(recent[q]) \in Nat
  <2>1. Len(recent[q]) \in Nat
    BY <1>1, SeqIs
  <2>2. Len(recent[q]) <= Prefetch
    BY DEF InHand
  <2> QED BY <2>1, <2>2, DeliveryAssumption
<1>3. r \in Seq(Routed(q)) /\ Len(r) = Len(recent[q]) + 1 /\ r[Len(r)] = e /\ r # <<>>
  BY <1>1, AppendProperties
<1>4. Len(Tail(r)) = Len(r) - 1 /\ \A i \in 1..(Len(r) - 1) : Tail(r)[i] = r[i + 1]
  BY <1>3, TailRange
<1> HIDE DEF r
<1>5. Len(recent'[q]) <= Prefetch /\ recent'[q] # <<>> /\ Last(recent'[q]) = e
  <2>1. CASE recent'[q] = r /\ Len(recent'[q]) <= Prefetch
    BY <1>3, <2>1 DEF Last
  <2>2. CASE recent'[q] = Tail(r) /\ Len(r) > Prefetch
    <3>1. Len(r) \in Nat /\ Len(r) - 1 = Prefetch
      BY <1>2, <1>3, <2>2
    <3>2. Len(Tail(r)) = Prefetch /\ Len(r) - 1 \in 1..(Len(r) - 1) /\ (Len(r) - 1) + 1 = Len(r)
      BY <1>2, <1>4, <3>1
    <3>3. Tail(r)[Len(Tail(r))] = e
      BY <1>3, <1>4, <3>1, <3>2
    <3>4. recent'[q] # <<>>
      BY <1>1, <1>2, <2>2, <3>2, SeqIs
    <3>5. Len(recent'[q]) <= Prefetch
      <4>1. Len(recent'[q]) = Len(Tail(r))
        BY <2>2
      <4>2. Len(recent'[q]) = Prefetch
        BY <3>2, <4>1
      <4>3. Prefetch <= Prefetch
        BY <1>2
      <4> QED BY <4>2, <4>3
    <3>6. Last(recent'[q]) = Tail(r)[Len(Tail(r))]
      BY <2>2 DEF Last
    <3> QED BY <3>3, <3>4, <3>5, <3>6
  <2> QED BY <1>1, <2>1, <2>2
<1>6. /\ working' \in [Queues -> [e : Real \cup {Nothing}, owned : BOOLEAN]]
      /\ \A p \in Queues \ {q} : working'[p] = working[p]
      /\ working'[q] = working[q] \/ working'[q] = [e |-> e, owned |-> TRUE]
  <2>1. working \in [Queues -> [e : Real \cup {Nothing}, owned : BOOLEAN]]
    BY DEF Shape
  <2>2. CASE UNCHANGED working
    BY <2>1, <2>2
  <2>3. CASE HalfDone(q, e)
    BY <1>1, <2>1, <2>3 DEF HalfDone
  <2> QED BY <2>2, <2>3
<1>7. \A p \in Queues : /\ Len(recent'[p]) <= Prefetch
                        /\ working'[p].e # Nothing /\ working'[p].owned
                             => recent'[p] # <<>> /\ Last(recent'[p]) = working'[p].e
  BY <1>1, <1>5, <1>6 DEF InHand, Busy
<1> QED BY <1>6, <1>7 DEF InHand, Busy

LEMMA DoneIs ==
  ASSUME NEW q \in Queues, working \in [Queues -> [e : Real \cup {Nothing}, owned : BOOLEAN]],
         Done(q)
  PROVE  /\ working' \in [Queues -> [e : Real \cup {Nothing}, owned : BOOLEAN]]
         /\ working'[q].e = Nothing /\ \A p \in Queues \ {q} : working'[p] = working[p]
BY DEF Done

LEMMA RequeueIs ==
  ASSUME Shape, InHand, NEW q \in Queues, NEW k \in Nat, Requeue(q, k)
  PROVE  /\ DOMAIN queue' = Queues /\ DOMAIN recent' = Queues
         /\ \A p \in Queues : queue'[p] \in Seq(Routed(p)) /\ recent'[p] \in Seq(Routed(p))
         /\ recent'[q] = <<>> /\ \A p \in Queues \ {q} : recent'[p] = recent[p]
         /\ \A p \in Queues \ {"market"} : Range(queue[p]) \subseteq Range(queue'[p])
         /\ q # "market" => Suffix(queue'["market"], queue["market"])
         /\ q = "market" => \E b : /\ b \in Seq(Routed(q)) /\ Suffix(b, recent[q])
                                   /\ Suffix(queue'[q], b \o queue[q])
         /\ dropped \subseteq dropped' /\ dropped' \subseteq Queues \X Real
<1> DEFINE b == SubSeq(recent[q], Len(recent[q]) - k + 1, Len(recent[q]))
           c == [queue EXCEPT ![q] = b \o @]
<1>1. /\ DOMAIN queue = Queues /\ DOMAIN recent = Queues
      /\ queue[q] \in Seq(Routed(q)) /\ recent[q] \in Seq(Routed(q))
      /\ \A p \in Queues : queue[p] \in Seq(Routed(p)) /\ recent[p] \in Seq(Routed(p))
  BY DEF Shape
<1>2. /\ Store(c) /\ recent' = [recent EXCEPT ![q] = <<>>]
      /\ k \in (IF Busy(q) /\ working[q].owned THEN 1 ELSE 0)..Len(recent[q])
  BY DEF Requeue
<1>3. Len(recent[q]) \in Nat /\ Len(recent[q]) - k \in 0..Len(recent[q])
  BY <1>1, <1>2, SeqIs
<1>4. b \in Seq(Routed(q)) /\ Suffix(b, recent[q])
  BY <1>1, <1>3, SuffixIs
<1> HIDE DEF b
<1>5. b \o queue[q] \in Seq(Routed(q)) /\ Range(b \o queue[q]) = Range(b) \cup Range(queue[q])
  BY <1>1, <1>4, ConcatProperties, RangeConcatenation
<1>6. c[q] = b \o queue[q] /\ \A p \in Queues \ {q} : c[p] = queue[p]
  BY <1>1
<1> HIDE DEF c
<1>7. \A p \in Queues : c[p] \in Seq(Routed(p)) /\ Range(queue[p]) \subseteq Range(c[p])
  BY <1>1, <1>5, <1>6
<1>8. dropped \subseteq Queues \X Real
  BY DEF Shape
<1>9. /\ DOMAIN queue' = Queues
      /\ \A p \in Queues : queue'[p] \in Seq(Routed(p))
      /\ \A p \in Queues \ {"market"} : queue'[p] = c[p]
      /\ Suffix(queue'["market"], c["market"])
      /\ dropped \subseteq dropped' /\ dropped' \subseteq Queues \X Real
  BY <1>2, <1>7, <1>8, StoreIs
<1>10. /\ DOMAIN recent' = Queues /\ recent'[q] = <<>>
       /\ \A p \in Queues \ {q} : recent'[p] = recent[p]
  BY <1>1, <1>2
<1>11. \A p \in Queues : recent'[p] \in Seq(Routed(p))
  BY <1>1, <1>10, EmptySeq
<1>12. "market" \in Queues
  BY DEF Queues
<1>13. /\ q # "market" => Suffix(queue'["market"], queue["market"])
       /\ q = "market" => Suffix(queue'[q], b \o queue[q])
  BY <1>6, <1>9, <1>12
<1> QED BY <1>4, <1>7, <1>9, <1>10, <1>11, <1>13


-----------------------------------------------------------------------------
(***************************************************************************)
(* The invariant, action by action.                                        *)
(***************************************************************************)

\* One clause of NothingVanishes.
Safe(q, e) == InFlight(q, e) \/ Effective(q, e) \/ <<q, e>> \in dead \cup dropped \cup lost

\* Nothing that is done is undone.
Forward ==
  /\ settled \subseteq settled' /\ marks \subseteq marks'
  /\ dead \subseteq dead' /\ dropped \subseteq dropped' /\ lost \subseteq lost'

LEMMA EmittedIs ==
  ASSUME emitted \in 0..Len(Events)
  PROVE  /\ EmittedEvents \subseteq Range(Events)
         /\ DOMAIN Events = 1..Len(Events) /\ Len(Events) \in Nat
<1>1. DOMAIN Events = 1..Len(Events) /\ Len(Events) \in Nat
  BY DeliveryAssumption, SeqIs
<1>2. \A i \in 1..emitted : i \in DOMAIN Events
  BY <1>1
<1> QED BY <1>1, <1>2 DEF EmittedEvents, Range

LEMMA StillSafe ==
  ASSUME Shape, NothingVanishes, Forward,
         \A q \in Queues \ {"market"} : \A e \in Real : InFlight(q, e) => Safe(q, e)',
         \A e \in confirmed' \ confirmed : \A q \in BoundTo(e) \ {"market"} : Safe(q, e)'
  PROVE  NothingVanishes'
<1> SUFFICES ASSUME NEW e \in confirmed', NEW q \in BoundTo(e) \ {"market"}
             PROVE  Safe(q, e)'
  BY DEF NothingVanishes, Safe
<1>1. CASE e \notin confirmed
  BY <1>1
<1>2. CASE e \in confirmed
  <2>1. Safe(q, e)
    BY <1>2 DEF NothingVanishes, Safe
  <2>2. e \in Real /\ q \in Queues \ {"market"}
    BY <1>2, EmittedIs, RoutedIs DEF Shape, BoundTo
  <2>3. CASE InFlight(q, e)
    BY <2>2, <2>3
  <2>4. CASE ~InFlight(q, e)
    <3>1. Effective(q, e) \/ <<q, e>> \in dead \cup dropped \cup lost
      BY <2>1, <2>4 DEF Safe
    <3>2. Effective(q, e) => Effective(q, e)'
      BY <2>2 DEF Effective, Forward, Queues
    <3> QED BY <3>1, <3>2 DEF Safe, Forward
  <2> QED BY <2>3, <2>4
<1> QED BY <1>1, <1>2

\* Rows and marks are left alone.
LEMMA SameTrail ==
  ASSUME AuditTrail, Halves, UNCHANGED <<rows, marks>>, working'["audit"].e = working["audit"].e,
         \A kind \in FaultKinds : faults'[kind] = 0 => faults[kind] = 0
  PROVE  AuditTrail'
BY DEF AuditTrail, Never, FaultKinds

\* A handler that fails leaves its message among the dead letters, or among those
\* that could not be put there.
LEMMA HandlerFailsIs ==
  ASSUME Shape, NEW q \in Queues, NEW e \in Real, HandlerFails(q, e)
  PROVE  /\ <<q, e>> \in dead' \cup lost' /\ dead \subseteq dead' /\ lost \subseteq lost'
         /\ dead' \cup lost' \subseteq Queues \X Real
         /\ faults'["handler"] > 0 \/ faults'["dlx"] > 0
         /\ faults' \in [FaultKinds -> Nat] /\ \A kind \in FaultKinds : faults[kind] <= faults'[kind]
<1>1. PICK ok \in BOOLEAN : Fault(IF ok THEN "handler" ELSE "dlx") /\ ToDLQ(q, e, ok)
  BY DEF HandlerFails, ToRetry
<1>2. faults \in [FaultKinds -> Nat] /\ dead \cup lost \subseteq Queues \X Real
  BY DEF Shape
<1>3. /\ faults'["handler"] > 0 \/ faults'["dlx"] > 0
      /\ faults' \in [FaultKinds -> Nat] /\ \A kind \in FaultKinds : faults[kind] <= faults'[kind]
  <2>1. CASE ok
    <3>1. Fault("handler")
      BY <1>1, <2>1
    <3> QED BY <1>2, <3>1, FaultIs DEF FaultKinds
  <2>2. CASE ~ok
    <3>1. Fault("dlx")
      BY <1>1, <2>2
    <3> QED BY <1>2, <3>1, FaultIs DEF FaultKinds
  <2> QED BY <2>1, <2>2
<1>4. \/ dead' = dead \cup {<<q, e>>} /\ lost' = lost
      \/ lost' = lost \cup {<<q, e>>} /\ dead' = dead
  BY <1>1 DEF ToDLQ
<1> QED BY <1>2, <1>3, <1>4

\* Publishing, by the engine or by the ledger, keeps what the consumers rely on.
LEMMA PublishKeeps ==
  ASSUME IInv, NEW m \in Real, NEW ok \in BOOLEAN, Publish(m, ok),
         UNCHANGED <<recent, settled, auditVars, gatewayVars, deadVars>>
  PROVE  /\ Forward
         /\ \A q \in Queues \ {"market"} : \A e \in Range(queue[q]) : e \in Range(queue'[q])
         /\ ok => \A q \in BoundTo(m) \ {"market"} : m \in Range(queue'[q])
         /\ DOMAIN queue' = Queues /\ DOMAIN recent' = Queues
         /\ \A q \in Queues : queue'[q] \in Seq(Routed(q)) /\ recent'[q] \in Seq(Routed(q))
         /\ dead' \cup dropped' \cup lost' \subseteq Queues \X Real
         /\ rows' \in Seq(Real) /\ applied' \in Seq(Range(Events))
         /\ faults' \in [FaultKinds -> Nat]
         /\ \A kind \in FaultKinds : faults'[kind] = 0 => faults[kind] = 0
<1>1. /\ Grows(m) /\ (ok => \A q \in BoundTo(m) \ {"market"} : m \in Range(queue'[q]))
      /\ faults' \in [FaultKinds -> Nat] /\ \A kind \in FaultKinds : faults[kind] <= faults'[kind]
  BY PublishIs DEF IInv
<1>2. \A kind \in FaultKinds : faults'[kind] = 0 => faults[kind] = 0
  BY <1>1 DEF IInv, Shape
<1>3. UNCHANGED <<recent, settled, marks, rows, applied, dead, lost>>
  BY DEF auditVars, gatewayVars, deadVars
<1> QED BY <1>1, <1>2, <1>3 DEF Grows, Forward, IInv, Shape

LEMMA EmitInv == IInv /\ Emit => IInv'
<1> SUFFICES ASSUME IInv, Emit PROVE IInv'
  OBVIOUS
<1> DEFINE m == Events[emitted + 1]
<1>1. PICK ok \in BOOLEAN :
        Publish(m, ok) /\ confirmed' = IF ok THEN confirmed \cup {m} ELSE confirmed
  BY DEF Emit
<1>2. /\ emitted < Len(Events) /\ emitted' = emitted + 1
      /\ UNCHANGED <<recent, working, settled, auditVars, gatewayVars, deadVars>>
  BY DEF Emit, ledgerVars
<1>3. /\ emitted \in 0..Len(Events) /\ Len(Events) \in Nat /\ DOMAIN Events = 1..Len(Events)
      /\ confirmed \subseteq EmittedEvents
  BY EmittedIs DEF IInv, Shape
<1>4. m \in Range(Events) /\ m \in Real /\ emitted' \in 0..Len(Events)
  <2>1. emitted + 1 \in DOMAIN Events /\ emitted' \in 0..Len(Events)
    BY <1>2, <1>3
  <2>2. m \in Range(Events)
    BY <2>1 DEF Range
  <2> QED BY <2>1, <2>2, RoutedIs
<1>5. confirmed' \subseteq EmittedEvents'
  <2>1. EmittedEvents \subseteq EmittedEvents' /\ m \in EmittedEvents'
    BY <1>2, <1>3 DEF EmittedEvents
  <2> QED BY <1>1, <1>3, <2>1
<1> HIDE DEF m
<1>6. /\ Forward
      /\ \A q \in Queues \ {"market"} : \A e \in Range(queue[q]) : e \in Range(queue'[q])
      /\ ok => \A q \in BoundTo(m) \ {"market"} : m \in Range(queue'[q])
      /\ DOMAIN queue' = Queues /\ DOMAIN recent' = Queues
      /\ \A q \in Queues : queue'[q] \in Seq(Routed(q)) /\ recent'[q] \in Seq(Routed(q))
      /\ dead' \cup dropped' \cup lost' \subseteq Queues \X Real
      /\ rows' \in Seq(Real) /\ applied' \in Seq(Range(Events))
      /\ faults' \in [FaultKinds -> Nat]
      /\ \A kind \in FaultKinds : faults'[kind] = 0 => faults[kind] = 0
  BY <1>1, <1>2, <1>4, PublishKeeps
<1>7. UNCHANGED <<recent, working, settled, marks, rows, dead, lost>>
  BY <1>2 DEF auditVars, deadVars
<1>8. Shape'
  BY <1>4, <1>5, <1>6, <1>7 DEF IInv, Shape
<1>9. InHand' /\ Halves'
  BY <1>7 DEF IInv, InHand, Halves, Busy, RowTxs
<1>10. AuditTrail'
  BY <1>6, <1>7, SameTrail DEF IInv
<1>11. NothingVanishes'
  <2>1. \A q \in Queues \ {"market"} : \A e \in Real : InFlight(q, e) => Safe(q, e)'
    BY <1>6, <1>7 DEF InFlight, Safe
  <2>2. \A e \in confirmed' \ confirmed : \A q \in BoundTo(e) \ {"market"} : Safe(q, e)'
    BY <1>1, <1>6 DEF InFlight, Safe
  <2> QED BY <1>6, <2>1, <2>2, StillSafe DEF IInv
<1> QED BY <1>8, <1>9, <1>10, <1>11 DEF IInv

LEMMA PublishLedgerPostedInv == IInv /\ PublishLedgerPosted => IInv'
<1> SUFFICES ASSUME IInv, PublishLedgerPosted PROVE IInv'
  OBVIOUS
<1> DEFINE m == Posted(working["ledger"].e)
<1>1. PICK ok \in BOOLEAN : Publish(m, ok)
  BY DEF PublishLedgerPosted
<1>2. /\ Busy("ledger") /\ Done("ledger")
      /\ UNCHANGED <<recent, emitted, confirmed, settled, auditVars, gatewayVars, deadVars>>
  BY DEF PublishLedgerPosted, ledgerVars, engineVars
<1>3. m \in Real /\ working["ledger"].e.tx \in settled
  BY <1>2, RoutedIs DEF IInv, Halves, Settled
<1> HIDE DEF m
<1>4. /\ Forward
      /\ \A q \in Queues \ {"market"} : \A e \in Range(queue[q]) : e \in Range(queue'[q])
      /\ DOMAIN queue' = Queues /\ DOMAIN recent' = Queues
      /\ \A q \in Queues : queue'[q] \in Seq(Routed(q)) /\ recent'[q] \in Seq(Routed(q))
      /\ dead' \cup dropped' \cup lost' \subseteq Queues \X Real
      /\ rows' \in Seq(Real) /\ applied' \in Seq(Range(Events))
      /\ faults' \in [FaultKinds -> Nat]
      /\ \A kind \in FaultKinds : faults'[kind] = 0 => faults[kind] = 0
  BY <1>1, <1>2, <1>3, PublishKeeps
<1>5. UNCHANGED <<recent, emitted, confirmed, settled, marks, rows, dead, lost>>
  BY <1>2 DEF auditVars, deadVars
<1>6. /\ working' \in [Queues -> [e : Real \cup {Nothing}, owned : BOOLEAN]]
      /\ working'["ledger"].e = Nothing
      /\ \A q \in Queues \ {"ledger"} : working'[q] = working[q]
  BY <1>2, DoneIs DEF IInv, Shape, Queues
<1>7. Shape'
  BY <1>4, <1>5, <1>6 DEF IInv, Shape, EmittedEvents
<1>8. InHand' /\ Halves'
  BY <1>5, <1>6 DEF IInv, InHand, Halves, Busy, RowTxs, Queues
<1>9. AuditTrail'
  BY <1>4, <1>5, <1>6, SameTrail DEF IInv, Queues
<1>10. NothingVanishes'
  <2>1. ASSUME NEW q \in Queues \ {"market"}, NEW e \in Real, InFlight(q, e) PROVE Safe(q, e)'
    <3>1. CASE e \in Range(queue[q])
      BY <1>4, <3>1 DEF InFlight, Safe
    <3>2. CASE working[q].e = e /\ q = "ledger"
      BY <1>3, <1>5, <3>2 DEF Effective, Safe
    <3>3. CASE working[q].e = e /\ q # "ledger"
      BY <1>6, <3>3 DEF InFlight, Safe
    <3> QED BY <2>1, <3>1, <3>2, <3>3 DEF InFlight
  <2> QED BY <1>4, <1>5, <2>1, StillSafe DEF IInv
<1> QED BY <1>7, <1>8, <1>9, <1>10 DEF IInv

LEMMA ExpireInv == IInv /\ Expire => IInv'
<1> SUFFICES ASSUME IInv, Expire PROVE IInv'
  OBVIOUS
<1> DEFINE m == Head(queue["audit"])
<1>1. /\ queue["audit"] # <<>> /\ Fault("expire")
      /\ queue' = [queue EXCEPT !["audit"] = Tail(@)]
      /\ dropped' = dropped \cup {<<"audit", m>>}
      /\ UNCHANGED <<recent, working, emitted, confirmed, settled, marks, rows, applied, dead, lost>>
  BY DEF Expire, engineVars, ledgerVars, auditVars, gatewayVars, deadVars
<1>2. "audit" \in Queues /\ DOMAIN queue = Queues /\ queue["audit"] \in Seq(Routed("audit"))
  BY DEF IInv, Shape, Queues
<1>3. /\ m \in Routed("audit") /\ Tail(queue["audit"]) \in Seq(Routed("audit"))
      /\ Range(queue["audit"]) = Range(Tail(queue["audit"])) \cup {m}
  BY <1>1, <1>2, TailRange
<1>4. m \in Real
  BY <1>2, <1>3, RoutedIs
<1> HIDE DEF m
<1>5. /\ faults' \in [FaultKinds -> Nat]
      /\ \A kind \in FaultKinds : faults'[kind] = 0 => faults[kind] = 0
  <2>1. faults \in [FaultKinds -> Nat]
    BY DEF IInv, Shape
  <2>2. faults' \in [FaultKinds -> Nat] /\ \A kind \in FaultKinds : faults[kind] <= faults'[kind]
    BY <1>1, <2>1, FaultIs DEF FaultKinds
  <2> QED BY <2>1, <2>2
<1>6. /\ DOMAIN queue' = Queues /\ queue'["audit"] = Tail(queue["audit"])
      /\ \A q \in Queues \ {"audit"} : queue'[q] = queue[q]
  BY <1>1, <1>2
<1>7. dropped' \subseteq Queues \X Real
  BY <1>1, <1>2, <1>4 DEF IInv, Shape
<1>8. Shape'
  BY <1>1, <1>3, <1>5, <1>6, <1>7 DEF IInv, Shape, EmittedEvents
<1>9. InHand' /\ Halves'
  BY <1>1 DEF IInv, InHand, Halves, Busy, RowTxs
<1>10. AuditTrail'
  BY <1>1, <1>5, SameTrail DEF IInv
<1>11. NothingVanishes'
  <2>1. ASSUME NEW q \in Queues \ {"market"}, NEW e \in Real, InFlight(q, e) PROVE Safe(q, e)'
    BY <1>1, <1>3, <1>6, <2>1 DEF InFlight, Safe
  <2> QED BY <1>1, <2>1, StillSafe DEF IInv, Forward
<1> QED BY <1>8, <1>9, <1>10, <1>11 DEF IInv

\* What a consumer's step keeps, whichever it is: the delivery is safe if the
\* handler has made it so, and the others are where they were.
LEMMA TakeKeeps ==
  ASSUME IInv, NEW q \in Queues, NEW m, Take(q, m), UNCHANGED working \/ HalfDone(q, m),
         Forward, q # "market" => Safe(q, m)'
  PROVE  NothingVanishes'
<1>1. /\ ~Busy(q) /\ Range(queue[q]) = Range(queue'[q]) \cup {m}
      /\ \A p \in Queues \ {q} : queue'[p] = queue[p]
      /\ UNCHANGED confirmed
  BY TakeIs DEF IInv
<1>2. \A p \in Queues \ {q} : working'[p] = working[p]
  BY TakeInHand DEF IInv
<1>3. ASSUME NEW p \in Queues \ {"market"}, NEW e \in Real, InFlight(p, e) PROVE Safe(p, e)'
  <2>1. CASE p # q
    BY <1>1, <1>2, <1>3, <2>1 DEF InFlight, Safe
  <2>2. CASE p = q
    <3>1. e \in Range(queue[q])
      BY <1>1, <1>3, <2>2, RoutedIs DEF InFlight, Busy
    <3>2. e = m \/ e \in Range(queue'[q])
      BY <1>1, <3>1
    <3> QED BY <2>2, <3>2 DEF InFlight, Safe
  <2> QED BY <2>1, <2>2
<1> QED BY <1>1, <1>3, StillSafe DEF IInv

LEMMA SettleInv == IInv /\ Settle => IInv'
<1> SUFFICES ASSUME IInv, Settle PROVE IInv'
  OBVIOUS
<1>1. PICK m \in Messages :
        /\ Take("ledger", m)
        /\ \/ /\ settled' = settled \cup {m.tx}
              /\ IF m.rk = "trade.executed" THEN HalfDone("ledger", m) ELSE UNCHANGED working
              /\ UNCHANGED <<faults, deadVars>>
           \/ HandlerFails("ledger", m) /\ UNCHANGED <<settled, working>>
        /\ UNCHANGED <<auditVars, gatewayVars>>
  BY DEF Settle
<1>2. "ledger" \in Queues
  BY DEF Queues
<1>3. /\ ~Busy("ledger") /\ m \in Routed("ledger") /\ m \in Real
      /\ DOMAIN queue' = Queues /\ DOMAIN recent' = Queues
      /\ \A p \in Queues : queue'[p] \in Seq(Routed(p)) /\ recent'[p] \in Seq(Routed(p))
      /\ UNCHANGED <<dropped, emitted, confirmed>>
  BY <1>1, <1>2, TakeIs DEF IInv
<1>4. UNCHANGED working \/ HalfDone("ledger", m)
  BY <1>1
<1>5. /\ InHand' /\ working' \in [Queues -> [e : Real \cup {Nothing}, owned : BOOLEAN]]
      /\ \A p \in Queues \ {"ledger"} : working'[p] = working[p]
  BY <1>1, <1>2, <1>4, TakeInHand DEF IInv
<1>6. UNCHANGED <<marks, rows, applied>>
  BY <1>1 DEF auditVars, gatewayVars
<1>7. /\ dead' \cup lost' \subseteq Queues \X Real /\ dead \subseteq dead' /\ lost \subseteq lost'
      /\ settled \subseteq settled'
      /\ faults' \in [FaultKinds -> Nat] /\ \A kind \in FaultKinds : faults[kind] <= faults'[kind]
      /\ m.tx \in settled' \/ <<"ledger", m>> \in dead' \cup lost'
  <2>1. CASE HandlerFails("ledger", m) /\ UNCHANGED <<settled, working>>
    BY <1>2, <1>3, <2>1, HandlerFailsIs DEF IInv
  <2>2. CASE settled' = settled \cup {m.tx} /\ UNCHANGED <<faults, deadVars>>
    BY <2>2 DEF deadVars, IInv, Shape
  <2> QED BY <1>1, <2>1, <2>2
<1>8. \A kind \in FaultKinds : faults'[kind] = 0 => faults[kind] = 0
  BY <1>7 DEF IInv, Shape
<1>9. Shape'
  BY <1>3, <1>5, <1>6, <1>7 DEF IInv, Shape, EmittedEvents
<1>10. Halves'
  <2>1. UNCHANGED working \/ (working'["ledger"].e = m /\ m.rk = "trade.executed" /\ m.tx \in settled')
    BY <1>1, <1>2 DEF HalfDone, IInv, Shape
  <2>2. m \in Range(Events)
    BY <1>3, RoutedIs
  <2>3. working'["audit"] = working["audit"] /\ RowTxs' = RowTxs /\ marks' = marks
    BY <1>5, <1>6 DEF Queues, RowTxs
  <2>4. working["ledger"].e = Nothing
    BY <1>3 DEF Busy
  <2>5. working'["ledger"].e = Nothing \/ (working'["ledger"].e = m /\ m.rk = "trade.executed" /\ m.tx \in settled')
    BY <2>1, <2>4
  <2> QED BY <2>2, <2>3, <2>5 DEF IInv, Halves, Busy
<1>11. AuditTrail'
  BY <1>5, <1>6, <1>8, SameTrail DEF IInv, Queues
<1>12. NothingVanishes'
  <2>1. Forward
    BY <1>3, <1>6, <1>7 DEF Forward
  <2>2. Safe("ledger", m)'
    BY <1>7 DEF Safe, Effective
  <2> QED BY <1>1, <1>2, <1>4, <2>1, <2>2, TakeKeeps
<1> QED BY <1>5, <1>9, <1>10, <1>11, <1>12 DEF IInv

LEMMA MarkProcessedInv == IInv /\ MarkProcessed => IInv'
<1> SUFFICES ASSUME IInv, MarkProcessed PROVE IInv'
  OBVIOUS
<1>1. PICK m \in Messages :
        /\ Take("audit", m)
        /\ \/ /\ m.rk \in Skipped \/ m.tx \in marks
              /\ UNCHANGED <<marks, working, faults, deadVars>>
           \/ /\ m.rk \notin Skipped /\ m.tx \notin marks
              /\ \/ marks' = marks \cup {m.tx} /\ HalfDone("audit", m) /\ UNCHANGED <<faults, deadVars>>
                 \/ HandlerFails("audit", m) /\ UNCHANGED <<marks, working>>
        /\ UNCHANGED <<rows, ledgerVars, gatewayVars>>
  BY DEF MarkProcessed, AlreadyProcessed
<1>2. "audit" \in Queues
  BY DEF Queues
<1>3. /\ ~Busy("audit") /\ m \in Routed("audit") /\ m \in Real
      /\ DOMAIN queue' = Queues /\ DOMAIN recent' = Queues
      /\ \A p \in Queues : queue'[p] \in Seq(Routed(p)) /\ recent'[p] \in Seq(Routed(p))
      /\ UNCHANGED <<dropped, emitted, confirmed>>
  BY <1>1, <1>2, TakeIs DEF IInv
<1>4. UNCHANGED working \/ HalfDone("audit", m)
  BY <1>1
<1>5. /\ InHand' /\ working' \in [Queues -> [e : Real \cup {Nothing}, owned : BOOLEAN]]
      /\ \A p \in Queues \ {"audit"} : working'[p] = working[p]
  BY <1>1, <1>2, <1>4, TakeInHand DEF IInv
<1>6. UNCHANGED <<rows, settled, applied>>
  BY <1>1 DEF ledgerVars, gatewayVars
<1>7. /\ dead' \cup lost' \subseteq Queues \X Real /\ dead \subseteq dead' /\ lost \subseteq lost'
      /\ marks \subseteq marks'
      /\ faults' \in [FaultKinds -> Nat] /\ \A kind \in FaultKinds : faults[kind] <= faults'[kind]
      /\ m.rk \in Skipped \/ m.tx \in marks' \/ <<"audit", m>> \in dead' \cup lost'
  <2>1. CASE HandlerFails("audit", m) /\ UNCHANGED <<marks, working>>
    BY <1>2, <1>3, <2>1, HandlerFailsIs DEF IInv
  <2>2. CASE UNCHANGED <<faults, deadVars>> /\ (UNCHANGED marks \/ marks' = marks \cup {m.tx})
             /\ (m.rk \in Skipped \/ m.tx \in marks')
    BY <2>2 DEF deadVars, IInv, Shape
  <2> QED BY <1>1, <2>1, <2>2
<1>8. \A kind \in FaultKinds : faults'[kind] = 0 => faults[kind] = 0
  BY <1>7 DEF IInv, Shape
<1>9. Shape'
  BY <1>3, <1>5, <1>6, <1>7 DEF IInv, Shape, EmittedEvents
<1>10. \/ UNCHANGED <<marks, working>>
       \/ /\ marks' = marks \cup {m.tx} /\ working'["audit"].e = m
          /\ m.tx \notin marks /\ m.tx # ""
  <2>1. m.tx = "" <=> m.rk \in Skipped
    BY <1>3, RoutedIs
  <2>2. HalfDone("audit", m) => working'["audit"].e = m
    BY <1>2 DEF HalfDone, IInv, Shape
  <2> QED BY <1>1, <2>1, <2>2
<1>11. Halves'
  <2>1. /\ working'["ledger"] = working["ledger"] /\ RowTxs' = RowTxs /\ settled' = settled
        /\ working["audit"].e = Nothing /\ Nothing.tx = ""
    BY <1>3, <1>5, <1>6 DEF Queues, RowTxs, Busy, Nothing
  <2>2. /\ RowTxs \subseteq marks /\ marks \subseteq {e.tx : e \in Real} \ {""}
        /\ Busy("ledger") => /\ working["ledger"].e \in Range(Events)
                             /\ working["ledger"].e.rk = "trade.executed"
                             /\ working["ledger"].e.tx \in settled
    BY DEF IInv, Halves
  <2>3. m.tx \in {e.tx : e \in Real}
    BY <1>3
  <2>4. CASE UNCHANGED <<marks, working>>
    BY <2>1, <2>2, <2>4 DEF Halves, Busy
  <2>5. CASE /\ marks' = marks \cup {m.tx} /\ working'["audit"].e = m
             /\ m.tx \notin marks /\ m.tx # ""
    <3>1. Busy("ledger")' <=> Busy("ledger")
      BY <2>1 DEF Busy
    <3>2. RowTxs' \subseteq marks' /\ marks' \subseteq {e.tx : e \in Real} \ {""}
      BY <2>1, <2>2, <2>3, <2>5
    <3>3. working'["audit"].e.tx \in marks' \ RowTxs'
      BY <2>1, <2>2, <2>5
    <3> QED BY <2>1, <2>2, <3>1, <3>2, <3>3 DEF Halves
  <2> QED BY <1>10, <2>4, <2>5
<1>12. AuditTrail'
  <2>1. CASE UNCHANGED <<marks, working>>
    BY <1>6, <1>8, <2>1, SameTrail DEF IInv
  <2>2. CASE marks' = marks \cup {m.tx} /\ working'["audit"].e = m
    <3>1. working["audit"].e.tx = "" /\ "" \notin marks
      <4>1. Nothing.tx = "" /\ working["audit"].e = Nothing
        BY <1>3 DEF Busy, Nothing
      <4>2. "" \notin marks
        BY DEF IInv, Halves
      <4> QED BY <4>1, <4>2
    <3> QED BY <1>6, <1>8, <2>2, <3>1 DEF IInv, AuditTrail, Never, FaultKinds
  <2> QED BY <1>10, <2>1, <2>2
<1>13. NothingVanishes'
  <2>1. Forward
    BY <1>3, <1>6, <1>7 DEF Forward
  <2>2. Safe("audit", m)'
    BY <1>7 DEF Safe, Effective
  <2> QED BY <1>1, <1>2, <1>4, <2>1, <2>2, TakeKeeps
<1> QED BY <1>5, <1>9, <1>11, <1>12, <1>13 DEF IInv

LEMMA SaveEventInv == IInv /\ SaveEvent => IInv'
<1> SUFFICES ASSUME IInv, SaveEvent PROVE IInv'
  OBVIOUS
<1> DEFINE m == working["audit"].e
<1>1. /\ Busy("audit") /\ Done("audit")
      /\ \/ rows' = Append(rows, m) /\ UNCHANGED <<faults, deadVars>>
         \/ HandlerFails("audit", m) /\ UNCHANGED rows
      /\ UNCHANGED <<queue, recent, dropped, marks, emitted, confirmed, settled, applied>>
  BY DEF SaveEvent, brokerVars, engineVars, ledgerVars, gatewayVars
<1>2. /\ "audit" \in Queues /\ m \in Real /\ m.tx \in marks \ RowTxs
      /\ rows \in Seq(Real)
  BY <1>1 DEF Queues, IInv, Shape, Halves, Busy
<1>3. /\ working' \in [Queues -> [e : Real \cup {Nothing}, owned : BOOLEAN]]
      /\ working'["audit"].e = Nothing
      /\ \A q \in Queues \ {"audit"} : working'[q] = working[q]
  BY <1>1, <1>2, DoneIs DEF IInv, Shape
<1> HIDE DEF m
<1>4. /\ dead' \cup lost' \subseteq Queues \X Real /\ dead \subseteq dead' /\ lost \subseteq lost'
      /\ faults' \in [FaultKinds -> Nat] /\ \A kind \in FaultKinds : faults[kind] <= faults'[kind]
      /\ \/ rows' = Append(rows, m)
         \/ rows' = rows /\ (faults'["handler"] > 0 \/ faults'["dlx"] > 0)
  <2>1. CASE HandlerFails("audit", m) /\ UNCHANGED rows
    BY <1>2, <2>1, HandlerFailsIs DEF IInv
  <2>2. CASE rows' = Append(rows, m) /\ UNCHANGED <<faults, deadVars>>
    BY <2>2 DEF deadVars, IInv, Shape
  <2> QED BY <1>1, <2>1, <2>2
<1>5. \A kind \in FaultKinds : faults'[kind] = 0 => faults[kind] = 0
  BY <1>4 DEF IInv, Shape
<1>6. /\ Append(rows, m) \in Seq(Real)
      /\ \A i \in 1..Len(rows) : Append(rows, m)[i] = rows[i]
      /\ Append(rows, m)[Len(rows) + 1] = m
      /\ DOMAIN Append(rows, m) = 1..(Len(rows) + 1) /\ DOMAIN rows = 1..Len(rows)
      /\ Len(rows) \in Nat
  BY <1>2, AppendRange, SeqIs
<1>7. Shape'
  BY <1>1, <1>2, <1>3, <1>4, <1>6 DEF IInv, Shape, EmittedEvents
<1>8. rows' = Append(rows, m) => RowTxs' = RowTxs \cup {m.tx}
  <2> SUFFICES ASSUME rows' = Append(rows, m) PROVE RowTxs' = RowTxs \cup {m.tx}
    OBVIOUS
  <2>1. \A i \in 1..(Len(rows) + 1) : i \in 1..Len(rows) \/ i = Len(rows) + 1
    BY <1>6
  <2>2. \A x \in RowTxs' : x \in RowTxs \cup {m.tx}
    BY <1>6, <2>1 DEF RowTxs
  <2>3. \A i \in 1..Len(rows) : i \in 1..(Len(rows) + 1)
    BY <1>6
  <2>4. Len(rows) + 1 \in 1..(Len(rows) + 1)
    BY <1>6
  <2>5. \A x \in RowTxs \cup {m.tx} : x \in RowTxs'
    BY <1>6, <2>3, <2>4 DEF RowTxs
  <2> QED BY <2>2, <2>5
<1>9. rows' = rows => RowTxs' = RowTxs
  BY DEF RowTxs
<1>10. InHand'
  BY <1>1, <1>3 DEF IInv, InHand, Busy
<1>11. Halves'
  <2>1. ~Busy("audit")' /\ working'["ledger"] = working["ledger"]
    BY <1>3 DEF Busy, Queues
  <2>2. RowTxs' \subseteq marks'
    BY <1>1, <1>2, <1>4, <1>8, <1>9 DEF IInv, Halves
  <2> QED BY <1>1, <2>1, <2>2 DEF IInv, Halves, Busy
<1>12. AuditTrail'
  <2>1. ASSUME NEW i \in DOMAIN rows', NEW j \in DOMAIN rows', rows'[i].tx = rows'[j].tx
        PROVE  i = j
    <3>1. CASE rows' = rows
      BY <2>1, <3>1 DEF IInv, AuditTrail
    <3>2. CASE rows' = Append(rows, m)
      <4>1. \A k \in DOMAIN rows' : k \in DOMAIN rows \/ k = Len(rows) + 1
        BY <1>6, <3>2
      <4>2. \A k \in DOMAIN rows : rows'[k] = rows[k] /\ rows[k].tx # m.tx
        BY <1>2, <1>6, <3>2 DEF RowTxs
      <4>3. rows'[Len(rows) + 1] = m
        BY <1>6, <3>2
      <4> QED BY <2>1, <4>1, <4>2, <4>3 DEF IInv, AuditTrail
    <3> QED BY <1>4, <3>1, <3>2
  <2>2. ASSUME faults'["crash"] = 0, faults'["handler"] = 0, faults'["dlx"] = 0
        PROVE  marks' \subseteq RowTxs' \cup {working'["audit"].e.tx}
    <3>1. rows' = Append(rows, m)
      BY <1>4, <2>2
    <3>2. marks \subseteq RowTxs \cup {m.tx}
      BY <1>5, <2>2 DEF IInv, AuditTrail, Never, RowTxs, FaultKinds, m
    <3> QED BY <1>1, <1>8, <3>1, <3>2
  <2> QED BY <2>1, <2>2 DEF AuditTrail, Never, RowTxs
<1>13. NothingVanishes'
  <2>1. Forward
    BY <1>1, <1>4 DEF Forward
  <2>2. ASSUME NEW q \in Queues \ {"market"}, NEW e \in Real, InFlight(q, e) PROVE Safe(q, e)'
    <3>1. CASE e \in Range(queue[q])
      BY <1>1, <3>1 DEF InFlight, Safe
    <3>2. CASE working[q].e = e /\ q = "audit"
      BY <1>1, <1>2, <3>2 DEF Effective, Safe, m
    <3>3. CASE working[q].e = e /\ q # "audit"
      BY <1>3, <3>3 DEF InFlight, Safe
    <3> QED BY <2>2, <3>1, <3>2, <3>3 DEF InFlight
  <2> QED BY <1>1, <2>1, <2>2, StillSafe DEF IInv
<1> QED BY <1>7, <1>10, <1>11, <1>12, <1>13 DEF IInv

LEMMA ApplyEventInv == IInv /\ ApplyEvent => IInv'
<1> SUFFICES ASSUME IInv, ApplyEvent PROVE IInv'
  OBVIOUS
<1>1. PICK m \in Messages :
        /\ Take("market", m)
        /\ applied' = IF m.rk \in Settled \/ UpdatesBook(m) THEN Append(applied, m) ELSE applied
        /\ UNCHANGED <<working, faults, ledgerVars, auditVars, deadVars>>
  BY DEF ApplyEvent
<1>2. "market" \in Queues
  BY DEF Queues
<1>3. /\ m \in Real
      /\ DOMAIN queue' = Queues /\ DOMAIN recent' = Queues
      /\ \A p \in Queues : queue'[p] \in Seq(Routed(p)) /\ recent'[p] \in Seq(Routed(p))
      /\ UNCHANGED <<dropped, emitted, confirmed>>
  BY <1>1, <1>2, TakeIs DEF IInv
<1>4. UNCHANGED <<working, faults, settled, marks, rows, dead, lost>>
  BY <1>1 DEF ledgerVars, auditVars, deadVars
<1>5. InHand'
  BY <1>1, <1>2, TakeInHand DEF IInv
<1>6. applied' \in Seq(Range(Events))
  <2>1. m.rk \in Settled \/ UpdatesBook(m) => m \in Range(Events)
    BY <1>3, RoutedIs DEF UpdatesBook
  <2>2. applied \in Seq(Range(Events))
    BY DEF IInv, Shape
  <2> QED BY <1>1, <2>1, <2>2, AppendProperties
<1>7. Shape'
  BY <1>3, <1>4, <1>6 DEF IInv, Shape, EmittedEvents
<1>8. Halves' /\ AuditTrail'
  BY <1>4, SameTrail DEF IInv, Halves, Busy, RowTxs
<1>9. NothingVanishes'
  <2>1. Forward
    BY <1>3, <1>4 DEF Forward
  <2> QED BY <1>1, <1>2, <1>4, <2>1, TakeKeeps
<1> QED BY <1>5, <1>7, <1>8, <1>9 DEF IInv

LEMMA PrefetchIs == Prefetch \in Nat \ {0} /\ \A k \in 0..Prefetch : k \in Nat
<1>1. Prefetch \in Nat \ {0}
  BY DeliveryAssumption
<1> QED BY <1>1

\* Deliveries come back: the handler goes on without its connection, or is gone.
LEMMA BackInv ==
  ASSUME IInv, NEW q \in Queues, NEW k \in Nat, Requeue(q, k),
         faults' \in [FaultKinds -> Nat], \A kind \in FaultKinds : faults[kind] <= faults'[kind],
         UNCHANGED <<emitted, confirmed, settled, marks, rows, dead, lost>>,
         applied' \in Seq(Range(Events)),
         working' \in [Queues -> [e : Real \cup {Nothing}, owned : BOOLEAN]],
         \A p \in Queues \ {q} : working'[p] = working[p],
         \/ working'[q].e = working[q].e /\ ~working'[q].owned
         \/ working'[q].e = Nothing /\ faults'["crash"] > 0
  PROVE  IInv'
<1>1. /\ DOMAIN queue' = Queues /\ DOMAIN recent' = Queues
      /\ \A p \in Queues : queue'[p] \in Seq(Routed(p)) /\ recent'[p] \in Seq(Routed(p))
      /\ recent'[q] = <<>> /\ \A p \in Queues \ {q} : recent'[p] = recent[p]
      /\ \A p \in Queues \ {"market"} : Range(queue[p]) \subseteq Range(queue'[p])
      /\ dropped \subseteq dropped' /\ dropped' \subseteq Queues \X Real
  BY RequeueIs DEF IInv
<1>2. \A kind \in FaultKinds : faults'[kind] = 0 => faults[kind] = 0
  BY DEF IInv, Shape
<1>3. Shape'
  BY <1>1 DEF IInv, Shape, EmittedEvents
<1>4. InHand'
  <2>1. Len(recent'[q]) = 0 /\ 0 <= Prefetch
    BY <1>1, PrefetchIs
  <2>2. ~(working'[q].e # Nothing /\ working'[q].owned)
    OBVIOUS
  <2>3. \A p \in Queues \ {q} :
          /\ Len(recent'[p]) <= Prefetch
          /\ working'[p].e # Nothing /\ working'[p].owned
               => recent'[p] # <<>> /\ Last(recent'[p]) = working'[p].e
    BY <1>1 DEF IInv, InHand, Busy
  <2>4. Len(recent'[q]) <= Prefetch
    BY <2>1
  <2> QED BY <2>2, <2>3, <2>4 DEF InHand, Busy
<1>5. Halves'
  <2>1. \A p \in Queues : working'[p].e = working[p].e \/ working'[p].e = Nothing
    OBVIOUS
  <2>2. RowTxs' = RowTxs
    BY DEF RowTxs
  <2> QED BY <2>1, <2>2 DEF IInv, Halves, Busy, Queues
<1>6. AuditTrail'
  <2>1. CASE working'["audit"].e = working["audit"].e
    BY <1>2, <2>1, SameTrail DEF IInv
  <2>2. CASE faults'["crash"] > 0
    BY <2>2 DEF IInv, AuditTrail, Never
  <2>3. "audit" \in Queues
    BY DEF Queues
  <2> QED BY <2>1, <2>2, <2>3
<1>7. NothingVanishes'
  <2>1. Forward
    BY <1>1 DEF Forward
  <2>2. ASSUME NEW p \in Queues \ {"market"}, NEW e \in Real, InFlight(p, e) PROVE Safe(p, e)'
    <3>1. CASE e \in Range(queue[p])
      BY <1>1, <3>1 DEF InFlight, Safe
    <3>2. CASE working[p].e = e /\ working'[p].e = working[p].e
      BY <3>2 DEF InFlight, Safe
    <3>3. CASE working[p].e = e
      <4>1. Busy(p)
        BY <3>3, RoutedIs DEF Busy
      <4>2. (p = "ledger" /\ e.tx \in settled) \/ (p = "audit" /\ e.tx \in marks)
        BY <3>3, <4>1 DEF IInv, Halves, Queues
      <4> QED BY <4>2 DEF Effective, Safe
    <3> QED BY <2>2, <3>1, <3>3 DEF InFlight
  <2> QED BY <2>1, <2>2, StillSafe DEF IInv
<1> QED BY <1>3, <1>4, <1>5, <1>6, <1>7 DEF IInv

LEMMA LoseConnectionInv ==
  ASSUME IInv, NEW q \in Queues, LoseConnection(q)
  PROVE  IInv'
<1>1. PICK k \in 1..Prefetch : Requeue(q, k)
  BY DEF LoseConnection
<1>2. /\ Fault("loss") /\ working' = [working EXCEPT ![q].owned = FALSE]
      /\ UNCHANGED <<emitted, confirmed, settled, marks, rows, applied, dead, lost>>
  BY DEF LoseConnection, engineVars, ledgerVars, auditVars, gatewayVars, deadVars
<1>3. k \in Nat
  BY <1>1, PrefetchIs
<1>4. faults' \in [FaultKinds -> Nat] /\ \A kind \in FaultKinds : faults[kind] <= faults'[kind]
  BY <1>2, FaultIs DEF IInv, Shape, FaultKinds
<1>5. /\ working' \in [Queues -> [e : Real \cup {Nothing}, owned : BOOLEAN]]
      /\ \A p \in Queues \ {q} : working'[p] = working[p]
      /\ working'[q].e = working[q].e /\ ~working'[q].owned
  <2>1. working \in [Queues -> [e : Real \cup {Nothing}, owned : BOOLEAN]]
    BY DEF IInv, Shape
  <2> QED BY <1>2, <2>1
<1>6. applied' \in Seq(Range(Events))
  BY <1>2 DEF IInv, Shape
<1> QED BY <1>1, <1>2, <1>3, <1>4, <1>5, <1>6, BackInv

LEMMA CrashInv ==
  ASSUME IInv, NEW q \in Queues, Crash(q)
  PROVE  IInv'
<1>1. PICK k \in 0..Prefetch : Requeue(q, k)
  BY DEF Crash
<1>2. /\ Fault("crash") /\ Done(q) /\ applied' \in {applied, <<>>}
      /\ UNCHANGED <<emitted, confirmed, settled, marks, rows, dead, lost>>
  BY DEF Crash, engineVars, ledgerVars, auditVars, gatewayVars, deadVars
<1>3. k \in Nat
  BY <1>1, PrefetchIs
<1>4. /\ faults' \in [FaultKinds -> Nat] /\ faults'["crash"] > 0
      /\ \A kind \in FaultKinds : faults[kind] <= faults'[kind]
  BY <1>2, FaultIs DEF IInv, Shape, FaultKinds
<1>5. /\ working' \in [Queues -> [e : Real \cup {Nothing}, owned : BOOLEAN]]
      /\ \A p \in Queues \ {q} : working'[p] = working[p]
      /\ working'[q].e = Nothing
  BY <1>2, DoneIs DEF IInv, Shape
<1>6. applied' \in Seq(Range(Events))
  BY <1>2, EmptySeq DEF IInv, Shape
<1> QED BY <1>1, <1>2, <1>3, <1>4, <1>5, <1>6, BackInv

LEMMA InitInv == Init => IInv
<1> SUFFICES ASSUME Init PROVE IInv
  OBVIOUS
<1>1. /\ emitted = 0 /\ confirmed = {} /\ marks = {} /\ rows = <<>> /\ applied = <<>>
      /\ dead = {} /\ dropped = {} /\ lost = {}
      /\ queue = [q \in Queues |-> <<>>] /\ recent = [q \in Queues |-> <<>>]
      /\ working = [q \in Queues |-> [e |-> Nothing, owned |-> FALSE]]
      /\ faults = [kind \in FaultKinds |-> 0]
  BY DEF Init
<1>2. Len(Events) \in Nat /\ Prefetch \in Nat
  BY DeliveryAssumption, SeqIs
<1>3. /\ \A S : <<>> \in Seq(S) /\ Len(<<>>) = 0
      /\ rows = <<>> => RowTxs = {}
  BY EmptySeq DEF RowTxs
<1>4. \A q \in Queues : queue[q] = <<>> /\ recent[q] = <<>> /\ ~Busy(q)
  BY <1>1 DEF Busy
<1>5. Shape
  BY <1>1, <1>2, <1>3, <1>4 DEF Shape
<1>6. InHand
  BY <1>2, <1>3, <1>4 DEF InHand
<1>7. Halves
  BY <1>1, <1>3, <1>4 DEF Halves, Queues
<1>8. NothingVanishes /\ AuditTrail
  BY <1>1 DEF NothingVanishes, AuditTrail
<1> QED BY <1>5, <1>6, <1>7, <1>8 DEF IInv

LEMMA NextInv == IInv /\ [Next]_vars => IInv'
<1> SUFFICES ASSUME IInv, [Next]_vars PROVE IInv'
  OBVIOUS
<1>1. CASE Emit
  BY <1>1, EmitInv
<1>2. CASE Expire
  BY <1>2, ExpireInv
<1>3. ASSUME NEW q \in Queues, Consume(q) PROVE IInv'
  BY <1>3, SettleInv, PublishLedgerPostedInv, MarkProcessedInv, SaveEventInv, ApplyEventInv
     DEF Consume
<1>4. ASSUME NEW q \in Queues, LoseConnection(q) PROVE IInv'
  BY <1>4, LoseConnectionInv
<1>5. ASSUME NEW q \in Queues, Crash(q) PROVE IInv'
  BY <1>5, CrashInv
<1>6. CASE UNCHANGED vars
  <2>1. UNCHANGED <<emitted, confirmed, queue, recent, working, settled, marks, rows, applied,
                    dead, dropped, lost, faults>>
    BY <1>6 DEF vars, brokerVars, engineVars, ledgerVars, auditVars, gatewayVars, deadVars
  <2>2. Shape' /\ InHand' /\ Halves'
    BY <2>1 DEF IInv, Shape, InHand, Halves, Busy, RowTxs, EmittedEvents
  <2>3. NothingVanishes' /\ AuditTrail'
    BY <2>1 DEF IInv, NothingVanishes, AuditTrail, InFlight, Effective, Never
  <2> QED BY <2>2, <2>3 DEF IInv
<1> QED BY <1>1, <1>2, <1>3, <1>4, <1>5, <1>6 DEF Next

LEMMA InvHolds == Spec => []IInv
BY InitInv, NextInv, PTL DEF Spec

\* Every queue holds what is routed to it and every handler what its connection
\* delivered last, whatever is lost, brought back or refused.
THEOREM DeliveryTypeCorrect == Spec => []TypeOK
<1>1. IInv => TypeOK
  <2> SUFFICES ASSUME IInv PROVE TypeOK
    OBVIOUS
  <2>1. ASSUME NEW q \in Queues PROVE Range(queue[q] \o recent[q]) \subseteq Messages
    <3>1. queue[q] \in Seq(Routed(q)) /\ recent[q] \in Seq(Routed(q))
      BY DEF IInv, Shape
    <3>2. queue[q] \o recent[q] \in Seq(Routed(q))
      BY <3>1, ConcatProperties
    <3> QED BY <3>2, RangeOfSeq, RoutedIs
  <2>2. Range(rows) \subseteq Messages /\ Range(applied) \subseteq Range(Events)
    BY RangeOfSeq, RoutedIs DEF IInv, Shape
  <2>3. marks \subseteq {e.tx : e \in Messages}
    BY RoutedIs DEF IInv, Halves
  <2>4. dead \cup dropped \cup lost \subseteq Queues \X Messages
    BY RoutedIs DEF IInv, Shape
  <2> QED BY <2>1, <2>2, <2>3, <2>4 DEF IInv, Shape, InHand, TypeOK
<1> QED BY <1>1, InvHolds, PTL

\* An event the broker has confirmed does not disappear on its way to the ledger
\* and to the audit trail without a record of where it went, whatever fails.
THEOREM EventsDoNotVanish == Spec => []NothingVanishes
<1>1. IInv => NothingVanishes
  BY DEF IInv
<1> QED BY <1>1, InvHolds, PTL

\* No transaction is in the audit trail twice, however often it is delivered, and
\* none is marked without its row unless a crash or failure came between the two.
THEOREM AuditTrailCorrect == Spec => []AuditTrail
<1>1. IInv => AuditTrail
  BY DEF IInv
<1> QED BY <1>1, InvHolds, PTL


-----------------------------------------------------------------------------
(***************************************************************************)
(* The gateway's projection. What it has applied, what it may be given     *)
(* again and what waits are in the order of emission, each within itself   *)
(* and the first two before the last. Which position an event has need not *)
(* be known: that there is one, after every earlier event's, is enough, so *)
(* that losing some of them, at either end, disturbs nothing.              *)
(***************************************************************************)

\* x was emitted before y, if the engine emitted them: n events so far.
Before(n, x, y) ==
  x \in Range(Events) /\ y \in Range(Events) =>
    \E k, l \in 1..n : k < l /\ Events[k] = x /\ Events[l] = y

Chain(n, s) == \A i, j \in DOMAIN s : i < j => Before(n, s[i], s[j])
Cross(n, s, t) == \A i \in DOMAIN s, j \in DOMAIN t : Before(n, s[i], t[j])

EmittedOnly(n, s) ==
  \A i \in DOMAIN s : s[i] \in Range(Events) => \E k \in 1..n : Events[k] = s[i]

InOrder ==
  /\ Chain(emitted, queue["market"]) /\ Chain(emitted, recent["market"])
  /\ Chain(emitted, applied)
  /\ Cross(emitted, recent["market"], queue["market"])
  /\ Cross(emitted, applied, queue["market"])

\* Whatever comes back, a book that is applied is not older than those before.
BooksInOrder ==
  \A i, j \in ShownBooks : i < j => applied[i].seq <= applied[j].seq

OrderInv ==
  /\ EmittedOnly(emitted, queue["market"]) /\ EmittedOnly(emitted, recent["market"])
  /\ EmittedOnly(emitted, applied)
  /\ Never("loss") => InOrder
  /\ BooksInOrder

\* One more event does not change the order of the earlier ones, and comes last.
LEMMA OneMore ==
  ASSUME NEW n \in Nat, NEW s, NEW t
  PROVE  /\ Chain(n, s) => Chain(n + 1, s)
         /\ Cross(n, s, t) => Cross(n + 1, s, t)
         /\ EmittedOnly(n, s) => EmittedOnly(n + 1, s)
         /\ EmittedOnly(n, s) => \A i \in DOMAIN s : Before(n + 1, s[i], Events[n + 1])
<1>1. \A k \in 1..n : k \in 1..(n + 1) /\ k < n + 1
  OBVIOUS
<1>2. n + 1 \in 1..(n + 1)
  OBVIOUS
<1>3. \A x, y : Before(n, x, y) => Before(n + 1, x, y)
  BY <1>1 DEF Before
<1> QED BY <1>1, <1>2, <1>3 DEF Chain, Cross, EmittedOnly, Before

\* Suffixes of what is in order are.
LEMMA SuffixInOrder ==
  ASSUME NEW n, NEW S, NEW s \in Seq(S), NEW t \in Seq(S), Suffix(t, s)
  PROVE  /\ Chain(n, s) => Chain(n, t)
         /\ \A r : Cross(n, r, s) => Cross(n, r, t)
         /\ \A r : Cross(n, s, r) => Cross(n, t, r)
         /\ EmittedOnly(n, s) => EmittedOnly(n, t)
<1>1. /\ Len(s) \in Nat /\ DOMAIN s = 1..Len(s)
      /\ Len(t) \in Nat /\ DOMAIN t = 1..Len(t)
  BY SeqIs
<1>2. PICK d \in 0..Len(s) : Len(t) = Len(s) - d /\ \A i \in 1..(Len(s) - d) : t[i] = s[d + i]
  BY DEF Suffix
<1>3. \A i \in DOMAIN t : d + i \in DOMAIN s /\ t[i] = s[d + i]
  BY <1>1, <1>2
<1>4. \A i, j \in DOMAIN t : i < j => d + i < d + j
  BY <1>1, <1>2
<1> QED BY <1>3, <1>4 DEF Chain, Cross, EmittedOnly

LEMMA AppendInOrder ==
  ASSUME NEW n, NEW S, NEW s \in Seq(S), NEW m \in S,
         \A i \in DOMAIN s : Before(n, s[i], m)
  PROVE  /\ Chain(n, s) => Chain(n, Append(s, m))
         /\ \A r : Cross(n, r, s) /\ (\A i \in DOMAIN r : Before(n, r[i], m)) => Cross(n, r, Append(s, m))
         /\ \A r : Cross(n, s, r) /\ (\A i \in DOMAIN r : Before(n, m, r[i])) => Cross(n, Append(s, m), r)
<1> DEFINE t == Append(s, m)
<1>1. /\ Len(s) \in Nat /\ DOMAIN s = 1..Len(s) /\ t \in Seq(S)
      /\ Len(t) = Len(s) + 1 /\ t[Len(s) + 1] = m /\ \A i \in 1..Len(s) : t[i] = s[i]
  BY SeqIs, AppendRange
<1>2. DOMAIN t = 1..(Len(s) + 1)
  BY <1>1, SeqIs
<1> HIDE DEF t
<1>3. \A i \in DOMAIN t : (i \in DOMAIN s /\ t[i] = s[i]) \/ (i = Len(s) + 1 /\ t[i] = m)
  BY <1>1, <1>2
<1>4. \A i, j \in DOMAIN t : i < j => i \in DOMAIN s
  BY <1>1, <1>2
<1> QED BY <1>3, <1>4 DEF Chain, Cross, t

LEMMA ConcatInOrder ==
  ASSUME NEW n, NEW S, NEW s \in Seq(S), NEW t \in Seq(S)
  PROVE  /\ Chain(n, s) /\ Chain(n, t) /\ Cross(n, s, t) => Chain(n, s \o t)
         /\ EmittedOnly(n, s) /\ EmittedOnly(n, t) => EmittedOnly(n, s \o t)
<1> DEFINE u == s \o t
<1>1. /\ Len(s) \in Nat /\ DOMAIN s = 1..Len(s) /\ Len(t) \in Nat /\ DOMAIN t = 1..Len(t)
      /\ u \in Seq(S) /\ Len(u) = Len(s) + Len(t)
      /\ \A i \in 1..(Len(s) + Len(t)) : u[i] = IF i <= Len(s) THEN s[i] ELSE t[i - Len(s)]
  BY SeqIs, ConcatProperties
<1>2. DOMAIN u = 1..(Len(s) + Len(t))
  BY <1>1, SeqIs
<1> HIDE DEF u
<1>3. \A i \in DOMAIN u : \/ i \in DOMAIN s /\ u[i] = s[i]
                          \/ i > Len(s) /\ i - Len(s) \in DOMAIN t /\ u[i] = t[i - Len(s)]
  BY <1>1, <1>2
<1>4. ASSUME Chain(n, s), Chain(n, t), Cross(n, s, t), NEW i \in DOMAIN u, NEW j \in DOMAIN u, i < j
      PROVE  Before(n, u[i], u[j])
  <2>1. CASE i \in DOMAIN s /\ u[i] = s[i] /\ j \in DOMAIN s /\ u[j] = s[j]
    BY <1>4, <2>1 DEF Chain
  <2>2. CASE i \in DOMAIN s /\ u[i] = s[i] /\ j - Len(s) \in DOMAIN t /\ u[j] = t[j - Len(s)]
    BY <1>4, <2>2 DEF Cross
  <2>3. CASE i > Len(s) /\ i - Len(s) \in DOMAIN t /\ u[i] = t[i - Len(s)]
    <3>1. j > Len(s) /\ j \notin DOMAIN s
      BY <1>1, <1>2, <1>4, <2>3
    <3>2. j - Len(s) \in DOMAIN t /\ u[j] = t[j - Len(s)] /\ i - Len(s) < j - Len(s)
      BY <1>1, <1>2, <1>3, <1>4, <3>1
    <3> QED BY <1>4, <2>3, <3>2 DEF Chain
  <2> QED BY <1>3, <2>1, <2>2, <2>3
<1>5. EmittedOnly(n, s) /\ EmittedOnly(n, t) => EmittedOnly(n, u)
  BY <1>3 DEF EmittedOnly
<1> QED BY <1>4, <1>5 DEF Chain, u

LEMMA PostedIs == \A e : Posted(e) \notin Range(Events)
<1>1. \A m \in Range(Events) : m.rk # "ledger.posted"
  BY DeliveryAssumption DEF Range, Settled, Skipped
<1> QED BY <1>1 DEF Posted

\* The state of the gateway's side, typed.
LEMMA MarketIs ==
  ASSUME IInv
  PROVE  /\ "market" \in Queues /\ emitted \in Nat
         /\ queue["market"] \in Seq(Routed("market")) /\ recent["market"] \in Seq(Routed("market"))
         /\ applied \in Seq(Range(Events))
         /\ \A m \in Real : m \in Routed("market")
         /\ \A kind \in FaultKinds : faults[kind] \in Nat
<1>1. \A m \in Real : m \in Routed("market")
  BY DEF Routed, BoundTo, Queues
<1>2. emitted \in Nat
  BY EmittedIs DEF IInv, Shape
<1> QED BY <1>1, <1>2 DEF IInv, Shape, Queues

\* Nothing happens on the gateway's side.
LEMMA SameMarket ==
  ASSUME OrderInv, UNCHANGED <<emitted, applied>>,
         queue'["market"] = queue["market"], recent'["market"] = recent["market"],
         Never("loss")' => Never("loss")
  PROVE  OrderInv'
<1>1. InOrder => InOrder'
  BY DEF InOrder
<1>2. BooksInOrder'
  BY DEF OrderInv, BooksInOrder, ShownBooks
<1>3. /\ EmittedOnly(emitted, queue["market"])' /\ EmittedOnly(emitted, recent["market"])'
      /\ EmittedOnly(emitted, applied)'
  BY DEF OrderInv
<1> QED BY <1>1, <1>2, <1>3 DEF OrderInv

\* A publication puts its event behind all others.
LEMMA PublishInOrder ==
  ASSUME IInv, OrderInv, NEW m \in Real, Grows(m), UNCHANGED <<recent, applied>>,
         emitted' = emitted \/ emitted' = emitted + 1,
         m \in Range(Events) => emitted' = emitted + 1 /\ m = Events[emitted + 1],
         Never("loss")' => Never("loss")
  PROVE  OrderInv'
<1> DEFINE n == emitted
           S == Routed("market")
           q == queue["market"]
           p == Append(q, m)
           r == recent["market"]
           a == applied
<1>1. n \in Nat /\ q \in Seq(S) /\ m \in S
  BY MarketIs
<1>2. p \in Seq(S)
  BY <1>1, AppendProperties
<1>3. /\ EmittedOnly(n, q) /\ EmittedOnly(n, r) /\ EmittedOnly(n, a)
      /\ Never("loss")' => /\ Chain(n, q) /\ Chain(n, r) /\ Chain(n, a)
                           /\ Cross(n, r, q) /\ Cross(n, a, q)
  BY DEF OrderInv, InOrder
<1>4. recent'["market"] = r /\ applied' = a
  OBVIOUS
<1>5. queue'["market"] = q \/ (Suffix(queue'["market"], p) /\ queue'["market"] \in Seq(S))
  BY MarketIs DEF Grows
<1> DEFINE o == emitted'
<1>6. o = n \/ o = n + 1
  OBVIOUS
<1>7. m \in Range(Events) => o = n + 1 /\ m = Events[n + 1]
  OBVIOUS
<1> HIDE DEF n, S, q, p, r, a, o
<1>8. /\ EmittedOnly(o, q) /\ EmittedOnly(o, r) /\ EmittedOnly(o, a)
      /\ Never("loss")' => /\ Chain(o, q) /\ Chain(o, r) /\ Chain(o, a)
                           /\ Cross(o, r, q) /\ Cross(o, a, q)
  BY <1>1, <1>3, <1>6, OneMore
<1>9. /\ \A i \in DOMAIN q : Before(o, q[i], m)
      /\ \A i \in DOMAIN r : Before(o, r[i], m)
      /\ \A i \in DOMAIN a : Before(o, a[i], m)
  <2>1. CASE m \in Range(Events)
    BY <1>1, <1>3, <1>7, <2>1, OneMore
  <2>2. CASE m \notin Range(Events)
    BY <2>2 DEF Before
  <2> QED BY <2>1, <2>2
<1>10. Never("loss")' => Chain(o, p) /\ Cross(o, r, p) /\ Cross(o, a, p)
  BY <1>1, <1>8, <1>9, AppendInOrder DEF p
<1>11. EmittedOnly(o, p)
  <2>1. /\ DOMAIN p = 1..(Len(q) + 1) /\ Len(q) \in Nat /\ DOMAIN q = 1..Len(q)
        /\ p[Len(q) + 1] = m /\ \A i \in 1..Len(q) : p[i] = q[i]
    BY <1>1, <1>2, AppendRange, SeqIs DEF p
  <2>2. \A i \in DOMAIN p : i \in DOMAIN q \/ i = Len(q) + 1
    BY <2>1
  <2>3. m \in Range(Events) => \E k \in 1..o : Events[k] = m
    <3>1. o = n + 1 => n + 1 \in 1..o
      BY <1>1
    <3> QED BY <1>7, <3>1
  <2> QED BY <1>8, <2>1, <2>2, <2>3 DEF EmittedOnly
<1>12. /\ EmittedOnly(o, queue'["market"])
       /\ Never("loss")' => /\ Chain(o, queue'["market"])
                            /\ Cross(o, r, queue'["market"]) /\ Cross(o, a, queue'["market"])
  <2>1. CASE queue'["market"] = q
    BY <1>8, <2>1
  <2>2. CASE Suffix(queue'["market"], p) /\ queue'["market"] \in Seq(S)
    BY <1>2, <1>10, <1>11, <2>2, SuffixInOrder
  <2> QED BY <1>5, <2>1, <2>2
<1>13. BooksInOrder'
  BY DEF OrderInv, BooksInOrder, ShownBooks
<1> QED BY <1>4, <1>8, <1>12, <1>13 DEF OrderInv, InOrder, o

\* What comes back comes before what was not delivered yet.
LEMMA RequeueInOrder ==
  ASSUME IInv, OrderInv, NEW p \in Queues, NEW k \in Nat, Requeue(p, k)
  PROVE  /\ EmittedOnly(emitted, queue'["market"]) /\ EmittedOnly(emitted, recent'["market"])
         /\ Never("loss") => /\ Chain(emitted, queue'["market"]) /\ Chain(emitted, recent'["market"])
                             /\ Cross(emitted, recent'["market"], queue'["market"])
                             /\ p # "market" => Cross(emitted, applied, queue'["market"])
<1> DEFINE n == emitted
           S == Routed("market")
           q == queue["market"]
           r == recent["market"]
<1>1. /\ q \in Seq(S) /\ r \in Seq(S) /\ queue'["market"] \in Seq(S)
      /\ p # "market" => Suffix(queue'["market"], q) /\ recent'["market"] = r
      /\ p = "market" => /\ recent'["market"] = <<>>
                         /\ \E b : b \in Seq(S) /\ Suffix(b, r) /\ Suffix(queue'["market"], b \o q)
  <2>1. "market" \in Queues /\ q \in Seq(S) /\ r \in Seq(S)
    BY MarketIs
  <2>2. /\ \A x \in Queues : queue'[x] \in Seq(Routed(x))
        /\ recent'[p] = <<>> /\ \A x \in Queues \ {p} : recent'[x] = recent[x]
        /\ p # "market" => Suffix(queue'["market"], queue["market"])
        /\ p = "market" => \E b : /\ b \in Seq(Routed(p)) /\ Suffix(b, recent[p])
                                  /\ Suffix(queue'[p], b \o queue[p])
    BY RequeueIs DEF IInv
  <2> QED BY <2>1, <2>2
<1>2. /\ EmittedOnly(n, q) /\ EmittedOnly(n, r)
      /\ Never("loss") => Chain(n, q) /\ Chain(n, r) /\ Cross(n, r, q) /\ Cross(n, applied, q)
  BY DEF OrderInv, InOrder
<1> HIDE DEF n, S, q, r
<1>3. CASE p # "market"
  BY <1>1, <1>2, <1>3, SuffixInOrder DEF n
<1>4. CASE p = "market"
  <2>1. PICK b \in Seq(S) : Suffix(b, r) /\ Suffix(queue'["market"], b \o q)
    BY <1>1, <1>4
  <2>2. /\ EmittedOnly(n, b)
        /\ Never("loss") => Chain(n, b) /\ Cross(n, b, q)
    BY <1>1, <1>2, <2>1, SuffixInOrder
  <2>3. /\ b \o q \in Seq(S) /\ EmittedOnly(n, b \o q)
        /\ Never("loss") => Chain(n, b \o q)
    BY <1>1, <1>2, <2>2, ConcatProperties, ConcatInOrder
  <2>4. /\ EmittedOnly(n, queue'["market"])
        /\ Never("loss") => Chain(n, queue'["market"])
    BY <1>1, <2>1, <2>3, SuffixInOrder
  <2>5. recent'["market"] = <<>> /\ DOMAIN <<>> = {}
    BY <1>1, <1>4
  <2>6. EmittedOnly(n, recent'["market"]) /\ Chain(n, recent'["market"])
        /\ Cross(n, recent'["market"], queue'["market"])
    BY <2>5 DEF EmittedOnly, Chain, Cross
  <2> QED BY <1>4, <2>4, <2>6 DEF n
<1> QED BY <1>3, <1>4

\* A delivery is the first that waits: it comes after all that was applied or
\* delivered, and before the others that wait.
LEMMA ApplyInOrder ==
  ASSUME IInv, OrderInv, ApplyEvent
  PROVE  OrderInv'
<1> DEFINE n == emitted
           S == Routed("market")
           q == queue["market"]
           r == recent["market"]
           a == applied
<1>1. PICK m : /\ Take("market", m)
               /\ applied' = IF m.rk \in Settled \/ UpdatesBook(m) THEN Append(applied, m) ELSE applied
               /\ UNCHANGED faults
  BY DEF ApplyEvent
<1>2. /\ q \in Seq(S) /\ r \in Seq(S) /\ a \in Seq(Range(Events)) /\ m \in S /\ m \in Real
      /\ q # <<>> /\ m = Head(q) /\ queue'["market"] = Tail(q)
      /\ recent'["market"] = Append(r, m) \/ recent'["market"] = Tail(Append(r, m))
      /\ emitted' = emitted
  <2>1. /\ queue["market"] # <<>> /\ m = Head(queue["market"]) /\ m \in Routed("market") /\ m \in Real
        /\ queue' = [queue EXCEPT !["market"] = Tail(@)] /\ DOMAIN queue = Queues
        /\ \/ recent'["market"] = Append(recent["market"], m)
           \/ recent'["market"] = Tail(Append(recent["market"], m))
        /\ emitted' = emitted
    BY <1>1, MarketIs, TakeIs DEF IInv, Shape
  <2> QED BY <2>1, MarketIs
<1>3. /\ EmittedOnly(n, q) /\ EmittedOnly(n, r) /\ EmittedOnly(n, a)
      /\ Never("loss") => /\ Chain(n, q) /\ Chain(n, r) /\ Chain(n, a)
                          /\ Cross(n, r, q) /\ Cross(n, a, q)
  BY DEF OrderInv, InOrder
<1> DEFINE t == Tail(q)
           u == Append(r, m)
<1> HIDE DEF n, S, q, r, a
<1>4. /\ t \in Seq(S) /\ m = q[1] /\ 1 \in DOMAIN q
      /\ \A i \in DOMAIN t : i + 1 \in DOMAIN q /\ 1 < i + 1 /\ t[i] = q[i + 1]
      /\ Suffix(t, q)
  <2>1. /\ t \in Seq(S) /\ m = q[1] /\ Len(q) \in Nat \ {0} /\ Len(t) = Len(q) - 1
        /\ \A i \in 1..(Len(q) - 1) : t[i] = q[i + 1]
    BY <1>2, TailRange
  <2>2. DOMAIN q = 1..Len(q) /\ DOMAIN t = 1..(Len(q) - 1)
    BY <1>2, <2>1, SeqIs
  <2> HIDE DEF t
  <2>3. Suffix(t, q)
    <3>1. 1 \in 0..Len(q) /\ \A i \in 1..(Len(q) - 1) : t[i] = q[1 + i]
      BY <2>1
    <3> QED BY <2>1, <3>1 DEF Suffix
  <2> QED BY <2>1, <2>2, <2>3
<1>5. /\ u \in Seq(S) /\ Suffix(Tail(u), u) /\ Tail(u) \in Seq(S)
      /\ DOMAIN u = 1..(Len(r) + 1) /\ Len(r) \in Nat /\ DOMAIN r = 1..Len(r)
      /\ u[Len(r) + 1] = m /\ \A i \in 1..Len(r) : u[i] = r[i]
  <2>1. /\ u \in Seq(S) /\ Len(u) = Len(r) + 1 /\ u[Len(r) + 1] = m /\ u # <<>>
        /\ \A i \in 1..Len(r) : u[i] = r[i]
    BY <1>2, AppendProperties
  <2>2. Len(r) \in Nat /\ DOMAIN r = 1..Len(r) /\ DOMAIN u = 1..Len(u)
    BY <1>2, <2>1, SeqIs
  <2> HIDE DEF u
  <2>3. /\ Tail(u) \in Seq(S) /\ Len(Tail(u)) = Len(u) - 1
        /\ \A i \in 1..(Len(u) - 1) : Tail(u)[i] = u[i + 1]
    BY <2>1, TailRange
  <2>4. Suffix(Tail(u), u)
    <3>1. 1 \in 0..Len(u) /\ \A i \in 1..(Len(u) - 1) : Tail(u)[i] = u[1 + i]
      BY <2>1, <2>2, <2>3
    <3> QED BY <2>3, <3>1 DEF Suffix
  <2> QED BY <2>1, <2>2, <2>3, <2>4
<1> HIDE DEF t, u
<1>6. EmittedOnly(n, t) /\ EmittedOnly(n, u)
  <2>1. EmittedOnly(n, t)
    BY <1>2, <1>3, <1>4, SuffixInOrder
  <2>2. \A i \in DOMAIN u : i \in DOMAIN r \/ i = Len(r) + 1
    BY <1>5
  <2>3. m \in Range(Events) => \E k \in 1..n : Events[k] = m
    BY <1>3, <1>4 DEF EmittedOnly
  <2>4. EmittedOnly(n, u)
    BY <1>3, <1>5, <2>2, <2>3 DEF EmittedOnly
  <2> QED BY <2>1, <2>4
<1>7. ASSUME Never("loss")
      PROVE  /\ Chain(n, t) /\ Chain(n, u) /\ Cross(n, u, t) /\ Cross(n, a, t)
             /\ \A i \in DOMAIN a : Before(n, a[i], m)
             /\ \A i \in DOMAIN t : Before(n, m, t[i])
  <2>1. /\ \A i \in DOMAIN a : Before(n, a[i], m)
        /\ \A i \in DOMAIN r : Before(n, r[i], m)
        /\ \A i \in DOMAIN t : Before(n, m, t[i])
    BY <1>3, <1>4, <1>7 DEF Chain, Cross
  <2>2. Chain(n, t) /\ Cross(n, r, t) /\ Cross(n, a, t)
    BY <1>2, <1>3, <1>4, <1>7, SuffixInOrder
  <2>3. Chain(n, u) /\ Cross(n, u, t)
    BY <1>2, <1>3, <1>7, <2>1, <2>2, AppendInOrder DEF u
  <2> QED BY <2>1, <2>2, <2>3
<1> DEFINE v == recent'["market"]
<1>8. /\ EmittedOnly(n, v)
      /\ Never("loss") => Chain(n, v) /\ Cross(n, v, t)
  <2>1. CASE v = u
    BY <1>6, <1>7, <2>1
  <2>2. CASE v = Tail(u)
    BY <1>5, <1>6, <1>7, <2>2, SuffixInOrder
  <2> QED BY <1>2, <2>1, <2>2 DEF u
<1>9. /\ EmittedOnly(n, applied')
      /\ Never("loss") => Chain(n, applied') /\ Cross(n, applied', t)
  <2>1. CASE applied' = a
    BY <1>3, <1>7, <2>1
  <2>2. CASE applied' = Append(a, m) /\ m \in Range(Events)
    <3>1. /\ DOMAIN Append(a, m) = 1..(Len(a) + 1) /\ DOMAIN a = 1..Len(a) /\ Len(a) \in Nat
          /\ Append(a, m)[Len(a) + 1] = m /\ \A i \in 1..Len(a) : Append(a, m)[i] = a[i]
      BY <1>2, <2>2, AppendRange, SeqIs
    <3>2. \A i \in DOMAIN Append(a, m) : i \in DOMAIN a \/ i = Len(a) + 1
      BY <3>1
    <3>3. \E k \in 1..n : Events[k] = m
      BY <1>3, <1>4, <2>2 DEF EmittedOnly
    <3>4. EmittedOnly(n, applied')
      BY <1>3, <2>2, <3>1, <3>2, <3>3 DEF EmittedOnly
    <3>5. Never("loss") => Chain(n, applied') /\ Cross(n, applied', t)
      BY <1>2, <1>3, <1>7, <2>2, AppendInOrder
    <3> QED BY <3>4, <3>5
  <2>3. m.rk \in Settled \/ UpdatesBook(m) => m \in Range(Events)
    BY <1>2, RoutedIs DEF UpdatesBook
  <2> QED BY <1>1, <2>1, <2>2, <2>3 DEF a
<1>10. BooksInOrder'
  <2>1. CASE applied' = applied
    BY <2>1 DEF OrderInv, BooksInOrder, ShownBooks
  <2>2. CASE applied' = Append(a, m) /\ m \in Range(Events) /\ (m.rk \in Settled \/ UpdatesBook(m))
    <3>1. /\ DOMAIN applied' = 1..(Len(a) + 1) /\ DOMAIN a = 1..Len(a) /\ Len(a) \in Nat
          /\ applied'[Len(a) + 1] = m /\ \A i \in 1..Len(a) : applied'[i] = a[i]
      BY <1>2, <2>2, AppendRange, SeqIs
    <3>2. \A i \in ShownBooks' : \/ i \in ShownBooks /\ applied'[i] = applied[i] /\ i <= Len(a)
                                 \/ i = Len(a) + 1 /\ m.rk = "book.updated" /\ applied'[i] = m
      BY <3>1 DEF ShownBooks, a
    <3>3. \A x \in Range(Events) : x.rk = "book.updated" => x.seq \in Nat
      BY BooksAscend DEF Range
    <3>4. m.rk = "book.updated" => UpdatesBook(m)
      BY <2>2 DEF Settled
    <3>5. \A i \in ShownBooks : applied[i] \in Range(Events) /\ applied[i].rk = "book.updated"
      BY <1>2, SeqIs DEF ShownBooks, a
    <3>6. m.rk = "book.updated" => \A i \in ShownBooks : applied[i].seq <= m.seq
      BY <2>2, <3>3, <3>4, <3>5 DEF UpdatesBook
    <3>7. ASSUME NEW i \in ShownBooks', NEW j \in ShownBooks', i < j
          PROVE  applied'[i].seq <= applied'[j].seq
      <4>1. i \in ShownBooks /\ applied'[i] = applied[i]
        BY <3>1, <3>2, <3>7 DEF ShownBooks
      <4>2. CASE j \in ShownBooks /\ applied'[j] = applied[j]
        BY <3>7, <4>1, <4>2 DEF OrderInv, BooksInOrder
      <4>3. CASE m.rk = "book.updated" /\ applied'[j] = m
        BY <3>6, <4>1, <4>3
      <4> QED BY <3>2, <4>2, <4>3
    <3> QED BY <3>7 DEF BooksInOrder
  <2>3. m.rk \in Settled \/ UpdatesBook(m) => m \in Range(Events)
    BY <1>2, RoutedIs DEF UpdatesBook
  <2> QED BY <1>1, <2>1, <2>2, <2>3 DEF a
<1>11. (Never("loss")' => Never("loss")) /\ queue'["market"] = t
  BY <1>1, <1>2 DEF Never, t
<1> QED BY <1>2, <1>6, <1>7, <1>8, <1>9, <1>10, <1>11 DEF OrderInv, InOrder, n

LEMMA TakeElsewhere ==
  ASSUME IInv, OrderInv, NEW q \in Queues \ {"market"}, NEW m, Take(q, m), UNCHANGED applied,
         Never("loss")' => Never("loss")
  PROVE  OrderInv'
<1>1. /\ queue'["market"] = queue["market"] /\ recent'["market"] = recent["market"]
      /\ UNCHANGED emitted
  BY TakeIs, MarketIs DEF IInv
<1> QED BY <1>1, SameMarket

LEMMA HandlerLosesNothing ==
  ASSUME IInv, NEW q \in Queues, NEW m \in Real, HandlerFails(q, m) \/ UNCHANGED faults
  PROVE  Never("loss")' => Never("loss")
<1>1. faults["loss"] \in Nat /\ "loss" \in FaultKinds
  BY MarketIs DEF FaultKinds
<1>2. CASE UNCHANGED faults
  BY <1>2 DEF Never
<1>3. CASE HandlerFails(q, m)
  <2>1. faults' \in [FaultKinds -> Nat] /\ \A kind \in FaultKinds : faults[kind] <= faults'[kind]
    BY <1>3, HandlerFailsIs DEF IInv
  <2> QED BY <1>1, <2>1 DEF Never
<1> QED BY <1>2, <1>3


LEMMA EmitInOrder == IInv /\ OrderInv /\ Emit => OrderInv'
<1> SUFFICES ASSUME IInv, OrderInv, Emit PROVE OrderInv'
  OBVIOUS
<1> DEFINE m == Events[emitted + 1]
<1>1. PICK ok \in BOOLEAN : Publish(m, ok)
  BY DEF Emit
<1>2. emitted < Len(Events) /\ emitted' = emitted + 1 /\ UNCHANGED <<recent, applied>>
  BY DEF Emit, gatewayVars
<1>3. m \in Real
  <2>1. emitted + 1 \in DOMAIN Events
    BY <1>2, EmittedIs DEF IInv, Shape
  <2> QED BY <2>1, RoutedIs DEF Range
<1>4. Grows(m) /\ faults["loss"] \in Nat /\ faults'["loss"] >= faults["loss"]
  BY <1>1, <1>3, PublishIs, MarketIs DEF IInv, FaultKinds
<1> QED BY <1>2, <1>3, <1>4, PublishInOrder DEF Never

LEMMA PublishLedgerPostedInOrder == IInv /\ OrderInv /\ PublishLedgerPosted => OrderInv'
<1> SUFFICES ASSUME IInv, OrderInv, PublishLedgerPosted PROVE OrderInv'
  OBVIOUS
<1> DEFINE m == Posted(working["ledger"].e)
<1>1. PICK ok \in BOOLEAN : Publish(m, ok)
  BY DEF PublishLedgerPosted
<1>2. Busy("ledger") /\ UNCHANGED <<recent, applied, emitted>>
  BY DEF PublishLedgerPosted, gatewayVars, engineVars
<1>3. m \in Real /\ m \notin Range(Events)
  BY <1>2, RoutedIs, PostedIs DEF IInv, Halves, Settled
<1> HIDE DEF m
<1>4. Grows(m) /\ faults["loss"] \in Nat /\ faults'["loss"] >= faults["loss"]
  BY <1>1, <1>3, PublishIs, MarketIs DEF IInv, FaultKinds
<1> QED BY <1>2, <1>3, <1>4, PublishInOrder DEF Never

\* The steps of the ledger's and the audit trail's consumers.
LEMMA ConsumersInOrder ==
  ASSUME IInv, OrderInv, Settle \/ MarkProcessed \/ SaveEvent
  PROVE  OrderInv'
<1>1. "ledger" \in Queues \ {"market"} /\ "audit" \in Queues \ {"market"}
  BY DEF Queues
<1>2. CASE Settle
  <2>1. PICK m : /\ Take("ledger", m) /\ UNCHANGED applied
                 /\ UNCHANGED faults \/ HandlerFails("ledger", m)
    BY <1>2 DEF Settle, gatewayVars
  <2>2. m \in Real
    BY <1>1, <2>1, TakeIs DEF IInv
  <2> QED BY <1>1, <2>1, <2>2, TakeElsewhere, HandlerLosesNothing
<1>3. CASE MarkProcessed
  <2>1. PICK m : /\ Take("audit", m) /\ UNCHANGED applied
                 /\ UNCHANGED faults \/ HandlerFails("audit", m)
    BY <1>3 DEF MarkProcessed, gatewayVars
  <2>2. m \in Real
    BY <1>1, <2>1, TakeIs DEF IInv
  <2> QED BY <1>1, <2>1, <2>2, TakeElsewhere, HandlerLosesNothing
<1>4. CASE SaveEvent
  <2>1. /\ Busy("audit") /\ UNCHANGED <<queue, recent, emitted, applied>>
        /\ UNCHANGED faults \/ HandlerFails("audit", working["audit"].e)
    BY <1>4 DEF SaveEvent, brokerVars, engineVars, gatewayVars
  <2>2. working["audit"].e \in Real
    BY <1>1, <2>1 DEF IInv, Shape, Busy
  <2>3. Never("loss")' => Never("loss")
    BY <1>1, <2>1, <2>2, HandlerLosesNothing
  <2> QED BY <2>1, <2>3, SameMarket
<1> QED BY <1>2, <1>3, <1>4

LEMMA ExpireInOrder == IInv /\ OrderInv /\ Expire => OrderInv'
<1> SUFFICES ASSUME IInv, OrderInv, Expire PROVE OrderInv'
  OBVIOUS
<1>1. /\ Fault("expire") /\ queue' = [queue EXCEPT !["audit"] = Tail(@)]
      /\ UNCHANGED <<recent, emitted, applied>>
  BY DEF Expire, engineVars, gatewayVars
<1>2. queue'["market"] = queue["market"]
  BY <1>1, MarketIs DEF IInv, Shape
<1>3. Never("loss")' => Never("loss")
  <2>1. faults["loss"] \in Nat /\ faults'["loss"] >= faults["loss"]
    BY <1>1, FaultIs DEF IInv, Shape, FaultKinds
  <2> QED BY <2>1 DEF Never
<1> QED BY <1>1, <1>2, <1>3, SameMarket

LEMMA LoseConnectionInOrder ==
  ASSUME IInv, OrderInv, NEW p \in Queues, LoseConnection(p)
  PROVE  OrderInv'
<1>1. PICK k \in 1..Prefetch : Requeue(p, k)
  BY DEF LoseConnection
<1>2. Fault("loss") /\ UNCHANGED <<emitted, applied>>
  BY DEF LoseConnection, engineVars, gatewayVars
<1>3. k \in Nat
  BY <1>1, PrefetchIs
<1>4. EmittedOnly(emitted, queue'["market"]) /\ EmittedOnly(emitted, recent'["market"])
  BY <1>1, <1>3, RequeueInOrder
<1>5. ~Never("loss")'
  <2>1. faults'["loss"] > 0
    BY <1>2, FaultIs DEF IInv, Shape, FaultKinds
  <2> QED BY <2>1 DEF Never
<1>6. BooksInOrder'
  BY <1>2 DEF OrderInv, BooksInOrder, ShownBooks
<1> QED BY <1>2, <1>4, <1>5, <1>6 DEF OrderInv

LEMMA CrashInOrder ==
  ASSUME IInv, OrderInv, NEW p \in Queues, Crash(p)
  PROVE  OrderInv'
<1>1. PICK k \in 0..Prefetch : Requeue(p, k)
  BY DEF Crash
<1>2. /\ Fault("crash") /\ UNCHANGED emitted
      /\ p = "market" => applied' = <<>>
      /\ p # "market" => applied' = applied
  BY DEF Crash, engineVars, gatewayVars
<1>3. k \in Nat
  BY <1>1, PrefetchIs
<1>4. /\ EmittedOnly(emitted, queue'["market"]) /\ EmittedOnly(emitted, recent'["market"])
      /\ Never("loss") => /\ Chain(emitted, queue'["market"]) /\ Chain(emitted, recent'["market"])
                          /\ Cross(emitted, recent'["market"], queue'["market"])
                          /\ p # "market" => Cross(emitted, applied, queue'["market"])
  BY <1>1, <1>3, RequeueInOrder
<1>5. Never("loss")' => Never("loss")
  <2>1. faults["loss"] \in Nat /\ faults'["loss"] >= faults["loss"]
    BY <1>2, FaultIs DEF IInv, Shape, FaultKinds
  <2> QED BY <2>1 DEF Never
<1>6. CASE p = "market"
  <2>1. DOMAIN applied' = {}
    BY <1>2, <1>6
  <2>2. /\ EmittedOnly(emitted, applied') /\ Chain(emitted, applied')
        /\ Cross(emitted, applied', queue'["market"]) /\ BooksInOrder'
    BY <2>1 DEF EmittedOnly, Chain, Cross, BooksInOrder, ShownBooks
  <2> QED BY <1>2, <1>4, <1>5, <2>2 DEF OrderInv, InOrder
<1>7. CASE p # "market"
  <2>1. BooksInOrder'
    BY <1>2, <1>7 DEF OrderInv, BooksInOrder, ShownBooks
  <2> QED BY <1>2, <1>4, <1>5, <1>7, <2>1 DEF OrderInv, InOrder
<1> QED BY <1>6, <1>7

LEMMA NextInOrder == IInv /\ OrderInv /\ [Next]_vars => OrderInv'
<1> SUFFICES ASSUME IInv, OrderInv, [Next]_vars PROVE OrderInv'
  OBVIOUS
<1>1. CASE Emit
  BY <1>1, EmitInOrder
<1>2. CASE Expire
  BY <1>2, ExpireInOrder
<1>3. ASSUME NEW q \in Queues, Consume(q) PROVE OrderInv'
  BY <1>3, ConsumersInOrder, PublishLedgerPostedInOrder, ApplyInOrder DEF Consume
<1>4. ASSUME NEW q \in Queues, LoseConnection(q) PROVE OrderInv'
  BY <1>4, LoseConnectionInOrder
<1>5. ASSUME NEW q \in Queues, Crash(q) PROVE OrderInv'
  BY <1>5, CrashInOrder
<1>6. CASE UNCHANGED vars
  <2>1. UNCHANGED <<emitted, queue, recent, applied, faults>>
    BY <1>6 DEF vars, brokerVars, engineVars, gatewayVars
  <2> QED BY <2>1, SameMarket DEF Never
<1> QED BY <1>1, <1>2, <1>3, <1>4, <1>5, <1>6 DEF Next

LEMMA InitInOrder == Init => OrderInv
<1> SUFFICES ASSUME Init PROVE OrderInv
  OBVIOUS
<1>1. queue["market"] = <<>> /\ recent["market"] = <<>> /\ applied = <<>> /\ DOMAIN <<>> = {}
  BY DEF Init, Queues
<1> QED BY <1>1 DEF OrderInv, InOrder, BooksInOrder, ShownBooks, EmittedOnly, Chain, Cross

LEMMA OrderGives == IInv /\ OrderInv => ProjectedInOrder
<1> SUFFICES ASSUME IInv, OrderInv,
                    NEW i \in DOMAIN applied, NEW j \in DOMAIN applied, i < j,
                    Never("loss") \/ {i, j} \subseteq ShownBooks
             PROVE  \E k, l \in DOMAIN Events :
                      /\ k < l \/ (k = l /\ ~Never("loss"))
                      /\ Events[k] = applied[i] /\ Events[l] = applied[j]
  BY DEF ProjectedInOrder
<1>1. applied[i] \in Range(Events) /\ applied[j] \in Range(Events)
  BY MarketIs, SeqIs
<1>2. /\ emitted \in 0..Len(Events) /\ Len(Events) \in Nat /\ DOMAIN Events = 1..Len(Events)
  BY EmittedIs DEF IInv, Shape
<1>3. CASE Never("loss")
  <2>1. PICK k \in 1..emitted, l \in 1..emitted :
          k < l /\ Events[k] = applied[i] /\ Events[l] = applied[j]
    BY <1>1, <1>3 DEF OrderInv, InOrder, Chain, Before
  <2>2. k \in DOMAIN Events /\ l \in DOMAIN Events
    BY <1>2
  <2> QED BY <2>1, <2>2
<1>4. CASE ~Never("loss")
  <2>1. /\ i \in ShownBooks /\ j \in ShownBooks
        /\ applied[i].rk = "book.updated" /\ applied[j].rk = "book.updated"
    BY <1>4 DEF ShownBooks
  <2>2. applied[i].seq <= applied[j].seq
    BY <2>1 DEF OrderInv, BooksInOrder
  <2>3. PICK k \in DOMAIN Events : Events[k] = applied[i]
    BY <1>1 DEF Range
  <2>4. PICK l \in DOMAIN Events : Events[l] = applied[j]
    BY <1>1 DEF Range
  <2>5. ~(l < k)
    <3>1. SUFFICES ASSUME l < k PROVE FALSE
      OBVIOUS
    <3>2. applied[j].seq \in Nat /\ applied[i].seq \in Nat /\ applied[j].seq < applied[i].seq
      BY <2>1, <2>3, <2>4, <3>1, BooksAscend
    <3> QED BY <2>2, <3>2
  <2>6. k < l \/ k = l
    BY <1>2, <2>5
  <2> QED BY <1>4, <2>3, <2>4, <2>6
<1> QED BY <1>3, <1>4

\* What the gateway shows is in the order the engine emitted it in, each event
\* once, as long as its consumer's connection holds; after that a trade may be
\* counted again, but no older book replaces a newer one.
THEOREM ProjectionInOrder == Spec => []ProjectedInOrder
<1>1. IInv /\ OrderInv => ProjectedInOrder
  BY OrderGives
<1>2. Spec => [](IInv /\ OrderInv)
  BY InitInv, NextInv, InitInOrder, NextInOrder, PTL DEF Spec
<1> QED BY <1>1, <1>2, PTL
=============================================================================
