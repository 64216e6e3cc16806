---------------------------- MODULE EventDelivery ----------------------------
(***************************************************************************)
(* The events of the exchange between the matching engine that emits them  *)
(* and the three services that consume them: RabbitMQ's veltra.events and  *)
(* its queues, pkg/messaging, the ledger's settlement, the audit trail and *)
(* the gateway's projection of books and trades.                           *)
(*                                                                         *)
(* A queue has one consumer, which handles one delivery after the other;   *)
(* deliveries it has only buffered are left in the queue. Acknowledgements *)
(* arrive at the broker in order and with a delay: a lost connection or a  *)
(* crash brings some of the last deliveries back, at most Prefetch of them.*)
(* A consumer that stops is started again and reconnects.                  *)
(*                                                                         *)
(* Operators named Wrong... are seeded faults, used only to test that the  *)
(* properties notice them.                                                 *)
(***************************************************************************)
EXTENDS Integers, FiniteSets, Sequences, SequencesExt

CONSTANTS Events,       \* what the matching engine emits, in order
          MaxLength,    \* x-max-length of the ledger's and the gateway's queue
          Prefetch,     \* ConsumeOptions.Prefetch
          MaxFaults     \* bound on the faults, of all kinds together

Settled == {"trade.executed", "faucet.credit"}
Skipped == {"book.updated", "market.update"}

ASSUME DeliveryAssumption ==
  /\ Events \in Seq(Range(Events))
  /\ \A i \in DOMAIN Events :
       Events[i].rk \in Settled \cup Skipped \cup {"order.accepted", "order.filled"}
  /\ \A i \in DOMAIN Events : Events[i].rk \in Skipped <=> Events[i].tx = ""
  /\ MaxLength \in [{"ledger", "market"} -> Nat \ {0}]
  /\ Prefetch \in Nat \ {0} /\ MaxFaults \in Nat

\* One handler at a time numbers the commands (MatchingService.lastSeq) and
\* emits the book after each of them.
ASSUME BooksAscend ==
  \A k, l \in DOMAIN Events :
    Events[k].rk = "book.updated" /\ Events[l].rk = "book.updated" =>
      Events[k].seq \in Nat /\ (k < l => Events[k].seq < Events[l].seq)

VARIABLES
  emitted,    \* how many of the Events the engine has tried to publish
  confirmed,  \* those whose publication was confirmed
  queue,      \* the messages that are ready in each queue
  recent,     \* the last deliveries of the consumer's connection
  working,    \* the message a handler is half done with
  settled,    \* tx of the trades and credits the ledger has posted
  marks,      \* table processed_messages
  rows,       \* table audit_events
  applied,    \* what the gateway's projections consist of, in order: the trades
              \* and credits of its balances, the books it has shown
  dead,       \* q.dlq, with the queue a message came from
  dropped,    \* messages the broker has discarded
  lost,       \* messages acknowledged that could not be dead-lettered
  faults      \* how often each kind of fault happened

brokerVars == <<queue, recent, dropped>>
engineVars == <<emitted, confirmed>>
ledgerVars == <<settled>>
auditVars == <<marks, rows>>
gatewayVars == <<applied>>
deadVars == <<dead, lost>>
vars == <<brokerVars, engineVars, ledgerVars, auditVars, gatewayVars, deadVars, working, faults>>

Queues == {"ledger", "audit", "market"}
Nothing == [rk |-> "none", tx |-> ""]
Posted(e) == [rk |-> "ledger.posted", tx |-> e.tx]
EmittedEvents == {Events[i] : i \in 1..emitted}
Messages == Range(Events) \cup {Posted(e) : e \in Range(Events)}

\* "dlx": a handler fails, and its message cannot be dead-lettered either.
FaultKinds == {"publish", "confirm", "handler", "dlx", "loss", "crash", "expire"}
Fault(kind) ==
  /\ FoldFunctionOnSet(+, 0, faults, FaultKinds) < MaxFaults
  /\ faults' = [faults EXCEPT ![kind] = @ + 1]
Never(kind) == faults[kind] = 0

Init ==
  /\ emitted = 0 /\ confirmed = {}
  /\ queue = [q \in Queues |-> <<>>] /\ recent = [q \in Queues |-> <<>>]
  /\ working = [q \in Queues |-> [e |-> Nothing, owned |-> FALSE]]
  /\ settled = {} /\ marks = {} /\ rows = <<>> /\ applied = <<>>
  /\ dead = {} /\ dropped = {} /\ lost = {}
  /\ faults = [kind \in FaultKinds |-> 0]
-----------------------------------------------------------------------------
(* The broker's topology and Publisher.Publish. *)

BoundTo(e) == {q \in Queues : q = "ledger" => e.rk \in Settled}

\* q.ledger.events refuses what it has no room for.
Refuses(q) == q = "ledger" /\ Len(queue[q]) >= MaxLength[q]

\* q.marketdata.events discards its oldest messages; q.exchange.audit has no limit.
Surplus(q, s) == IF q = "market" /\ Len(s) > MaxLength[q] THEN Len(s) - MaxLength[q] ELSE 0

Store(contents) ==
  /\ queue' = [q \in Queues |->
                 SubSeq(contents[q], Surplus(q, contents[q]) + 1, Len(contents[q]))]
  /\ dropped' = dropped \cup
       UNION {{<<q, contents[q][i]>> : i \in 1..Surplus(q, contents[q])} : q \in Queues}

Enqueue(e) ==
  Store([q \in Queues |->
           IF q \in BoundTo(e) /\ ~Refuses(q) THEN Append(queue[q], e) ELSE queue[q]])

\* The broker confirms what every queue has taken. A publication fails without
\* having got there, or only its confirmation does.
Publish(e, ok) ==
  \/ /\ Enqueue(e)
     /\ \/ ok = (\A q \in BoundTo(e) : ~Refuses(q)) /\ UNCHANGED faults
        \/ ok = FALSE /\ Fault("confirm")
  \/ ok = FALSE /\ Fault("publish") /\ UNCHANGED <<queue, dropped>>

\* Seeded: emit tries again when it got no confirmation.
WrongEmit ==
  /\ emitted < Len(Events)
  /\ LET e == Events[emitted + 1]
     IN \E ok \in BOOLEAN :
          /\ Publish(e, ok)
          /\ emitted' = IF ok THEN emitted + 1 ELSE emitted
          /\ confirmed' = IF ok THEN confirmed \cup {e} ELSE confirmed
  /\ UNCHANGED <<recent, working, ledgerVars, auditVars, gatewayVars, deadVars>>

\* MatchingService.emit: a failure is logged, and the next event emitted.
Emit ==
  /\ emitted < Len(Events) /\ emitted' = emitted + 1
  /\ LET e == Events[emitted + 1]
     IN \E ok \in BOOLEAN :
          Publish(e, ok) /\ confirmed' = IF ok THEN confirmed \cup {e} ELSE confirmed
  /\ UNCHANGED <<recent, working, ledgerVars, auditVars, gatewayVars, deadVars>>
-----------------------------------------------------------------------------
(* Consumer (pkg/messaging/consumer.go). *)

Busy(q) == working[q].e # Nothing

\* The next delivery reaches the handler; what it has finished is acknowledged
\* whether it failed or not.
Take(q, e) ==
  /\ ~Busy(q) /\ queue[q] # <<>>
  /\ e = Head(queue[q])
  /\ queue' = [queue EXCEPT ![q] = Tail(@)]
  /\ LET r == Append(recent[q], e)
     IN recent' = [recent EXCEPT ![q] = IF Len(r) > Prefetch THEN Tail(r) ELSE r]
  /\ UNCHANGED <<dropped, engineVars>>

HalfDone(q, e) == working' = [working EXCEPT ![q] = [e |-> e, owned |-> TRUE]]
Done(q) == working' = [working EXCEPT ![q] = [e |-> Nothing, owned |-> FALSE]]

\* toDLQ: if it cannot be published there that is only logged.
ToDLQ(q, e, ok) ==
  IF ok THEN dead' = dead \cup {<<q, e>>} /\ UNCHANGED lost
  ELSE lost' = lost \cup {<<q, e>>} /\ UNCHANGED dead

\* Seeded: nothing is done when the retry exchange refuses the message.
WrongToRetry(q, e, ok) == UNCHANGED deadVars

\* toRetry: blockchain.retry is internal, so that the broker refuses what a
\* client publishes there, and the message goes to the dead letters at once.
ToRetry(q, e, ok) == ToDLQ(q, e, ok)

\* The handlers return transient errors only.
HandlerFails(q, e) ==
  \E ok \in BOOLEAN :
    /\ Fault(IF ok THEN "handler" ELSE "dlx")
    /\ ToRetry(q, e, ok)

\* The deliveries whose acknowledgement has not arrived come back, in order.
\* One still in the hands of the handler is among them.
Requeue(q, k) ==
  /\ k \in (IF Busy(q) /\ working[q].owned THEN 1 ELSE 0)..Len(recent[q])
  /\ Store([queue EXCEPT ![q] = SubSeq(recent[q], Len(recent[q]) - k + 1, Len(recent[q])) \o @])
  /\ recent' = [recent EXCEPT ![q] = <<>>]

\* Seeded: the handler is abandoned.
WrongLoseConnection(q) ==
  /\ recent[q] # <<>> /\ Fault("loss")
  /\ Done(q) /\ \E k \in 1..Prefetch : Requeue(q, k)
  /\ UNCHANGED <<engineVars, ledgerVars, auditVars, gatewayVars, deadVars>>

\* The handler is not interrupted; runOnce returns and attaches again after it.
LoseConnection(q) ==
  /\ recent[q] # <<>> /\ Fault("loss")
  /\ \E k \in 1..Prefetch : Requeue(q, k)
  /\ working' = [working EXCEPT ![q].owned = FALSE]
  /\ UNCHANGED <<engineVars, ledgerVars, auditVars, gatewayVars, deadVars>>

\* The gateway's projections are in memory only.
Crash(q) ==
  /\ Fault("crash")
  /\ Done(q) /\ \E k \in 0..Prefetch : Requeue(q, k)
  /\ IF q = "market" THEN applied' = <<>> ELSE UNCHANGED gatewayVars
  /\ UNCHANGED <<engineVars, ledgerVars, auditVars, deadVars>>

\* x-message-ttl of q.exchange.audit, which has no dead letter exchange.
Expire ==
  /\ queue["audit"] # <<>> /\ Fault("expire")
  /\ queue' = [queue EXCEPT !["audit"] = Tail(@)]
  /\ dropped' = dropped \cup {<<"audit", Head(queue["audit"])>>}
  /\ UNCHANGED <<recent, working, engineVars, ledgerVars, auditVars, gatewayVars, deadVars>>
-----------------------------------------------------------------------------
(* The ledger (cmd/ledger/main.go): a settlement is one database transaction *)
(* that a second delivery finds done. *)

Settle ==
  \E e \in Messages :
    /\ Take("ledger", e)
    /\ \/ /\ settled' = settled \cup {e.tx}
          /\ IF e.rk = "trade.executed" THEN HalfDone("ledger", e) ELSE UNCHANGED working
          /\ UNCHANGED <<faults, deadVars>>
       \/ HandlerFails("ledger", e) /\ UNCHANGED <<settled, working>>
    /\ UNCHANGED <<auditVars, gatewayVars>>

\* Seeded: it waits for the connection the delivery came from.
WrongPublishLedgerPosted ==
  /\ Busy("ledger") /\ working["ledger"].owned /\ Done("ledger")
  /\ \E ok \in BOOLEAN : Publish(Posted(working["ledger"].e), ok)
  /\ UNCHANGED <<recent, engineVars, ledgerVars, auditVars, gatewayVars, deadVars>>

\* The error of publishLedgerPosted is ignored.
PublishLedgerPosted ==
  /\ Busy("ledger") /\ Done("ledger")
  /\ \E ok \in BOOLEAN : Publish(Posted(working["ledger"].e), ok)
  /\ UNCHANGED <<recent, engineVars, ledgerVars, auditVars, gatewayVars, deadVars>>
-----------------------------------------------------------------------------
(* The audit trail (cmd/audit): veltraHandler and Store.SaveEvent. *)

AlreadyProcessed(e) == e.tx \in marks

\* markProcessed; projections of high volume are acknowledged and not stored.
MarkProcessed ==
  \E e \in Messages :
    /\ Take("audit", e)
    /\ \/ /\ e.rk \in Skipped \/ AlreadyProcessed(e)
          /\ UNCHANGED <<marks, working, faults, deadVars>>
       \/ /\ e.rk \notin Skipped /\ ~AlreadyProcessed(e)
          /\ \/ marks' = marks \cup {e.tx} /\ HalfDone("audit", e) /\ UNCHANGED <<faults, deadVars>>
             \/ HandlerFails("audit", e) /\ UNCHANGED <<marks, working>>
    /\ UNCHANGED <<rows, ledgerVars, gatewayVars>>

SaveEvent ==
  /\ Busy("audit") /\ Done("audit")
  /\ LET e == working["audit"].e
     IN \/ rows' = Append(rows, e) /\ UNCHANGED <<faults, deadVars>>
        \/ HandlerFails("audit", e) /\ UNCHANGED rows
  /\ UNCHANGED <<brokerVars, marks, engineVars, ledgerVars, gatewayVars>>
-----------------------------------------------------------------------------
(* The gateway's projection: VeltraState.ApplyEvent of books, trades and     *)
(* credits. Its balances, tape, last prices and candles are functions of the *)
(* trades and credits applied. *)

ShownBooks == {i \in DOMAIN applied : applied[i].rk = "book.updated"}

\* An update that is late is dropped.
UpdatesBook(e) ==
  e.rk = "book.updated" /\ \A i \in ShownBooks : e.seq >= applied[i].seq

ApplyEvent ==
  \E e \in Messages :
    /\ Take("market", e)
    /\ applied' = IF e.rk \in Settled \/ UpdatesBook(e) THEN Append(applied, e) ELSE applied
    /\ UNCHANGED <<working, faults, ledgerVars, auditVars, deadVars>>
-----------------------------------------------------------------------------

Consume(q) ==
  \/ q = "ledger" /\ (Settle \/ PublishLedgerPosted)
  \/ q = "audit" /\ (MarkProcessed \/ SaveEvent)
  \/ q = "market" /\ ApplyEvent

Next ==
  \/ Emit \/ Expire
  \/ \E q \in Queues : Consume(q) \/ LoseConnection(q) \/ Crash(q)

\* The consumers' loops go on for ever, and the broker delivers what it has.
Spec == Init /\ [][Next]_vars /\ \A q \in Queues : WF_vars(Consume(q))
-----------------------------------------------------------------------------
(* Properties. *)

\* The shape of the state; what a handler is half done with, and its connection
\* has not lost, is its last delivery.
TypeOK ==
  /\ emitted \in 0..Len(Events) /\ confirmed \subseteq EmittedEvents
  /\ \A q \in Queues :
       /\ Range(queue[q] \o recent[q]) \subseteq Messages
       /\ Len(recent[q]) <= Prefetch
       /\ Busy(q) /\ working[q].owned => recent[q] # <<>> /\ Last(recent[q]) = working[q].e
  /\ Range(rows) \subseteq Messages /\ marks \subseteq {e.tx : e \in Messages}
  /\ Range(applied) \subseteq Range(Events)
  /\ dead \cup dropped \cup lost \subseteq Queues \X Messages

\* Still to be handled, or handled.
InFlight(q, e) ==
  e \in Range(queue[q]) \/ working[q].e = e
Effective(q, e) ==
  CASE q = "ledger" -> e.tx \in settled
    [] q = "audit" -> e.rk \in Skipped \/ e.tx \in marks

\* An event the broker has confirmed does not disappear on its way to ledger and
\* audit trail: it waits, has had its effect, is a dead letter, or is one of the
\* few whose loss the code accepts (expired, or refused by the dead letter
\* exchange too).
NothingVanishes ==
  \A e \in confirmed : \A q \in BoundTo(e) \ {"market"} :
    InFlight(q, e) \/ Effective(q, e) \/ <<q, e>> \in dead \cup dropped \cup lost

\* No transaction is in the audit trail twice, however often its events are
\* delivered; and one marked as processed has its row, or is getting it, unless
\* the audit service crashed or the insert failed between the two statements.
AuditTrail ==
  /\ \A i, j \in DOMAIN rows : rows[i].tx = rows[j].tx => i = j
  /\ Never("crash") /\ Never("handler") /\ Never("dlx")
       => marks \subseteq {rows[i].tx : i \in DOMAIN rows} \cup {working["audit"].e.tx}

\* The gateway shows trades, credits and books in the order they were emitted
\* in, and each of them once, whatever publications fail or confirmations are
\* missing, as long as its consumer keeps its connection. A lost connection may
\* count a trade twice, but never brings an older book back.
ProjectedInOrder ==
  \A i, j \in DOMAIN applied :
    i < j /\ (Never("loss") \/ {i, j} \subseteq ShownBooks) =>
      \E k, l \in DOMAIN Events :
        /\ k < l \/ (k = l /\ ~Never("loss"))
        /\ Events[k] = applied[i] /\ Events[l] = applied[j]

\* Every queue is emptied, and its last message handled to the end, again and
\* again, whatever failures happened.
QueuesDrain == \A q \in Queues : []<>(queue[q] = <<>> /\ ~Busy(q))

\* The audit trail has every business event it has handled. It is not so: all
\* events of an order carry the order's id as tx_id, and a trade's postings the
\* trade's.
AuditTrailComplete ==
  \A e \in Messages :
    e \in confirmed /\ e.rk \notin Skipped /\ e.tx \in marks /\ ~InFlight("audit", e)
      => e \in Range(rows)

=============================================================================
