--------------------------- MODULE BlockchainNode ---------------------------
(***************************************************************************)
(* The legacy blockchain: nodes that elect a leader, the leader's consumer *)
(* of q.leader.commands, the memory pool, mining and the broadcast of      *)
(* blocks (cmd/node/main.go, pkg/blockchain, pkg/network/rpc.go,           *)
(* pkg/database/mariadb.go).                                               *)
(*                                                                         *)
(* An RPC is one step with its handler, and the Elect calls of one election*)
(* are one step. Goroutines of a node that wait to start an election are   *)
(* merged. Timers are abstracted: what waits for one may happen at any     *)
(* time. A hash is a function of what it covers, so a block stands for its *)
(* own hash; its nonce is left out. Events are recorded where they are     *)
(* published (answered). Databases can be reached when a node starts.      *)
(*                                                                         *)
(* Operators named Wrong... are seeded faults, used only to test that the  *)
(* properties notice them.                                                 *)
(***************************************************************************)
EXTENDS Integers, FiniteSets, Sequences, SequencesExt

CONSTANTS Nodes,           \* the ids of the nodes
          Requests,        \* a client's transactions, in the order it sends them;
                           \* one without an id is sent to a node by RPC
          Times,           \* the seconds blocks are mined in
          QueueLimit,      \* x-max-length of q.leader.commands
          Possible,        \* the kinds of faults that may happen
          MaxFaults        \* bound on all of them together

ASSUME BlockchainAssumption ==
  /\ Nodes \subseteq Nat \ {0} /\ IsFiniteSet(Nodes) /\ Nodes # {}
  /\ QueueLimit \in Nat /\ MaxFaults \in Nat

\* The gateway draws a new id for every transaction it publishes.
ASSUME RequestsAssumption ==
  /\ Requests \in Seq([id : STRING, sender : STRING, receiver : STRING, amount : Int])
  /\ \A i, j \in DOMAIN Requests : Requests[i].id # "" /\ Requests[i].id = Requests[j].id => i = j

VARIABLES
  up,         \* the nodes that run
  leader,     \* Node.LeaderID
  due,        \* nodes with a goroutine about to call StartElection
  beat,       \* the leaderID a heartbeat was started for
  telling,    \* the peers ProclaimCoordinator has still to call
  chain,      \* Blockchain.Blocks
  pool,       \* Blockchain.MemPool
  rows,       \* the blocks table of each node's database
  mining,     \* MineAndBroadcast goroutines that have not mined yet
  sending,    \* and those that have: the block and the peers still to call
  queue,      \* q.leader.commands, without the deliveries
  consumer,   \* consumerRef: the consumer of it a node has on
  consuming,  \* the consumers whose goroutine has not ended
  job,        \* the command a consumer's handler is at, and where
  answered,   \* the commands a node announced as accepted, or rejected
  unanswered, \* those that expired, or whose announcement failed
  requested,  \* how many of the Requests were sent
  faults      \* how often each kind of fault happened

electionVars == <<leader, due, beat, telling>>
storeVars == <<chain, pool, rows>>
minerVars == <<mining, sending>>
consumerVars == <<queue, consumer, consuming, job, answered, unanswered>>
failureVars == <<up, faults>>
clientVars == <<requested>>
vars == <<electionVars, storeVars, minerVars, consumerVars, failureVars, clientVars>>

NoLeader == -1
NoConsumer == 0

\* A consumer may still be at its last command when another one is started.
Consumers == {1, 2}
Handlers == Nodes \X Consumers
HandlersOf(n) == {n} \X Consumers

\* Failing are SaveBlock and Publish; a consumer may lose its connection, or be
\* started while another one of its node has not ended (overlap).
Idle == [at |-> "idle"]
FaultKinds == {"crash", "restart", "save", "loss", "publish", "overlap"}
Fault(kind) ==
  /\ kind \in Possible
  /\ FoldFunctionOnSet(+, 0, faults, FaultKinds) < MaxFaults
  /\ faults' = [faults EXCEPT ![kind] = @ + 1]
Commands == {tx \in Range(Requests) : tx.id # ""}
Accounts == (UNION {{tx.sender, tx.receiver} : tx \in Range(Requests)}) \ {""}
Genesis == [index |-> 0, time |-> 0, txs |-> <<>>, prev |-> "0"]

\* NewBlockchain on an empty database; every node runs.
Init ==
  /\ up = Nodes /\ due = {}
  /\ leader = [n \in Nodes |-> NoLeader]
  /\ beat = [n \in Nodes |-> NoLeader]
  /\ telling = [n \in Nodes |-> {}]
  /\ chain = [n \in Nodes |-> <<Genesis>>]
  /\ pool = [n \in Nodes |-> <<>>]
  /\ rows = [n \in Nodes |-> <<Genesis>>]
  /\ mining = [n \in Nodes |-> 0] /\ sending = {}
  /\ queue = <<>>
  /\ consumer = [n \in Nodes |-> NoConsumer] /\ consuming = {}
  /\ job = [h \in Handlers |-> Idle]
  /\ answered = {} /\ unanswered = {} /\ requested = 0
  /\ faults = [kind \in FaultKinds |-> 0]
-----------------------------------------------------------------------------
(* Election (pkg/network/rpc.go) and heartbeats (cmd/node/main.go). *)

\* Seeded: the next node is not asked.
WrongHigher(n) == {p \in Nodes : p > n + 1}

Higher(n) == {p \in Nodes : p > n}

\* A second ProclaimCoordinator of the same node tells everybody again.
ProclaimCoordinator(n) ==
  /\ leader' = [leader EXCEPT ![n] = n]
  /\ telling' = [telling EXCEPT ![n] = Nodes \ {n}]

\* The higher nodes that answer start an election of their own; if none does,
\* the node proclaims itself. Nothing keeps a second election from starting.
StartElection(n) ==
  /\ n \in due
  /\ IF Higher(n) \cap up # {}
     THEN due' = (due \ {n}) \cup (Higher(n) \cap up) /\ UNCHANGED <<leader, telling>>
     ELSE due' = due \ {n} /\ ProclaimCoordinator(n)
  /\ UNCHANGED <<beat, storeVars, minerVars, consumerVars, failureVars, clientVars>>

\* A peer believes whoever announces itself.
Announce(n, p) ==
  /\ p \in telling[n]
  /\ telling' = [telling EXCEPT ![n] = @ \ {p}]
  /\ leader' = IF p \in up THEN [leader EXCEPT ![p] = n] ELSE leader
  /\ UNCHANGED <<due, beat, storeVars, minerVars, consumerVars, failureVars, clientVars>>

\* heartbeatLoop: the leader is read, then called, then given up.
ReadLeader(n) ==
  /\ n \in up /\ beat[n] = NoLeader
  /\ IF leader[n] = NoLeader
     THEN n \notin due /\ due' = due \cup {n} /\ UNCHANGED beat
     ELSE leader[n] # n /\ beat' = [beat EXCEPT ![n] = leader[n]] /\ UNCHANGED due
  /\ UNCHANGED <<leader, telling, storeVars, minerVars, consumerVars, failureVars, clientVars>>

LeaderAlive(n) ==
  /\ beat[n] \in up
  /\ beat' = [beat EXCEPT ![n] = NoLeader]
  /\ UNCHANGED <<leader, due, telling, storeVars, minerVars, consumerVars, failureVars, clientVars>>

\* Whatever leader the node has by now is given up.
LeaderDown(n) ==
  /\ beat[n] \in Nodes \ up
  /\ beat' = [beat EXCEPT ![n] = NoLeader]
  /\ leader' = [leader EXCEPT ![n] = NoLeader]
  /\ due' = due \cup {n}
  /\ UNCHANGED <<telling, storeVars, minerVars, consumerVars, failureVars, clientVars>>
-----------------------------------------------------------------------------
(* The chain of a node (pkg/blockchain). *)

Transactions(n) == FlattenSeq([i \in DOMAIN chain[n] |-> chain[n][i].txs]) \o pool[n]

Balance(txs, account) ==
  LET Effect(tx) == (IF tx.receiver = account THEN tx.amount ELSE 0)
                    - (IF tx.sender = account THEN tx.amount ELSE 0)
  IN SumFunction([i \in DOMAIN txs |-> Effect(txs[i])])

\* Seeded: pending transactions are not counted.
WrongGetBalance(n, account) ==
  Balance(FlattenSeq([i \in DOMAIN chain[n] |-> chain[n][i].txs]), account)

GetBalance(n, account) == Balance(Transactions(n), account)

\* Seeded: the pool is not searched.
WrongHasTransaction(n, tx) == \E i \in DOMAIN chain[n] : tx \in Range(chain[n][i].txs)

HasTransaction(n, tx) == tx \in Commands /\ tx \in Range(Transactions(n))

Save(n, block) ==
  \/ /\ rows' = [rows EXCEPT ![n] = Append(@, block)]
     /\ pool' = [pool EXCEPT ![n] = <<>>]
     /\ UNCHANGED faults
  \/ /\ Fault("save")
     /\ UNCHANGED <<rows, pool>>

Saved(n, block) == rows'[n] = Append(rows[n], block)

\* Seeded: any later block is taken.
WrongAddBlock(n, block) ==
  IF block.index > Last(chain[n]).index
  THEN chain' = [chain EXCEPT ![n] = Append(@, block)] /\ Save(n, block)
  ELSE UNCHANGED <<storeVars, faults>>

\* A block that follows the last one is appended, and the whole pool dropped,
\* whatever the block contains; any other block is refused.
AddBlock(n, block) ==
  IF block.index = Last(chain[n]).index + 1 /\ block.prev = Last(chain[n])
  THEN chain' = [chain EXCEPT ![n] = Append(@, block)] /\ Save(n, block)
  ELSE UNCHANGED <<storeVars, faults>>

NewBlock(n, time) ==
  [index |-> Last(chain[n]).index + 1, time |-> time, txs |-> pool[n], prev |-> Last(chain[n])]

\* Seeded: the pool is emptied although the block was neither saved nor kept.
WrongMinePendingTransactions(n, block) ==
  \/ chain' = [chain EXCEPT ![n] = Append(@, block)] /\ Save(n, block) /\ Saved(n, block)
  \/ Fault("save") /\ pool' = [pool EXCEPT ![n] = <<>>] /\ UNCHANGED <<chain, rows>>

MinePendingTransactions(n, block) ==
  chain' = [chain EXCEPT ![n] = Append(@, block)] /\ Save(n, block)

\* The blocks of the table by index, whatever is missing of them: the i-th is the
\* one that follows i - 1 others.
LoadBlocks(n) ==
  LET table == Range(rows[n])
  IN [i \in DOMAIN rows[n] |->
        CHOOSE b \in table : Cardinality({c \in table : c.index < b.index}) = i - 1]
-----------------------------------------------------------------------------
(* MineAndBroadcast. *)

Mine(n, time) ==
  /\ mining[n] > 0
  /\ mining' = [mining EXCEPT ![n] = @ - 1]
  /\ IF pool[n] = <<>>
     THEN UNCHANGED <<storeVars, faults, sending>>
     ELSE LET block == NewBlock(n, time)
          IN /\ MinePendingTransactions(n, block)
             /\ sending' = IF Saved(n, block) /\ Nodes # {n}
                           THEN sending \cup {[from |-> n, block |-> block, todo |-> Nodes \ {n}]}
                           ELSE sending
  /\ UNCHANGED <<electionVars, consumerVars, up, clientVars>>

ReceiveBlock(s, p) ==
  /\ s \in sending /\ p \in s.todo
  /\ sending' = (sending \ {s}) \cup
       (IF s.todo = {p} THEN {} ELSE {[s EXCEPT !.todo = @ \ {p}]})
  /\ IF p \in up THEN AddBlock(p, s.block) ELSE UNCHANGED <<storeVars, faults>>
  /\ UNCHANGED <<mining, electionVars, consumerVars, up, clientVars>>

\* The old way in: no balance is checked, and only a leader mines.
ReceiveTransaction(n) ==
  /\ n \in up /\ requested < Len(Requests) /\ requested' = requested + 1
  /\ LET tx == Requests[requested + 1]
     IN tx.id = "" /\ pool' = [pool EXCEPT ![n] = Append(@, tx)]
  /\ mining' = IF leader[n] = n THEN [mining EXCEPT ![n] = @ + 1] ELSE mining
  /\ UNCHANGED <<sending, chain, rows,
                 electionVars, consumerVars, failureVars>>
-----------------------------------------------------------------------------
(* postCredit and postTransaction of the gateway (cmd/gateway/server.go), and *)
(* the queue (pkg/messaging/setup.go).                                        *)

\* A publication that a full queue refuses leaves no trace.
Request ==
  /\ requested < Len(Requests) /\ requested' = requested + 1
  /\ LET tx == Requests[requested + 1]
     IN /\ tx.id # "" /\ tx.amount > 0 /\ tx.sender # tx.receiver
        /\ Len(queue) < QueueLimit /\ queue' = Append(queue, tx)
  /\ UNCHANGED <<consumer, consuming, job, answered, unanswered,
                 electionVars, storeVars, minerVars, failureVars>>

\* What has waited for its time to live goes to the dead letters.
Expire ==
  /\ queue # <<>>
  /\ queue' = Tail(queue)
  /\ unanswered' = unanswered \cup {Head(queue)}
  /\ UNCHANGED <<consumer, consuming, job, answered,
                 electionVars, storeVars, minerVars, failureVars, clientVars>>
-----------------------------------------------------------------------------
(* monitorLeadership and leaderHandler (cmd/node/main.go), runOnce of the     *)
(* consumer (pkg/messaging/consumer.go). A handler is named by its node and   *)
(* its consumer.                                                              *)

\* Nothing waits for a consumer stopped before. A third one is not modelled.
Start(n, c) ==
  /\ leader[n] = n /\ consumer[n] = NoConsumer /\ <<n, c>> \notin consuming
  /\ consumer' = [consumer EXCEPT ![n] = c]
  /\ consuming' = consuming \cup {<<n, c>>}
  /\ IF HandlersOf(n) \cap consuming = {} THEN UNCHANGED faults ELSE Fault("overlap")

\* Stopping a consumer neither interrupts its handler nor waits for it.
Stop(n) ==
  /\ leader[n] # n /\ consumer[n] # NoConsumer
  /\ consumer' = [consumer EXCEPT ![n] = NoConsumer]
  /\ UNCHANGED <<consuming, faults>>

Monitor(n) ==
  /\ n \in up
  /\ Start(n, IF <<n, 1>> \in consuming THEN 2 ELSE 1) \/ Stop(n)
  /\ UNCHANGED <<queue, job, answered, unanswered, electionVars, storeVars, minerVars, up, clientVars>>

At(h, step) == job[h].at = step
Goto(h, step) == job' = [job EXCEPT ![h].at = step]

\* The goroutine of a stopped consumer sees that it is.
End(h) ==
  /\ h \in consuming /\ consumer[h[1]] # h[2] /\ At(h, "idle")
  /\ consuming' = consuming \ {h}
  /\ UNCHANGED <<queue, consumer, job, answered, unanswered,
                 electionVars, storeVars, minerVars, failureVars, clientVars>>

\* The delivery, which a stopped consumer may still choose, and its idempotence
\* check.
Deliver(h) ==
  /\ h \in consuming /\ At(h, "idle") /\ queue # <<>>
  /\ queue' = Tail(queue)
  /\ LET tx == Head(queue)
         next == IF HasTransaction(h[1], tx) THEN "ack" ELSE IF tx.sender = "" THEN "add" ELSE "funds"
     IN job' = [job EXCEPT ![h] = [at |-> next, tx |-> tx, owned |-> TRUE]]
  /\ UNCHANGED <<consumer, consuming, answered, unanswered,
                 electionVars, storeVars, minerVars, failureVars, clientVars>>

\* A Publish that fails is logged, and the handler goes on.
Publish(h, accepted) ==
  LET tx == job[h].tx
  IN \/ /\ answered' = answered \cup {[tx |-> tx, by |-> h[1], accepted |-> accepted]}
        /\ UNCHANGED <<unanswered, faults>>
     \/ /\ Fault("publish")
        /\ unanswered' = unanswered \cup {tx}
        /\ UNCHANGED answered

CheckFunds(h) ==
  /\ At(h, "funds")
  /\ IF GetBalance(h[1], job[h].tx.sender) < job[h].tx.amount
     THEN Publish(h, FALSE) /\ Goto(h, "ack")
     ELSE Goto(h, "add") /\ UNCHANGED <<answered, unanswered, faults>>
  /\ UNCHANGED <<queue, consumer, consuming, electionVars, storeVars, minerVars, up, clientVars>>

AddTransactionToPool(h) ==
  /\ At(h, "add")
  /\ pool' = [pool EXCEPT ![h[1]] = Append(@, job[h].tx)]
  /\ Goto(h, "tell")
  /\ UNCHANGED <<chain, rows, queue, consumer, consuming, answered, unanswered,
                 electionVars, minerVars, failureVars, clientVars>>

\* credit.added or transaction.received, and the goroutine that will mine.
Accept(h) ==
  /\ At(h, "tell")
  /\ Publish(h, TRUE)
  /\ mining' = [mining EXCEPT ![h[1]] = @ + 1]
  /\ Goto(h, "ack")
  /\ UNCHANGED <<sending, queue, consumer, consuming,
                 electionVars, storeVars, up, clientVars>>

Ack(h) ==
  /\ At(h, "ack")
  /\ job' = [job EXCEPT ![h] = Idle]
  /\ UNCHANGED <<queue, consumer, consuming, answered, unanswered,
                 electionVars, storeVars, minerVars, failureVars, clientVars>>

\* Seeded: deliveries are acknowledged before they are handled.
WrongRequeued(h, q) == q

\* The broker puts a delivery it has no acknowledgement for back in front.
Requeued(h, q) == IF ~At(h, "idle") /\ job[h].owned THEN <<job[h].tx>> \o q ELSE q

\* The handler does not notice.
LoseConnection(h) ==
  /\ ~At(h, "idle") /\ job[h].owned
  /\ Fault("loss")
  /\ queue' = Requeued(h, queue)
  /\ job' = [job EXCEPT ![h].owned = FALSE]
  /\ UNCHANGED <<consumer, consuming, answered, unanswered,
                 electionVars, storeVars, minerVars, up, clientVars>>
-----------------------------------------------------------------------------
(* Crashes. *)

Crash(n) ==
  /\ n \in up /\ Fault("crash")
  /\ up' = up \ {n} /\ due' = due \ {n}
  /\ leader' = [leader EXCEPT ![n] = NoLeader]
  /\ beat' = [beat EXCEPT ![n] = NoLeader]
  /\ telling' = [telling EXCEPT ![n] = {}]
  /\ chain' = [chain EXCEPT ![n] = <<>>]
  /\ pool' = [pool EXCEPT ![n] = <<>>]
  /\ mining' = [mining EXCEPT ![n] = 0]
  /\ sending' = {s \in sending : s.from # n}
  /\ \E c, d \in Consumers : c # d /\ queue' = Requeued(<<n, c>>, Requeued(<<n, d>>, queue))
  /\ consumer' = [consumer EXCEPT ![n] = NoConsumer]
  /\ consuming' = consuming \ HandlersOf(n)
  /\ job' = [h \in Handlers |-> IF h[1] = n THEN Idle ELSE job[h]]
  /\ UNCHANGED <<rows, answered, unanswered, clientVars>>

Restart(n) ==
  /\ n \notin up /\ Fault("restart")
  /\ up' = up \cup {n}
  /\ chain' = [chain EXCEPT ![n] = LoadBlocks(n)]
  /\ UNCHANGED <<pool, rows, electionVars, minerVars, consumerVars, clientVars>>
-----------------------------------------------------------------------------

Electing(n) == StartElection(n) \/ \E p \in Nodes : Announce(n, p)

Heartbeat(n) == ReadLeader(n) \/ LeaderAlive(n) \/ LeaderDown(n)

Handler(h) ==
  Deliver(h) \/ CheckFunds(h) \/ AddTransactionToPool(h) \/ Accept(h) \/ Ack(h) \/ End(h)

Mining(n) == \E t \in Times : Mine(n, t)

Next ==
  \/ \E n \in Nodes :
       \/ Electing(n) \/ Heartbeat(n) \/ Monitor(n) \/ Mining(n)
       \/ ReceiveTransaction(n) \/ Crash(n) \/ Restart(n)
  \/ \E h \in Handlers : Handler(h) \/ LoseConnection(h)
  \/ Request \/ Expire
  \/ \E s \in sending : \E p \in s.todo : ReceiveBlock(s, p)

\* Heartbeats and monitorLeadership are loops, the rest are goroutines and RPCs
\* that come to an end. Nothing makes anybody send a request, or one expire.
Spec ==
  /\ Init /\ [][Next]_vars
  /\ \A n \in Nodes : /\ WF_vars(Electing(n)) /\ WF_vars(Heartbeat(n))
                      /\ WF_vars(Monitor(n)) /\ WF_vars(Mining(n))
  /\ \A h \in Handlers : WF_vars(Handler(h))
  /\ WF_vars(\E s \in sending : \E p \in s.todo : ReceiveBlock(s, p))
-----------------------------------------------------------------------------
(* Properties. *)

\* The shape of the state: who is up is who has a chain, and what a node does
\* not keep in its database is gone when it is down.
Steps == {"idle", "funds", "add", "tell", "ack"}
TypeOK ==
  /\ up \subseteq Nodes /\ due \subseteq up
  /\ leader \in [Nodes -> Nodes \cup {NoLeader}] /\ beat \in [Nodes -> Nodes \cup {NoLeader}]
  /\ telling \in [Nodes -> SUBSET Nodes]
  /\ mining \in [Nodes -> Nat] /\ requested \in 0..Len(Requests)
  /\ Range(queue) \subseteq Commands /\ unanswered \subseteq Commands
  /\ \A n \in Nodes :
       /\ n \in up <=> chain[n] # <<>>
       /\ n \notin up => pool[n] = <<>> /\ mining[n] = 0 /\ HandlersOf(n) \cap consuming = {}
       /\ Range(pool[n]) \subseteq Range(Requests)
       /\ consumer[n] # NoConsumer => <<n, consumer[n]>> \in consuming
  /\ \A h \in Handlers :
       /\ job[h].at \in Steps
       /\ At(h, "idle") \/ (h \in consuming /\ job[h].tx \in Commands)
  /\ \A s \in sending : s.from \in up /\ s.todo \subseteq Nodes \ {s.from} /\ s.todo # {}

Never(kind) == faults[kind] = 0

\* IsValid: every block follows the one before it.
IsValid(blocks) ==
  \A i \in DOMAIN blocks : blocks[i].index = i - 1 /\ (i > 1 => blocks[i].prev = blocks[i - 1])

\* The chain a node works with, and the one it would load from its database,
\* are valid, whoever mines and in whatever order blocks come, as long as no
\* block fails to be saved.
ChainsValid == Never("save") => \A n \in Nodes : IsValid(chain[n]) /\ IsValid(LoadBlocks(n))

\* A requested transaction is at most once in the books of a node, block or pool.
Once ==
  \A n \in up, tx \in Commands :
    Cardinality({i \in DOMAIN Transactions(n) : Transactions(n)[i] = tx}) <= 1

\* So it is however often it is delivered and whoever leads, as long as blocks
\* can be saved: a failing SaveBlock leaves the block in the chain and its
\* transactions in the pool. A lost connection breaks it together with a restart,
\* or with a second consumer that is delivered what the first has not added yet.
OnceInBooks ==
  Never("save") /\ (Never("loss") \/ (Never("restart") /\ Never("overlap"))) => Once

\* Nobody spends what he does not have in any node's books, although the check
\* and the debit are two steps, with blocks received in between, unless a node
\* has two consumers at it.
FundsCovered ==
  Never("save") /\ Never("restart") /\ Never("overlap")
    => \A n \in up, a \in Accounts : Balance(Transactions(n), a) >= 0

\* What a running node has announced as accepted is in its books.
AcceptedKept ==
  Never("restart") => \A a \in answered : a.accepted /\ a.by \in up => HasTransaction(a.by, a.tx)

\* The leader is at one command at a time. A node that stops leading and leads
\* again, while its handler is at work, is not.
OneAtATime ==
  \A n \in up : leader[n] = n => Cardinality({h \in HandlersOf(n) : ~At(h, "idle")}) <= 1

\* Two nodes' chains are the same as far as both go, unless a node crashes: two
\* nodes may each take themselves for the leader, but not both mine.
ChainsAgree ==
  Never("crash") => \A m, n \in up : IsPrefix(chain[m], chain[n]) \/ IsPrefix(chain[n], chain[m])

\* A requested transaction is answered, found in the books, or given up in sight
\* of the code, if no node restarts.
Settled(tx) ==
  \/ tx \in unanswered
  \/ \E a \in answered : a.tx = tx
  \/ \E n \in up : HasTransaction(n, tx)
RequestsSettled ==
  []<>(\/ \A i \in 1..requested : Requests[i] \in Commands => Settled(Requests[i])
       \/ ~Never("restart") \/ up = {})
=============================================================================
