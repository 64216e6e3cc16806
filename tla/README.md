# Veltra Exchange: a TLA+ model

A formal model of the Veltra exchange (Go services around RabbitMQ and PostgreSQL): TLA+
modules for its components, TLC configurations that check them on small instances, and
proofs, checked by TLAPS, of what matters most. Paths such as `pkg/matching/wal.go` are
relative to the repository.

    tlc -workers 2 -config MCJournal.cfg MCJournal.tla     # one run
    tlapm JournalProofs.tla                                # one module's proofs

`PROJECT.json` holds the index: the components, the runs, the code lines behind each
definition, the seeded faults, the findings, the hazards and the theorems.

## 1. The system

An order travels through five processes:

                 POST /orders                             (HTTP)
                      |
    +-----------------v------------------+   hold    +-----------------+
    | gateway (cmd/gateway)              |---------->| ledger database |
    |  reserve, publish, undo            |           | accounts, holds,|
    |  projections of orders, balances   |  release  | postings        |
    +----+-------------------------^-----+---------->+--------^--------+
         | place/cancel            | q.marketdata.events      | settle
         v                         |                          |
    q.matching.commands            |                +---------+---------+
         |                         |                | ledger            |
    +----v-------------------+     |  veltra.events | (cmd/ledger)      |
    | matching engine        |-----+--------------->| q.ledger.events   |
    | (cmd/matching-engine)  |     |                +-------------------+
    | leader of 3 replicas   |     +--------------->  audit (cmd/audit)
    |  WAL -> engine -> events
    +-----------+------------+
                | append, snapshot
         shared volume: one log and one snapshot per pair

The gateway is the only process that users talk to, and it holds their money before an order
leaves it. Commands wait in one queue for the leader of the matching replicas, which logs
each command before it executes it and publishes events afterwards. Each event is copied into
the queues of the gateway (projection, release of holds), of the ledger (settlement) and of
the audit service; nothing orders these three with respect to each other. Gateway and ledger
meet once more in the database: both add users and accounts to it. A separate blockchain node
(`cmd/node`) is the system's older form and shares only libraries with the rest; it takes
commands from the gateway through a queue of its own.

### Components

**Order book** (`pkg/orderbook`). State: two slices of price levels (best first), each with a
FIFO queue, and an index from order id to order. Operations: `AddResting`, `Front`, `PopFront`,
`Cancel`, level quantities, and `AllOrders`, the flat list a snapshot stores. Hard:
the level slices, the queues and the index are updated separately, in the middle of the
matching loop as well. Correct if: levels stay strictly sorted and non-empty, the index holds
exactly what the queues hold, and a rebuilt book is the same book.

**Matching engine** (`pkg/matching/engine.go`). State: a book, the trade sequence. Operations:
`Process`, `Cancel`, `Snapshot`/`Restore`. Hard: fill-or-kill is decided before the loop,
self-trade prevention cancels makers inside it, reports are snapshots taken between trades.
Correct if: price-time priority, never a trade of an account with itself, never a crossed
book at rest, fill-or-kill is all or nothing.

**Write-ahead log and snapshots** (`pkg/matching/wal.go`). State: a log file, a snapshot file,
an open handle with an encoder. Operations: `OpenJournal` (restore and replay), `Append`
(write, fsync), `Snapshot` (write beside, rename, truncate the log), `Close`. Hard: a crash
between any two system calls, a call that fails. Correct if: what was confirmed is in any
engine recovered later, in the same order, once.

**Matching service** (`cmd/matching-engine/service.go`). State: per pair a lock, an engine, a
journal, the last sequence number, commands since the last snapshot. Operations: `Activate`,
`Deactivate`, `handlePlace`, `handleCancel`, `maybeSnapshot`, publication of events. Hard:
log, execution, publication and acknowledgement are four steps; a handler may meet a
`Deactivate`. Correct if: a command is executed if it is logged, and is logged before it is
answered; each order's end is announced.

**Leader election and failover** (`cmd/matching-engine/election.go`, `main.go`,
`pkg/bully/node.go`). State per replica: who leads, whether an election is in flight;
`monitorLeadership`'s own `active`. Operations: the `Elect` and `Coordinator` RPCs,
`StartElection`, `ProclaimCoordinator`, `heartbeatLoop`, the two-second poll that promotes
and demotes. Hard: overlapping elections, announcements that cross or come late, a leader
that only learns at its next poll that it leads no more. Correct if: in the end one running
replica leads and the others follow it; engines over one log are never operated by two.

**Messaging library** (`pkg/messaging`). State: connections, channels, retry counts in
headers; in the broker, queues with a length limit and a time to live. Operations: publish with
confirm, consume with acknowledgement, retry exchange, dead letters. Hard: a confirmation that
does not come within the time limit, a connection lost while a handler runs, a failed message
that can be put nowhere. Correct if: what the broker confirmed is handled, or is somewhere it can
be found; no failure stops a queue.

**Double-entry ledger** (`pkg/ledger`, `cmd/ledger`). State: accounts (balance, reserved),
postings, holds, in PostgreSQL. Operations: `SettleTrade`, `SettleFaucet`,
`ReserveIfAvailable`, `ReleaseReserveByOrder`. Hard: redelivery, two transactions at once,
idempotence from one of four rows. Correct if: a transfer is whole and happens once, balance
and reserve are the sums of postings and of active holds.

**Gateway order management** (`cmd/gateway/veltra_server.go`, `balance_server.go`). State: one
HTTP handler per request. Operations: `handleOrders`, `handleOrderCancel`, `handleWithdraw`,
`releaseHoldOnTerminal`. Hard: reserve, publish and undo are separate and the undo competes
with the order's own events; two consumers of two queues work on one account. Correct if: an
open order always has its hold, a closed one has none, no balance is spent twice.

**Gateway projections** (`cmd/gateway/veltra_state.go`, `state.go`, `hub.go`). State: in-memory
orders, balances, books, bounded by pruning. Correct if: it agrees with engine and ledger once
all events are in.

**Audit** (`cmd/audit`; Merkle roots in `pkg/ledger/merkle.go`). State: an event table, marks of
messages seen, roots per period. Operations: the two consumers' handlers, `SaveEvent` in two
statements, `merkleLoop` with `BuildAndSaveMerkleRoot`. Hard: postings commit while a period is
read. Correct if: each event is stored once, each posting is covered by one root.

**Users, accounts and sessions** (`cmd/gateway/auth_server.go`, `pkg/pgstore/migrate.go`, the start
of `cmd/ledger/main.go`, `GetOrCreateTradingAccount`). State: the tables of schema `auth`.
Operations: migration, seeding, registration, login, logout, and accounts that the ledger opens for
names it does not know. Hard: two services create the same rows, a start is cut off half-way.
Correct if: a name has one account, whichever service asks.

**Blockchain node** (`cmd/node`, `pkg/blockchain`, `pkg/network`, `pkg/database`). State: who leads,
a chain, a pool of transactions, a table of blocks. Operations: election and heartbeat, the handler
of `q.leader.commands`, mining, `ReceiveBlock`, `ReceiveTransaction`. Hard: check, insertion, answer
and mining are separate; a received block empties the pool; redelivery to another leader; a block
that is not saved. Correct if: chains do not fork, nothing is booked twice or overspent, what was
accepted stays.

**Money** (`pkg/money`): fixed-point integers of 64 bits, truncation, overflow checks. Correct if:
every result is exact, or exactly rounded, or an error.

**Market data simulator, web client, deployment**: input/output and numeric simulation without
state that the others rely on.

### Which behaviours are hard

The `hazards` of `PROJECT.json` list each at its line with the properties that
watch it. In short: a crash at every point between the write of a log line and the truncation
that follows a snapshot; failing calls in the same places; redelivered commands, trades and
terminal events; commands that expire unread; two event queues consumed at different speeds; a publication that fails after
the money is held; leaders that overlap; announcements that cross; two services that write the same rows; an
idempotence check that is not atomic with what it guards; and, in the matching loop, three data
structures that must agree after every step.

## 2. Modules

    PriceTimeMarket <--implements-- MatchingEngine --extends--> OrderBook
          ^
          | INSTANCE M
    OrderManagement --INSTANCE L--> Ledger --implements--> AccountBook
                                      |
                                      +--extends--> Money
    Journal --implements--> DurableLog <--implements-- MatchingCluster --extends--> Election

    EventDelivery      Accounts      BlockchainNode      MerkleWindows

    MCMatching, MCJournal, MCLedger, MCOrders, MCElection, MCCluster,
    MCDelivery, MCAccounts, MCBlockchain, MCMerkle                    instances for TLC
    MatchingProofs, JournalProofs, LedgerProofs, OrderProofs,
    ClusterProofs, DeliveryProofs, BlockchainProofs                   theorems
    FoldTheorems                                                      lemmas on sums and least elements, for five of them

Operators whose name starts with `Wrong` are not part of the model: each is a plausible bug in
the definition beside it, and the property it is paired with in `PROJECT.json` must fail when
it takes that definition's place.

### OrderBook and MatchingEngine

`levels[side]` is `bookSide.levels`, a sequence of levels, each a price and the queue of the ids
that rest at it; `index` is the key set of `OrderBook.index`; `order` is the heap of `Order`
objects, which levels and index share by pointer. `Locate` is the binary search of `locate`: it
finds the right level only if the slice is sorted and no level is empty, and `BookConsistent`
says that this is so. One call of `Process` is a run of steps: `Begin` (validation, the fill-or-kill
pre-check), `CancelOwnMaker` or `Trade` for each turn of the loop, and
`FinishFilled`, `FinishImmediate` or `Rest`. Nothing comes between them, as the service makes
the call under the pair's lock. Quantities and prices are naturals: no run of the matching engine
comes near the width of `int64`, which is Money's subject.

### Journal

Variables in three groups: on disk (`wal`, `synced`, `snap`), in the process (`pc`, `handle`,
`engine`, `lastSeq`, `cursor`, `sinceSnapshot`, `leaving`), and history variables. Since the
engine is deterministic, its state is the sequence of commands it has executed; that a snapshot
of the book restores the same book is `RestoreRebuilds` of the matching engine. `Open`,
`ReplayLine` and `ReplayEnd` are `OpenJournal`; `Write`, `WriteFails`, `Sync` and `Apply` are a
handler; `RenameSnapshot`, `SnapshotFails`, `Truncate`, `TruncateFails` are `Journal.Snapshot`,
for `maybeSnapshot` or, when `leaving`, for `Deactivate`. `Crash` may happen before any of them
and leaves any prefix of the unsynced lines; `CrashForms` adds a torn line or one without its
newline. A torn line may also come from a write that fails half-way (`WriteFails`); where `CrashForms`
has none, as in the run `journal`, a failed write leaves nothing in the file. Assumed: the rename of the snapshot is atomic and durable (the code does not fsync
it). Left out: errors of `OpenJournal`, the scanner's 8 MB line limit, an error of the
`Sync` right after a truncation. `SyncResults` can hold "error", a failing fsync after which the
line stays in the file; the recovery properties do not hold with it, and no run has it.

### Ledger

A ledger account is a user (or the sink) and an asset. `posted` is the postings table as a
function of its unique key (account, reference), `hold` the holds table as a function of
(account, order). Transactions that lock what they read are one step. `ReleaseReserveByOrder`
selects without locking and is two (`ReleaseRead`, `ReleaseWrite`), for each of `Callers`. A
failed transaction leaves nothing, and any trade or credit may be settled again at any time.
Amounts are Money's: `Notional` truncates, and a trade whose notional is no `int64` is not settled.
`HoldAmount`, `ReleaseHold` and `ValidateSufficient` have no callers in the repository and are not
modelled.

### OrderManagement

From `POST /orders` to the last event: `PlaceReserve`, `PlacePublish`, `UndoRead` and `UndoWrite`
are `handleOrders`; `RequestCancel` is `handleOrderCancel`; `CheckWithdrawal` and `SendWithdrawal`
are `handleWithdraw`. `TakeOrder`, `Match`, `CancelOwn`, `FinishOrder` and `TakeCancel` are the
service's `handlePlace` and `handleCancel` with their events, over the abstract market instead of
the book: the refinement below is what allows it. `ProjectEvent`, `CloseOrder` and `ReleaseHold`
are the gateway's consumer (`ApplyEvent` and `releaseHoldOnTerminal`), `Settle` the ledger's. Each
consumer may lose the acknowledgement of what it has just handled. A request whose notional is no
`int64` is refused (`Priced`); `Cost` is the truncated notional at the reference price.

`UndoFails` and `ReleaseFails` are releases whose error is discarded: the hold stays, the event is
acknowledged. `RestartGateway` empties the projection, abandons the handlers between reserve and
publication and rolls back a release in progress; afterwards the cancellation of an order accepted
before finds no client order id, and releases nothing (`Unresolved`). `Expire` is the minute that a command may
wait in `q.matching.commands` (`x-message-ttl`, `setup.go:51`) before the broker moves it to the dead letters, which
no service reads: an order that expires there is never answered and its hold stays. `unreleased` records the
client order ids of which one of these left a hold behind: nothing in the code looks at them again.

Not in this module: crashes of the engine (Journal, MatchingCluster), several pairs, events lost
between the engine and the broker, redelivery of anything but the head of a queue, the answer to a
cancellation of an order that is not in the book; and the pruning of the projection, which drops
finished orders only, of which no later event comes.

### Election and MatchingCluster

`Election` has one action per RPC and per turn of each loop. `leader[n]` is `Node.LeaderID`; a
replica in `due` has a goroutine about to call `StartElection` (several are merged); `beat[n]` is
the leader id that a heartbeat read before its call, since the code overwrites the id after it.
A replica that runs can be reached. A call is one step with its handler, with one
exception: a `Coordinator` call whose caller stops may arrive at any time later (`late`). Time
limits and tickers are abstracted to "may happen at any time". Initially all replicas run, as
each waits five seconds for its peers.

`MatchingCluster` adds to each replica `monitorLeadership`'s position (`role`), the delivery its
consumer holds (`hand`), whether the consumer's loop still runs (`open`), an engine and its number, and shares
one log, one snapshot and one command queue among them. `LoadSnapshot` and `ReplayLog` are the two reads of `OpenJournal`;
`SaveSnapshot` and `TruncateLog` the two halves of `Deactivate`'s snapshot. Here calls succeed, a
line is written and synced in one step, and periodic snapshots are left out: failures of calls
are Journal's subject. `Terminate` is SIGTERM, after which `Halt` may come at any time, since
`main` waits for nothing; `Halt` of any other replica is a crash. The broker requeues what was not
acknowledged. A command in the queue may expire at any time (`Expire`: after a minute it goes to the
dead letters, which no service reads), which `expired` records. Stopping a consumer only cancels a context: until its
loop sees that (`Close`), it may take one more delivery, since its `select` has the choice. `Drop` is the handler that
runs after `Deactivate` emptied the engines: it answers "pair not supported", which the consumer acknowledges.
A consumer that is started again while the one before it has not ended counts as the same one: both handlers
take the lock of the pair for all they do. The queue's length limit (50,000) is beyond the bound.

### EventDelivery

What RabbitMQ, `pkg/messaging` and three consumers do with the exchange's events: `Emit` is
`MatchingService.emit`, which publishes and only logs a failure; `Publish` is `Publisher.Publish`
with its three outcomes (confirmed; not published; published without a confirmation in time).
`BoundTo`, `Refuses` and `Surplus` are the bindings and length limits `DeclareTopology` declares:
the ledger's queue refuses what it has no room for, the gateway's discards its oldest. `Settle` and
`PublishLedgerPosted` are the two halves of the ledger's `handleTrade`, `MarkProcessed` and
`SaveEvent` the two statements of the audit store, `ApplyEvent` the gateway's projection of books,
trades and credits. Deliveries that are merely prefetched stay in `queue`; `recent` holds the last
ones that were handled, some of which `LoseConnection` and `Crash` bring back, in order. A lost
connection does not interrupt a handler. The retry exchange is declared internal, so that a client
cannot publish to it: a message that fails goes to the dead letters at once (`ToRetry` is `ToDLQ`).
What `Events` may be is assumed: a transaction id exactly on the events that have one, and ascending
sequence numbers of the books (`BooksAscend`: one handler at a time numbers the commands and emits the
book after each). Left out: malformed and permanently failing messages, which nothing in the repository publishes;
the engine's own crash (the log replays without publishing, see MatchingCluster); the legacy queues,
which work alike.

### Accounts

The tables `auth.users`, `auth.accounts` and `auth.sessions`, which two processes write. The ledger
starts by `Migrate` (only `auth.users` is looked for), `Apply` per schema file, `EnsureAdminAccount`
and the statements of `seedAssetsAndMarket`; it may stop or fail between any two. Then
`FindAccount` and `CreateAccount` are the two halves of `GetOrCreateTradingAccount`. The gateway's
`SeedDefaultAdmin`, `handleRegister`, `handleLogin` and `issueToken` work on the same rows.
`sessions` are the tokens: `Request` is any request `RequireAuth` lets through, which reserves on
the account in the token and sends an event under its name; `Event` is one without a token (the
market data service's, or a gateway without authentication). A session's end after a day is the
same step as a logout. Left out: passwords, and users who register under the services' names.
`SinkIsNobodys` says which of these matter: nobody registers, and no event comes, under `system` or
`system-sink`, the two names of the account with id 0; the code does not enforce it before the ledger's
first start, which adds the user.

### BlockchainNode

One action per RPC, per turn of a loop and per step of a handler: `Deliver` (with
`HasTransaction`), `CheckFunds`, `AddTransactionToPool`, `Accept` (the event and the goroutine that
mines), `Ack`. A heartbeat is three: the leader is read (`ReadLeader`, into `beat`), answers (`LeaderAlive`) or does
not (`LeaderDown`), after which whoever leads by then is forgotten. `Start` and `Stop` are the two branches of
`monitorLeadership`. `Stop` waits for nothing: the consumer's loop ends later (`End`), may take one more delivery before, and
its handler goes on in any case. So a node that leads again may have a second consumer beside the first, each
with a handler and a prefetch of 1; `job` is per consumer, `overlap` counts these starts, and a third consumer at the same time
is left out. The queue has a length limit, at which a publication is refused (`QueueLimit`), and a time to live
(`Expire`). `Publish` is the publication of a handler's answer: one that fails is logged and the command acknowledged.
`unanswered` records these commands and the expired ones; a publication that reports an error and arrived all the same is
counted as failed. Stopping a consumer does not make a publication under way fail, because the AMQP client does not look at
its context. What a consumer has prefetched without handling it counts as queued. A block contains its predecessor instead of its hash, so comparing hashes is
comparing blocks; `Times` are the timestamps. `Save` either succeeds, and the pool is emptied, or
fails, and the block stays in the chain although the table does not have it. `Crash` keeps `rows`
only and `Restart` loads them. A command that a closed connection leaves unacknowledged comes back
to the front of the queue while its handler goes on. RPCs are one step with their handler; the
`Elect` calls of one election are one step. Balances are sums of integers: the code's `float64` is
exact for them. `LoadBlocks` gives each row the place that the number of lower indices is: `ORDER BY
block_index` of a table in which no index is twice. A broadcast lasts while a peer has still to be sent
the block; a node without peers has none.

### MerkleWindows

`merkleLoop` of the ledger against the consumer's transactions. `Tick` is a tick (later than the one
before, but possibly old when it is taken) with the query of `BuildAndSaveMerkleRoot`; `SaveRoot` and
`SaveFails` are `SaveMerkleRoot`, which may take effect and still report an error, after which
`last` stays. A posting is dated at `BeginPosting` (`created_at` is the beginning of the transaction)
and visible from `CommitPosting`; its id is spent even if `RollbackPosting` follows. `Stop` and
`Start` are a restart, which begins at the present. `late` and `gaps` are history variables. Hashes are
terms, so that two are equal exactly if their inputs are; `Level` is one turn of `ComputeMerkleRoot`'s
outer loop. Left out: the clocks of ledger and database may differ.

### Money

Each operation returns an error flag and an amount. `Wrap` is what is left of a sum in 64 bits, so
that the code's overflow tests are modelled as it makes them, on the wrapped result; `Notional`
goes through `big.Int` and does not wrap. A decimal is its sign, integer part and fraction: `Parse`
and `String` are what the code does after and before the digits. `String` of the least amount takes
the absolute value in 64 bits, which does not exist (and panics in the padding).

### Abstract specifications

| abstract | implemented by | promise |
|---|---|---|
| `PriceTimeMarket` | `MatchingEngine` | the taker trades with the best counterparty at its price, never with its own account, and stops only when nothing can be traded |
| `DurableLog` | `Journal`, `MatchingCluster` | a confirmed command is never lost, repeated or moved, an accepted one may be |
| `AccountBook` | `Ledger` | a transfer moves the funds of all its accounts at once, and once |

## 3. Runs

Sizes are distinct states, rounded. Symmetry is declared over accounts (matching) or commands
(journal), where nothing tells them apart; runs with liveness properties have none.
`TypeOK` is checked by the runs `journal`, `ledger` and `election`, and by `matching` as part of
`BookConsistent`; that of `EventDelivery` is proved; those of `MerkleWindows` and `Accounts` are part of
their inductive invariants, and that of `BlockchainNode` is proved.

| run | states | what it shows |
|---|---|---|
| `matching` | 183,000 | every sequence of up to 4 orders of 2 accounts, and cancels |
| `journal` | 104,000 | crashes, failed writes and failed snapshots at any point lose nothing confirmed |
| `ledger` | 2,500 | any interleaving of transfers, holds and one releasing caller, redelivered |
| `orders` | 67,000 | from the reserve to the last event, with redelivery at both consumers, commands that expire, a failing release or a restart |
| `election` | 467,000 | after a crash and a restart: one leader at most, followers follow |
| `cluster` | 193,000 | failover and orderly stop of 2 replicas over one log |
| `delivery` | 155,000 | one failure of any kind on the way of four events to three consumers |
| `accounts` | 1,570,000 | two services start, stop and write users and accounts |
| `blockchain` | 332,000 | 2 nodes, 3 transactions, any 2 faults |
| `merkle` | 137,000 | periods closed while postings commit, saves fail and the ledger restarts |
| `journal_torn`, `orders_overdraft` | until violated | findings 1 and 2 of section 6 |

**matching.** 2 accounts, 2 prices, quantities 1 and 2, limit orders with each time in force,
market orders and one request for each way `validate` refuses an order; at most 4 orders. Four
orders are enough for two on one level, a level above it and a taker that crosses both, a cancel
in the middle of a queue, and a taker that meets its own order between two of another account.
Checks: `BookConsistent` (levels, queues, index and order states agree, in the middle of the
loop too, and at rest no bid reaches an ask), `ReportsAgree` (reports add
up to the trades, and the last one tells the order's real remainder), `RestoreRebuilds` (the flat
snapshot order rebuilds the same book), `FOKFillsWithoutOwnOrders` (all or nothing unless the
liquidity counted was the taker's own), `ImplementsMarket`. Deadlock is not checked, as the input
ends with the fourth order.

**journal.** 2 commands, at most 5 executed, a snapshot after every 2: two snapshots and
commands after the second, so that the log is truncated, refilled and truncated again, with any
number of crashes and recoveries between. Checks: `SequenceMatchesEngine`, `DiskIsHistory`
(which contains `ConfirmedIsDurable`), `ConfirmedSurvive`, `ImplementsDurableLog`.

**ledger.** 2 users and the sink, 3 trades between them (two with a notional that is truncated,
at `Scale` 2, with amounts up to 7), a deposit and a withdrawal, 4 reservations of which two share
an order id and one is for nothing; the balances let some reservations fail. Checks:
`PostingsBalance`, `AccountsAreSums` (balances are sums of postings, reserves sums of active holds,
with one caller), `ImplementsAccountBook`.

**orders.** 3 requests: a bid for two units, a fill-or-kill sale of one by another user, and an
immediate-or-cancel sale of one by the bidder, which meets its own bid; a withdrawal; one
cancellation; publications that the broker confirms or refuses. With these an order is filled in
two parts, filled in part and then canceled, canceled by self-trade prevention, refused, undone,
and its fill crosses with its cancellation; at price 3 and `Scale` 2 the notional of one unit is
truncated. One release fails, or the gateway restarts once, at any moment, and any command may expire in the
queue. Checks:
`OpenOrdersAreCovered` (what is open, and what was filled and is still held, is covered although hold
and debits are truncated separately; market purchases are excluded, as their hold is made at a
reference price that the fills may exceed), `HoldsMatchBook` (no hold is missing, and none is left over
but by that fault or an expired command), `ProjectionFollowsEngine` and, under the fairness below, `OrdersComplete`. Deadlock is not checked,
since the requests are finite.

**election.** 3 replicas as in docker-compose, one that stops at any moment and one start at any
later moment. Checks `SplitBrainHeals` and `FollowersFollow`.

**cluster.** 2 replicas, 2 commands, one crash or SIGTERM. Two commands are needed for one to be
in the log and the other in a handler when the replica stops. Checks `SingleEngine`,
`ConfirmedRecoverable`, `CommandsAnswered` (every command is executed, refused by `Drop`, or expires in the queue), `ImplementsDurableLog`.
No replica is started again here, so that two never overlap; that is `MCClusterHandover.cfg`. Deadlock is not checked: when
all is executed, nothing is left to do.

**delivery.** A trade, a credit and two books; the ledger's queue has room for 1, the gateway's
for 2, prefetch 2; one fault: a publication, a confirmation, a handler with or without its dead
letter, a connection, a crash or an expired message. Four events are enough for a queue to refuse
or discard one, and for a lost connection to bring two back. Checks: `NothingVanishes` (what the
broker confirmed for ledger and audit is waiting, done, or accounted for), `AuditTrail` (no
transaction twice; a mark without its row only after a crash or failed insert), `ProjectedInOrder`
(trades in order, and once unless the connection was lost; no older book ever), `QueuesDrain`.
Deadlock is not checked, since the events are finite.

**accounts.** Two users, one of whom wants the other's address; events under one's name before it
registers; one client; 2 sessions; 2 crashes or failed statements. Checks: `AccountsAgree` (a user
has one account, and what a token reserves from is what the ledger settles on) and
`SchemaMissingOnlyIfCut` (a running ledger lacks its tables exactly if an earlier start was cut off
between the last two schema files).

**blockchain.** 2 nodes; money that comes by RPC and two payments that it covers one by one but not together; room for one
command in the queue; any two of: a crash, a restart, a failing save, a failing publication, a lost connection, overlapping
consumers. Two faults are enough for the pairs that matter: a crash and the restart, a crash and a second consumer, a lost
connection and what makes its redelivery harmful. Once a node has restarted, a third request is not explored
(`RestartsAreEarly`, a state constraint; `RequestsSettled` says nothing of a behavior with a restart, so that nothing of it is
cut off). The properties say which faults they survive, and none survives more:

- `ChainsValid` (every block follows the one before, in memory and in the table) needs every block to be saved. It takes a node
  that comes back with an old table.
- `OnceInBooks` (a requested transaction is in the books of a node once) needs the same, and breaks if a connection is lost
  *and* a node restarts or has two consumers.
- `FundsCovered` (no negative balance in any node's books) and `AcceptedKept` (what a node announced as accepted is in its
  books) break with a restart, because a restarted node refuses every block until it has the one before; `FundsCovered` also with
  a failing save and with two consumers.
- `ChainsAgree` says that there is no fork unless a node crashes: without a crash only the highest node mines. With one the chains
  may fork, and no property of the code says otherwise.
- `RequestsSettled`: every command is announced, or booked, or in `unanswered`, which is what the code itself gave up, if no
  node restarts.

Deadlock is not checked, since the requests are finite. Three more configurations check the same properties on larger instances,
without violation: `MCBlockchainFour.cfg` (two credits, one of them a command, and two payments, any two faults but a restart:
1,490,000 states), `MCBlockchainRestart.cfg` (credits by RPC and by command around crash, restart and lost connection: 1,350,000)
and `MCBlockchainThree.cfg` (3 nodes, so that the lead changes twice, and a credit: 150,000, with `RequestsSettled`).

**merkle.** 3 ids, a clock that reaches 3, 2 failing saves or restarts. Three ids are needed for an odd
level; two faults for a save that fails twice, or fails before a restart. Checks:
`MissedOnlyIfLate` (what the loop has passed is in a root, or was in an open transaction when its period
was read, or dates from a restart), `CountedOnce` (periods have postings in common only after a save that
reported an error, and then the later has all the earlier has) and `RootProvesLeaves` (no other set
of postings has a saved root). Deadlock is not checked, since clock and ids are finite.

### Fairness

Only what the code drives by itself is fair. No property assumes that a user does anything, that
a replica stops or starts, or that a database call fails.

- `OrderManagement`: weak fairness of an HTTP handler that has begun, of the engine and of each
  consumer's next message: a goroutine that can run does. Weak fairness of a handler that
  acknowledges means that no message is redelivered for ever. A release that must be acknowledged
  needs strong fairness, as each lost acknowledgement takes the consumer back to the step before.
- `Election`: weak fairness, per replica, of a goroutine that is to start an election, of an
  election in progress and of the heartbeat loop; and of each late call, which TCP delivers or
  the replica's end cancels.
- `MatchingCluster`: the same, and weak fairness of the poll of leadership, of the consumer, and
  of the end of a replica that received SIGTERM.

- `EventDelivery`: weak fairness of each consumer, whose loop reconnects for ever; none of `Emit`.
- `BlockchainNode`: weak fairness, per node, of election, heartbeat, monitor and mining, per consumer of its loop and
  handler, and of the delivery of a mined block. None of `Request` and `Expire`.

Journal, Ledger, Accounts, MerkleWindows and MatchingEngine have only safety properties and no fairness: they promise
nothing about when they are called.

## 4. Proofs

**Matching** (`MatchingProofs`). Any accounts, requests and number of orders. `BookConsistent` is not
inductive: that the book is not crossed at rest depends on the loop having stopped for a reason. The
inductive invariant `IInv` says of each side that it is sorted, has no empty level and no order twice
(`SidesOK`), so that the binary search finds what it should; that the index is the set of what rests
(`IndexOK`); that the book without the taker is never crossed, in the loop either (`Uncrossed`); and
that the taker is the newest order (`TakerOK`). One lemma per operation of the book (`AddPuts`,
`PopFrontTakes`, `RemoveOrderTakes`) shows that it changes the set of resting orders by exactly one
order and keeps the rest of the invariant, position by position; `LoopEnded` and `NothingTradable`
that a loop which ends with a remainder leaves nothing tradable. From this `BookAlwaysConsistent`,
and `EngineImplementsMarket`, one lemma per action: the front of the best level is the best order of
the abstract market (`MakerIsBest`). `ReportsAlwaysAgree` adds to the invariant that a call's first
report is the taker's, whose fill is the sum of the trades so far (`AddUpInv`), and which reports are
an order's last (`ReportsInv`).

`FOKAlwaysFills` is about two ways to count. The check before the loop adds up levels; the loop takes orders
one at a time. Since no order rests in two levels and every order has its level's price, the
sum by level is the sum over the orders that the taker can reach (`LevelsSum`, `CanFullyFillIs`). From then on
that sum is never less than what the taker lacks (`FokInv`): a trade takes the same from both, whether
it leaves the maker in the book or not (`TradeLiquidity`). The loop ends with nothing in reach, so with nothing
lacking. An own order in reach is canceled and not traded, which the statement excludes and
`MCMatchingFOK.cfg` shows.

`RestoreAlwaysRebuilds` is about two ways to build a book. A side that is sorted, without empty levels and
with every price in order of arrival is determined by the set of orders that rest there (`SameSide`). The
flat list of a snapshot holds each side's orders once, those of one price in order of arrival
(`PriorityOrderListed`), and each insertion adds exactly its order to such a side (`OneMore`), whatever came
before at other prices. So the restored side and the original rest the same orders, and are equal.
`FlattenSeq` and `FoldLeft` are recursions: that they have a solution, and what it computes, is shown by
the least length at which it would fail.

**Journal** (`JournalProofs`). Assumption `NoFaults`: a crash loses whole lines, a failed write leaves nothing of
its line, fsync does not fail. Any set of commands, bound and snapshot interval. The invariants of the run are not
inductive: nothing in `ConfirmedSurvive` says that what is on disk now will recover to it. The
inductive invariant `IInv` adds that the confirmed commands are the beginning of the history, that
no line is torn, what replay has rebuilt so far (`ReplayInv`: up to the last line it has read,
engine and disk agree) and what a running engine knows (`RunningInv`: the disk knows the history
to its end, the engine all of it but the command at hand). `DiskIsHistory` carries the argument: the
log's numbers ascend, none is missing that the snapshot does not cover, and each line's number is
its place in the history, so that skipping numbers up to the snapshot's is exactly right, between
the rename and the truncation as well. Proved: `TypeCorrect`, `DiskCorrect`, `SequenceCorrect`,
`RecoveryKeepsConfirmed`, and `JournalImplementsDurableLog`.

**Ledger** (`LedgerProofs`). Assumptions: those that `Ledger` names; the two of substance are that a
trade has two different accounts (which the engine ensures) and that trade ids and envelope ids
are unique. The inductive invariant says which postings there can be: all four of a trade or none,
both of a credit or none, and no others (`WholeTransfers`). It is what makes it right that the code
looks at one posting to decide whether a trade is settled. From it `PostingsAlwaysBalance` and
`LedgerImplementsAccountBook`.

`BalancesAreSums` adds that a balance is the opening one and the sum of the account's postings: the rows
of a transfer are new, and in each account it touches exactly one of them counts (`TradeSum`,
`CreditSum`). `AccountsAlwaysSums` and `LedgerTypeCorrect` also concern the reserves, and assume that at
most one caller releases holds, without which they are false (`MCLedgerRelease.cfg`). Their invariant
(`HoldInv`): a reserve is the sum of the account's active holds, and what a caller has read and will
release is still active.

**Sums** (`FoldTheorems`). The sum of a function over a finite set, `SumFunctionOnSet` of the community
modules, is a recursive function, that is, some function that satisfies the recursion. That there is one
(`AddingExists`) and that it does not depend on the choice (`AddingAgree`) is proved without induction: among
the subsets for which it fails there would be a least one (`LeastSubset`). From it that any element may be
counted first (`SumRemove`), what adding one does (`SumAdd`), that a part can be taken off (`SumPart`), that a sum over disjoint groups is the sum of
theirs (`SumUnion`, `SumGroups`), and types.

**Orders** (`OrderProofs`). Any requests, withdrawals, bounds and failures. Assumptions: `UniqueIds`, no client
order id is used twice (finding 11 shows what happens otherwise), and `AnswersTell`, the broker queues what it
confirms and nothing else (the timeout of a confirmation is the hazard at `publisher.go:101`).
`OpenOrdersAlwaysCovered` states `OpenOrdersAreCovered`, which is about five actors: the handler that reserves,
the queue, the engine, the consumer that releases, and the ledger. It becomes inductive with four facts about
them. A request is queued once, and taken once (`PlaceInv`). An event that closes an order, wherever it
waits and however often it is delivered, speaks of one with nothing left open (`EventInv`; before the events are
published this is `MatchInv`, on the trades of the call so far). From its reserve until nothing
of it is open, a request's hold is active, of its full amount, and no caller has it among those it will release
(`HoldInv`). And what is open and what is spent together never cost more than was reserved (`SpentInv`): each
fill truncates on its own, at a price no worse than the limit, which is `FillCovered`, the lemma about `Cost`.
`BusyInv`, proved beside it, says that the consumer releases for the first event of its queue, so that lost
acknowledgements repeat the same release.

`HoldsAlwaysMatchBook` states `HoldsMatchBook`. That no hold is missing is `HoldInv`; that none is left over
needs the opposite, that every active hold has somebody who will still release it (`HeldInv`): a handler, the
command that waits, the engine, which has not yet told what it did to the order, an event on its way that tells
its end (`Ending`), or nobody, and then it is among the ones given up, which a command that expires in the queue joins. The last event of an order must find the
hold (`ReadInv`: when the consumer releases, it has read all active holds of that order), and the engine must tell the
end of every order that it closes: the lemmas on `PlaceEvents`.

`ProjectionAlwaysFollows` states `ProjectionFollowsEngine`. While events are under way the projection is wrong,
and the invariant says what it will be: of the events that wait and say something of an order, the last says it;
if there is none, the projection already does (`ToldOpen`, `ToldStatus`). That agrees with the book for every order
but those the engine is matching (`AgreeInv`). Open quantity and status are told by different events, since a
cancellation keeps the quantity: hence two notions, and for canceled orders that what is told is positive. A
restart empties the projection, which is right because it only forgets orders (an order is known again when
its acceptance comes, and not before), and a redelivered event changes nothing (`SeenInv`). An order is matched with
others' orders and prevented with its own account's (`ActiveInv`), so that no order is both told filled and
canceled, and a client order id that was refused is no other's (`RejectInv`). `ActiveTold` and `OthersTold` are about the
order of publishPlaceResult's events: the last report about the taker is that of its last trade, although the
makers' come in between and the cancellations before.

**Election and cluster** (`ClusterProofs`). `ElectionTypeCorrect` holds for any replicas and
failures. `OneEngine`: if replicas only stop (`MaxRestarts = 0`), crashed or told to, any number of
them, at most one operates engines. The argument: a candidate that has had no answer has yet to ask
every running replica above it (`LeadInv`), so one that proclaims itself has none above; without
restarts none can appear; and engines are loaded by a leader and outlive its leadership only with
it (`RoleInv`). Two replicas with engines would each have none above them that runs. With restarts
the statement is false, which `MCClusterHandover.cfg` makes concrete. Under the same assumption,
`RecoveryFindsConfirmed` states `ConfirmedRecoverable`, and `ClusterImplementsDurableLog` the
refinement of `DurableLog`. The inductive invariant (`LogInv`, checked by TLC before) says what
the files hold (`DiskInv`: the log is a stretch of the history, one line per number, that starts no
later than the snapshot ends and reaches the last command; only so may a crash come between
snapshot and truncation) and what a replica with engines has executed (`Serves`: the history, but
for the command its handler has logged and not run, and a consumer is never told to save in
between). `ReplayFindsHistory` shows that reading such a log from such a snapshot gives the
history; `Replayed` is a recursive function, which `ReadingIsOne` shows to have one solution by the
least place where two could differ.

**Deliveries** (`DeliveryProofs`). Assumptions: `DeliveryAssumption` and `BooksAscend`; any events,
limits, prefetch and number of faults. `NothingVanishes` and `AuditTrail` become inductive with what a
handler between its two halves has behind it (`Halves`: the trade is settled; the mark is there and the
row is not) and with `TypeOK`'s clause on the delivery in hand (`InHand`). `ProjectedInOrder` needs
more: what waits for the gateway, what may come back to it and what it has applied are each in the
order of emission, and the latter two before the first (`OrderInv`). That order is stated without
positions (`Before`: there are two positions, the one before the other), which is why taking
messages from either end of a queue, as its length limit and a lost connection do, needs no
bookkeeping. Proved: `DeliveryTypeCorrect`, `EventsDoNotVanish`, `AuditTrailCorrect`, `ProjectionInOrder`.

**Accounts** (end of `LedgerProofs`). Assumption: `SinkIsNobodys`, without which the statement is false. Any
users, names in events, clients and failures. `AccountsInv`: but for the sink's, an account has its owner's name,
ids have no gap (so `NextId` is new), no user has two accounts (`Rows`); tokens, handlers and
settlements name their owner's (`AccountReferences`); and each point of a start knows which files are applied
(`Files`). The gateway looks for users and the ledger for names of accounts, in two statements; it is
`Rows` that makes both find the same. Proved: `AccountsAlwaysAgree`, `SchemaComplete`.

**Money** (after the ledger, in `LedgerProofs`). Assumption: `1 < Scale <= MaxInt`; any width. `AddExact`, `SubExact` and
`FromIntExact`: each overflow test, although made on the wrapped result, is exact (so
`Order.Remaining`, which ignores the error of `Sub`, is). `NotionalRounds`: a notional is rounded
down by less than one unit, and is an error exactly when it is no `int64`. `ReserveCoversFills`:
what is reserved for a quantity at a limit covers what its parts cost at prices up to that limit,
which is why truncating hold and fills separately is safe. `RoundTrip`: `Parse` of `String` is the
amount itself, for all but the least. The nonlinear steps rest on three lemmas on division
(`Division`, `Monotone`, `Quotient`).

**Merkle roots** (in `LedgerProofs`, which extends `Ledger`, `MerkleWindows` and `Accounts`: all are `cmd/ledger`,
and the prefixes of `MerkleSpec`, `AccountsSpec` and the like keep their names apart). Any bounds. `TrailInv` adds to `MissedOnlyIfLate` that the loop's times are in
order (`TimesInv`), that the period being closed begins at `last`, ends after every saved one and has all
its postings but late ones (`WindowInv`), and that saved periods either follow one another or
begin together (`RootsInv`). That ticks ascend makes every row new, so `ON CONFLICT DO NOTHING` never
drops one. From it `NothingElseMissed` and `PostingsCountedOnce`.

`RootsProveLeaves` states `RootProvesLeaves`, for any number of leaves. Two leaves differ, as an id is given once
(`ProofInv`), so no hash is twice in any level (`LevelApart`). Therefore a level of more than one hash can be
undone (`LevelUndone`): a hash combined with itself is a duplicated last one, never two equal neighbours. Two trees
with one root are then equal level by level from the top, down to the leaves of the lower one; there the other
has leaves too, since a leaf's hash is of one string and an inner one of two hashes (`TreesAgree`). This rests on
the abstraction that SHA-256 tells its inputs apart, those of leaves from those of pairs included; without the
uniqueness of leaves it would be false, as `<<a, b, b>>` and `<<a, b, b, b>>` have one root. `Levels` is a
recursive function, shown to have a solution by a least number of levels for which there would be none.

**Blockchain** (`BlockchainProofs`). Any nodes, requests, times and faults. Assumption `RequestsAssumption`: the
requests have ids that are not repeated, unless empty (the gateway's are fresh). The run's five safety properties
are not inductive, and each needs to know who may act. `BlockchainInv` has that first:

- `Rulers`: without a restart, only the highest node that is up leads, handles commands, mines or sends, whatever
  the others believe. So what two nodes could do to each other's books needs a restart or a crash in between.
- `Links`, `Stored`: while blocks are saved (or nobody restarts), chains are linked, a block being sent is in its
  sender's chain, and the table has what the chain has. A block contains its predecessor, so a node that takes a block
  has, with it, a beginning of the sender's chain. Hence `ChainsAlwaysValid`.
- `Agreement`: without a crash the ruler never changes, every chain is a beginning of its chain, and of two chains
  one is a beginning of the other. Hence `ChainsAlwaysAgree`.
- `Kept`: what is announced is in the books when it is announced, and leaves the pool only into the chain, since the
  one node that has accepted anything receives no block. Hence `AcceptedAlwaysKept`.
- `OnePlace`, `Counted`: without a lost connection a command is in one place, the queue, one handler, or the
  nodes that hold it, so a handler about to add it finds it nowhere else in its books; without a restart a repeated
  delivery goes to a node that has seen what the first one did. Hence `AlwaysOnceInBooks`, for either case; in the latter it
  assumes that no node has two consumers, for the second would not see what the first is about to add.
- `Single`: unless consumers overlap, a node has one that has not ended, and one handler at work. The arguments about what a
  handler has seen (`Counted`, `Funds`) rest on it.
- `Funds`, `Positive`: no prefix of a chain, and no books, are below zero for anyone, and a handler past its check
  still has the balance it saw, as only it debits. Hence `FundsAlwaysCovered`, without overlapping consumers. It assumes `LegacyCredits`: what
  comes in by the RPC, without an id, has no sender. Without that the statement is false, because
  `ReceiveTransaction` checks no balance (section 6); the run's requests satisfy it.

Balances and books are folds over blocks and transactions: that the recursion of `FlattenSeq` has one solution, and
that a balance is a sum of effects, is shown by least counterexamples and the lemmas of `FoldTheorems`.

### Checked by TLC only

- Liveness: `OrdersComplete`, `SplitBrainHeals`, `FollowersFollow`, `CommandsAnswered`, `QueuesDrain`,
  `RequestsSettled`. Temporal reasoning under fairness and `ENABLED` are beyond the provers used.
- What the findings of section 6 show, by the two runs that expect a violation and by further configurations.

Every other property that a run checks, invariants and refinements, is a theorem for any value of the constants,
under the assumptions named above.

## 5. What is not modelled

Of the projections, pruning, candles and tape are not modelled;
of the messaging library, the life cycle of AMQP channels and message kinds that nothing here
publishes; of authentication, passwords and the token's cryptography; of the blockchain, proof of
work. HTTP decoding, proxies, the WebSocket hub, opening database connections, the market data
simulator, the web client and the deployment code are input and output with no state that
interacts with the rest; they stay out.

## 6. Findings

The first two are runs of `PROJECT.json`; each states what a comment or document of the repository
says, and ends in a trace of the code's steps that does otherwise.

1. `journal_torn` (`ConfirmedSurvive`). `OpenJournal` stops at a torn last line and appends after
   it. The next recovery stops at the same place and loses what was confirmed since. Without torn
   lines the property is proved.
2. `orders_overdraft` (`NoOverdraft`). The hold of a filled order is released by the gateway's
   consumer, the trade is debited by the ledger's; in between the money is available again, a
   second order passes the check, and the balance ends up negative.

Further configurations, each of which TLC finds violated (`tlc -config X.cfg M.tla`):

3. `MCMatchingFOK` (`FOKAllOrNothing`; `pkg/exchange/types.go:98`). The fill-or-kill pre-check counts
   the taker's own resting orders, the loop then cancels them: the order is filled in part, and its
   remainder rests.
4. `MCLedgerRelease` (`ReservedIsHolds`; `docker/postgres/schema-ledger.sql:24`). Two concurrent
   releases of one order's holds both select them and both subtract them. The gateway's event
   consumer and its HTTP handler after a publication that timed out are two such callers.
5. `MCElectionNobody` (`SomeoneLeads`). The announcement of a replica that found the highest one
   down and that of the highest one just started cross: each ends up following the other. Both
   answer heartbeats, so nothing starts another election, and no replica consumes commands.
6. `MCClusterHandover` (`ConfirmedRecoverable`). A started replica wins the election and opens the
   shared log before the old leader has polled its leadership. Both append under the same numbers,
   and a recovery skips one of the two commands although it was executed.
7. `MCBlockchainOnce` (`Once`; `documentacoes/mensageria/06_consideracoes_tecnicas.md:143`). One failing
   `SaveBlock` leaves the block in the chain and its transactions in the pool; the next block has
   them again.
8. `MCBlockchainOverlap` (`OneAtATime`; `documentacoes/mensageria/06_consideracoes_tecnicas.md:166`). A node that loses and
   regains the lead while its handler works starts a second consumer beside it (`cmd/node/main.go:323`), and is at two
   commands at once.
9. `MCDeliveryAudit` (`AuditTrailComplete`; `cmd/audit/main.go:97-98`). `order.accepted` and
   `order.filled` of one order carry its id as `tx_id`, and so do a trade and its postings: the
   audit trail keeps the first and takes the others for redeliveries, without any failure.
10. `MCMerkleReplay` (`LeavesReplayable`; `pkg/ledger/merkle.go:62-65`). The comment calls a root reproducible by
   replaying the events, but a leaf contains the posting's id, and a transaction that is rolled back
   (or a redelivered event that inserts nothing) has used one up.
11. `MCOrdersReused` (`OpenOrdersAreCovered`; `veltra_server.go:241` calls the client order id
   idempotence). A second, larger order under a client order id used before finds the first one's hold, is
   accepted without a reserve, and is queued: part of what is open is covered by nothing.

Hazards that no property of the code covers, because the code does nothing against them or because the properties are
stated without them (each has a note in `PROJECT.json`):

- a command executed, but not answered, before a crash is executed again when it is redelivered
  (`cmd/matching-engine/service.go:152`); `CommandsAnswered` says only that it is executed at least once;
- replicas that overlap over one log: finding 6. `SingleEngine`, `ConfirmedRecoverable` and `ImplementsDurableLog` are checked
  and proved for replicas that only stop;
- an order whose publication times out but arrives (`pkg/messaging/publisher.go:101`): the hold is undone, the order trades. The
  properties of `OrderManagement` assume that an error of `Publish` means that nothing was queued;
- concurrent releases (finding 4) and reused client order ids (finding 11), which `AccountsAreSums` and
  `OpenOrdersAreCovered` exclude;
- forks and emptied pools of the blockchain after a crash or restart (`pkg/network/rpc.go:165`), and a block that is not saved
  (finding 7): `ChainsAgree`, `AcceptedKept`, `OnceInBooks` and `ChainsValid` are stated without them; so is `FundsCovered`
  without overlapping consumers of one node (finding 8);
- an event that the engine fails to publish (`service.go:326`), a log line whose fsync fails (`wal.go:119`), and the width of the
  liquidity sum (`engine.go:250`).

Seen while modelling, and stated in properties as they are: a ledger whose first start was cut off
before the last schema file never creates its tables (`SchemaMissingOnlyIfCut`); the gateway counts a
redelivered trade twice in the balances it shows (`ProjectedInOrder`); `ReceiveTransaction` checks no
balance although its comment says so (`pkg/network/rpc.go:136`), which is why `FundsAlwaysCovered` assumes
`LegacyCredits`.

## 7. Plan

The order follows what can cost users money: first the engine and the log, then the ledger and
the holds, then the leaders. Done so far, in this order:

1. `OrderBook`, `MatchingEngine`, `PriceTimeMarket`;
2. `Journal`, `DurableLog` and their proofs;
3. `Ledger`, `AccountBook` and their proofs;
4. `OrderManagement`, composing the ledger and the market;
5. `Election`, `MatchingCluster`, and the proofs about them;
6. `Money` and its proofs, and its use in `Ledger` and `OrderManagement`;
7. `BlockchainNode`;
8. `EventDelivery`;
9. `Accounts`;
10. `MerkleWindows` and the proofs about its periods;
11. the proofs about `MatchingEngine`, `EventDelivery` and `Accounts`;
12. the proof that the replicas implement `DurableLog` while none is started again;
13. the lemmas on sums, and with them the ledger's sums, the trades of a call, and fill-or-kill;
14. the proof that a snapshot restores the book it was taken of;
15. the proof that open orders are covered;
16. the proofs that the holds match the book, and that the gateway's projection follows it;
17. the proofs about `BlockchainNode`, and that a Merkle root proves its leaves;
18. expiry in the command queues, consumers that outlive their stop, heartbeats step by step and failing
    publications in `BlockchainNode`, and the proofs again with them.

To model, if they can be afforded: `MatchingCluster` with the crash between execution and publication
(is a redelivered command executed once per client order id?); `Election` with calls that fail
between running replicas.
