-------------------------- MODULE MatchingCluster --------------------------
(***************************************************************************)
(* The replicas of the matching engine over one shared log: Election       *)
(* decides who believes to lead, monitorLeadership turns that into a       *)
(* consumer and engines, and the journal of a pair is a shared directory.  *)
(*                                                                         *)
(* One pair. What one process may do to its files is the subject of        *)
(* Journal; here calls succeed, a line is written and synced in one step,  *)
(* and the periodic snapshots are left out. As there, an engine is the     *)
(* sequence of commands it has executed.                                   *)
(*                                                                         *)
(* Operators named Wrong... are seeded faults, used only to test that the  *)
(* properties notice them.                                                 *)
(***************************************************************************)
EXTENDS Election, SequencesExt

CONSTANTS Commands, Nothing  \* Nothing is in the hand of an idle consumer

\* A delivery, and what the handler has done with it.
Deliveries == [cmd : Commands, stage : {"received", "logged", "done"}]

ASSUME NothingAssumption == Nothing \notin Deliveries

VARIABLES
  role,       \* where monitorLeadership of each replica is
  ending,     \* the replicas that were told to stop
  open,       \* the replicas whose consumer has a channel
  hand,       \* the delivery a replica's consumer has not acknowledged
  engine,     \* pairEngine.engine
  lastSeq,    \* pairEngine.lastSeq
  wal, snap,  \* the shared log and snapshot
  queue,      \* q.matching.commands
  published,  \* commands ever published
  dropped,    \* commands acknowledged without being executed
  expired,    \* commands the broker has moved to the dead letters
  history, confirmed  \* as in Journal

replicaVars == <<role, ending, open, hand, engine, lastSeq>>
diskVars == <<wal, snap>>
queueVars == <<queue, published, dropped, expired>>
vars == <<electionVars, replicaVars, diskVars, queueVars, history, confirmed>>

ClusterInit ==
  /\ Init
  /\ role = [n \in Nodes |-> "standby"] /\ ending = {} /\ open = {}
  /\ hand = [n \in Nodes |-> Nothing]
  /\ engine = [n \in Nodes |-> <<>>] /\ lastSeq = [n \in Nodes |-> 0]
  /\ wal = <<>> /\ snap = [seq |-> 0, state |-> <<>>]
  /\ queue = <<>> /\ published = {} /\ dropped = {} /\ expired = {}
  /\ history = <<>> /\ confirmed = <<>>

\* Between Activate and Deactivate a replica has engines.
Loaded(n) == role[n] \in {"active", "stopping", "saved"}

\* What the consumer of a replica has done with its delivery.
Holding(n, stage) == hand[n] # Nothing /\ hand[n].stage = stage

-----------------------------------------------------------------------------
(* monitorLeadership. *)

\* The poll that finds the replica leading ...
Promote(n) ==
  /\ n \in up \ ending /\ role[n] = "standby"
  /\ leader[n] = n
  /\ role' = [role EXCEPT ![n] = "promoted"]
  /\ UNCHANGED <<electionVars, ending, open, hand, engine, lastSeq, diskVars, queueVars, history,
                 confirmed>>

\* ... Activate: first the snapshot ...
LoadSnapshot(n) ==
  /\ role[n] = "promoted"
  /\ role' = [role EXCEPT ![n] = "loading"]
  /\ engine' = [engine EXCEPT ![n] = snap.state]
  /\ lastSeq' = [lastSeq EXCEPT ![n] = snap.seq]
  /\ UNCHANGED <<electionVars, ending, open, hand, diskVars, queueVars, history, confirmed>>

WrongReplayed(log, state, seq) ==
  LET read[k \in 0..Len(log)] ==
        IF k = 0 THEN [seq |-> seq, state |-> state]
        ELSE IF log[k].seq < read[k - 1].seq THEN read[k - 1]
        ELSE [seq |-> log[k].seq, state |-> Append(read[k - 1].state, log[k].cmd)]
  IN read[Len(log)]

\* The lines of the log whose number is above the last one, run from a state.
Replayed(log, state, seq) ==
  LET read[k \in 0..Len(log)] ==
        IF k = 0 THEN [seq |-> seq, state |-> state]
        ELSE IF log[k].seq <= read[k - 1].seq THEN read[k - 1]
        ELSE [seq |-> log[k].seq, state |-> Append(read[k - 1].state, log[k].cmd)]
  IN read[Len(log)]

\* ... then the log; and the consumer starts.
ReplayLog(n) ==
  /\ role[n] = "loading"
  /\ role' = [role EXCEPT ![n] = "active"] /\ open' = open \cup {n}
  /\ LET r == Replayed(wal, engine[n], lastSeq[n]) IN
       /\ engine' = [engine EXCEPT ![n] = r.state]
       /\ lastSeq' = [lastSeq EXCEPT ![n] = r.seq]
       /\ history' = r.state
  /\ UNCHANGED <<electionVars, ending, hand, diskVars, queueVars, confirmed>>

\* The poll that finds leadership lost, or the end of main, stops the consumer:
\* Stop cancels its context and waits for nothing.
StopConsumer(n) ==
  /\ role[n] = "active"
  /\ leader[n] # n \/ n \in ending
  /\ role' = [role EXCEPT ![n] = "stopping"]
  /\ UNCHANGED <<electionVars, ending, open, hand, engine, lastSeq, diskVars, queueVars, history,
                 confirmed>>

WrongSaveSnapshot(n) ==
  /\ role[n] = "stopping"
  /\ role' = [role EXCEPT ![n] = "saved"]
  /\ snap' = [seq |-> lastSeq[n], state |-> engine[n]]
  /\ UNCHANGED <<electionVars, ending, open, hand, engine, lastSeq, wal, queueVars, history,
                 confirmed>>

\* Deactivate waits for the lock of a handler. It renames a snapshot ...
SaveSnapshot(n) ==
  /\ role[n] = "stopping"
  /\ ~Holding(n, "logged")
  /\ role' = [role EXCEPT ![n] = "saved"]
  /\ snap' = [seq |-> lastSeq[n], state |-> engine[n]]
  /\ UNCHANGED <<electionVars, ending, open, hand, engine, lastSeq, wal, queueVars, history,
                 confirmed>>

\* ... truncates the log, and drops the engines.
TruncateLog(n) ==
  /\ role[n] = "saved"
  /\ role' = [role EXCEPT ![n] = "standby"]
  /\ wal' = <<>>
  /\ engine' = [engine EXCEPT ![n] = <<>>] /\ lastSeq' = [lastSeq EXCEPT ![n] = 0]
  /\ UNCHANGED <<electionVars, ending, open, hand, snap, queueVars, history, confirmed>>

-----------------------------------------------------------------------------
(* The consumer: one delivery at a time. *)

Publish(c) ==
  /\ c \notin published
  /\ published' = published \cup {c}
  /\ queue' = Append(queue, c)
  /\ UNCHANGED <<electionVars, replicaVars, diskVars, dropped, expired, history, confirmed>>

\* The time to live of the command at the head of the queue is over.
Expire ==
  /\ queue # <<>>
  /\ expired' = expired \cup {Head(queue)}
  /\ queue' = Tail(queue)
  /\ UNCHANGED <<electionVars, replicaVars, diskVars, published, dropped, history, confirmed>>

\* A consumer that was stopped may still take a delivery: the select of its loop
\* has the choice.
Deliver(n) ==
  /\ n \in open /\ hand[n] = Nothing /\ queue # <<>>
  /\ hand' = [hand EXCEPT ![n] = [cmd |-> Head(queue), stage |-> "received"]]
  /\ queue' = Tail(queue)
  /\ UNCHANGED <<electionVars, role, ending, open, engine, lastSeq, diskVars, published, dropped,
                 expired, history, confirmed>>

\* The handler takes the lock, and logs the command under the next number. It
\* may do so after the consumer was stopped.
LogCommand(n) ==
  /\ Holding(n, "received") /\ role[n] \in {"active", "stopping"}
  /\ hand' = [hand EXCEPT ![n].stage = "logged"]
  /\ lastSeq' = [lastSeq EXCEPT ![n] = @ + 1]
  /\ wal' = Append(wal, [seq |-> lastSeq[n] + 1, cmd |-> hand[n].cmd])
  /\ history' = Append(engine[n], hand[n].cmd)
  /\ UNCHANGED <<electionVars, role, ending, open, engine, snap, queueVars, confirmed>>

\* It executes the command and, without the lock, publishes its events.
Process(n) ==
  /\ Holding(n, "logged")
  /\ hand' = [hand EXCEPT ![n].stage = "done"]
  /\ engine' = [engine EXCEPT ![n] = Append(@, hand[n].cmd)]
  /\ confirmed' = engine'[n]
  /\ UNCHANGED <<electionVars, role, ending, open, lastSeq, diskVars, queueVars, history>>

Ack(n) ==
  /\ Holding(n, "done")
  /\ hand' = [hand EXCEPT ![n] = Nothing]
  /\ UNCHANGED <<electionVars, role, ending, open, engine, lastSeq, diskVars, queueVars, history,
                 confirmed>>

\* Without engines the pair is "not supported", which is acknowledged.
Drop(n) ==
  /\ Holding(n, "received") /\ role[n] \in {"standby", "promoted", "loading"}
  /\ dropped' = dropped \cup {hand[n].cmd}
  /\ hand' = [hand EXCEPT ![n] = Nothing]
  /\ UNCHANGED <<electionVars, role, ending, open, engine, lastSeq, diskVars, queue, published,
                 expired, history, confirmed>>

WrongRequeued(n) == queue

Requeued(n) == IF hand[n] = Nothing THEN queue ELSE <<hand[n].cmd>> \o queue

\* A stopped consumer ends and closes its channel. A delivery that it has not
\* begun goes back.
Close(n) ==
  /\ n \in open /\ role[n] # "active"
  /\ hand[n] = Nothing \/ Holding(n, "received")
  /\ open' = open \ {n}
  /\ queue' = Requeued(n)
  /\ hand' = [hand EXCEPT ![n] = Nothing]
  /\ UNCHANGED <<electionVars, role, ending, engine, lastSeq, diskVars, published, dropped,
                 expired, history, confirmed>>

-----------------------------------------------------------------------------

\* SIGTERM.
Terminate(n) ==
  /\ n \in up \ ending
  /\ crashes < MaxCrashes /\ crashes' = crashes + 1
  /\ ending' = ending \cup {n}
  /\ UNCHANGED <<up, leader, due, phase, todo, answered, beat, late, restarts, role, open, hand,
                 engine, lastSeq, diskVars, queueVars, history, confirmed>>

\* The process is gone, and the broker requeues what it has not acknowledged.
Gone(n) ==
  /\ role' = [role EXCEPT ![n] = "standby"]
  /\ ending' = ending \ {n} /\ open' = open \ {n}
  /\ queue' = Requeued(n)
  /\ hand' = [hand EXCEPT ![n] = Nothing]
  /\ engine' = [engine EXCEPT ![n] = <<>>] /\ lastSeq' = [lastSeq EXCEPT ![n] = 0]
  /\ UNCHANGED <<diskVars, published, dropped, expired, history, confirmed>>

\* A crash, or the end of main, which need not wait for anything either.
Halt(n) ==
  /\ \/ n \in ending /\ Down(n) /\ UNCHANGED <<crashes, restarts>>
     \/ n \notin ending /\ Crash(n)
  /\ Gone(n)

Monitor(n) ==
  Promote(n) \/ LoadSnapshot(n) \/ ReplayLog(n) \/ StopConsumer(n) \/ SaveSnapshot(n)
  \/ TruncateLog(n)

Consume(n) ==
  Deliver(n) \/ LogCommand(n) \/ Process(n) \/ Ack(n) \/ Drop(n) \/ Close(n)

ElectionStep ==
  /\ \/ \E n \in Nodes : Steps(n) \/ Restart(n)
     \/ \E call \in late : LateCoordinator(call)
  /\ UNCHANGED <<replicaVars, diskVars, queueVars, history, confirmed>>

ClusterNext ==
  \/ ElectionStep
  \/ \E n \in Nodes : Monitor(n) \/ Consume(n) \/ Terminate(n) \/ Halt(n)
  \/ \E c \in Commands : Publish(c)
  \/ Expire

ClusterFairness ==
  /\ Fairness
  /\ \A n \in Nodes : WF_vars(Monitor(n)) /\ WF_vars(Consume(n)) /\ WF_vars(n \in ending /\ Halt(n))

ClusterSpec == ClusterInit /\ [][ClusterNext]_vars /\ ClusterFairness
-----------------------------------------------------------------------------
(* Properties. The runs say with which failures they hold. *)

\* "Only the leader consumes commands and operates the engines" (election.go): two
\* replicas never have engines over the same log at once.
SingleEngine == \A m, n \in Nodes : Loaded(m) /\ Loaded(n) => m = n

\* "Promotion reloads the state from the shared log" (election.go): at every instant
\* snapshot and log hold all that any replica ever executed, in the same order, for
\* whoever comes next.
ConfirmedRecoverable == IsPrefix(confirmed, Replayed(wal, snap.state, snap.seq).state)

\* A published command is executed as long as a replica runs, through crashes
\* before and after its log line, unless a stopping replica acknowledged it away
\* or its time in the queue was over: nothing else becomes of it.
CommandsAnswered ==
  \A c \in Commands :
    c \in published ~> (c \in ToSet(confirmed) \cup dropped \cup expired \/ up = {})

\* Over any succession of leaders the shared log is one durable log.
Running == \E n \in Nodes : Loaded(n)
View == IF Running THEN engine[CHOOSE n \in Nodes : Loaded(n)] ELSE <<>>

Log == INSTANCE DurableLog WITH up <- Running, view <- View

ImplementsDurableLog == Log!Spec
=============================================================================
