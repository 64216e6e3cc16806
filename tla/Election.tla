------------------------------ MODULE Election ------------------------------
(***************************************************************************)
(* Bully election and heartbeats of the matching engine's replicas         *)
(* (cmd/matching-engine/election.go and main.go, pkg/bully/node.go).       *)
(*                                                                         *)
(* A replica that runs can be reached. An Elect call is one step with its  *)
(* handler, which only starts a goroutine; so is a Coordinator call, except*)
(* that the one in flight when its caller stops may arrive at any time     *)
(* later. Timers are abstracted: what waits for one may happen at any time.*)
(* Goroutines of one replica that wait to start an election are merged.    *)
(*                                                                         *)
(* Operators named Wrong... are seeded faults, used only to test that the  *)
(* properties notice them.                                                 *)
(***************************************************************************)
EXTENDS Integers, FiniteSets

CONSTANTS Nodes,        \* the ids of the replicas
          MaxCrashes,   \* bound on how often a replica stops
          MaxRestarts   \* bound on how often one is started again

ASSUME NodesAssumption == Nodes \subseteq Nat \ {0} /\ IsFiniteSet(Nodes)
ASSUME FailuresAssumption == MaxCrashes \in Nat /\ MaxRestarts \in Nat

VARIABLES
  up,        \* the replicas that run
  leader,    \* Node.LeaderID
  due,       \* replicas with a goroutine about to call StartElection
  phase,     \* where StartElection is; idle when not inFlight
  todo,      \* the peers it has still to call
  answered,  \* its okReceived, FALSE outside
  beat,      \* the leaderID a heartbeat was started for
  late,      \* Coordinator calls whose caller has stopped
  crashes, restarts

electionVars == <<up, leader, due, phase, todo, answered, beat, late, crashes, restarts>>

NoLeader == -1

Higher(n) == {p \in Nodes : p > n}

\* The replicas were started within the five seconds each waits for its peers.
Init ==
  /\ up = Nodes /\ due = Nodes
  /\ leader = [n \in Nodes |-> NoLeader]
  /\ phase = [n \in Nodes |-> "idle"]
  /\ todo = [n \in Nodes |-> {}]
  /\ answered = [n \in Nodes |-> FALSE]
  /\ beat = [n \in Nodes |-> NoLeader]
  /\ late = {}
  /\ crashes = 0 /\ restarts = 0

-----------------------------------------------------------------------------
(* StartElection and ProclaimCoordinator. *)

\* An election that is already in flight makes another one return at once.
StartElection(n) ==
  /\ n \in due
  /\ due' = due \ {n}
  /\ IF phase[n] = "idle"
     THEN /\ phase' = [phase EXCEPT ![n] = "asking"]
          /\ todo' = [todo EXCEPT ![n] = Higher(n)]
     ELSE UNCHANGED <<phase, todo>>
  /\ UNCHANGED <<up, leader, answered, beat, late, crashes, restarts>>

\* Elect: the peer answers, and goes on to an election of its own.
Ask(n, p) ==
  /\ phase[n] = "asking" /\ p \in todo[n]
  /\ todo' = [todo EXCEPT ![n] = @ \ {p}]
  /\ IF p \in up
     THEN due' = due \cup {p} /\ answered' = [answered EXCEPT ![n] = TRUE]
     ELSE UNCHANGED <<due, answered>>
  /\ UNCHANGED <<up, leader, phase, beat, late, crashes, restarts>>

\* With an answer the replica leaves it to the others; without one it leads.
Yield(n) ==
  /\ phase[n] = "asking" /\ todo[n] = {} /\ answered[n]
  /\ phase' = [phase EXCEPT ![n] = "idle"]
  /\ answered' = [answered EXCEPT ![n] = FALSE]
  /\ UNCHANGED <<up, leader, due, todo, beat, late, crashes, restarts>>

WrongProclaimAnyway(n) ==
  /\ phase[n] = "asking" /\ todo[n] = {}
  /\ leader' = [leader EXCEPT ![n] = n]
  /\ phase' = [phase EXCEPT ![n] = "proclaiming"]
  /\ todo' = [todo EXCEPT ![n] = Nodes \ {n}]
  /\ UNCHANGED <<up, due, answered, beat, late, crashes, restarts>>

WrongProclaim(n) ==
  /\ phase[n] = "asking" /\ todo[n] = {} /\ ~answered[n]
  /\ leader' = [leader EXCEPT ![n] = n]
  /\ phase' = [phase EXCEPT ![n] = "proclaiming"]
  /\ todo' = [todo EXCEPT ![n] = Nodes]
  /\ UNCHANGED <<up, due, answered, beat, late, crashes, restarts>>

Proclaim(n) ==
  /\ phase[n] = "asking" /\ todo[n] = {} /\ ~answered[n]
  /\ leader' = [leader EXCEPT ![n] = n]
  /\ phase' = [phase EXCEPT ![n] = "proclaiming"]
  /\ todo' = [todo EXCEPT ![n] = Nodes \ {n}]
  /\ UNCHANGED <<up, due, answered, beat, late, crashes, restarts>>

WrongCoordinator(from, p) ==
  leader' = IF leader[p] # p THEN [leader EXCEPT ![p] = from] ELSE leader

\* The handler of a Coordinator call believes whoever sent it.
Coordinator(from, p) == leader' = [leader EXCEPT ![p] = from]

Announce(n, p) ==
  /\ phase[n] = "proclaiming" /\ p \in todo[n]
  /\ todo' = [todo EXCEPT ![n] = @ \ {p}]
  /\ IF p \in up THEN Coordinator(n, p) ELSE UNCHANGED leader
  /\ UNCHANGED <<up, due, phase, answered, beat, late, crashes, restarts>>

EndElection(n) ==
  /\ phase[n] = "proclaiming" /\ todo[n] = {}
  /\ phase' = [phase EXCEPT ![n] = "idle"]
  /\ UNCHANGED <<up, leader, due, todo, answered, beat, late, crashes, restarts>>

LateCoordinator(call) ==
  /\ call \in late
  /\ late' = late \ {call}
  /\ IF call.to \in up THEN Coordinator(call.from, call.to) ELSE UNCHANGED leader
  /\ UNCHANGED <<up, due, phase, todo, answered, beat, crashes, restarts>>

-----------------------------------------------------------------------------
(* heartbeatLoop: the leader is read, then called, then given up. *)

WrongReadLeader(n) ==
  /\ n \in up /\ beat[n] = NoLeader
  /\ leader[n] \notin {n, NoLeader}
  /\ beat' = [beat EXCEPT ![n] = leader[n]]
  /\ UNCHANGED <<up, leader, due, phase, todo, answered, late, crashes, restarts>>

ReadLeader(n) ==
  /\ n \in up /\ beat[n] = NoLeader
  /\ IF leader[n] = NoLeader
     THEN n \notin due /\ due' = due \cup {n} /\ UNCHANGED beat
     ELSE leader[n] # n /\ beat' = [beat EXCEPT ![n] = leader[n]] /\ UNCHANGED due
  /\ UNCHANGED <<up, leader, phase, todo, answered, late, crashes, restarts>>

LeaderAlive(n) ==
  /\ beat[n] \in up
  /\ beat' = [beat EXCEPT ![n] = NoLeader]
  /\ UNCHANGED <<up, leader, due, phase, todo, answered, late, crashes, restarts>>

LeaderDown(n) ==
  /\ beat[n] \in Nodes \ up
  /\ beat' = [beat EXCEPT ![n] = NoLeader]
  /\ leader' = [leader EXCEPT ![n] = NoLeader]
  /\ due' = due \cup {n}
  /\ UNCHANGED <<up, phase, todo, answered, late, crashes, restarts>>

-----------------------------------------------------------------------------

\* The process stops. Of the call it was making, if it was a Coordinator, the
\* handler may still run.
Down(n) ==
  /\ n \in up
  /\ up' = up \ {n} /\ due' = due \ {n}
  /\ leader' = [leader EXCEPT ![n] = NoLeader]
  /\ phase' = [phase EXCEPT ![n] = "idle"]
  /\ todo' = [todo EXCEPT ![n] = {}]
  /\ answered' = [answered EXCEPT ![n] = FALSE]
  /\ beat' = [beat EXCEPT ![n] = NoLeader]
  /\ \/ UNCHANGED late
     \/ /\ phase[n] = "proclaiming"
        /\ \E p \in todo[n] \cap up : late' = late \cup {[from |-> n, to |-> p]}

Crash(n) ==
  /\ crashes < MaxCrashes /\ crashes' = crashes + 1
  /\ Down(n)
  /\ UNCHANGED restarts

Restart(n) ==
  /\ n \notin up
  /\ restarts < MaxRestarts /\ restarts' = restarts + 1
  /\ up' = up \cup {n} /\ due' = due \cup {n}
  /\ UNCHANGED <<leader, phase, todo, answered, beat, late, crashes>>

Electing(n) ==
  (\E p \in Nodes : Ask(n, p) \/ Announce(n, p)) \/ Yield(n) \/ Proclaim(n) \/ EndElection(n)

Heartbeat(n) == ReadLeader(n) \/ LeaderAlive(n) \/ LeaderDown(n)

Steps(n) == StartElection(n) \/ Electing(n) \/ Heartbeat(n)

Next ==
  \/ \E n \in Nodes : Steps(n) \/ Crash(n) \/ Restart(n)
  \/ \E call \in late : LateCoordinator(call)

\* Goroutines and timers of a replica that runs make progress.
Fairness ==
  /\ \A n \in Nodes :
       WF_electionVars(StartElection(n)) /\ WF_electionVars(Electing(n))
       /\ WF_electionVars(Heartbeat(n))
  /\ \A p, n \in Nodes : WF_electionVars(LateCoordinator([from |-> p, to |-> n]))

Spec == Init /\ [][Next]_electionVars /\ Fairness
-----------------------------------------------------------------------------
(* Properties. *)

Leaders == {n \in up : leader[n] = n}

TypeOK ==
  /\ up \subseteq Nodes /\ due \subseteq up
  /\ leader \in [Nodes -> Nodes \cup {NoLeader}]
  /\ phase \in [Nodes -> {"idle", "asking", "proclaiming"}]
  /\ todo \in [Nodes -> SUBSET Nodes]
  /\ \A n \in Nodes : n \notin todo[n]
  /\ \A n \in Nodes \ up : phase[n] = "idle" /\ beat[n] = NoLeader
  /\ answered \in [Nodes -> BOOLEAN]
  /\ beat \in [Nodes -> Nodes \cup {NoLeader}]
  /\ late \subseteq [from : Nodes, to : Nodes]
  /\ crashes \in 0..MaxCrashes /\ restarts \in 0..MaxRestarts

\* Once failures are over, however elections overlapped and however late their
\* announcements arrived, there are never two leaders for good.
SplitBrainHeals == <>[](Cardinality(Leaders) <= 1)

\* And every replica comes to follow one that runs, perhaps itself.
FollowersFollow == <>[](\A n \in up : leader[n] \in up)

\* "Failover automatic" (README): in the end one of the running replicas leads.
SomeoneLeads == <>[](up # {} => Leaders # {})
=============================================================================
