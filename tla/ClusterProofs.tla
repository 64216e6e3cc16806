---------------------------- MODULE ClusterProofs ----------------------------
(***************************************************************************)
(* Proofs about Election and MatchingCluster, for any replicas: the state  *)
(* of an election keeps its shape; and, if no replica is started again, at *)
(* most one ever operates engines, what it finds in the shared files holds *)
(* every confirmed command, and all of them together implement DurableLog. *)
(*                                                                         *)
(* The argument: a replica that got no answer from those above it has seen *)
(* them stopped, and they stay so. Hence whoever leads, or leads no more   *)
(* but still has its engines, has nobody above it that runs. With a single *)
(* writer the log is a numbered stretch of the history from the snapshot   *)
(* on, and replaying it is a recursion with one solution: the prefixes of  *)
(* the history.                                                            *)
(***************************************************************************)
EXTENDS MatchingCluster, SequenceTheorems, FoldTheorems

\* A replica leaves, counted as a crash or not.
Leaves ==
  /\ crashes' \in 0..MaxCrashes
  /\ UNCHANGED restarts
  /\ \/ \E n \in Nodes : Down(n)
     \/ UNCHANGED <<up, leader, due, phase, todo, answered, beat, late>>

\* Every step of Election, and every step of the cluster as Election sees it.
ElectionNext ==
  \/ \E n \in Nodes : Steps(n) \/ Restart(n)
  \/ \E call \in late : LateCoordinator(call)
  \/ Leaves

LEMMA InitTypeOK == Init => TypeOK
BY NodesAssumption, FailuresAssumption DEF Init, TypeOK, NoLeader

LEMMA CrashLeaves ==
  ASSUME TypeOK, NEW n \in Nodes, Crash(n)
  PROVE  Leaves
<1>1. crashes' \in 0..MaxCrashes
  BY FailuresAssumption DEF TypeOK, Crash
<1> QED BY <1>1 DEF Crash, Leaves

LEMMA StepTypeOK == TypeOK /\ ElectionNext => TypeOK'
<1> SUFFICES ASSUME TypeOK, ElectionNext PROVE TypeOK'
  OBVIOUS
<1>1. ASSUME NEW n \in Nodes, StartElection(n) PROVE TypeOK'
  <2> USE DEF TypeOK, StartElection
  <2>1. CASE phase[n] = "idle"
    <3>1. Higher(n) \subseteq Nodes /\ n \notin Higher(n)
      BY NodesAssumption DEF Higher
    <3>2. due' \subseteq up' /\ n \in up
      BY <1>1
    <3>3a. phase' \in [Nodes -> {"idle", "asking", "proclaiming"}]
      BY <1>1, <2>1
    <3>3b. todo' \in [Nodes -> SUBSET Nodes]
      BY <1>1, <2>1, <3>1
    <3>3c. answered' \in [Nodes -> BOOLEAN]
      BY <1>1, <2>1
    <3>4. \A m \in Nodes : m \notin todo'[m]
      BY <1>1, <2>1, <3>1
    <3>5. \A m \in Nodes \ up' : phase'[m] = "idle" /\ beat'[m] = NoLeader
      BY <1>1, <2>1, <3>2
    <3> QED BY <1>1, <3>2, <3>3a, <3>3b, <3>3c, <3>4, <3>5
  <2>2. CASE phase[n] # "idle"
    BY <1>1, <2>2
  <2> QED BY <2>1, <2>2
<1>2. ASSUME NEW n \in Nodes, NEW p \in Nodes, Ask(n, p) PROVE TypeOK'
  <2>1. CASE p \in up BY <1>2, <2>1 DEF TypeOK, Ask
  <2>2. CASE p \notin up BY <1>2, <2>2 DEF TypeOK, Ask
  <2> QED BY <2>1, <2>2
<1>3. ASSUME NEW n \in Nodes, Yield(n) \/ EndElection(n) PROVE TypeOK'
  BY <1>3 DEF TypeOK, Yield, EndElection
<1>4. ASSUME NEW n \in Nodes, Proclaim(n) PROVE TypeOK'
  BY <1>4 DEF TypeOK, Proclaim
<1>5. ASSUME NEW n \in Nodes, NEW p \in Nodes, Announce(n, p) PROVE TypeOK'
  <2>1. CASE p \in up BY <1>5, <2>1 DEF TypeOK, Announce, Coordinator
  <2>2. CASE p \notin up BY <1>5, <2>2 DEF TypeOK, Announce
  <2> QED BY <2>1, <2>2
<1>6. ASSUME NEW n \in Nodes, Heartbeat(n) PROVE TypeOK'
  <2>1. CASE ReadLeader(n) BY <2>1 DEF TypeOK, ReadLeader
  <2>2. CASE LeaderAlive(n) BY <2>2 DEF TypeOK, LeaderAlive
  <2>3. CASE LeaderDown(n)
    <3>1. n \in up
      BY <2>3, NodesAssumption DEF TypeOK, LeaderDown, NoLeader
    <3> QED BY <2>3, <3>1 DEF TypeOK, LeaderDown
  <2> QED BY <1>6, <2>1, <2>2, <2>3 DEF Heartbeat
<1>7. ASSUME NEW n \in Nodes, Restart(n) PROVE TypeOK'
  BY <1>7, FailuresAssumption DEF TypeOK, Restart
<1>8. ASSUME NEW call \in late, LateCoordinator(call) PROVE TypeOK'
  <2>1. call.from \in Nodes /\ call.to \in Nodes
    BY DEF TypeOK
  <2>2. CASE call.to \in up BY <1>8, <2>1, <2>2 DEF TypeOK, LateCoordinator, Coordinator
  <2>3. CASE call.to \notin up BY <1>8, <2>3 DEF TypeOK, LateCoordinator
  <2> QED BY <2>2, <2>3
<1>9. CASE Leaves
  <2>1. ASSUME NEW n \in Nodes, Down(n) PROVE TypeOK'
    <3>1. late' \subseteq [from : Nodes, to : Nodes]
      BY <2>1 DEF TypeOK, Down
    <3>2. up' \subseteq Nodes /\ due' \subseteq up'
      BY <2>1 DEF TypeOK, Down
    <3>3. leader' \in [Nodes -> Nodes \cup {NoLeader}] /\ beat' \in [Nodes -> Nodes \cup {NoLeader}]
          /\ phase' \in [Nodes -> {"idle", "asking", "proclaiming"}]
          /\ answered' \in [Nodes -> BOOLEAN]
      BY <2>1 DEF TypeOK, Down
    <3>4. todo' \in [Nodes -> SUBSET Nodes] /\ \A m \in Nodes : m \notin todo'[m]
      BY <2>1 DEF TypeOK, Down
    <3>5. \A m \in Nodes \ up' : phase'[m] = "idle" /\ beat'[m] = NoLeader
      BY <2>1 DEF TypeOK, Down
    <3>6. restarts' \in 0..MaxRestarts
      BY <1>9 DEF TypeOK, Leaves
    <3> QED BY <1>9, <3>1, <3>2, <3>3, <3>4, <3>5, <3>6 DEF TypeOK, Leaves
  <2>2. CASE UNCHANGED <<up, leader, due, phase, todo, answered, beat, late>>
    BY <1>9, <2>2 DEF TypeOK, Leaves
  <2> QED BY <1>9, <2>1, <2>2 DEF Leaves
<1> QED BY <1>1, <1>2, <1>3, <1>4, <1>5, <1>6, <1>7, <1>8, <1>9
        DEF ElectionNext, Steps, Electing

\* The state of the election, with its heartbeats and its announcements in flight,
\* always has the shape Election says: no goroutine of a stopped replica is left, no
\* replica announces itself to itself.
THEOREM ElectionTypeCorrect == Spec => []TypeOK
<1>1. TypeOK /\ [Next]_electionVars => TypeOK'
  <2> SUFFICES ASSUME TypeOK, [Next]_electionVars PROVE TypeOK'
    OBVIOUS
  <2>1. CASE Next
    <3>1. ElectionNext
      BY <2>1, CrashLeaves DEF Next, ElectionNext
    <3> QED BY <3>1, StepTypeOK
  <2>2. CASE UNCHANGED electionVars
    BY <2>2 DEF TypeOK, electionVars
  <2> QED BY <2>1, <2>2
<1> QED BY InitTypeOK, <1>1, PTL DEF Spec

-----------------------------------------------------------------------------
(* Without restarts. *)

AboveStopped(n) == \A p \in Nodes : p > n => p \notin up

\* A candidate that has no answer yet has still to ask each replica above it that
\* runs; a leader has none above it; nobody is told that it leads by itself.
LeadInv ==
  /\ \A n \in Nodes : phase[n] = "asking" /\ ~answered[n] =>
       \A p \in Nodes : p > n => p \in todo[n] \/ p \notin up
  /\ \A n \in Nodes : leader[n] = n => AboveStopped(n)
  /\ \A call \in late : call.from # call.to

\* Engines are loaded by a leader, and outlive its leadership only with it.
RoleInv ==
  /\ role \in [Nodes -> {"standby", "promoted", "loading", "active", "stopping", "saved"}]
  /\ \A n \in Nodes : role[n] # "standby" => n \in up /\ AboveStopped(n)

LEMMA NobodyReturns ==
  ASSUME MaxRestarts = 0, TypeOK, ElectionNext
  PROVE  up' \subseteq up /\ \A n \in Nodes : ~Restart(n)
<1>1. \A n \in Nodes : ~Restart(n)
  BY DEF TypeOK, Restart
<1>2. up' \subseteq up
  BY <1>1 DEF ElectionNext, Leaves, Down, LateCoordinator, Steps, Electing, Heartbeat,
     StartElection, Ask, Yield, Proclaim, Announce, EndElection, ReadLeader, LeaderAlive, LeaderDown
<1> QED BY <1>1, <1>2

\* Nobody above n runs once it is so.
LEMMA StaysStopped ==
  ASSUME up' \subseteq up, NEW n \in Nodes, AboveStopped(n)
  PROVE  AboveStopped(n)'
BY DEF AboveStopped

LEMMA LeadStep ==
  ASSUME MaxRestarts = 0, TypeOK, LeadInv, ElectionNext
  PROVE  LeadInv'
<1>0. up' \subseteq up /\ \A n \in Nodes : ~Restart(n)
  BY NobodyReturns
<1> DEFINE Asked(m) == phase[m] = "asking" /\ ~answered[m] =>
                         \A p \in Nodes : p > m => p \in todo[m] \/ p \notin up
           Led(m) == leader[m] = m => AboveStopped(m)
           Called == \A call \in late : call.from # call.to
<1>a. (\A m \in Nodes : Asked(m) /\ Led(m)) /\ Called
  BY DEF LeadInv
<1>b. ASSUME \A m \in Nodes : Asked(m)' /\ Led(m)', Called' PROVE LeadInv'
  BY <1>b DEF LeadInv
\* What leaves phase, answers and calls alone keeps what candidates have asked, and
\* what gives nobody the lead keeps the leaders.
<1>c. ASSUME UNCHANGED <<phase, answered, todo>> PROVE \A m \in Nodes : Asked(m)'
  BY <1>0, <1>a, <1>c
<1>d. ASSUME \A m \in Nodes : leader'[m] = m => leader[m] = m PROVE \A m \in Nodes : Led(m)'
  BY <1>0, <1>a, <1>d, StaysStopped
<1>1. ASSUME NEW n \in Nodes, StartElection(n) PROVE LeadInv'
  <2>1. \A m \in Nodes : Asked(m)'
    <3> SUFFICES ASSUME NEW m \in Nodes PROVE Asked(m)'
      OBVIOUS
    <3>1. CASE m = n /\ phase[n] = "idle"
      BY <1>1, <3>1 DEF TypeOK, StartElection, Higher
    <3>2. CASE ~(m = n /\ phase[n] = "idle")
      <4>1. phase'[m] = phase[m] /\ answered'[m] = answered[m] /\ todo'[m] = todo[m]
        BY <1>1, <3>2 DEF TypeOK, StartElection
      <4> QED BY <1>0, <1>a, <4>1
    <3> QED BY <3>1, <3>2
  <2>2. UNCHANGED <<leader, late>>
    BY <1>1 DEF StartElection
  <2> QED BY <1>a, <1>b, <1>d, <2>1, <2>2
<1>2. ASSUME NEW n \in Nodes, NEW q \in Nodes, Ask(n, q) PROVE LeadInv'
  <2>1. \A m \in Nodes : Asked(m)'
    <3> SUFFICES ASSUME NEW m \in Nodes PROVE Asked(m)'
      OBVIOUS
    <3>1. CASE m = n /\ q \in up
      BY <1>2, <3>1 DEF TypeOK, Ask
    <3>2. CASE m = n /\ q \notin up
      <4>1. phase'[m] = phase[m] /\ answered'[m] = answered[m] /\ todo'[m] = todo[m] \ {q}
        BY <1>2, <3>2 DEF TypeOK, Ask
      <4> QED BY <1>0, <1>a, <3>2, <4>1
    <3>3. CASE m # n
      <4>1. phase'[m] = phase[m] /\ answered'[m] = answered[m] /\ todo'[m] = todo[m]
        BY <1>2, <3>3 DEF TypeOK, Ask
      <4> QED BY <1>0, <1>a, <4>1
    <3> QED BY <3>1, <3>2, <3>3
  <2>2. UNCHANGED <<leader, late>>
    BY <1>2 DEF Ask
  <2> QED BY <1>a, <1>b, <1>d, <2>1, <2>2
<1>3. ASSUME NEW n \in Nodes, Yield(n) \/ EndElection(n) PROVE LeadInv'
  <2>1. \A m \in Nodes : Asked(m)'
    <3> SUFFICES ASSUME NEW m \in Nodes, phase'[m] = "asking" PROVE Asked(m)'
      OBVIOUS
    <3>1. phase[m] = "asking" /\ answered'[m] = answered[m] /\ todo'[m] = todo[m]
      BY <1>3 DEF TypeOK, Yield, EndElection
    <3> QED BY <1>0, <1>a, <3>1
  <2>2. UNCHANGED <<leader, late>>
    BY <1>3 DEF Yield, EndElection
  <2> QED BY <1>a, <1>b, <1>d, <2>1, <2>2
<1>4. ASSUME NEW n \in Nodes, Proclaim(n) PROVE LeadInv'
  <2>1. \A m \in Nodes : Asked(m)'
    <3> SUFFICES ASSUME NEW m \in Nodes, phase'[m] = "asking" PROVE Asked(m)'
      OBVIOUS
    <3>1. m # n /\ phase[m] = "asking"
      BY <1>4 DEF TypeOK, Proclaim
    <3>2. answered'[m] = answered[m] /\ todo'[m] = todo[m]
      BY <1>4, <3>1 DEF TypeOK, Proclaim
    <3> QED BY <1>0, <1>a, <3>1, <3>2
  <2>2. AboveStopped(n)
    BY <1>4, <1>a DEF Proclaim, AboveStopped
  <2>3. \A m \in Nodes : Led(m)'
    <3> SUFFICES ASSUME NEW m \in Nodes, leader'[m] = m PROVE AboveStopped(m)'
      OBVIOUS
    <3>1. CASE m = n
      BY <1>0, <2>2, <3>1, StaysStopped
    <3>2. CASE m # n
      <4>1. leader[m] = m
        BY <1>4, <3>2 DEF TypeOK, Proclaim
      <4> QED BY <1>0, <1>a, <4>1, StaysStopped
    <3> QED BY <3>1, <3>2
  <2>4. Called'
    BY <1>4, <1>a DEF Proclaim
  <2> QED BY <1>b, <2>1, <2>3, <2>4
<1>5. ASSUME NEW n \in Nodes, NEW p \in Nodes, Announce(n, p) PROVE LeadInv'
  <2>1. \A m \in Nodes : Asked(m)'
    <3> SUFFICES ASSUME NEW m \in Nodes, phase'[m] = "asking" PROVE Asked(m)'
      OBVIOUS
    <3>1. m # n /\ phase[m] = "asking"
      BY <1>5 DEF Announce
    <3>2. answered'[m] = answered[m] /\ todo'[m] = todo[m]
      BY <1>5, <3>1 DEF TypeOK, Announce
    <3> QED BY <1>0, <1>a, <3>1, <3>2
  <2>2. p # n
    BY <1>5 DEF TypeOK, Announce
  <2>3. \A m \in Nodes : leader'[m] = m => leader[m] = m
    BY <1>5, <2>2 DEF TypeOK, Announce, Coordinator
  <2>4. Called'
    BY <1>5, <1>a DEF Announce
  <2> QED BY <1>b, <1>d, <2>1, <2>3, <2>4
<1>6. ASSUME NEW n \in Nodes, Heartbeat(n) PROVE LeadInv'
  <2>1. UNCHANGED <<phase, answered, todo, late>>
    BY <1>6 DEF Heartbeat, ReadLeader, LeaderAlive, LeaderDown
  <2>2. \A m \in Nodes : leader'[m] = m => leader[m] = m
    BY <1>6, NodesAssumption DEF TypeOK, Heartbeat, ReadLeader, LeaderAlive, LeaderDown, NoLeader
  <2> QED BY <1>a, <1>b, <1>c, <1>d, <2>1, <2>2
<1>7. ASSUME NEW call \in late, LateCoordinator(call) PROVE LeadInv'
  <2>1. UNCHANGED <<phase, answered, todo>>
    BY <1>7 DEF LateCoordinator
  <2>2. \A m \in Nodes : leader'[m] = m => leader[m] = m
    BY <1>7, <1>a DEF TypeOK, LateCoordinator, Coordinator
  <2>3. Called'
    BY <1>7, <1>a DEF LateCoordinator
  <2> QED BY <1>b, <1>c, <1>d, <2>1, <2>2, <2>3
<1>8. ASSUME NEW n \in Nodes, Down(n) PROVE LeadInv'
  <2>1. \A m \in Nodes : Asked(m)'
    <3> SUFFICES ASSUME NEW m \in Nodes, phase'[m] = "asking" PROVE Asked(m)'
      OBVIOUS
    <3>1. m # n /\ phase[m] = "asking"
      BY <1>8 DEF TypeOK, Down
    <3>2. answered'[m] = answered[m] /\ todo'[m] = todo[m]
      BY <1>8, <3>1 DEF TypeOK, Down
    <3> QED BY <1>0, <1>a, <3>1, <3>2
  <2>2. \A m \in Nodes : leader'[m] = m => leader[m] = m
    BY <1>8, NodesAssumption DEF TypeOK, Down, NoLeader
  <2>3. Called'
    <3>1. \A p \in todo[n] : n # p
      BY DEF TypeOK
    <3> QED BY <1>8, <1>a, <3>1 DEF Down
  <2> QED BY <1>b, <1>d, <2>1, <2>2, <2>3
<1>9. ASSUME UNCHANGED <<up, leader, due, phase, todo, answered, beat, late>> PROVE LeadInv'
  BY <1>9 DEF LeadInv, AboveStopped
<1> QED
  BY <1>0, <1>1, <1>2, <1>3, <1>4, <1>5, <1>6, <1>7, <1>8, <1>9
  DEF ElectionNext, Steps, Electing, Leaves

-----------------------------------------------------------------------------

LEMMA ClusterIsElection ==
  ASSUME TypeOK, ClusterNext
  PROVE  ElectionNext \/ UNCHANGED electionVars
<1>1. CASE ElectionStep
  BY <1>1 DEF ElectionStep, ElectionNext
<1>2. ASSUME NEW n \in Nodes, Monitor(n) PROVE UNCHANGED electionVars
  BY <1>2 DEF Monitor, Promote, LoadSnapshot, ReplayLog, StopConsumer, SaveSnapshot, TruncateLog
<1>3. ASSUME NEW n \in Nodes, Consume(n) PROVE UNCHANGED electionVars
  BY <1>3 DEF Consume, Deliver, LogCommand, Process, Ack, Drop, Close
<1>4. ASSUME NEW n \in Nodes, Terminate(n) PROVE Leaves
  <2>1. crashes' \in 0..MaxCrashes
    BY <1>4, FailuresAssumption DEF TypeOK, Terminate
  <2> QED BY <1>4, <2>1 DEF Terminate, Leaves
<1>5. ASSUME NEW n \in Nodes, Halt(n) PROVE Leaves
  <2>1. CASE Down(n) /\ UNCHANGED <<crashes, restarts>>
    BY <2>1 DEF TypeOK, Leaves
  <2>2. CASE Crash(n)
    BY <2>2, CrashLeaves
  <2> QED BY <1>5, <2>1, <2>2 DEF Halt
<1>6. ASSUME NEW c \in Commands, Publish(c) PROVE UNCHANGED electionVars
  BY <1>6 DEF Publish
<1>7. CASE Expire
  BY <1>7 DEF Expire
<1> QED BY <1>1, <1>2, <1>3, <1>4, <1>5, <1>6, <1>7 DEF ClusterNext, ElectionNext

LEMMA RoleStep ==
  ASSUME MaxRestarts = 0, TypeOK, LeadInv, RoleInv, ClusterNext
  PROVE  RoleInv'
<1>1. up' \subseteq up
  BY ClusterIsElection, NobodyReturns DEF electionVars
<1>2. \A n \in Nodes : AboveStopped(n) => AboveStopped(n)'
  BY <1>1, StaysStopped
<1>3. ASSUME UNCHANGED <<role, up>> PROVE RoleInv'
  BY <1>2, <1>3 DEF RoleInv
<1>4. CASE ElectionStep
  <2>1. UNCHANGED <<role, up>>
    <3>1. \A n \in Nodes : ~Restart(n)
      BY DEF TypeOK, Restart
    <3> QED BY <1>4, <3>1 DEF ElectionStep, replicaVars, LateCoordinator, Steps, Electing, Heartbeat,
      StartElection, Ask, Yield, Proclaim, Announce, EndElection, ReadLeader, LeaderAlive, LeaderDown
  <2> QED BY <1>3, <2>1
<1>5. ASSUME NEW n \in Nodes, Promote(n) PROVE RoleInv'
  <2>1. AboveStopped(n) /\ n \in up /\ up' = up
    BY <1>5 DEF LeadInv, Promote, electionVars
  <2> QED BY <1>2, <1>5, <2>1 DEF RoleInv, Promote
<1>6. ASSUME NEW n \in Nodes, Monitor(n), ~Promote(n) PROVE RoleInv'
  <2>1. up' = up /\ role[n] # "standby"
    BY <1>6 DEF Monitor, LoadSnapshot, ReplayLog, StopConsumer, SaveSnapshot, TruncateLog, electionVars
  <2>2. \E r \in {"standby", "loading", "active", "stopping", "saved"} :
          role' = [role EXCEPT ![n] = r]
    BY <1>6 DEF Monitor, LoadSnapshot, ReplayLog, StopConsumer, SaveSnapshot, TruncateLog
  <2> QED BY <1>2, <2>1, <2>2 DEF RoleInv
<1>7. ASSUME NEW n \in Nodes, Consume(n) PROVE RoleInv'
  <2>1. UNCHANGED <<role, up>>
    BY <1>7 DEF Consume, Deliver, LogCommand, Process, Ack, Drop, Close, electionVars
  <2> QED BY <1>3, <2>1
<1>8. ASSUME NEW n \in Nodes, Terminate(n) PROVE RoleInv'
  BY <1>3, <1>8 DEF Terminate
<1>9. ASSUME NEW n \in Nodes, Halt(n) PROVE RoleInv'
  <2>1. up' = up \ {n} /\ role' = [role EXCEPT ![n] = "standby"]
    BY <1>9 DEF Halt, Gone, Crash, Down
  <2> QED BY <1>2, <2>1 DEF RoleInv
<1>10. ASSUME NEW c \in Commands, Publish(c) PROVE RoleInv'
  <2>1. UNCHANGED <<role, up>>
    BY <1>10 DEF Publish, electionVars, replicaVars
  <2> QED BY <1>3, <2>1
<1>11. CASE Expire
  BY <1>3, <1>11 DEF Expire, electionVars, replicaVars
<1> QED BY <1>4, <1>5, <1>6, <1>7, <1>8, <1>9, <1>10, <1>11 DEF ClusterNext

LEMMA RoleOrder ==
  ASSUME TypeOK, RoleInv
  PROVE  \A m, n \in Nodes : role[m] # "standby" /\ role[n] # "standby" => m = n
<1> SUFFICES ASSUME NEW m \in Nodes, NEW n \in Nodes,
                    role[m] # "standby", role[n] # "standby", m # n
             PROVE  FALSE
  OBVIOUS
<1>1. m \in up /\ n \in up /\ AboveStopped(m) /\ AboveStopped(n)
  BY DEF RoleInv
<1>2. m > n \/ n > m
  BY NodesAssumption
<1> QED BY <1>1, <1>2 DEF AboveStopped

ClusterInv == TypeOK /\ LeadInv /\ RoleInv

LEMMA ClusterStart == ClusterInit => ClusterInv
<1> SUFFICES ASSUME ClusterInit PROVE ClusterInv
  OBVIOUS
<1>1. TypeOK
  BY InitTypeOK DEF ClusterInit
<1>2. LeadInv
  BY NodesAssumption DEF ClusterInit, Init, LeadInv, NoLeader
<1>3. RoleInv
  BY DEF ClusterInit, RoleInv
<1> QED BY <1>1, <1>2, <1>3 DEF ClusterInv

LEMMA ClusterStep ==
  ASSUME MaxRestarts = 0, ClusterInv, [ClusterNext]_vars
  PROVE  ClusterInv'
<1>1. CASE ClusterNext
  <2>1. TypeOK' /\ LeadInv'
    <3>1. CASE ElectionNext
      BY <3>1, StepTypeOK, LeadStep DEF ClusterInv
    <3>2. CASE UNCHANGED electionVars
      BY <3>2 DEF ClusterInv, TypeOK, LeadInv, AboveStopped, electionVars
    <3> QED BY <1>1, <3>1, <3>2, ClusterIsElection DEF ClusterInv
  <2>2. RoleInv'
    BY <1>1, RoleStep DEF ClusterInv
  <2> QED BY <2>1, <2>2 DEF ClusterInv
<1>2. CASE UNCHANGED vars
  BY <1>2 DEF ClusterInv, TypeOK, LeadInv, RoleInv, AboveStopped, vars, electionVars, replicaVars
<1> QED BY <1>1, <1>2

\* If replicas only stop, crashed or told to, at most one of them ever operates
\* engines over the log: no failover makes two. (With restarts this is false.)
THEOREM OneEngine ==
  ASSUME MaxRestarts = 0
  PROVE  ClusterSpec => []SingleEngine
<1>1. ClusterInv /\ [ClusterNext]_vars => ClusterInv'
  BY ClusterStep
<1>2. ClusterInv => SingleEngine
  BY RoleOrder DEF ClusterInv, SingleEngine, Loaded
<1> QED BY ClusterStart, <1>1, <1>2, PTL DEF ClusterSpec

-----------------------------------------------------------------------------
(* What the shared files hold. *)

\* A stretch of a history, line by line under its numbers, up to its end.
Numbered(log, h) ==
  /\ log \in Seq([seq : Nat, cmd : Commands])
  /\ \A i \in 1..Len(log) : log[i].seq \in 1..Len(h) /\ log[i].cmd = h[log[i].seq]
  /\ \A i \in 1..Len(log), j \in 1..Len(log) : j = i + 1 => log[j].seq = log[i].seq + 1

\* It leaves nothing out after the first s commands.
Reaches(log, s, h) ==
  /\ log = <<>> => s = Len(h)
  /\ log # <<>> => log[1].seq <= s + 1 /\ log[Len(log)].seq = Len(h)

\* Snapshot and log are the history, and what was confirmed is the start of it.
DiskInv ==
  /\ history \in Seq(Commands)
  /\ confirmed \in Seq(Commands) /\ IsPrefix(confirmed, history)
  /\ snap.seq \in 0..Len(history)
  /\ snap = [seq |-> snap.seq, state |-> SubSeq(history, 1, snap.seq)]
  /\ Numbered(wal, history) /\ Reaches(wal, snap.seq, history)

\* A replica that loads has the snapshot, one that serves the history, but for the
\* command in its handler between the log and the engine.
Serves(n) ==
  /\ role[n] = "loading" => engine[n] = snap.state /\ lastSeq[n] = snap.seq
  /\ Loaded(n) => lastSeq[n] = Len(history)
  /\ Loaded(n) /\ ~Holding(n, "logged") => engine[n] = history
  /\ Holding(n, "logged") => /\ role[n] \in {"active", "stopping"}
                            /\ history = Append(engine[n], hand[n].cmd)
  /\ role[n] = "saved" => snap.seq = Len(history)

ReplicaInv ==
  /\ queue \in Seq(Commands)
  /\ hand \in [Nodes -> Deliveries \cup {Nothing}]
  /\ engine \in [Nodes -> Seq(Commands)] /\ lastSeq \in [Nodes -> Nat]
  /\ \A n \in Nodes : Serves(n)

LogInv == ClusterInv /\ DiskInv /\ ReplicaInv


-----------------------------------------------------------------------------
(* Reading a log. *)

\* The recursion of Replayed.
Reading(f, log, state, seq) ==
  f = [k \in 0..Len(log) |->
        IF k = 0 THEN [seq |-> seq, state |-> state]
        ELSE IF log[k].seq <= f[k - 1].seq THEN f[k - 1]
        ELSE [seq |-> log[k].seq, state |-> Append(f[k - 1].state, log[k].cmd)]]

LEMMA ReadingIs ==
  ASSUME NEW log, NEW state, NEW seq
  PROVE  Replayed(log, state, seq) = (CHOOSE f : Reading(f, log, state, seq))[Len(log)]
BY DEF Replayed, Reading

LEMMA ReadingIsOne ==
  ASSUME NEW log, Len(log) \in Nat, NEW state, NEW seq,
         NEW f, Reading(f, log, state, seq), NEW g, Reading(g, log, state, seq)
  PROVE  f[Len(log)] = g[Len(log)]
<1> DEFINE S == {k \in 0..Len(log) : f[k] # g[k]}
<1>1. ASSUME NEW k \in S PROVE FALSE
  <2>1. S \in SUBSET Nat /\ S # {}
    BY <1>1
  <2>2. PICK m \in S : \A n \in S : ~(n < m)
    BY <2>1, LeastOfNat
  <2>3. m \in 0..Len(log) /\ f[m] # g[m]
    OBVIOUS
  <2>4. CASE m = 0
    <3>1. f[0] = [seq |-> seq, state |-> state] /\ g[0] = [seq |-> seq, state |-> state]
      BY DEF Reading
    <3> QED BY <2>3, <2>4, <3>1
  <2>5. CASE m # 0
    <3>1. m - 1 \in 0..Len(log) /\ m - 1 < m
      BY <2>3, <2>5
    <3>2. f[m - 1] = g[m - 1]
      BY <2>2, <3>1
    <3>3. /\ f[m] = IF log[m].seq <= f[m - 1].seq THEN f[m - 1]
                    ELSE [seq |-> log[m].seq, state |-> Append(f[m - 1].state, log[m].cmd)]
          /\ g[m] = IF log[m].seq <= g[m - 1].seq THEN g[m - 1]
                    ELSE [seq |-> log[m].seq, state |-> Append(g[m - 1].state, log[m].cmd)]
      BY <2>3, <2>5 DEF Reading
    <3> QED BY <2>3, <3>2, <3>3
  <2> QED BY <2>4, <2>5
<1> QED BY <1>1

LEMMA NextPrefix ==
  ASSUME NEW h \in Seq(Commands), NEW m \in Nat, m + 1 <= Len(h)
  PROVE  SubSeq(h, 1, m + 1) = Append(SubSeq(h, 1, m), h[m + 1])
<1>1. Len(h) \in Nat /\ m <= Len(h)
  BY LenProperties
<1>2. SubSeq(h, 1, m) \in Seq(Commands) /\ Len(SubSeq(h, 1, m)) = m
  BY <1>1, SubSeqProperties
<1>3. SubSeq(h, 1, m + 1) \in Seq(Commands) /\ Len(SubSeq(h, 1, m + 1)) = m + 1
  BY <1>1, SubSeqProperties
<1>4. h[m + 1] \in Commands
  BY <1>1, ElementOfSeq
<1>5. \A i \in 1..(m + 1) : SubSeq(h, 1, m + 1)[i] = Append(SubSeq(h, 1, m), h[m + 1])[i]
  BY <1>1, <1>2, <1>3
<1>6. /\ Append(SubSeq(h, 1, m), h[m + 1]) \in Seq(Commands)
      /\ Len(Append(SubSeq(h, 1, m), h[m + 1])) = m + 1
  BY <1>2, <1>4, AppendProperties
<1> QED BY <1>3, <1>5, <1>6, SeqEqual

\* From the snapshot of a history and the rest of it in the log, the history is read.
LEMMA ReplayFindsHistory ==
  ASSUME NEW h \in Seq(Commands), NEW s \in 0..Len(h), NEW log,
         Numbered(log, h), Reaches(log, s, h)
  PROVE  Replayed(log, SubSeq(h, 1, s), s) = [seq |-> Len(h), state |-> h]
<1> DEFINE at(k) == IF k = 0 \/ log[k].seq <= s THEN s ELSE log[k].seq
           g == [k \in 0..Len(log) |-> [seq |-> at(k), state |-> SubSeq(h, 1, at(k))]]
<1>1. Len(h) \in Nat /\ Len(log) \in Nat /\ s \in Nat /\ s <= Len(h)
  BY LenProperties DEF Numbered
<1>2. \A k \in 1..Len(log) : log[k].seq \in 1..Len(h) /\ log[k].cmd = h[log[k].seq]
  BY DEF Numbered
<1>3. \A k \in 0..Len(log) : at(k) \in 0..Len(h)
  BY <1>1, <1>2
<1>4. ASSUME NEW k \in 1..Len(log)
      PROVE  /\ log[k].seq <= at(k - 1) => at(k) = at(k - 1)
             /\ ~(log[k].seq <= at(k - 1)) => at(k) = log[k].seq /\ log[k].seq = at(k - 1) + 1
  <2>1. CASE k = 1
    <3>1. log # <<>>
      BY <1>1, <2>1
    <3>2. log[1].seq <= s + 1
      BY <3>1 DEF Reaches
    <3> QED BY <1>1, <1>2, <2>1, <3>2
  <2>2. CASE k # 1
    <3>1. k - 1 \in 1..Len(log) /\ k = (k - 1) + 1
      BY <1>1, <2>2
    <3>2. log[k].seq = log[k - 1].seq + 1
      BY <3>1 DEF Numbered
    <3> QED BY <1>1, <1>2, <3>1, <3>2
  <2> QED BY <2>1, <2>2
<1>5. at(Len(log)) = Len(h)
  <2>1. CASE log = <<>>
    BY <2>1 DEF Reaches
  <2>2. CASE log # <<>>
    <3>1. Len(log) \in 1..Len(log)
      BY <1>1, <2>2, EmptySeq DEF Numbered
    <3>2. log[Len(log)].seq = Len(h)
      BY <2>2 DEF Reaches
    <3> QED BY <1>1, <3>1, <3>2
  <2> QED BY <2>1, <2>2
<1>6. \A k \in 1..Len(log) :
        ~(log[k].seq <= at(k - 1)) =>
          SubSeq(h, 1, at(k)) = Append(SubSeq(h, 1, at(k - 1)), log[k].cmd)
  <2> SUFFICES ASSUME NEW k \in 1..Len(log), ~(log[k].seq <= at(k - 1))
               PROVE  SubSeq(h, 1, at(k)) = Append(SubSeq(h, 1, at(k - 1)), log[k].cmd)
    OBVIOUS
  <2>1. k - 1 \in 0..Len(log)
    BY <1>1
  <2>2. at(k) = log[k].seq /\ log[k].seq = at(k - 1) + 1 /\ log[k].cmd = h[log[k].seq]
    BY <1>2, <1>4
  <2>3. at(k - 1) \in Nat /\ at(k - 1) + 1 <= Len(h)
    BY <1>1, <1>2, <1>3, <2>1, <2>2
  <2> HIDE DEF at
  <2> QED BY <2>2, <2>3, NextPrefix
<1>7. Reading(g, log, SubSeq(h, 1, s), s)
  <2> SUFFICES ASSUME NEW k \in 0..Len(log)
               PROVE  g[k] = IF k = 0 THEN [seq |-> s, state |-> SubSeq(h, 1, s)]
                             ELSE IF log[k].seq <= g[k - 1].seq THEN g[k - 1]
                             ELSE [seq |-> log[k].seq,
                                   state |-> Append(g[k - 1].state, log[k].cmd)]
    BY Zenon DEF Reading
  <2>1. CASE k = 0
    BY <2>1
  <2>2. CASE k # 0
    <3>1. k \in 1..Len(log) /\ k - 1 \in 0..Len(log)
      BY <1>1, <2>2
    <3>2. g[k - 1] = [seq |-> at(k - 1), state |-> SubSeq(h, 1, at(k - 1))]
      BY <3>1
    <3>3. g[k] = [seq |-> at(k), state |-> SubSeq(h, 1, at(k))]
      OBVIOUS
    <3>4. /\ log[k].seq <= at(k - 1) => at(k) = at(k - 1)
          /\ ~(log[k].seq <= at(k - 1)) =>
               /\ at(k) = log[k].seq
               /\ SubSeq(h, 1, at(k)) = Append(SubSeq(h, 1, at(k - 1)), log[k].cmd)
      BY <1>4, <1>6, <3>1
    <3>5. g[k - 1].seq = at(k - 1) /\ g[k - 1].state = SubSeq(h, 1, at(k - 1))
      BY <3>1
    <3> HIDE DEF g, at
    <3>6. CASE log[k].seq <= at(k - 1)
      BY <2>2, <3>2, <3>3, <3>4, <3>5, <3>6
    <3>7. CASE ~(log[k].seq <= at(k - 1))
      <4>1. g[k] = [seq |-> log[k].seq, state |-> Append(g[k - 1].state, log[k].cmd)]
        BY <3>3, <3>4, <3>5, <3>7
      <4> QED BY <2>2, <3>5, <3>7, <4>1
    <3> QED BY <3>6, <3>7
  <2> QED BY <2>1, <2>2
<1>8. Replayed(log, SubSeq(h, 1, s), s) = g[Len(log)]
  <2> DEFINE f == CHOOSE r : Reading(r, log, SubSeq(h, 1, s), s)
  <2> HIDE DEF g
  <2>1. Reading(f, log, SubSeq(h, 1, s), s)
    BY <1>7
  <2> HIDE DEF f
  <2>2. f[Len(log)] = g[Len(log)]
    BY <1>1, <1>7, <2>1, ReadingIsOne
  <2> QED BY <2>2, ReadingIs DEF f
<1>9. g[Len(log)] = [seq |-> Len(h), state |-> SubSeq(h, 1, Len(h))]
  <2>1. Len(log) \in 0..Len(log)
    BY <1>1
  <2> QED BY <1>5, <2>1
<1>10. SubSeq(h, 1, Len(h)) = h
  BY SubSeqFull
<1> QED BY <1>8, <1>9, <1>10


-----------------------------------------------------------------------------
(* Snapshot, log and engines always hold the history. *)

LEMMA SnapshotIs ==
  ASSUME DiskInv
  PROVE  /\ snap.state = SubSeq(history, 1, snap.seq) /\ snap.state \in Seq(Commands)
         /\ snap.seq \in Nat /\ Len(history) \in Nat
         /\ snap.seq = Len(history) => snap.state = history
<1>1. snap.state = SubSeq(history, 1, snap.seq)
  BY DEF DiskInv
<1>2. Len(history) \in Nat /\ snap.seq \in Nat /\ snap.seq <= Len(history)
  BY LenProperties DEF DiskInv
<1>3. \A i \in 1..snap.seq : history[i] \in Commands
  BY <1>2, ElementOfSeq DEF DiskInv
<1>4. SubSeq(history, 1, snap.seq) \in Seq(Commands)
  BY <1>2, <1>3, SubSeqProperties
<1>5. SubSeq(history, 1, Len(history)) = history
  BY SubSeqFull DEF DiskInv
<1> QED BY <1>1, <1>2, <1>4, <1>5

LEMMA ReplayIs ==
  ASSUME DiskInv
  PROVE  Replayed(wal, snap.state, snap.seq) = [seq |-> Len(history), state |-> history]
<1>1. snap.state = SubSeq(history, 1, snap.seq)
  BY SnapshotIs
<1>2. Replayed(wal, SubSeq(history, 1, snap.seq), snap.seq) =
        [seq |-> Len(history), state |-> history]
  BY ReplayFindsHistory DEF DiskInv
<1> QED BY <1>1, <1>2

LEMMA DiskFrame ==
  ASSUME DiskInv, UNCHANGED <<diskVars, history, confirmed>>
  PROVE  DiskInv'
BY DEF DiskInv, diskVars, Numbered, Reaches

\* A replica nothing happens to, and a standby whose delivery stays.
LEMMA ServesFrame ==
  ASSUME NEW n \in Nodes, Serves(n),
         role'[n] = role[n], hand'[n] = hand[n], engine'[n] = engine[n], lastSeq'[n] = lastSeq[n],
         UNCHANGED <<snap, history>>
  PROVE  Serves(n)'
BY DEF Serves, Loaded, Holding

LEMMA StandbyServes ==
  ASSUME NEW n \in Nodes, Serves(n), role[n] = "standby", role'[n] = "standby", hand'[n] = hand[n]
  PROVE  Serves(n)'
BY DEF Serves, Loaded, Holding

LEMMA LogStart == ClusterInit => LogInv
<1> SUFFICES ASSUME ClusterInit PROVE LogInv
  OBVIOUS
<1>1. ClusterInv
  BY ClusterStart
<1>2. <<>> \in Seq(Commands) /\ Len(<<>>) = 0 /\ SubSeq(<<>>, 1, 0) = <<>>
  OBVIOUS
<1>3. <<>> \in Seq([seq : Nat, cmd : Commands])
  OBVIOUS
<1>4. DiskInv
  <2>1. Numbered(wal, history) /\ Reaches(wal, snap.seq, history)
    BY <1>2, <1>3 DEF ClusterInit, Numbered, Reaches
  <2>2. IsPrefix(confirmed, history)
    BY <1>2 DEF ClusterInit, IsPrefix
  <2> QED BY <1>2, <2>1, <2>2 DEF ClusterInit, DiskInv
<1>5. ReplicaInv
  BY <1>2, NothingAssumption DEF ClusterInit, ReplicaInv, Serves, Loaded, Holding
<1> QED BY <1>1, <1>4, <1>5 DEF LogInv


\* While one replica is not on standby, all the others are.
LEMMA OthersStandBy ==
  ASSUME ClusterInv, NEW n \in Nodes, role[n] # "standby"
  PROVE  \A m \in Nodes : m # n => role[m] = "standby"
BY RoleOrder DEF ClusterInv

LEMMA LoadStep ==
  ASSUME LogInv, NEW n \in Nodes, LoadSnapshot(n)
  PROVE  DiskInv' /\ ReplicaInv'
<1>1. DiskInv'
  BY DiskFrame DEF LogInv, LoadSnapshot
<1>2. snap.state \in Seq(Commands) /\ snap.seq \in Nat
  BY SnapshotIs DEF LogInv
<1>3. ASSUME NEW m \in Nodes PROVE Serves(m)'
  <2>1. CASE m = n
    <3>1. role'[n] = "loading" /\ engine'[n] = snap.state /\ lastSeq'[n] = snap.seq
      BY DEF LoadSnapshot, LogInv, ClusterInv, RoleInv, ReplicaInv
    <3>2. hand'[n] = hand[n] /\ ~Holding(n, "logged") /\ snap' = snap
      BY DEF LoadSnapshot, LogInv, ReplicaInv, Serves, diskVars
    <3> QED BY <2>1, <3>1, <3>2 DEF Serves, Loaded, Holding
  <2>2. CASE m # n
    <3>1. role'[m] = role[m] /\ hand'[m] = hand[m] /\ engine'[m] = engine[m]
          /\ lastSeq'[m] = lastSeq[m] /\ UNCHANGED <<snap, history>>
      BY <2>2 DEF LoadSnapshot, LogInv, ClusterInv, RoleInv, ReplicaInv, diskVars
    <3>2. Serves(m)
      BY DEF LogInv, ReplicaInv
    <3> QED BY <3>1, <3>2, ServesFrame
  <2> QED BY <2>1, <2>2
<1> QED BY <1>1, <1>2, <1>3 DEF LogInv, ReplicaInv, LoadSnapshot, queueVars

LEMMA ReplayStep ==
  ASSUME LogInv, NEW n \in Nodes, ReplayLog(n)
  PROVE  /\ DiskInv' /\ ReplicaInv'
         /\ history' = history /\ engine' = [engine EXCEPT ![n] = history]
<1>1. engine[n] = snap.state /\ lastSeq[n] = snap.seq
  BY DEF ReplayLog, LogInv, ReplicaInv, Serves
<1>2. Replayed(wal, engine[n], lastSeq[n]) = [seq |-> Len(history), state |-> history]
  BY <1>1, ReplayIs DEF LogInv
<1>3. history' = history /\ engine' = [engine EXCEPT ![n] = history]
      /\ lastSeq' = [lastSeq EXCEPT ![n] = Len(history)]
  BY <1>2 DEF ReplayLog
<1>4. history \in Seq(Commands) /\ Len(history) \in Nat
  BY SnapshotIs DEF LogInv, DiskInv
<1>5. DiskInv'
  BY <1>3, DiskFrame DEF LogInv, ReplayLog
<1>6. ASSUME NEW m \in Nodes PROVE Serves(m)'
  <2>1. CASE m = n
    <3>1. role'[n] = "active" /\ engine'[n] = history /\ lastSeq'[n] = Len(history)
      BY <1>3 DEF ReplayLog, LogInv, ClusterInv, RoleInv, ReplicaInv
    <3>2. hand'[n] = hand[n] /\ ~Holding(n, "logged")
      BY DEF ReplayLog, LogInv, ReplicaInv, Serves
    <3> QED BY <1>3, <2>1, <3>1, <3>2 DEF Serves, Loaded, Holding
  <2>2. CASE m # n
    <3>1. role'[m] = role[m] /\ hand'[m] = hand[m] /\ engine'[m] = engine[m]
          /\ lastSeq'[m] = lastSeq[m] /\ UNCHANGED <<snap, history>>
      BY <1>3, <2>2 DEF ReplayLog, LogInv, ClusterInv, RoleInv, ReplicaInv, diskVars
    <3>2. Serves(m)
      BY DEF LogInv, ReplicaInv
    <3> QED BY <3>1, <3>2, ServesFrame
  <2> QED BY <2>1, <2>2
<1>7. queue' = queue /\ hand' = hand
  BY DEF ReplayLog, queueVars
<1>8. engine' \in [Nodes -> Seq(Commands)] /\ lastSeq' \in [Nodes -> Nat]
  BY <1>3, <1>4 DEF LogInv, ReplicaInv
<1> QED BY <1>3, <1>5, <1>6, <1>7, <1>8 DEF LogInv, ReplicaInv

LEMMA SaveStep ==
  ASSUME LogInv, NEW n \in Nodes, SaveSnapshot(n)
  PROVE  DiskInv' /\ ReplicaInv'
<1>1. role[n] = "stopping" /\ ~Holding(n, "logged")
  BY DEF SaveSnapshot
<1>2. engine[n] = history /\ lastSeq[n] = Len(history)
  BY <1>1 DEF LogInv, ReplicaInv, Serves, Loaded
<1>3. snap' = [seq |-> Len(history), state |-> history]
      /\ UNCHANGED <<wal, history, confirmed, queue, hand, engine, lastSeq>>
  BY <1>2 DEF SaveSnapshot, queueVars
<1>4. /\ history \in Seq(Commands) /\ Len(history) \in Nat
      /\ SubSeq(history, 1, Len(history)) = history
  BY SnapshotIs, SubSeqFull DEF LogInv, DiskInv
<1>5. DiskInv'
  <2>1. Reaches(wal, Len(history), history)
    <3> SUFFICES ASSUME wal # <<>> PROVE wal[1].seq <= Len(history) + 1
      BY DEF LogInv, DiskInv, Reaches
    <3>1. 1 \in 1..Len(wal)
      BY EmptySeq, LenProperties DEF LogInv, DiskInv, Numbered
    <3>2. wal[1].seq \in 1..Len(history)
      BY <3>1 DEF LogInv, DiskInv, Numbered
    <3> QED BY <1>4, <3>2
  <2>2. Numbered(wal, history) /\ confirmed \in Seq(Commands) /\ IsPrefix(confirmed, history)
    BY DEF LogInv, DiskInv
  <2>3. snap'.seq = Len(history) /\ snap'.state = history /\ Len(history) \in 0..Len(history)
    BY <1>3, <1>4
  <2>4. snap' = [seq |-> snap'.seq, state |-> SubSeq(history, 1, snap'.seq)]
    BY <1>3, <1>4, <2>3
  <2>5. UNCHANGED <<wal, history, confirmed>>
    BY <1>3
  <2> QED BY <1>4, <2>1, <2>2, <2>3, <2>4, <2>5 DEF DiskInv, Numbered, Reaches
<1>6. ASSUME NEW m \in Nodes PROVE Serves(m)'
  <2>1. CASE m = n
    <3>1. role'[n] = "saved"
      BY DEF SaveSnapshot, LogInv, ClusterInv, RoleInv
    <3>2. snap'.seq = Len(history)
      BY <1>3
    <3> QED BY <1>1, <1>2, <1>3, <2>1, <3>1, <3>2 DEF Serves, Loaded, Holding
  <2>2. CASE m # n
    <3>1. role[m] = "standby"
      BY <1>1, <2>2, OthersStandBy DEF LogInv
    <3>2. role'[m] = "standby" /\ hand'[m] = hand[m]
      BY <1>3, <2>2, <3>1 DEF SaveSnapshot, LogInv, ClusterInv, RoleInv
    <3>3. Serves(m)
      BY DEF LogInv, ReplicaInv
    <3> QED BY <3>1, <3>2, <3>3, StandbyServes
  <2> QED BY <2>1, <2>2
<1> QED BY <1>3, <1>5, <1>6 DEF LogInv, ReplicaInv

LEMMA TruncateStep ==
  ASSUME LogInv, NEW n \in Nodes, TruncateLog(n)
  PROVE  DiskInv' /\ ReplicaInv'
<1>1. role[n] = "saved" /\ snap.seq = Len(history) /\ ~Holding(n, "logged")
  BY DEF TruncateLog, LogInv, ReplicaInv, Serves
<1>2. UNCHANGED <<snap, history, confirmed, queue, hand>> /\ wal' = <<>>
  BY DEF TruncateLog, queueVars
<1>3. DiskInv'
  <2>1. Numbered(<<>>, history) /\ Reaches(<<>>, Len(history), history)
    BY DEF Numbered, Reaches
  <2> QED BY <1>1, <1>2, <2>1 DEF LogInv, DiskInv, Numbered, Reaches
<1>4. ASSUME NEW m \in Nodes PROVE Serves(m)'
  <2>1. CASE m = n
    <3>1. role'[n] = "standby"
      BY DEF TruncateLog, LogInv, ClusterInv, RoleInv
    <3> QED BY <1>1, <1>2, <2>1, <3>1 DEF Serves, Loaded, Holding
  <2>2. CASE m # n
    <3>1. role[m] = "standby"
      BY <1>1, <2>2, OthersStandBy DEF LogInv
    <3>2. role'[m] = "standby" /\ hand'[m] = hand[m]
      BY <1>2, <2>2, <3>1 DEF TruncateLog, LogInv, ClusterInv, RoleInv
    <3>3. Serves(m)
      BY DEF LogInv, ReplicaInv
    <3> QED BY <3>1, <3>2, <3>3, StandbyServes
  <2> QED BY <2>1, <2>2
<1>5. engine' \in [Nodes -> Seq(Commands)] /\ lastSeq' \in [Nodes -> Nat]
  BY DEF TruncateLog, LogInv, ReplicaInv
<1> QED BY <1>2, <1>3, <1>4, <1>5 DEF LogInv, ReplicaInv


LEMMA AppendKeepsPrefix ==
  ASSUME NEW h \in Seq(Commands), NEW c \in Commands, NEW k \in 0..Len(h)
  PROVE  SubSeq(Append(h, c), 1, k) = SubSeq(h, 1, k)
<1>1. Len(h) \in Nat
  BY LenProperties
<1>2. Append(h, c) \in Seq(Commands) /\ Len(Append(h, c)) = Len(h) + 1
      /\ \A i \in 1..Len(h) : Append(h, c)[i] = h[i]
  BY AppendProperties
<1>3. /\ SubSeq(h, 1, k) \in Seq(Commands) /\ Len(SubSeq(h, 1, k)) = k
      /\ \A i \in 1..k : SubSeq(h, 1, k)[i] = h[i]
  <2>1. \A i \in 1..k : h[i] \in Commands
    BY <1>1, ElementOfSeq
  <2> QED BY <1>1, <2>1, SubSeqProperties
<1>4. /\ SubSeq(Append(h, c), 1, k) \in Seq(Commands) /\ Len(SubSeq(Append(h, c), 1, k)) = k
      /\ \A i \in 1..k : SubSeq(Append(h, c), 1, k)[i] = Append(h, c)[i]
  <2>1. \A i \in 1..k : Append(h, c)[i] \in Commands
    BY <1>1, <1>2, ElementOfSeq
  <2> QED BY <1>1, <2>1, SubSeqProperties
<1>5. \A i \in 1..k : SubSeq(Append(h, c), 1, k)[i] = SubSeq(h, 1, k)[i]
  BY <1>1, <1>2, <1>3, <1>4
<1> QED BY <1>3, <1>4, <1>5, SeqEqual

LEMMA AppendIsPrefix ==
  ASSUME NEW h \in Seq(Commands), NEW c \in Commands, NEW s \in Seq(Commands), IsPrefix(s, h)
  PROVE  IsPrefix(s, Append(h, c))
<1>1. Len(h) \in Nat /\ Len(s) \in Nat /\ Len(s) <= Len(h) /\ Len(Append(h, c)) = Len(h) + 1
  BY LenProperties, AppendProperties DEF IsPrefix
<1>2. SubSeq(Append(h, c), 1, Len(s)) = SubSeq(h, 1, Len(s))
  BY <1>1, AppendKeepsPrefix
<1> QED BY <1>1, <1>2 DEF IsPrefix

LEMMA LogLine ==
  ASSUME NEW h \in Seq(Commands), NEW c \in Commands, NEW s \in 0..Len(h), NEW log,
         Numbered(log, h), Reaches(log, s, h)
  PROVE  LET log1 == Append(log, [seq |-> Len(h) + 1, cmd |-> c])
             h1 == Append(h, c)
         IN  Numbered(log1, h1) /\ Reaches(log1, s, h1)
<1> DEFINE line == [seq |-> Len(h) + 1, cmd |-> c]
           log1 == Append(log, line)
           h1 == Append(h, c)
<1>1. Len(h) \in Nat /\ Len(log) \in Nat /\ line \in [seq : Nat, cmd : Commands]
  BY LenProperties DEF Numbered
<1>2. Len(h1) = Len(h) + 1 /\ h1[Len(h) + 1] = c /\ \A i \in 1..Len(h) : h1[i] = h[i]
  BY AppendProperties
<1> HIDE DEF line
<1>3. /\ log1 \in Seq([seq : Nat, cmd : Commands]) /\ Len(log1) = Len(log) + 1
      /\ log1[Len(log) + 1] = line /\ \A i \in 1..Len(log) : log1[i] = log[i]
  BY <1>1, AppendProperties DEF Numbered
<1>3a. line.seq = Len(h) + 1 /\ line.cmd = c
  BY DEF line
<1>4. \A i \in 1..Len(log) : log[i].seq \in 1..Len(h) /\ log[i].cmd = h[log[i].seq]
  BY DEF Numbered
<1>5. log # <<>> => Len(log) \in 1..Len(log) /\ 1 \in 1..Len(log)
                    /\ log[1].seq <= s + 1 /\ log[Len(log)].seq = Len(h)
  BY <1>1, EmptySeq DEF Numbered, Reaches
<1>6. log = <<>> => s = Len(h) /\ Len(log) = 0
  BY DEF Reaches
<1>7. Len(log) # 0 => log # <<>>
  OBVIOUS
<1> HIDE DEF log1, h1
<1>8. Numbered(log1, h1)
  <2>1. ASSUME NEW i \in 1..Len(log1)
        PROVE  log1[i].seq \in 1..Len(h1) /\ log1[i].cmd = h1[log1[i].seq]
    <3>1. CASE i \in 1..Len(log)
      <4>1. log1[i] = log[i] /\ log[i].seq \in 1..Len(h) /\ log[i].cmd = h[log[i].seq]
        BY <1>3, <1>4, <3>1
      <4>2. h1[log[i].seq] = h[log[i].seq] /\ log[i].seq \in 1..Len(h1)
        BY <1>1, <1>2, <4>1
      <4> QED BY <4>1, <4>2
    <3>2. CASE i = Len(log) + 1
      <4>1. log1[i] = line /\ Len(h) + 1 \in 1..Len(h1)
        BY <1>1, <1>2, <1>3, <3>2
      <4> QED BY <1>2, <1>3a, <4>1
    <3> QED BY <1>1, <1>3, <3>1, <3>2
  <2>2. ASSUME NEW i \in 1..Len(log1), NEW j \in 1..Len(log1), j = i + 1
        PROVE  log1[j].seq = log1[i].seq + 1
    <3>1. i \in 1..Len(log)
      BY <1>1, <1>3, <2>2
    <3>2. CASE j \in 1..Len(log)
      <4>1. log[j].seq = log[i].seq + 1
        BY <2>2, <3>1, <3>2 DEF Numbered
      <4> QED BY <1>3, <3>1, <3>2, <4>1
    <3>3. CASE j = Len(log) + 1
      <4>1. i = Len(log) /\ Len(log) # 0
        BY <1>1, <2>2, <3>1, <3>3
      <4>2. log[Len(log)].seq = Len(h)
        BY <1>5, <1>7, <4>1
      <4> QED BY <1>3, <1>3a, <3>1, <3>3, <4>1, <4>2
    <3> QED BY <1>1, <1>3, <3>2, <3>3
  <2> QED BY <1>3, <2>1, <2>2 DEF Numbered
<1>9. Reaches(log1, s, h1)
  <2>1. log1 # <<>>
    BY <1>1, <1>3
  <2>2. log1[Len(log1)].seq = Len(h1)
    BY <1>2, <1>3, <1>3a
  <2>3. log1[1].seq <= s + 1
    <3>1. CASE log = <<>>
      BY <1>1, <1>3, <1>3a, <1>6, <3>1
    <3>2. CASE log # <<>>
      BY <1>3, <1>5, <3>2
    <3> QED BY <3>1, <3>2
  <2> QED BY <2>1, <2>2, <2>3 DEF Reaches
<1> QED BY <1>8, <1>9 DEF log1, h1, line


LEMMA LogCommandStep ==
  ASSUME LogInv, NEW n \in Nodes, LogCommand(n)
  PROVE  /\ DiskInv' /\ ReplicaInv'
         /\ Loaded(n) /\ engine[n] = history
         /\ hand[n].cmd \in Commands /\ history' = Append(history, hand[n].cmd)
<1> DEFINE c == hand[n].cmd
<1>1. hand[n] \in Deliveries /\ hand[n].stage = "received" /\ role[n] \in {"active", "stopping"}
  BY DEF LogCommand, Holding, LogInv, ReplicaInv
<1>2. Loaded(n) /\ ~Holding(n, "logged") /\ c \in Commands
  BY <1>1 DEF Loaded, Holding, Deliveries
<1>3. engine[n] = history /\ lastSeq[n] = Len(history)
  BY <1>2 DEF LogInv, ReplicaInv, Serves
<1>4. /\ history' = Append(history, c)
      /\ wal' = Append(wal, [seq |-> Len(history) + 1, cmd |-> c])
      /\ hand' = [hand EXCEPT ![n].stage = "logged"]
      /\ lastSeq' = [lastSeq EXCEPT ![n] = @ + 1]
      /\ UNCHANGED <<role, engine, snap, confirmed, queue>>
  BY <1>3 DEF LogCommand, queueVars
<1>5. /\ history \in Seq(Commands) /\ Len(history) \in Nat /\ snap.seq \in 0..Len(history)
      /\ confirmed \in Seq(Commands) /\ IsPrefix(confirmed, history)
      /\ Numbered(wal, history) /\ Reaches(wal, snap.seq, history)
      /\ snap = [seq |-> snap.seq, state |-> SubSeq(history, 1, snap.seq)]
  BY LenProperties DEF LogInv, DiskInv
<1>6. history' \in Seq(Commands) /\ Len(history') = Len(history) + 1
  BY <1>2, <1>4, <1>5, AppendProperties
<1>7. DiskInv'
  <2>1. IsPrefix(confirmed, history')
    BY <1>2, <1>4, <1>5, AppendIsPrefix
  <2>2. SubSeq(history', 1, snap.seq) = SubSeq(history, 1, snap.seq)
    BY <1>2, <1>4, <1>5, AppendKeepsPrefix
  <2>3. Numbered(wal', history') /\ Reaches(wal', snap.seq, history')
    BY <1>2, <1>4, <1>5, LogLine
  <2>4. snap.seq \in 0..Len(history')
    BY <1>5, <1>6
  <2>5. UNCHANGED <<snap, confirmed>>
    BY <1>4
  <2> QED BY <1>5, <1>6, <2>1, <2>2, <2>3, <2>4, <2>5 DEF DiskInv, Numbered, Reaches
<1>8. /\ hand' \in [Nodes -> Deliveries \cup {Nothing}]
      /\ hand'[n].cmd = c /\ hand'[n].stage = "logged" /\ hand'[n] # Nothing
  <2>1. hand \in [Nodes -> Deliveries \cup {Nothing}]
    BY DEF LogInv, ReplicaInv
  <2>2. [hand[n] EXCEPT !.stage = "logged"] \in Deliveries
        /\ [hand[n] EXCEPT !.stage = "logged"].cmd = c
        /\ [hand[n] EXCEPT !.stage = "logged"].stage = "logged"
    BY <1>1 DEF Deliveries
  <2>3. hand' = [hand EXCEPT ![n] = [hand[n] EXCEPT !.stage = "logged"]]
    BY <1>4
  <2> QED BY <2>1, <2>2, <2>3, NothingAssumption
<1>9. ASSUME NEW m \in Nodes PROVE Serves(m)'
  <2>1. CASE m = n
    <3>1. lastSeq'[n] = Len(history') /\ history' = Append(engine'[n], hand'[n].cmd)
      BY <1>3, <1>4, <1>6, <1>8 DEF LogInv, ReplicaInv
    <3>2. role'[n] \in {"active", "stopping"} /\ Holding(n, "logged")'
      BY <1>1, <1>4, <1>8 DEF Holding
    <3> QED BY <2>1, <3>1, <3>2 DEF Serves
  <2>2. CASE m # n
    <3>1. role[m] = "standby"
      BY <1>1, <2>2, OthersStandBy DEF LogInv
    <3>2. role'[m] = "standby" /\ hand'[m] = hand[m]
      BY <1>4, <2>2, <3>1 DEF LogInv, ReplicaInv
    <3>3. Serves(m)
      BY DEF LogInv, ReplicaInv
    <3> QED BY <3>1, <3>2, <3>3, StandbyServes
  <2> QED BY <2>1, <2>2
<1>10. lastSeq' \in [Nodes -> Nat]
  BY <1>4 DEF LogInv, ReplicaInv
<1>11. ReplicaInv'
  BY <1>4, <1>8, <1>9, <1>10 DEF LogInv, ReplicaInv
<1> QED BY <1>2, <1>3, <1>4, <1>7, <1>11

LEMMA ProcessStep ==
  ASSUME LogInv, NEW n \in Nodes, Process(n)
  PROVE  /\ DiskInv' /\ ReplicaInv'
         /\ Loaded(n) /\ engine'[n] = history /\ confirmed' = history /\ history' = history
         /\ UNCHANGED role
<1>1. hand[n] \in Deliveries /\ Holding(n, "logged")
  BY DEF Process, Holding, LogInv, ReplicaInv
<1>2. role[n] \in {"active", "stopping"} /\ history = Append(engine[n], hand[n].cmd)
  BY <1>1 DEF LogInv, ReplicaInv, Serves
<1>3. Loaded(n) /\ lastSeq[n] = Len(history)
  BY <1>2 DEF LogInv, ReplicaInv, Serves, Loaded
<1>4. history \in Seq(Commands) /\ Len(history) \in Nat
  BY LenProperties DEF LogInv, DiskInv
<1>5. /\ engine' = [engine EXCEPT ![n] = history]
      /\ engine'[n] = history /\ confirmed' = history
      /\ hand' = [hand EXCEPT ![n].stage = "done"]
      /\ UNCHANGED <<role, lastSeq, wal, snap, history, queue>>
  BY <1>2 DEF Process, LogInv, ReplicaInv, diskVars, queueVars
<1>6. DiskInv'
  <2>1. IsPrefix(history, history)
    BY <1>4 DEF IsPrefix
  <2> QED BY <1>5, <2>1 DEF LogInv, DiskInv, Numbered, Reaches
<1>7. hand' \in [Nodes -> Deliveries \cup {Nothing}] /\ hand'[n].stage = "done"
  <2>1. hand \in [Nodes -> Deliveries \cup {Nothing}]
    BY DEF LogInv, ReplicaInv
  <2>2. [hand[n] EXCEPT !.stage = "done"] \in Deliveries
        /\ [hand[n] EXCEPT !.stage = "done"].stage = "done"
    BY <1>1 DEF Deliveries
  <2>3. hand' = [hand EXCEPT ![n] = [hand[n] EXCEPT !.stage = "done"]]
    BY <1>5
  <2> QED BY <2>1, <2>2, <2>3
<1>8. ASSUME NEW m \in Nodes PROVE Serves(m)'
  <2>1. CASE m = n
    BY <1>2, <1>3, <1>5, <1>7, <2>1 DEF Serves, Holding
  <2>2. CASE m # n
    <3>1. role[m] = "standby"
      BY <1>2, <2>2, OthersStandBy DEF LogInv
    <3>2. role'[m] = "standby" /\ hand'[m] = hand[m]
      BY <1>5, <2>2, <3>1 DEF LogInv, ReplicaInv
    <3>3. Serves(m)
      BY DEF LogInv, ReplicaInv
    <3> QED BY <3>1, <3>2, <3>3, StandbyServes
  <2> QED BY <2>1, <2>2
<1>9. engine' \in [Nodes -> Seq(Commands)]
  BY <1>4, <1>5 DEF LogInv, ReplicaInv
<1>10. ReplicaInv'
  BY <1>5, <1>7, <1>8, <1>9 DEF LogInv, ReplicaInv
<1> QED BY <1>3, <1>5, <1>6, <1>10

\* Deliveries that come and go, but for the one the log already has.
LEMMA HandStep ==
  ASSUME LogInv, NEW n \in Nodes, ~Holding(n, "logged"),
         NEW d \in Deliveries \cup {Nothing}, d # Nothing => d.stage # "logged",
         hand' = [hand EXCEPT ![n] = d], queue' \in Seq(Commands),
         UNCHANGED <<role, engine, lastSeq, diskVars, history, confirmed>>
  PROVE  DiskInv' /\ ReplicaInv'
<1>1. DiskInv'
  BY DiskFrame DEF LogInv
<1>2. hand' \in [Nodes -> Deliveries \cup {Nothing}] /\ hand'[n] = d
  BY DEF LogInv, ReplicaInv
<1>3. ASSUME NEW m \in Nodes PROVE Serves(m)'
  <2>1. Serves(m)
    BY DEF LogInv, ReplicaInv
  <2>2. CASE m = n
    BY <1>2, <2>1, <2>2 DEF Serves, Loaded, Holding, diskVars
  <2>3. CASE m # n
    <3>1. hand'[m] = hand[m] /\ UNCHANGED <<snap, history>>
      BY <2>3 DEF LogInv, ReplicaInv, diskVars
    <3> QED BY <2>1, <3>1, ServesFrame
  <2> QED BY <2>2, <2>3
<1> QED BY <1>1, <1>2, <1>3 DEF LogInv, ReplicaInv

LEMMA RequeuedIs ==
  ASSUME ReplicaInv, NEW n \in Nodes
  PROVE  Requeued(n) \in Seq(Commands)
<1>1. CASE hand[n] = Nothing
  BY <1>1 DEF Requeued, ReplicaInv
<1>2. CASE hand[n] # Nothing
  <2>1. hand[n].cmd \in Commands /\ queue \in Seq(Commands)
    BY <1>2 DEF ReplicaInv, Deliveries
  <2>2. <<hand[n].cmd>> \in Seq(Commands)
    BY <2>1
  <2>3. <<hand[n].cmd>> \o queue \in Seq(Commands)
    BY <2>1, <2>2, ConcatProperties
  <2> QED BY <1>2, <2>3 DEF Requeued
<1> QED BY <1>1, <1>2

LEMMA ConsumeStep ==
  ASSUME LogInv, NEW n \in Nodes, Deliver(n) \/ Ack(n) \/ Drop(n) \/ Close(n)
  PROVE  DiskInv' /\ ReplicaInv' /\ UNCHANGED <<role, engine, history, confirmed>>
<1>1. CASE Deliver(n)
  <2>1. Head(queue) \in Commands /\ Tail(queue) \in Seq(Commands)
    BY <1>1, HeadTailProperties DEF Deliver, LogInv, ReplicaInv
  <2> DEFINE d == [cmd |-> Head(queue), stage |-> "received"]
  <2>2. d \in Deliveries /\ d.stage # "logged"
    BY <2>1 DEF Deliveries
  <2>3. ~Holding(n, "logged") /\ hand' = [hand EXCEPT ![n] = d] /\ queue' = Tail(queue)
        /\ UNCHANGED <<role, engine, lastSeq, diskVars, history, confirmed>>
    BY <1>1 DEF Deliver, Holding
  <2> HIDE DEF d
  <2> QED BY <2>1, <2>2, <2>3, HandStep
<1>2. CASE Ack(n) \/ Drop(n) \/ Close(n)
  <2>1. ~Holding(n, "logged") /\ hand' = [hand EXCEPT ![n] = Nothing]
        /\ UNCHANGED <<role, engine, lastSeq, diskVars, history, confirmed>>
    BY <1>2 DEF Ack, Drop, Close, Holding
  <2>2. queue' \in Seq(Commands)
    <3>1. queue' = queue \/ queue' = Requeued(n)
      BY <1>2 DEF Ack, Drop, Close, queueVars
    <3> QED BY <3>1, RequeuedIs DEF LogInv, ReplicaInv
  <2> QED BY <2>1, <2>2, HandStep
<1> QED BY <1>1, <1>2


LEMMA HaltStep ==
  ASSUME LogInv, NEW n \in Nodes, Halt(n)
  PROVE  /\ DiskInv' /\ ReplicaInv' /\ UNCHANGED <<history, confirmed>>
         /\ role' = [role EXCEPT ![n] = "standby"]
         /\ \A m \in Nodes : m # n => engine'[m] = engine[m]
<1>1. /\ role' = [role EXCEPT ![n] = "standby"] /\ hand' = [hand EXCEPT ![n] = Nothing]
      /\ engine' = [engine EXCEPT ![n] = <<>>] /\ lastSeq' = [lastSeq EXCEPT ![n] = 0]
      /\ queue' = Requeued(n) /\ UNCHANGED <<diskVars, history, confirmed>>
  BY DEF Halt, Gone
<1>2. DiskInv'
  BY <1>1, DiskFrame DEF LogInv
<1>3. queue' \in Seq(Commands)
  BY <1>1, RequeuedIs DEF LogInv
<1>4. /\ hand' \in [Nodes -> Deliveries \cup {Nothing}]
      /\ engine' \in [Nodes -> Seq(Commands)] /\ lastSeq' \in [Nodes -> Nat]
  BY <1>1 DEF LogInv, ReplicaInv
<1>5. ASSUME NEW m \in Nodes PROVE Serves(m)'
  <2>1. Serves(m)
    BY DEF LogInv, ReplicaInv
  <2>2. CASE m = n
    <3>1. role'[n] = "standby" /\ hand'[n] = Nothing
      BY <1>1 DEF LogInv, ClusterInv, RoleInv, ReplicaInv
    <3> QED BY <2>2, <3>1 DEF Serves, Loaded, Holding
  <2>3. CASE m # n
    <3>1. role'[m] = role[m] /\ hand'[m] = hand[m] /\ engine'[m] = engine[m]
          /\ lastSeq'[m] = lastSeq[m] /\ UNCHANGED <<snap, history>>
      BY <1>1, <2>3 DEF LogInv, ClusterInv, RoleInv, ReplicaInv, diskVars
    <3> QED BY <2>1, <3>1, ServesFrame
  <2> QED BY <2>2, <2>3
<1>6. ReplicaInv'
  BY <1>3, <1>4, <1>5 DEF ReplicaInv
<1>7. \A m \in Nodes : m # n => engine'[m] = engine[m]
  BY <1>1 DEF LogInv, ReplicaInv
<1> QED BY <1>1, <1>2, <1>6, <1>7

\* What leaves the replicas alone, but for what the broker gets.
LEMMA QuietStep ==
  ASSUME LogInv, UNCHANGED <<role, hand, engine, lastSeq, diskVars, history, confirmed>>,
         queue' \in Seq(Commands)
  PROVE  DiskInv' /\ ReplicaInv'
<1>1. DiskInv'
  BY DiskFrame DEF LogInv
<1>2. ASSUME NEW m \in Nodes PROVE Serves(m)'
  BY ServesFrame DEF LogInv, ReplicaInv, diskVars
<1> QED BY <1>1, <1>2 DEF LogInv, ReplicaInv

\* What a poll that neither loads, replays, saves nor truncates does to a replica.
LEMMA RoleMoves ==
  ASSUME LogInv, NEW n \in Nodes, Promote(n) \/ StopConsumer(n)
  PROVE  /\ DiskInv' /\ ReplicaInv' /\ UNCHANGED <<engine, history, confirmed>>
         /\ \A m \in Nodes : Loaded(m)' <=> Loaded(m)
<1>1. UNCHANGED <<hand, engine, lastSeq, diskVars, queue, history, confirmed>>
  BY DEF Promote, StopConsumer, queueVars
<1>2. DiskInv'
  BY <1>1, DiskFrame DEF LogInv
<1>3. \/ role[n] = "standby" /\ role'[n] = "promoted"
      \/ role[n] = "active" /\ role'[n] = "stopping"
  BY DEF Promote, StopConsumer, LogInv, ClusterInv, RoleInv
<1>4. \A m \in Nodes : m # n => role'[m] = role[m]
  BY DEF Promote, StopConsumer, LogInv, ClusterInv, RoleInv
<1>5. ASSUME NEW m \in Nodes PROVE Serves(m)'
  <2>1. Serves(m)
    BY DEF LogInv, ReplicaInv
  <2>2. CASE m = n
    BY <1>1, <1>3, <2>1, <2>2 DEF Serves, Loaded, Holding, diskVars
  <2>3. CASE m # n
    BY <1>1, <1>4, <2>1, <2>3, ServesFrame DEF diskVars
  <2> QED BY <2>2, <2>3
<1>6. ReplicaInv'
  BY <1>1, <1>5 DEF LogInv, ReplicaInv
<1>7. \A m \in Nodes : Loaded(m)' <=> Loaded(m)
  BY <1>3, <1>4 DEF Loaded
<1> QED BY <1>1, <1>2, <1>6, <1>7

LEMMA LogStep ==
  ASSUME MaxRestarts = 0, LogInv, [ClusterNext]_vars
  PROVE  LogInv'
<1>1. ClusterInv'
  BY ClusterStep DEF LogInv
<1>2. CASE ElectionStep
  BY <1>1, <1>2, QuietStep DEF ElectionStep, replicaVars, queueVars, LogInv, ReplicaInv
<1>3. ASSUME NEW n \in Nodes, Monitor(n) PROVE LogInv'
  BY <1>1, <1>3, RoleMoves, LoadStep, ReplayStep, SaveStep, TruncateStep DEF Monitor, LogInv
<1>4. ASSUME NEW n \in Nodes, Consume(n) PROVE LogInv'
  BY <1>1, <1>4, ConsumeStep, LogCommandStep, ProcessStep DEF Consume, LogInv
<1>5. ASSUME NEW n \in Nodes, Terminate(n) PROVE LogInv'
  BY <1>1, <1>5, QuietStep DEF Terminate, queueVars, LogInv, ReplicaInv
<1>6. ASSUME NEW n \in Nodes, Halt(n) PROVE LogInv'
  BY <1>1, <1>6, HaltStep DEF LogInv
<1>7. ASSUME NEW c \in Commands, Publish(c) PROVE LogInv'
  <2>1. queue' \in Seq(Commands)
    BY <1>7, AppendProperties DEF Publish, LogInv, ReplicaInv
  <2> QED BY <1>1, <1>7, <2>1, QuietStep DEF Publish, replicaVars, LogInv
<1>8. CASE Expire
  <2>1. queue' \in Seq(Commands)
    BY <1>8, HeadTailProperties DEF Expire, LogInv, ReplicaInv
  <2> QED BY <1>1, <1>8, <2>1, QuietStep DEF Expire, replicaVars, LogInv
<1>9. CASE UNCHANGED vars
  BY <1>1, <1>9, QuietStep DEF vars, replicaVars, queueVars, LogInv, ReplicaInv
<1> QED BY <1>2, <1>3, <1>4, <1>5, <1>6, <1>7, <1>8, <1>9 DEF ClusterNext

\* If replicas only stop, whoever comes next finds every confirmed command, in its
\* order, in snapshot and log, at every instant of every failover and handover.
THEOREM RecoveryFindsConfirmed ==
  ASSUME MaxRestarts = 0
  PROVE  ClusterSpec => []ConfirmedRecoverable
<1>1. LogInv /\ [ClusterNext]_vars => LogInv'
  BY LogStep
<1>2. LogInv => ConfirmedRecoverable
  <2> SUFFICES ASSUME LogInv PROVE ConfirmedRecoverable
    OBVIOUS
  <2>1. Replayed(wal, snap.state, snap.seq).state = history
    BY ReplayIs DEF LogInv
  <2> QED BY <2>1 DEF ConfirmedRecoverable, LogInv, DiskInv
<1> QED BY LogStart, <1>1, <1>2, PTL DEF ClusterSpec


-----------------------------------------------------------------------------
(* The replicas are one durable log. *)

\* What the mapping shows of a replica with engines, before and after a step.
LEMMA ViewIs ==
  ASSUME ClusterInv, NEW n \in Nodes, Loaded(n)
  PROVE  Running /\ View = engine[n]
<1>1. \A m \in Nodes : Loaded(m) => m = n
  BY OthersStandBy DEF Loaded
<1>2. (CHOOSE m \in Nodes : Loaded(m)) = n
  BY <1>1
<1>3. Running
  BY DEF Running
<1> QED BY <1>2, <1>3 DEF View

LEMMA NextViewIs ==
  ASSUME NEW n \in Nodes, Loaded(n)', \A m \in Nodes : m # n => role'[m] = "standby"
  PROVE  Running' /\ View' = engine'[n]
<1>1. \A m \in Nodes : Loaded(m)' => m = n
  BY DEF Loaded
<1>2. (CHOOSE m \in Nodes : Loaded(m)') = n
  BY <1>1
<1>3. Running'
  BY DEF Running
<1> QED BY <1>2, <1>3 DEF View

LEMMA NoView ==
  /\ (\A m \in Nodes : ~Loaded(m)) => Running = FALSE /\ View = <<>>
  /\ (\A m \in Nodes : ~Loaded(m)') => Running' = FALSE /\ View' = <<>>
<1>1. (\A m \in Nodes : ~Loaded(m)) => ~Running
  BY DEF Running
<1>2. (\A m \in Nodes : ~Loaded(m)') => ~Running'
  BY DEF Running
<1> QED BY <1>1, <1>2 DEF View

\* The same replica has the same engine.
LEMMA SameView ==
  ASSUME \A m \in Nodes : Loaded(m)' <=> Loaded(m),
         \A m \in Nodes : Loaded(m) => engine'[m] = engine[m]
  PROVE  UNCHANGED <<Running, View>>
<1>1. (Running' <=> Running) /\ Running \in BOOLEAN /\ Running' \in BOOLEAN
  BY DEF Running
<1>2. (CHOOSE m \in Nodes : Loaded(m)') = (CHOOSE m \in Nodes : Loaded(m))
  BY Zenon
<1>3. CASE Running
  <2>1. PICK n \in Nodes : Loaded(n)
    BY <1>3 DEF Running
  <2>2. (CHOOSE m \in Nodes : Loaded(m)) \in Nodes /\ Loaded(CHOOSE m \in Nodes : Loaded(m))
    BY <2>1
  <2> QED BY <1>1, <1>2, <1>3, <2>2 DEF View
<1>4. CASE ~Running
  BY <1>1, <1>4 DEF View
<1> QED BY <1>3, <1>4

LEMMA LogMapsInit == ClusterInit => Log!Init
<1> SUFFICES ASSUME ClusterInit PROVE Log!Init
  OBVIOUS
<1>1. \A m \in Nodes : ~Loaded(m)
  BY DEF ClusterInit, Loaded
<1> QED BY <1>1, NoView DEF ClusterInit, Log!Init

LEMMA LogMapsStep ==
  ASSUME MaxRestarts = 0, LogInv, [ClusterNext]_vars
  PROVE  [Log!Next]_(Log!vars)
<1>0. ClusterInv /\ ClusterInv'
  BY ClusterStep DEF LogInv
<1>a. ASSUME UNCHANGED <<role, engine, history, confirmed>> PROVE [Log!Next]_(Log!vars)
  BY <1>a, SameView DEF Loaded, Log!vars
<1>1. CASE ElectionStep
  BY <1>1, <1>a DEF ElectionStep, replicaVars
<1>2. ASSUME NEW n \in Nodes, Promote(n) \/ StopConsumer(n) PROVE [Log!Next]_(Log!vars)
  BY <1>2, RoleMoves, SameView DEF Log!vars
<1>3. ASSUME NEW n \in Nodes, LoadSnapshot(n) PROVE [Log!Next]_(Log!vars)
  <2>1. role[n] = "promoted" /\ role' = [role EXCEPT ![n] = "loading"]
        /\ UNCHANGED <<history, confirmed>>
    BY <1>3 DEF LoadSnapshot
  <2>2. \A m \in Nodes : ~Loaded(m) /\ ~Loaded(m)'
    BY <1>0, <2>1, OthersStandBy DEF Loaded, ClusterInv, RoleInv
  <2> QED BY <2>1, <2>2, NoView DEF Log!vars
<1>4. ASSUME NEW n \in Nodes, ReplayLog(n) PROVE Log!Recover
  <2>1. role[n] = "loading" /\ role' = [role EXCEPT ![n] = "active"] /\ UNCHANGED confirmed
    BY <1>4 DEF ReplayLog
  <2>2. \A m \in Nodes : ~Loaded(m) /\ (m # n => role'[m] = "standby")
    BY <1>0, <2>1, OthersStandBy DEF Loaded, ClusterInv, RoleInv
  <2>3. Loaded(n)' /\ history' = history /\ engine'[n] = history
    BY <1>0, <1>4, <2>1, ReplayStep DEF Loaded, ClusterInv, RoleInv, LogInv, ReplicaInv
  <2>4. Running = FALSE /\ Running' = TRUE /\ View' = history
    BY <2>2, <2>3, NoView, NextViewIs
  <2>5. Len(history) \in Len(confirmed)..Len(history) /\ SubSeq(history, 1, Len(history)) = history
    BY LenProperties, SubSeqFull DEF LogInv, DiskInv, IsPrefix
  <2> QED BY <2>1, <2>3, <2>4, <2>5 DEF Log!Recover
<1>5. ASSUME NEW n \in Nodes, SaveSnapshot(n) PROVE [Log!Next]_(Log!vars)
  <2>1. role[n] = "stopping" /\ role' = [role EXCEPT ![n] = "saved"]
        /\ UNCHANGED <<engine, history, confirmed>>
    BY <1>5 DEF SaveSnapshot
  <2>2. \A m \in Nodes : Loaded(m)' <=> Loaded(m)
    BY <1>0, <2>1 DEF Loaded, ClusterInv, RoleInv
  <2> QED BY <2>1, <2>2, SameView DEF Log!vars
<1>6. ASSUME NEW n \in Nodes, Loaded(n), role' = [role EXCEPT ![n] = "standby"],
             UNCHANGED <<history, confirmed>>
      PROVE  Log!Stop
  <2>1. \A m \in Nodes : ~Loaded(m)'
    BY <1>0, <1>6, OthersStandBy DEF Loaded, ClusterInv, RoleInv
  <2>2. Running
    BY <1>6 DEF Running
  <2> QED BY <1>6, <2>1, <2>2, NoView DEF Log!Stop
<1>7. ASSUME NEW n \in Nodes, TruncateLog(n) PROVE Log!Stop
  BY <1>6, <1>7 DEF TruncateLog, Loaded
<1>8. ASSUME NEW n \in Nodes, LogCommand(n) PROVE \E c \in Commands : Log!Accept(c)
  <2>1. /\ Loaded(n) /\ engine[n] = history
        /\ hand[n].cmd \in Commands /\ history' = Append(history, hand[n].cmd)
    BY <1>8, LogCommandStep
  <2>2. UNCHANGED <<role, engine, confirmed>>
    BY <1>8 DEF LogCommand
  <2>3. Running /\ View = history
    BY <1>0, <2>1, ViewIs
  <2>4. UNCHANGED <<Running, View>>
    BY <2>2, SameView DEF Loaded
  <2>5. Log!Accept(hand[n].cmd)
    BY <2>1, <2>2, <2>3, <2>4 DEF Log!Accept
  <2> QED BY <2>1, <2>5
<1>9. ASSUME NEW n \in Nodes, Process(n) PROVE Log!Confirm
  <2>1. /\ Loaded(n) /\ engine'[n] = history /\ confirmed' = history /\ history' = history
        /\ role' = role
    BY <1>9, ProcessStep
  <2>2. Running /\ \A m \in Nodes : m # n => role'[m] = "standby"
    BY <1>0, <2>1, ViewIs, OthersStandBy DEF Loaded
  <2>3. Running' /\ View' = history
    BY <2>1, <2>2, NextViewIs DEF Loaded
  <2>4. Running' = Running
    BY <2>2, <2>3 DEF Running
  <2> QED BY <2>1, <2>2, <2>3, <2>4 DEF Log!Confirm
<1>10. ASSUME NEW n \in Nodes, Deliver(n) \/ Ack(n) \/ Drop(n) \/ Close(n)
       PROVE  [Log!Next]_(Log!vars)
  BY <1>10, <1>a, ConsumeStep
<1>11. ASSUME NEW n \in Nodes, Terminate(n) PROVE [Log!Next]_(Log!vars)
  BY <1>11, <1>a DEF Terminate
<1>12. ASSUME NEW n \in Nodes, Halt(n) PROVE [Log!Next]_(Log!vars)
  <2>1. /\ role' = [role EXCEPT ![n] = "standby"] /\ UNCHANGED <<history, confirmed>>
        /\ \A m \in Nodes : m # n => engine'[m] = engine[m]
    BY <1>12, HaltStep
  <2>2. CASE Loaded(n)
    BY <1>6, <2>1, <2>2 DEF Log!Next
  <2>3. CASE ~Loaded(n)
    <3>1. \A m \in Nodes : (Loaded(m)' <=> Loaded(m)) /\ (Loaded(m) => m # n)
      BY <1>0, <2>1, <2>3 DEF Loaded, ClusterInv, RoleInv
    <3> QED BY <2>1, <3>1, SameView DEF Log!vars
  <2> QED BY <2>2, <2>3
<1>13. ASSUME NEW c \in Commands, Publish(c) PROVE [Log!Next]_(Log!vars)
  BY <1>13, <1>a DEF Publish, replicaVars
<1>14. CASE Expire
  BY <1>14, <1>a DEF Expire, replicaVars
<1>15. CASE UNCHANGED vars
  BY <1>15, <1>a DEF vars, replicaVars
<1> QED
  BY <1>1, <1>2, <1>3, <1>4, <1>5, <1>7, <1>8, <1>9, <1>10, <1>11, <1>12, <1>13, <1>14, <1>15
  DEF ClusterNext, Monitor, Consume, Log!Next

\* If replicas only stop, any succession of leaders over the shared log behaves as
\* one durable log does: what was confirmed stays, in its order, and whoever leads
\* answers from all of it.
THEOREM ClusterImplementsDurableLog ==
  ASSUME MaxRestarts = 0
  PROVE  ClusterSpec => ImplementsDurableLog
<1>1. LogInv /\ [ClusterNext]_vars => LogInv' /\ [Log!Next]_(Log!vars)
  BY LogStep, LogMapsStep
<1> QED BY LogStart, LogMapsInit, <1>1, PTL DEF ClusterSpec, ImplementsDurableLog, Log!Spec
=============================================================================
