---------------------------- MODULE MCBlockchain ----------------------------
(* Alice is credited, by the RPC that needs no queue or by a command, and  *)
(* wants to spend more than she has.                                       *)
EXTENDS BlockchainNode

Credit == [id |-> "c", sender |-> "", receiver |-> "alice", amount |-> 1]
Legacy == [id |-> "", sender |-> "", receiver |-> "bob", amount |-> 1]
Spend(id) == [id |-> id, sender |-> "alice", receiver |-> "bob", amount |-> 1]

\* Enough for either payment, and for one of them delivered twice, but not for both.
Funding == [Legacy EXCEPT !.receiver = "alice", !.amount = 2]
MCPayments == <<Funding, Spend("t1"), [Spend("t2") EXCEPT !.amount = 2]>>

MCRequests == <<Legacy, Credit, Spend("t1"), Spend("t2")>>
MCQueued == <<Credit, Spend("t1"), Spend("t2")>>
MCLegacy == <<Legacy, Legacy, Credit>>
MCSpent == <<Credit, Spend("t1")>>
MCCredit == <<Credit>>
MCTwo == 1..2
MCThree == 1..3
MCTimes == {1}

\* Once a node has restarted, no third request is explored. RequestsSettled says
\* nothing of these behaviors, so cutting them off does not weaken it.
RestartsAreEarly == Never("restart") \/ requested <= 2

MCFaults == FaultKinds
MCRestart == {"crash", "restart", "loss"}
MCNoRestart == FaultKinds \ {"restart"}
MCHandling == {"crash", "loss", "publish", "overlap"}
MCOverlap == {"crash", "overlap"}
=============================================================================
