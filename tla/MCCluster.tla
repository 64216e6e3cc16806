----------------------------- MODULE MCCluster -----------------------------
(* Two replicas and two commands: one failover, or an orderly handover. *)
EXTENDS MatchingCluster

MCNodes == 1..2
=============================================================================
