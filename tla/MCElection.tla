----------------------------- MODULE MCElection -----------------------------
(* Three replicas, as in docker-compose.yml. *)
EXTENDS Election

MCNodes == 1..3
=============================================================================
