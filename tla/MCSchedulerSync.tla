-------------------------- MODULE MCSchedulerSync --------------------------
(* A finite instance of SchedulerSync: one process, as docker-compose runs it, *)
(* with two synchronisations that may overlap.                                 *)
EXTENDS SchedulerSync

CONSTANT i1

MCHome == [r \in Runs |-> i1]
=============================================================================
