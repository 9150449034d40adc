----------------------------- MODULE MCScheduler -----------------------------
(* Small instances of Scheduler for TLC. *)
EXTENDS Scheduler

CONSTANTS j1, j2, j3

MCCreated == [j \in Jobs |-> CASE j = j1 -> 1 [] j = j2 -> 2 [] j = j3 -> 3]
=============================================================================
