---------------------------- MODULE JobLifecycle ----------------------------
(***************************************************************************)
(* What the job substrate promises of one job, whatever stores it and      *)
(* whoever drives it: the job is created once, moves only along            *)
(* ALLOWED_TRANSITIONS, counts its entries into "executing", every         *)
(* operation identifier takes effect at most once, and what it recorded    *)
(* then is never replaced.                                                 *)
(***************************************************************************)
EXTENDS JobContracts

CONSTANT Operations   \* operation identifiers

VARIABLES
  state,      \* a JobState, or "absent" before the job is created
  attempts,   \* entries into "executing"
  results     \* of each operation what it recorded: a set, empty before it took effect

lifecycleVars == <<state, attempts, results>>

LifecycleTypeOK ==
  /\ state \in JobState \cup {"absent"}
  /\ attempts \in Nat
  /\ DOMAIN results = Operations

\* The job does not exist or was not executed yet.
LifecycleInit ==
  /\ state \in {"absent", "queued", "claimed"}
  /\ attempts = 0
  /\ results = [op \in Operations |-> {}]

Fresh(op) == results[op] = {}

Consume(op) ==
  /\ Fresh(op)
  /\ DOMAIN results' = Operations
  /\ results'[op] # {}
  /\ \A other \in Operations \ {op} : results'[other] = results[other]

Create(op) ==
  /\ state = "absent"
  /\ state' = "queued"
  /\ UNCHANGED attempts
  /\ Consume(op)

Move(op) ==
  /\ state # "absent"
  /\ state' \in ALLOWED_TRANSITIONS[state]
  /\ attempts' = IF state' = "executing" THEN attempts + 1 ELSE attempts
  /\ Consume(op)

\* An operation whose effect is a persisted result, not a transition.
Annotate(op) ==
  /\ state # "absent"
  /\ UNCHANGED <<state, attempts>>
  /\ Consume(op)

LifecycleNext == \E op \in Operations : Create(op) \/ Move(op) \/ Annotate(op)

LifecycleSpec == LifecycleInit /\ [][LifecycleNext]_lifecycleVars
=============================================================================
