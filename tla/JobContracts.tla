---------------------------- MODULE JobContracts ----------------------------
(***************************************************************************)
(* The lifecycle contract of autonomy/contracts.py: the states of a job,   *)
(* the transitions between them and what a transition does to the job.     *)
(* Of a job record only the state and the attempt counter are kept; the    *)
(* repository, the request, the timestamps and the schema version never    *)
(* influence a decision.                                                   *)
(***************************************************************************)
EXTENDS Integers

TERMINAL_STATES == {"completed", "blocked", "failed", "cancelled"}

JobState == {"queued", "claimed", "executing", "validating", "reviewing",
             "approved", "merging"} \cup TERMINAL_STATES

\* The exits every owned, unfinished state has.
Exits == {"blocked", "failed", "cancelled"}

ALLOWED_TRANSITIONS ==
  [s \in JobState |->
     CASE s = "queued"     -> {"claimed", "cancelled"}
       [] s = "claimed"    -> {"executing"} \cup Exits
       [] s = "executing"  -> {"validating"} \cup Exits
       [] s = "validating" -> {"reviewing", "executing"} \cup Exits
       [] s = "reviewing"  -> {"approved", "executing"} \cup Exits
       [] s = "approved"   -> {"merging"} \cup Exits
       [] s = "merging"    -> {"completed"} \cup Exits
       [] OTHER            -> {}]

Job == [state : JobState, attempts : Nat]

NewJob == [state |-> "queued", attempts |-> 0]

\* Mutant: any change of state is allowed.
CanTransitionAnywhere(job, target) == target # job.state

CanTransition(job, target) == target \in ALLOWED_TRANSITIONS[job.state]

\* Mutant: every transition counts as an attempt.
TransitionedCounting(job, target) ==
  [state |-> target, attempts |-> job.attempts + 1]

\* Job.transition: entering "executing" is what counts as an attempt.
Transitioned(job, target) ==
  [state    |-> target,
   attempts |-> IF target = "executing" THEN job.attempts + 1 ELSE job.attempts]
=============================================================================
