------------------------------ MODULE Pipeline ------------------------------
(***************************************************************************)
(* One job driven through the dry-run pipeline: the orchestrator           *)
(* dispatches the Worker, the Reviewer or the Merger by the job's          *)
(* persisted state, and every agent is a sequence of separate writes to    *)
(* the store, under operation identifiers derived from the job.  Between   *)
(* two writes GitHub may change, the operator may use the CLI and the      *)
(* process may die; what it held in memory is then gone.                   *)
(*                                                                         *)
(* Each store call is one step (JobStore shows when that is sound).  Every *)
(* identifier is prefixed by the job's, so jobs do not interact and one    *)
(* job is enough.                                                          *)
(***************************************************************************)
EXTENDS JobContracts

CONSTANTS
  Heads,         \* commits the pull request may point to
  PrStatuses,    \* what the pull request may be: see PrStatus
  Outcomes,      \* results the validation commands may have
  CliOps,        \* operation identifiers of the operator's CLI transitions
  CliTargets,    \* the states the operator asks for
  Fickle,        \* TRUE: the issue, the pull request and the checks may change
  Raising,       \* TRUE: the CommandRunner of the validation may raise
  CrashAt,       \* the points of a run at which the process may die
  MaxCrashes,    \* bound on crashes
  MaxDispatches, \* run_to_terminal's max_dispatches
  None

\* "rebased": open and not a draft, but not on the default branch.
PrStatus == {"ready", "draft", "closed", "rebased"}

ValidationStatus ==
  {"passed", "failed", "timed_out", "unavailable", "infrastructure_error"}

\* The transition operations, without the prefix "<job_id>:<agent>:".
PipelineOps == {"claim", "claim-ineligible", "block-ineligible", "execute", "validate",
                "start-review", "approve", "start-merge", "complete"}

ASSUME PipelineAssumption ==
  /\ PrStatuses \subseteq PrStatus /\ "ready" \in PrStatuses
  /\ Heads # {}
  /\ Outcomes \subseteq ValidationStatus
  /\ CliOps \cap PipelineOps = {}    \* the operator leaves the agents' identifiers alone
  /\ CliTargets \subseteq JobState
  /\ Fickle \in BOOLEAN /\ Raising \in BOOLEAN
  /\ MaxCrashes \in Nat
  /\ MaxDispatches \in Nat \ {0}
  /\ None \notin Heads /\ None \notin ValidationStatus /\ None \notin JobState
  /\ None \notin {"plan", "ineligible", "result"}
  /\ None \notin [ok : BOOLEAN, head : Heads]
  /\ None \notin [to : JobState, terminal : BOOLEAN]

VARIABLES
  state, attempts,  \* the job record
  done,             \* transition operations the store has recorded
  artifacts,        \* operation results the store has recorded
  dispatched,       \* dispatch results the store has recorded, by from_state
  github,           \* the issue, the pull request and its checks
  agent,            \* the dispatch in progress: program counter and locals
  intents,          \* DryRunMutationExecutor._results, in memory only
  crashes

store == <<state, attempts, done, artifacts, dispatched>>
world == <<github, intents, crashes>>    \* what most steps leave alone
vars == <<state, attempts, done, artifacts, dispatched, github, agent, intents, crashes>>

TransitionOps == PipelineOps \cup CliOps

Verdict == [ok : BOOLEAN, head : Heads]    \* a persisted review or decision

Artifact ==
  [plan : {"plan", None}, eligibility : {"ineligible", None},
   validation : ValidationStatus \cup {None},
   worker : {"result", None},
   review_report : Verdict \cup {None}, review : Verdict \cup {None},
   merge_report : Verdict \cup {None}, decision : Verdict \cup {None},
   merge : Heads \cup {None}]

Intent == [submit_review : Verdict \cup {None}, merge_pull_request : Heads \cup {None}]

Dispatch == [to : JobState, terminal : BOOLEAN]

WorkerAt == {"worker", "claim-ineligible", "may-block", "block", "eligibility", "claim",
             "may-execute", "execute", "plan", "may-validate", "validate",
             "run-validation", "worker-result"}
ReviewerAt == {"reviewer", "review-checks", "start-review", "review-report",
               "submit-review", "review-result", "may-approve", "approve"}
MergerAt == {"merger", "merge-checks", "merge-report", "merge-decision", "may-merge",
             "start-merge", "merge", "merge-result", "may-complete", "complete"}
Points == {"idle", "dispatch", "record-dispatch"} \cup WorkerAt \cup ReviewerAt \cup MergerAt

\* from: the state dispatch_once read; entered: the state the agent read;
\* head, ok: what it read of the pull request and concluded; left: the
\* dispatches run_to_terminal may still do, 0 for a plain dispatch_once.
Agent == [at : Points, from : JobState \cup {None}, entered : JobState \cup {None},
          head : Heads \cup {None}, ok : BOOLEAN, pr : BOOLEAN,
          left : 0 .. MaxDispatches]

Idle == [at |-> "idle", from |-> None, entered |-> None, head |-> None,
         ok |-> FALSE, pr |-> FALSE, left |-> 0]

NoArtifacts ==
  [plan |-> None, eligibility |-> None, validation |-> None, worker |-> None,
   review_report |-> None, review |-> None, merge_report |-> None,
   decision |-> None, merge |-> None]

NoIntents == [submit_review |-> None, merge_pull_request |-> None]

TypeOK ==
  /\ state \in JobState /\ attempts \in Nat
  /\ done \subseteq TransitionOps
  /\ artifacts \in Artifact
  /\ dispatched \in [JobState -> Dispatch \cup {None}]
  /\ github \in [eligible : BOOLEAN, pr : PrStatus, head : Heads, green : SUBSET Heads]
  /\ agent \in Agent
  /\ intents \in Intent
  /\ crashes \in 0 .. MaxCrashes

Init ==
  /\ state = "queued" /\ attempts = 0
  /\ done = {}
  /\ artifacts = NoArtifacts
  /\ dispatched = [s \in JobState |-> None]
  /\ github \in [eligible : IF Fickle THEN BOOLEAN ELSE {TRUE}, pr : {"ready"},
                 head : Heads, green : {Heads}]
  /\ agent = Idle
  /\ intents = NoIntents
  /\ crashes = 0

-----------------------------------------------------------------------------
(* The store calls an agent makes, each one step of the agent.             *)

At(point) == agent.at = point
Goto(point) == agent' = [agent EXCEPT !.at = point]

\* An exception: it ends the dispatch, and run_to_terminal with it.
Raise == agent' = Idle

Recorded(op) == op \in done

\* Mutant: the operation identifier is not looked up.
TransitionStoreAgain(target, op) ==
  /\ target \in ALLOWED_TRANSITIONS[state]
  /\ state' = target
  /\ attempts' = IF target = "executing" THEN attempts + 1 ELSE attempts
  /\ done' = done \cup {op}
  /\ UNCHANGED <<artifacts, dispatched>>

\* store.transition, as a state change.
TransitionStore(target, op) ==
  /\ ~Recorded(op)
  /\ target \in ALLOWED_TRANSITIONS[state]
  /\ state' = target
  /\ attempts' = IF target = "executing" THEN attempts + 1 ELSE attempts
  /\ done' = done \cup {op}
  /\ UNCHANGED <<artifacts, dispatched>>

\* store.transition, called by an agent: nothing to do when the operation was
\* recorded before, ValueError when the transition is not allowed.
StoreTransition(target, op, next) ==
  /\ \/ TransitionStore(target, op) /\ Goto(next)
     \/ Recorded(op) /\ Goto(next) /\ UNCHANGED store
     \/ /\ ~Recorded(op) /\ target \notin ALLOWED_TRANSITIONS[state]
        /\ Raise
        /\ UNCHANGED store
  /\ UNCHANGED world

\* An agent's _transition: nothing to do either when the job is there already.
AgentTransition(target, op, next) ==
  \/ state = target /\ Goto(next) /\ UNCHANGED <<store, world>>
  \/ state # target /\ StoreTransition(target, op, next)

\* An agent reads the job again before a transition it makes only from some
\* states: the transition is a later step, and the job may move in between.
Guarded(point, sources, transition, otherwise) ==
  /\ At(point)
  /\ Goto(IF state \in sources THEN transition ELSE otherwise)
  /\ UNCHANGED <<store, world>>

\* Mutant: a repeated run overwrites what it persisted before.
PersistArtifactAgain(name, payload) ==
  /\ artifacts' = [artifacts EXCEPT ![name] = payload]
  /\ UNCHANGED <<state, attempts, done, dispatched, world>>

\* An agent's _persist: the first result recorded for an operation stays.
PersistArtifact(name, payload) ==
  /\ artifacts' = IF artifacts[name] = None
                  THEN [artifacts EXCEPT ![name] = payload]
                  ELSE artifacts
  /\ UNCHANGED <<state, attempts, done, dispatched, world>>

Persist(name, payload, next) == PersistArtifact(name, payload) /\ Goto(next)

-----------------------------------------------------------------------------
(* DryRunWorkerAgent.run                                                   *)

WorkerStates == {"queued", "claimed", "executing", "validating"}

WorkerEnter ==
  /\ At("worker")
  /\ IF state \notin WorkerStates
     THEN Raise
     ELSE Goto(IF github.eligible
               THEN IF state = "queued" THEN "claim" ELSE "may-execute"
               ELSE IF state = "queued" THEN "claim-ineligible" ELSE "may-block")
  /\ UNCHANGED <<store, world>>

WorkerClaimIneligible ==
  At("claim-ineligible") /\ AgentTransition("claimed", "claim-ineligible", "may-block")

WorkerMayBlock == Guarded("may-block", WorkerStates \ {"queued"}, "block", "eligibility")

WorkerBlock == At("block") /\ StoreTransition("blocked", "block-ineligible", "eligibility")

\* The result is persisted, then the run ends in a WorkerError.
WorkerIneligible ==
  At("eligibility") /\ PersistArtifact("eligibility", "ineligible") /\ Raise

WorkerClaim == At("claim") /\ AgentTransition("claimed", "claim", "may-execute")

WorkerMayExecute == Guarded("may-execute", {"claimed"}, "execute", "plan")

WorkerExecute == At("execute") /\ AgentTransition("executing", "execute", "plan")

\* The plan; the claim, branch and pull-request intents that follow it are
\* in memory only and nothing reads them.
WorkerPlan == At("plan") /\ Persist("plan", "plan", "may-validate")

WorkerMayValidate == Guarded("may-validate", {"executing"}, "validate", "run-validation")

WorkerValidate ==
  At("validate") /\ AgentTransition("validating", "validate", "run-validation")

\* ValidationService.validate: a recorded run is reused, not repeated.
RunValidation ==
  /\ At("run-validation")
  /\ \E outcome \in Outcomes : Persist("validation", outcome, "worker-result")

WorkerResult == At("worker-result") /\ Persist("worker", "result", "record-dispatch")

Worker ==
  \/ WorkerEnter
  \/ WorkerClaimIneligible \/ WorkerMayBlock \/ WorkerBlock \/ WorkerIneligible
  \/ WorkerClaim \/ WorkerMayExecute \/ WorkerExecute \/ WorkerPlan
  \/ WorkerMayValidate \/ WorkerValidate \/ RunValidation \/ WorkerResult

-----------------------------------------------------------------------------
(* DryRunReviewerAgent.run                                                 *)

\* Mutant: the persisted validation is required but not looked at.
ReviewerEnterUnvalidated ==
  /\ At("reviewer")
  /\ IF /\ state \in {"validating", "reviewing", "approved"}
        /\ artifacts.worker # None
        /\ artifacts.validation # None
     THEN agent' = [agent EXCEPT !.at = "review-checks", !.entered = state,
                                 !.head = github.head,
                                 !.ok = github.pr \in {"ready", "rebased"}]
     ELSE Raise
  /\ UNCHANGED <<store, world>>

\* Mutant: a Reviewer that does not own its own intermediate state.
ReviewerEnterFirstTimeOnly ==
  /\ At("reviewer")
  /\ IF /\ state = "validating"
        /\ artifacts.worker # None
        /\ artifacts.validation # None
     THEN agent' = [agent EXCEPT
            !.at = "review-checks", !.entered = state, !.head = github.head,
            !.ok = artifacts.validation = "passed" /\ github.pr \in {"ready", "rebased"}]
     ELSE Raise
  /\ UNCHANGED <<store, world>>

\* Enter: state and artifact guards, then the pull request is read.
ReviewerEnter ==
  /\ At("reviewer")
  /\ IF /\ state \in {"validating", "reviewing", "approved"}
        /\ artifacts.worker # None
        /\ artifacts.validation # None
     THEN agent' = [agent EXCEPT
            !.at = "review-checks", !.entered = state, !.head = github.head,
            !.ok = artifacts.validation = "passed" /\ github.pr \in {"ready", "rebased"}]
     ELSE Raise
  /\ UNCHANGED <<store, world>>

\* The checks of the head that was read complete the findings.
ReviewerChecks ==
  /\ At("review-checks")
  /\ agent' = [agent EXCEPT
       !.at = IF agent.entered = "validating" THEN "start-review" ELSE "review-report",
       !.ok = agent.ok /\ agent.head \in github.green]
  /\ UNCHANGED <<store, world>>

Conclusion == [ok |-> agent.ok, head |-> agent.head]

ReviewerStart ==
  At("start-review") /\ AgentTransition("reviewing", "start-review", "review-report")

ReviewerReport ==
  At("review-report") /\ Persist("review_report", Conclusion, "submit-review")

\* DryRunMutationExecutor.execute: the first intent under an identifier stays.
Intend(name, payload, next) ==
  /\ intents' = IF intents[name] = None
                THEN [intents EXCEPT ![name] = payload] ELSE intents
  /\ Goto(next)
  /\ UNCHANGED <<store, github, crashes>>

ReviewerSubmit ==
  At("submit-review") /\ Intend("submit_review", Conclusion, "review-result")

ReviewerResult == At("review-result") /\ Persist("review", Conclusion, "may-approve")

ReviewerMayApprove ==
  Guarded("may-approve", IF agent.ok THEN {"reviewing"} ELSE {}, "approve", "record-dispatch")

ReviewerApprove ==
  At("approve") /\ AgentTransition("approved", "approve", "record-dispatch")

Reviewer ==
  \/ ReviewerEnter \/ ReviewerChecks \/ ReviewerStart \/ ReviewerReport
  \/ ReviewerSubmit \/ ReviewerResult \/ ReviewerMayApprove \/ ReviewerApprove

-----------------------------------------------------------------------------
(* DryRunMergerAgent.run                                                   *)

\* Mutant: the reviewed head is not compared with the current one.
MergerEnterAnyHead ==
  /\ At("merger")
  /\ IF /\ state \in {"approved", "merging"}
        /\ artifacts.review # None
        /\ artifacts.validation # None
     THEN agent' = [agent EXCEPT
            !.at = "merge-checks", !.entered = state, !.head = github.head,
            !.ok = /\ artifacts.review.ok
                   /\ artifacts.validation = "passed"
                   /\ github.pr = "ready"]
     ELSE Raise
  /\ UNCHANGED <<store, world>>

MergerEnter ==
  /\ At("merger")
  /\ IF /\ state \in {"approved", "merging"}
        /\ artifacts.review # None
        /\ artifacts.validation # None
     THEN agent' = [agent EXCEPT
            !.at = "merge-checks", !.entered = state, !.head = github.head,
            !.ok = /\ artifacts.review.ok
                   /\ artifacts.review.head = github.head
                   /\ artifacts.validation = "passed"
                   /\ github.pr = "ready"]
     ELSE Raise
  /\ UNCHANGED <<store, world>>

MergerChecks ==
  /\ At("merge-checks")
  /\ agent' = [agent EXCEPT !.at = "merge-report",
                            !.ok = agent.ok /\ agent.head \in github.green]
  /\ UNCHANGED <<store, world>>

MergerReport ==
  At("merge-report") /\ Persist("merge_report", Conclusion, "merge-decision")

\* Only an allowed decision goes on to merge.
MergerDecision ==
  /\ At("merge-decision")
  /\ Persist("decision", Conclusion,
             IF agent.ok THEN "may-merge" ELSE "record-dispatch")

MergerMayStart == Guarded("may-merge", {"approved"}, "start-merge", "merge")

MergerStart == At("start-merge") /\ AgentTransition("merging", "start-merge", "merge")

MergerMerge == At("merge") /\ Intend("merge_pull_request", agent.head, "merge-result")

MergerResult == At("merge-result") /\ Persist("merge", agent.head, "may-complete")

MergerMayComplete == Guarded("may-complete", {"merging"}, "complete", "record-dispatch")

MergerComplete ==
  At("complete") /\ AgentTransition("completed", "complete", "record-dispatch")

Merger ==
  \/ MergerEnter \/ MergerChecks \/ MergerReport \/ MergerDecision \/ MergerMayStart
  \/ MergerStart \/ MergerMerge \/ MergerResult \/ MergerMayComplete \/ MergerComplete

-----------------------------------------------------------------------------
(* DryRunOrchestrator                                                      *)

CallDispatchOnce ==
  /\ At("idle")
  /\ \E pr \in BOOLEAN : agent' = [Idle EXCEPT !.at = "dispatch", !.pr = pr]
  /\ UNCHANGED <<store, world>>

CallRunToTerminal ==
  /\ At("idle")
  /\ agent' = [Idle EXCEPT !.at = "dispatch", !.pr = TRUE, !.left = MaxDispatches]
  /\ UNCHANGED <<store, world>>

\* Mutant: the count of dispatches runs past its limit.
ReturnPastLimit(result, from) ==
  IF agent.left = 1 \/ result.terminal \/ state = from
  THEN agent' = Idle
  ELSE agent' = [Idle EXCEPT !.at = "dispatch", !.pr = TRUE, !.left = agent.left - 1]

\* dispatch_once returned: run_to_terminal stops on a terminal result, on no
\* progress since from was read, and after max_dispatches.
Return(result, from) ==
  IF agent.left <= 1 \/ result.terminal \/ state = from
  THEN agent' = Idle
  ELSE agent' = [Idle EXCEPT !.at = "dispatch", !.pr = TRUE, !.left = agent.left - 1]

\* This state was dispatched before: the stored result, and no agent.
DispatchCached ==
  /\ At("dispatch")
  /\ dispatched[state] # None
  /\ Return(dispatched[state], state)
  /\ UNCHANGED <<store, world>>

Owner ==
  CASE state \in {"queued", "claimed", "executing"} -> "worker"
    [] state \in {"validating", "reviewing"}        -> "reviewer"
    [] state \in {"approved", "merging"}            -> "merger"
    [] OTHER                                        -> "record-dispatch"

DispatchFresh ==
  /\ At("dispatch")
  /\ dispatched[state] = None
  /\ IF Owner \in {"reviewer", "merger"} /\ ~agent.pr
     THEN Raise
     ELSE agent' = [agent EXCEPT !.at = Owner, !.from = state]
  /\ UNCHANGED <<store, world>>

\* Mutant: whatever the Merger returns is terminal.
RecordDispatchMergerEnds ==
  LET from == agent.from
      result == [to |-> state,
                 terminal |-> from \in TERMINAL_STATES \cup {"approved", "merging"}]
  IN /\ At("record-dispatch")
     /\ dispatched' = IF dispatched[from] = None
                      THEN [dispatched EXCEPT ![from] = result] ELSE dispatched
     /\ UNCHANGED <<state, attempts, done, artifacts, world>>
     /\ Return(result, from)

RecordDispatch ==
  LET from == agent.from
      result == [to |-> state,
                 terminal |-> \/ from \in TERMINAL_STATES
                              \/ from \in {"approved", "merging"} /\ state = "completed"]
  IN /\ At("record-dispatch")
     /\ dispatched' = IF dispatched[from] = None
                      THEN [dispatched EXCEPT ![from] = result] ELSE dispatched
     /\ UNCHANGED <<state, attempts, done, artifacts, world>>
     /\ Return(result, from)

Orchestrator == DispatchCached \/ DispatchFresh \/ RecordDispatch

-----------------------------------------------------------------------------
(* What happens around the pipeline.                                       *)

\* The process that runs the orchestrator dies and is started again.
Crash ==
  /\ agent.at \in CrashAt
  /\ crashes < MaxCrashes
  /\ crashes' = crashes + 1
  /\ agent' = Idle
  /\ intents' = NoIntents
  /\ UNCHANGED <<store, github>>

\* autonomy.cli transition, run by the operator in another process.
OperatorTransition ==
  /\ \E op \in CliOps, target \in CliTargets : TransitionStore(target, op)
  /\ UNCHANGED <<github, agent, intents, crashes>>

GitHubChanges ==
  /\ Fickle
  /\ \/ github' = [github EXCEPT !.eligible = ~@]
     \/ \E pr \in PrStatuses \ {github.pr} : github' = [github EXCEPT !.pr = pr]
     \/ \E h \in Heads \ {github.head} : github' = [github EXCEPT !.head = h]
     \/ \E h \in Heads :
          github' = [github EXCEPT !.green = IF h \in @ THEN @ \ {h} ELSE @ \cup {h}]
  /\ UNCHANGED <<store, agent, intents, crashes>>

\* A read of GitHub raises: an unreachable host, a response without a field.
GitHubFails ==
  /\ Fickle
  /\ agent.at \in {"worker", "reviewer", "review-checks", "merger", "merge-checks"}
  /\ Raise
  /\ UNCHANGED <<store, world>>

\* A command of the validation cannot be run at all: the runner's exception ends
\* the Worker's run, and the process lives on.
ValidationRaises ==
  /\ Raising
  /\ At("run-validation") /\ artifacts.validation = None
  /\ Raise
  /\ UNCHANGED <<store, world>>

AgentStep == Worker \/ Reviewer \/ Merger \/ Orchestrator

Next ==
  \/ CallDispatchOnce
  \/ CallRunToTerminal
  \/ AgentStep
  \/ Crash
  \/ OperatorTransition
  \/ GitHubChanges
  \/ GitHubFails
  \/ ValidationRaises

Spec == Init /\ [][Next]_vars

\* A running dispatch goes on, and somebody keeps calling run_to_terminal.
FairSpec == Spec /\ WF_vars(AgentStep) /\ SF_vars(CallRunToTerminal)

-----------------------------------------------------------------------------
(* Safety.                                                                 *)

Approved(head) ==
  /\ artifacts.review # None /\ artifacts.review.ok /\ artifacts.review.head = head
  /\ artifacts.validation = "passed"

\* A merge, intended or recorded, is of a commit that a persisted review
\* approved after a persisted passing validation: neither a head pushed after
\* the review, nor a crash between the merger's writes, nor a resumed merge
\* can slip another commit in (merger.py run, reviewer.py run).
MergedHeadWasApproved ==
  \A head \in {artifacts.merge, intents.merge_pull_request} \ {None} : Approved(head)

\* The agents complete a job only after its merge is on record, and approve
\* one only after the Worker's result and a passing validation are.
LifecycleFollowsEvidence ==
  /\ "complete" \in done => artifacts.merge # None
  /\ "approve" \in done =>
       artifacts.worker # None /\ artifacts.validation = "passed"

\* A dispatch on record as terminal is of a job that stays terminal, and the
\* state it reports is the one the job has: run_to_terminal, which trusts a
\* recorded dispatch without running an agent, never returns early.
TerminalDispatchIsFinal ==
  \A s \in JobState :
    dispatched[s] # None /\ dispatched[s].terminal =>
      /\ dispatched[s].to \in TERMINAL_STATES
      /\ state = dispatched[s].to

\* What the agents persist about the job is written once: a resumed agent may
\* conclude otherwise, the record keeps the first conclusion (_persist of the
\* three agents and of the orchestrator).
EvidenceIsImmutable ==
  [][/\ \A a \in DOMAIN artifacts :
          artifacts[a] # None => artifacts'[a] = artifacts[a]
     /\ \A s \in JobState :
          dispatched[s] # None => dispatched'[s] = dispatched[s]]_vars

\* A job whose state belongs to an agent that refuses it: the results that the
\* Reviewer or the Merger requires are missing, and no Worker is about to
\* record them.
Stranded ==
  /\ agent.at \notin {"run-validation", "worker-result"}
  /\ \/ /\ state \in {"validating", "reviewing"}
        /\ None \in {artifacts.worker, artifacts.validation}
     \/ /\ state \in {"approved", "merging"}
        /\ None \in {artifacts.review, artifacts.validation}

\* As long as the operator leaves a job alone, one thing strands it, a Worker's run
\* that ends between the transition to validating and its result, because the
\* process dies or because the validation raises, and nothing the agents do
\* afterwards recovers it (worker.py run, the guards of reviewer.py and merger.py
\* run).
OnlyLostWorkerStrands ==
  [][done' \cap CliOps = {} =>
       /\ Stranded => Stranded'
       /\ ~Stranded /\ Stranded' =>
            /\ Crash \/ ValidationRaises
            /\ agent.at \in {"run-validation", "worker-result"}]_vars

\* The review on record did not approve.
Rejected == artifacts.review # None /\ ~artifacts.review.ok

\* A first review that does not approve is final: a later review may move the job
\* on, but it is never merged and no agent completes it (_persist, which keeps
\* the first review, and the Merger, which reads that one).
RejectionIsFinal ==
  [][Rejected => Rejected' /\ artifacts'.merge = None /\ "complete" \notin done']_vars

\* The operations of the job, of every kind.
LifecycleOps ==
  ({"transition"} \X TransitionOps)
  \cup ({"artifact"} \X DOMAIN NoArtifacts)
  \cup ({"dispatch"} \X JobState)

\* What an operation recorded: a transition nothing but itself.
ResultOf(kind, op) ==
  CASE kind = "transition" -> done \cap {op}
    [] kind = "artifact" -> {artifacts[op]} \ {None}
    [] kind = "dispatch" -> {dispatched[op]} \ {None}

Lifecycle ==
  INSTANCE JobLifecycle WITH
    Operations <- LifecycleOps,
    results <- [x \in LifecycleOps |-> ResultOf(x[1], x[2])]

\* Whatever the agents, the operator, crashes and GitHub do, the job moves
\* along the lifecycle contract, and each operation, of whatever kind, takes
\* effect at most once and keeps what it recorded.
ImplementsLifecycle == Lifecycle!LifecycleSpec

-----------------------------------------------------------------------------
(* Liveness, under FairSpec.                                               *)

\* A job whose issue and pull request are in order, and which the operator
\* leaves alone, is merged although the process dies at the points CrashAt
\* allows: calling run_to_terminal again resumes it.
Recovers == <>(state = "completed" \/ done \cap CliOps # {})

-----------------------------------------------------------------------------
(* What the repository says of the pipeline and the code does not do.      *)

\* docs/autonomy-reviewer.md: "A non-approved review remains in `reviewing` so
\* a later corrected run can be evaluated explicitly."  An approved job has an
\* approving review on record.
ApprovalHasEvidence == state = "approved" => artifacts.review.ok
=============================================================================
