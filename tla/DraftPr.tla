------------------------------ MODULE DraftPr ------------------------------
(***************************************************************************)
(* One job taken to a draft pull request by the guarded code-editing       *)
(* Worker.  Three runners may enter the Worker - the rehearsal, the manual *)
(* production activation and the production-development runner - each      *)
(* behind its own order of gates and emergency-stop checks, each with a    *)
(* report of its own.  They share the Worker's operations, the workspace   *)
(* and the remote repository.                                              *)
(*                                                                         *)
(* A run is one process; runs follow each other, none waits for another.   *)
(* The process may die between any two writes, the caller may bring        *)
(* another plan to the next run, the operator may use the CLI and the      *)
(* emergency stop at any time.  Each store call is one step, as in         *)
(* Pipeline.                                                               *)
(***************************************************************************)
EXTENDS JobContracts, Sequences

CONSTANTS
  Runners,        \* who invokes the Worker: see Runner
  Branches,       \* issue branches
  Contents,       \* file contents a plan may write
  Plans,          \* the plans callers may bring: see Plan
  GitBacked,      \* TRUE: GitWorkspaceBackend, FALSE: LocalWorkspaceBackend
  MaxAttempts,    \* CodeEditingPolicy.max_attempts
  Outcomes,       \* results the validation commands may have
  Answers,        \* how GitHub may answer: see Answer
  Preflights,     \* results the preflight may have
  Raising,        \* TRUE: the preflight and the emergency stop's source may raise
  Stoppable,      \* TRUE: the emergency stop may be raised and cleared
  CliOps,         \* operation identifiers of the operator's CLI transitions
  CliTargets,     \* the states the operator asks for
  CrashAt,        \* the points of a run at which the process may die
  MaxCrashes,     \* bound on crashes
  None

Runner == {"rehearsal", "activation", "development"}

\* "done": the pull request comes with its number; "unnumbered": without;
\* "lost": the request took effect and its answer did not arrive; "refused":
\* it had no effect.
Answer == {"done", "unnumbered", "lost", "refused"}

ValidationStatus ==
  {"passed", "failed", "timed_out", "unavailable", "infrastructure_error"}

\* A plan is "good", or is of another issue ("foreign"), or breaks a limit the
\* local backend checks before it writes ("forbidden"), or the limit the Git
\* backend checks on the staged patch ("oversized").
Plan == [branch : Branches, content : Contents,
         kind : {"good", "foreign", "forbidden", "oversized"}]

WorkerOps == {"execute", "validate"}

ASSUME DraftPrAssumption ==
  /\ Runners \subseteq Runner
  /\ Plans \subseteq Plan
  /\ {GitBacked, Raising, Stoppable} \subseteq BOOLEAN
  /\ MaxAttempts \in Nat \ {0}
  /\ Outcomes \subseteq ValidationStatus
  /\ Answers \subseteq Answer
  /\ Preflights \subseteq BOOLEAN
  /\ CliOps \cap WorkerOps = {}
  /\ CliTargets \subseteq JobState
  /\ MaxCrashes \in Nat
  /\ None \notin Plan /\ None \notin ValidationStatus
  /\ None \notin {"created", "numbered", "unnumbered", "result"}
  /\ None \notin {"halted", "failed", "draft_pr_created"}
  /\ None \notin Seq(Contents) /\ None \notin Contents /\ None \notin Branches /\ None \notin Runner

VARIABLES
  state, attempts,  \* the job record
  done,             \* transition operations the store has recorded
  artifacts,        \* the Worker's operation results the store has recorded
  reports,          \* the runners' reports the store has recorded
  tree,             \* uncommitted content of the working tree, or None
  local,            \* commits each local branch has on the base, None without it
  remote,           \* branches and pull requests on GitHub
  stop,             \* the emergency stop
  calm,             \* history: the stop was off since the run last consulted anything
  run,              \* the run in progress: program counter and locals
  crashes

store == <<state, attempts, done, artifacts, reports>>
workspace == <<tree, local>>
world == <<stop, crashes>>
vars == <<state, attempts, done, artifacts, reports, tree, local, remote, stop, calm, run,
          crashes>>

TransitionOps == WorkerOps \cup CliOps

Artifact ==
  [workspace : Plan \cup {None}, branch : {"created", None},
   validation : ValidationStatus \cup {None},
   pull_request : {"numbered", "unnumbered", None}, result : {"result", None}]

ArtifactNames == {"workspace", "branch", "validation", "pull_request", "result"}

Status == {"halted", "failed", "draft_pr_created"}

\* The rehearsal records a halt under an operation of its own, the two others
\* under that of their report.
ReportOps == Runner \cup {"rehearsal-halt"}
ReportOp(r, status) ==
  IF r = "rehearsal" /\ status = "halted" THEN "rehearsal-halt" ELSE r

\* Mutant: the activation checks the stop before the preflight only.
ChecksStopOnce ==
  [rehearsal   |-> <<"eligible", "stop", "report", "stop">>,
   activation  |-> <<"report", "stop", "preflight">>,
   development |-> <<"report", "read", "stop", "gates">>]

\* What a runner consults before it enters the Worker, in order.
Checks ==
  [rehearsal   |-> <<"eligible", "stop", "report", "stop">>,
   activation  |-> <<"report", "stop", "preflight", "stop">>,
   development |-> <<"report", "read", "stop", "gates">>]

WorkerPoints == {"worker", "workspace", "checkout", "edit", "commit", "record-workspace",
                 "branch", "record-branch", "may-validate", "validation",
                 "pull-request", "record-pull-request", "result"}
Points == {"idle", "check", "conclude"} \cup WorkerPoints

\* step: the last check a run came to; eligible: what the development
\* runner read; answer: what GitHub returned; verdict: the report to be persisted.
Run == [at : Points, runner : Runner \cup {None}, plan : Plan \cup {None},
        step : 0 .. 4, eligible : BOOLEAN,
        answer : {"numbered", "unnumbered", None}, verdict : Status \cup {None}]

Idle == [at |-> "idle", runner |-> None, plan |-> None, step |-> 0,
         eligible |-> FALSE, answer |-> None, verdict |-> None]

TypeOK ==
  /\ state \in JobState /\ attempts \in Nat
  /\ done \subseteq TransitionOps
  /\ artifacts \in Artifact
  /\ reports \in [ReportOps -> Status \cup {None}]
  /\ tree \in Contents \cup {None}
  /\ local \in [Branches -> Seq(Contents) \cup {None}]
  /\ remote \in [branches : SUBSET Branches, pull_requests : SUBSET Branches]
  /\ stop \in BOOLEAN /\ calm \in BOOLEAN
  /\ run \in Run
  /\ crashes \in 0 .. MaxCrashes

\* The job is claimed; nothing of the Worker is on record.
Init ==
  /\ state = "claimed" /\ attempts = 0
  /\ done = {}
  /\ artifacts = [workspace |-> None, branch |-> None, validation |-> None,
                  pull_request |-> None, result |-> None]
  /\ reports = [op \in ReportOps |-> None]
  /\ tree = None
  /\ local = [b \in Branches |-> None]
  /\ remote = [branches |-> {}, pull_requests |-> {}]
  /\ stop \in (IF Stoppable THEN BOOLEAN ELSE {FALSE})
  /\ calm = FALSE
  /\ run = Idle
  /\ crashes = 0

-----------------------------------------------------------------------------
(* Steps of a run, and the store calls it makes.                           *)

At(point) == run.at = point
Goto(point) == run' = [run EXCEPT !.at = point]

\* The run is over: it returned its report or raised to its caller.
Leave == run' = Idle

\* The run ends in a report with this status, persisted by the next step.
Conclude(status) == run' = [run EXCEPT !.at = "conclude", !.verdict = status]

\* An exception in the Worker, which every runner turns into a failed report.
Fail == Conclude("failed")

Recorded(op) == op \in done

\* store.transition: nothing to do when the operation was recorded before.
TransitionStore(target, op) ==
  /\ ~Recorded(op)
  /\ target \in ALLOWED_TRANSITIONS[state]
  /\ state' = target
  /\ attempts' = IF target = "executing" THEN attempts + 1 ELSE attempts
  /\ done' = done \cup {op}
  /\ UNCHANGED <<artifacts, reports>>

StoreTransition(target, op, next) ==
  \/ TransitionStore(target, op) /\ Goto(next)
  \/ Recorded(op) /\ Goto(next) /\ UNCHANGED store
  \/ ~Recorded(op) /\ target \notin ALLOWED_TRANSITIONS[state] /\ Fail /\ UNCHANGED store

\* _persist: the first result recorded for an operation stays.
Persist(name, payload) ==
  /\ artifacts' = IF artifacts[name] = None
                  THEN [artifacts EXCEPT ![name] = payload] ELSE artifacts
  /\ UNCHANGED <<state, attempts, done, reports>>

-----------------------------------------------------------------------------
(* The runners, up to the Worker.                                          *)

Call(r) ==
  /\ At("idle")
  /\ \E plan \in Plans :
       run' = [Idle EXCEPT !.at = "check", !.runner = r, !.plan = plan,
                           !.step = 1]
  /\ calm' = ~stop
  /\ UNCHANGED <<store, workspace, remote, world>>

Checking(check) == At("check") /\ Checks[run.runner][run.step] = check

\* On to the next check, or into the Worker.
Passed ==
  IF run.step = Len(Checks[run.runner])
  THEN [run EXCEPT !.at = "worker"]
  ELSE [run EXCEPT !.step = @ + 1]

CheckReport ==
  /\ Checking("report")
  /\ IF reports[run.runner] # None THEN Leave ELSE run' = Passed
  /\ calm' = ~stop
  /\ UNCHANGED <<store, workspace, remote, world>>

\* The rehearsal raises on a job the Worker cannot own.
CheckEligible ==
  /\ Checking("eligible")
  /\ IF state \in {"claimed", "executing", "validating"} THEN run' = Passed ELSE Leave
  /\ calm' = ~stop
  /\ UNCHANGED <<store, workspace, remote, world>>

CheckStop ==
  /\ Checking("stop")
  /\ IF stop THEN Conclude("halted") ELSE run' = Passed
  /\ UNCHANGED <<store, workspace, remote, world, calm>>

CheckPreflight ==
  /\ Checking("preflight")
  /\ \E passed \in Preflights : IF passed THEN run' = Passed ELSE Fail
  /\ calm' = ~stop
  /\ UNCHANGED <<store, workspace, remote, world>>

\* The development runner reads the job first and judges it after the stop.
ReadJob ==
  /\ Checking("read")
  /\ run' = [run EXCEPT !.step = @ + 1,
                        !.eligible = state \in {"claimed", "executing", "validating"}]
  /\ calm' = ~stop
  /\ UNCHANGED <<store, workspace, remote, world>>

CheckGates ==
  /\ Checking("gates")
  /\ IF run.eligible THEN run' = Passed ELSE Fail
  /\ UNCHANGED <<store, workspace, remote, world, calm>>

\* Neither the preflight nor the look at the stop is guarded: what they raise
\* reaches the caller and leaves no report.
CheckRaises ==
  /\ Raising
  /\ Checking("preflight") \/ Checking("stop")
  /\ Leave
  /\ UNCHANGED <<store, workspace, remote, world, calm>>

\* The report is persisted under its operation, the first one stays.
RecordReport ==
  LET op == ReportOp(run.runner, run.verdict)
  IN /\ At("conclude")
     /\ reports' = IF reports[op] # None THEN reports ELSE [reports EXCEPT ![op] = run.verdict]
     /\ Leave
     /\ UNCHANGED <<state, attempts, done, artifacts, workspace, remote, world, calm>>

Gates ==
  \/ CheckReport \/ CheckEligible \/ CheckStop \/ CheckPreflight \/ ReadJob \/ CheckGates
  \/ CheckRaises

-----------------------------------------------------------------------------
(* GuardedCodeEditingWorker.run                                            *)

\* Mutant: a job whose Worker died is not the Worker's any more.
OwnedClaimed == {"claimed"}

Owned == {"claimed", "executing"}

WorkerEnter ==
  /\ At("worker")
  /\ IF \/ state \notin Owned
        \/ state = "claimed" /\ attempts >= MaxAttempts
        \/ run.plan.kind = "foreign"
     THEN Fail /\ UNCHANGED store
     ELSE IF state = "claimed" THEN StoreTransition("executing", "execute", "workspace")
                               ELSE Goto("workspace") /\ UNCHANGED store
  /\ UNCHANGED <<workspace, remote, world, calm>>

\* Mutant: the plan is applied whatever workspace is on record.
FindWorkspaceNever ==
  /\ At("workspace")
  /\ Goto(IF GitBacked THEN "checkout" ELSE "edit")
  /\ UNCHANGED <<store, workspace, remote, world, calm>>

FindWorkspace ==
  /\ At("workspace")
  /\ Goto(IF artifacts.workspace # None THEN "branch"
          ELSE IF GitBacked THEN "checkout" ELSE "edit")
  /\ UNCHANGED <<store, workspace, remote, world, calm>>

\* Mutant: an existing branch is used wherever it points.
CheckoutAnyBranch ==
  LET b == run.plan.branch
  IN /\ At("checkout")
     /\ IF tree # None
        THEN Fail /\ UNCHANGED local
        ELSE /\ Goto("edit")
             /\ local' = IF local[b] = None THEN [local EXCEPT ![b] = <<>>] ELSE local
     /\ UNCHANGED <<store, tree, remote, world, calm>>

\* GitWorkspaceBackend.apply: a clean tree, on a new branch or on one that
\* points at the base.
Checkout ==
  LET b == run.plan.branch
  IN /\ At("checkout")
     /\ IF tree # None \/ local[b] \notin {None, <<>>}
        THEN Fail /\ UNCHANGED local
        ELSE Goto("edit") /\ local' = [local EXCEPT ![b] = <<>>]
     /\ UNCHANGED <<store, tree, remote, world, calm>>

Base(b) == local[b] = <<>>

\* What HEAD holds of the files of the plan.
Committed(b) == IF local[b] \in {None, <<>>} THEN None ELSE local[b][Len(local[b])]

\* LocalWorkspaceBackend.apply: writing what HEAD holds leaves a clean tree.
Edit ==
  LET p == run.plan
  IN /\ At("edit")
     /\ IF p.kind = "forbidden"
        THEN Fail /\ UNCHANGED tree
        ELSE /\ tree' = IF GitBacked /\ p.content = Committed(p.branch) THEN None ELSE p.content
             /\ Goto(IF GitBacked THEN "commit" ELSE "record-workspace")
     /\ UNCHANGED <<store, local, remote, world, calm>>

\* Staged paths are compared with the plan and the patch with its limit, then
\* committed; the parent of the commit is checked once it is made.
Commit ==
  LET p == run.plan
  IN /\ At("commit")
     /\ IF tree = None \/ p.kind = "oversized"
        THEN Fail /\ UNCHANGED workspace
        ELSE /\ local' = [local EXCEPT ![p.branch] = Append(@, p.content)]
             /\ tree' = None
             /\ IF Base(p.branch) THEN Goto("record-workspace") ELSE Fail
     /\ UNCHANGED <<store, remote, world, calm>>

RecordWorkspace ==
  /\ At("record-workspace")
  /\ Persist("workspace", run.plan)
  /\ Goto("branch")
  /\ UNCHANGED <<workspace, remote, world, calm>>

-----------------------------------------------------------------------------
(* The mutations: GuardedGitHubMutationTransport.execute.  A recorded       *)
(* mutation is not sent again, an answer is recorded by the next step, an   *)
(* exception of the client ends the run.                                    *)

\* GitHub refuses a branch that exists, a pull request without its head
\* branch, and a second one for the same head.
BranchRefused(b) == b \in remote.branches
PullRequestRefused(b) == b \notin remote.branches \/ b \in remote.pull_requests

CreateBranch ==
  LET b == run.plan.branch
  IN /\ At("branch")
     /\ \/ /\ artifacts.branch # None
           /\ Goto("may-validate")
           /\ UNCHANGED remote
        \/ /\ artifacts.branch = None /\ ~BranchRefused(b)
           /\ remote' = [remote EXCEPT !.branches = @ \cup {b}]
           /\ \E answer \in Answers \ {"refused"} :
                IF answer = "lost" THEN Fail ELSE Goto("record-branch")
        \/ /\ artifacts.branch = None /\ (BranchRefused(b) \/ "refused" \in Answers)
           /\ Fail
           /\ UNCHANGED remote
     /\ UNCHANGED <<store, workspace, world, calm>>

\* Mutant: the branch is recorded under the pull request's operation.
RecordBranchMisfiled ==
  /\ At("record-branch")
  /\ Persist("pull_request", "created")
  /\ Goto("may-validate")
  /\ UNCHANGED <<workspace, remote, world, calm>>

RecordBranch ==
  /\ At("record-branch")
  /\ Persist("branch", "created")
  /\ Goto("may-validate")
  /\ UNCHANGED <<workspace, remote, world, calm>>

OpenPullRequest ==
  LET b == run.plan.branch
  IN /\ At("pull-request")
     /\ \/ /\ artifacts.pull_request # None
           /\ run' = [run EXCEPT !.at = "result", !.answer = artifacts.pull_request]
           /\ UNCHANGED remote
        \/ /\ artifacts.pull_request = None /\ ~PullRequestRefused(b)
           /\ remote' = [remote EXCEPT !.pull_requests = @ \cup {b}]
           /\ \E answer \in Answers \ {"refused"} :
                CASE answer = "lost" -> Fail
                  [] answer = "done" ->
                       run' = [run EXCEPT !.at = "record-pull-request", !.answer = "numbered"]
                  [] answer = "unnumbered" ->
                       run' = [run EXCEPT !.at = "record-pull-request", !.answer = "unnumbered"]
        \/ /\ artifacts.pull_request = None
           /\ PullRequestRefused(b) \/ "refused" \in Answers
           /\ Fail
           /\ UNCHANGED remote
     /\ UNCHANGED <<store, workspace, world, calm>>

RecordPullRequest ==
  /\ At("record-pull-request")
  /\ Persist("pull_request", run.answer)
  /\ Goto("result")
  /\ UNCHANGED <<workspace, remote, world, calm>>

-----------------------------------------------------------------------------
(* The rest of GuardedCodeEditingWorker.run.                               *)

MayValidate ==
  /\ At("may-validate")
  /\ IF state = "executing" THEN StoreTransition("validating", "validate", "validation")
                            ELSE Goto("validation") /\ UNCHANGED store
  /\ UNCHANGED <<workspace, remote, world, calm>>

\* Mutant: whatever the validation says, the pull request follows.
ValidateAnyOutcome ==
  /\ At("validation")
  /\ IF artifacts.validation # None
     THEN UNCHANGED store
     ELSE \E outcome \in Outcomes : Persist("validation", outcome)
  /\ Goto("pull-request")
  /\ UNCHANGED <<workspace, remote, world, calm>>

\* ValidationService.validate records one outcome and returns it ever after.
Validate ==
  /\ At("validation")
  /\ IF artifacts.validation # None
     THEN UNCHANGED store
     ELSE \E outcome \in Outcomes : Persist("validation", outcome)
  /\ IF artifacts'.validation = "passed" THEN Goto("pull-request") ELSE Fail
  /\ UNCHANGED <<workspace, remote, world, calm>>

\* Mutant: the runner does not look at the number.
RecordResultUnnumbered ==
  /\ At("result")
  /\ Persist("result", "result")
  /\ Conclude("draft_pr_created")
  /\ UNCHANGED <<workspace, remote, world, calm>>

\* The Worker's result, and the gate the runners derive from it: a pull
\* request without a number makes a failed report.
RecordResult ==
  /\ At("result")
  /\ Persist("result", "result")
  /\ Conclude(IF run.answer = "numbered" THEN "draft_pr_created" ELSE "failed")
  /\ UNCHANGED <<workspace, remote, world, calm>>

Worker ==
  \/ WorkerEnter \/ FindWorkspace \/ Checkout \/ Edit \/ Commit \/ RecordWorkspace
  \/ CreateBranch \/ RecordBranch \/ MayValidate \/ Validate
  \/ OpenPullRequest \/ RecordPullRequest \/ RecordResult

-----------------------------------------------------------------------------
(* What happens around a run.                                              *)

\* The process dies; the working tree, GitHub and the store stay as they are.
Crash ==
  /\ run.at \in CrashAt
  /\ crashes < MaxCrashes
  /\ crashes' = crashes + 1
  /\ Leave
  /\ UNCHANGED <<store, workspace, remote, stop, calm>>

\* autonomy.cli transition, run by the operator in another process.
OperatorTransition ==
  /\ \E op \in CliOps, target \in CliTargets : TransitionStore(target, op)
  /\ UNCHANGED <<workspace, remote, world, calm, run>>

\* The stop is raised or cleared: at one of the two ends it was off.
OperatorStop ==
  /\ Stoppable
  /\ stop' = ~stop
  /\ calm' = TRUE
  /\ UNCHANGED <<store, workspace, remote, run, crashes>>

RunStep == Gates \/ Worker \/ RecordReport

Next ==
  \/ \E r \in Runners : Call(r)
  \/ RunStep
  \/ Crash
  \/ OperatorTransition
  \/ OperatorStop

Spec == Init /\ [][Next]_vars

\* A run goes on, and somebody keeps invoking each runner.
FairSpec == Spec /\ WF_vars(RunStep) /\ \A r \in Runners : SF_vars(Call(r))

-----------------------------------------------------------------------------
(* Safety.                                                                 *)

\* No draft pull request without a recorded workspace, a recorded branch and a
\* recorded passing validation, and no report of one without a recorded number:
\* whoever ran the Worker, wherever the earlier runs died, whatever they
\* brought (code_editing.py run, production_github.py execute, the runners).
PullRequestIsBacked ==
  /\ remote.pull_requests # {} =>
       /\ artifacts.workspace # None
       /\ artifacts.branch = "created"
       /\ artifacts.validation = "passed"
  /\ \A r \in Runner :
       reports[r] = "draft_pr_created" =>
         /\ artifacts.result # None /\ artifacts.pull_request = "numbered"
         /\ remote.pull_requests # {}

\* The Git backend puts at most one commit on an issue branch, and once the
\* workspace is on record that commit is the content it names and the tree is
\* clean: a run that died half-way is not built upon (git_workspace.py apply).
CommittedOnce ==
  GitBacked =>
    /\ \A b \in Branches : local[b] # None => Len(local[b]) <= 1
    /\ artifacts.workspace # None =>
         /\ local[artifacts.workspace.branch] = <<artifacts.workspace.content>>
         /\ tree = None

\* A run is in the Worker only if the emergency stop was off at some moment
\* after the last thing its runner consulted: a stop raised before a run, or
\* during its preflight, keeps the Worker out of it.
StopIsObeyed == run.at \in WorkerPoints => calm

\* Once some runner has reported a draft pull request that report stays, and no
\* run of any runner changes a result of the Worker, a file or GitHub again, not
\* even one with another plan after the operator returned the job to executing:
\* whatever it enters is on record (code_editing.py run, production_github.py
\* execute, the runners' reports).
DeliveredIsFinal ==
  [][\A r \in Runners :
       reports[r] = "draft_pr_created" =>
         /\ reports'[r] = "draft_pr_created"
         /\ UNCHANGED <<artifacts, workspace, remote>>]_vars

\* The Worker took the job to validating, and its run is over.
Spent ==
  /\ "validate" \in done
  /\ run.at \notin {"validation", "pull-request", "record-pull-request", "result"}

\* As long as the operator leaves a job alone, the run that takes it to
\* validating is the only one that validates it and opens its pull request: when
\* it dies, fails or loses an answer, no later run of any runner changes the
\* artifacts, a file or GitHub again (code_editing.py run, which owns claimed
\* and executing jobs only, although its mutations can be resumed).
SpentForGood ==
  [][done' \cap CliOps = {} /\ Spent =>
       Spent' /\ UNCHANGED <<artifacts, workspace, remote>>]_vars

\* The operations of the job, of every kind.
LifecycleOps ==
  ({"transition"} \X TransitionOps)
  \cup ({"artifact"} \X ArtifactNames)
  \cup ({"report"} \X ReportOps)

\* What an operation recorded: a transition nothing but itself.
ResultOf(kind, op) ==
  CASE kind = "transition" -> done \cap {op}
    [] kind = "artifact" -> {artifacts[op]} \ {None}
    [] kind = "report" -> {reports[op]} \ {None}

Lifecycle ==
  INSTANCE JobLifecycle WITH
    Operations <- LifecycleOps,
    results <- [x \in LifecycleOps |-> ResultOf(x[1], x[2])]

\* Three runners that bring different plans, die and are overtaken by the
\* operator still move the job along the lifecycle contract: no transition,
\* artifact or report takes effect twice, and none that is on record is replaced.
ImplementsLifecycle == Lifecycle!LifecycleSpec

-----------------------------------------------------------------------------
(* Liveness, under FairSpec.                                               *)

\* A job that dies only at the points CrashAt allows reaches its draft pull
\* request, unless the operator moves the job: runs resume what they find.
Delivers == <>(\/ \E r \in Runners : reports[r] = "draft_pr_created"
               \/ done \cap CliOps # {})
=============================================================================
