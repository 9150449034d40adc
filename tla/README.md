# School Saga: verification of the autonomy pipeline and the game flow

The repository holds a Godot game (`src/`, `scenes/`) and a larger Python
program (`autonomy/`, `tools/`, `scripts/`) that drives GitHub issues of the
game through agents to a merged pull request. This directory holds TLA+
modules of the program, TLC configurations that check them on small instances
and theorems that TLAPS proves for every instance.

Run everything from this directory: `tlc -config X.cfg M` for a run of
`PROJECT.json`, `tlapm M.tla` for a proof module.

## 1. Inventory

| part | state | operations | interacts with | hard behaviour |
|---|---|---|---|---|
| job contracts `autonomy/contracts.py` | job state, attempt counter | `Job.transition` | everything | long sequences of legal transitions |
| job store `autonomy/store.py` | one JSON document: jobs, events, operations, results | `create`, `transition`, `record_operation_result`, reads | every process opens the file itself | read, change, replace without a lock; crash before the replacement; retries |
| CLI `autonomy/cli.py` | none | `create`, `transition`, `inspect`, `list`, `events` | store | runs while agents run |
| orchestrator `autonomy/orchestrator.py` | dispatch results in the store | `dispatch_once`, `run_to_terminal` | Worker, Reviewer, Merger | stored dispatches trusted later; restart |
| Worker, Reviewer, Merger `autonomy/{worker,reviewer,merger}.py` | artifacts and operations in the store | `run` | store, GitHub reads, mutation executor, validation | crash between two writes, pull request changing between reads, CLI in between |
| validation `autonomy/validation.py` | the recorded result | `validate` | store, subprocesses | reuse of a recorded result |
| GitHub adapter `autonomy/github_adapter.py` | dry-run intents in memory | reads, `execute` | GitHub | failing reads, lost memory |
| bounded scheduler `autonomy/scheduler.py` | lease and backoff results in the store | `run_cycle` | store, orchestrator | two instances, expiring leases, crash under a lease |
| production transport `autonomy/production_github.py` | mutation results in the store | `execute` | GitHub, store | crash between the remote call and its record |
| code-editing Worker `autonomy/code_editing.py`, `autonomy/git_workspace.py` | workspace, artifacts | `apply`, `run` | git, transport, validation | failure and restart in the middle |
| draft-PR runners `autonomy/rehearsal.py`, `tools/autonomy/production_activation.py`, `scripts/autonomy/production_development.py` | report in the store | `run_to_draft_pr`, `run_one` | emergency stop, code-editing Worker | stop during a run, sticky reports |
| unattended scheduler and live CLI `autonomy/unattended_scheduler.py`, `autonomy/live_cli.py` | control flags, lease file, cycle records | `run`, `pause`, `resume`, `drain`, `shutdown`, lease `acquire`, `heartbeat`, `release` | one cycle of the system, the emergency stop | two launchers, stale leases, commands and stops at any moment |
| deployment and launcher `autonomy/deployment.py`, `autonomy/production_launcher.py` | state file | `execute`, `save_health`, start of a mode | unattended scheduler | the state is read and replaced after the lease was given back |
| production loop `autonomy/production_loop.py` | the issue in hand, fix counter | `run`, `_run_issue` | queue, Worker, Reviewer, Merger adapters, emergency stop | raising adapters, fixes, pushes of others, a stop between any two calls |
| readiness and supervised activation `autonomy/readiness.py`, `autonomy/supervised_activation.py` | signed report | `evaluate`, `verify`, `run` | production loop | checks that are old when the runtime starts |
| game flow `src/core`, `src/ui` | save document, screen, choices of the day | button presses, save, load, change scene | save file, engine | failing saves and scene changes, torn saves, buttons that outlive their screen |
| camera, player, visuals `src/camera`, `src/player`, `src/visual`, `src/world` | node positions | per-frame update | engine | floating-point only |
| build scripts `scripts/*.sh`, `scripts/validate-web-export.py` | none | tool calls | Godot | none |

What makes each part correct:

* store: one audit event per operation, the log explains the state, operations
  and log survive other clients unless their calls overlap;
* pipeline: only approved heads are merged, evidence precedes the state it
  justifies, an interrupted job can be resumed, a terminal job is left alone;
* scheduler: one dispatch of a job, under one's own lease, a failure leaves a
  backoff, and it is known exactly which jobs are never served;
* draft pull requests: none without its evidence on record, one commit per
  branch, nothing after the emergency stop was seen, a delivered report is final
  and a run that died is taken up again;
* unattended operation: at most one holder with a fresh heartbeat as long as owner
  names differ and file calls do not overlap, a lease never outlives its holder
  unless that died, the operator is obeyed at the next look, cycles are counted
  once;
* production loop and activation: what is merged was reviewed, no merge after a
  stop was raised, no run takes up an issue in quarantine, runs end and the queue
  drains; one active job is what the documentation asks for and does not get;
* game flow: the evening tells of the day just played and replaces it in the file
  only if it could not load it, no save at school of a day without its choices.

## 2. Modules

| module | models | how |
|---|---|---|
| `JobContracts` | `contracts.py` | the transition table and `Job.transition` as operators |
| `JobLifecycle` | the promise of the substrate for one job | abstract specification: create once, move along the table, each operation once, what it recorded kept |
| `JobLifecycleProofs` | | what follows for whatever implements `JobLifecycle` |
| `JobStore` | `store.py`, `cli.py` create and transition | each process copies the document (`Load`) and later replaces it (`SaveCreate`, `SaveTransition`, `SaveResult`) or returns; `Crash` in between |
| `JobStoreProofs` | | theorems about `JobStore` |
| `Pipeline` | `orchestrator.py`, `worker.py`, `reviewer.py`, `merger.py`, `validation.py`, `github_adapter.py` | one job; one action per store call, read or intent of an agent, a program counter `agent.at`, the locals the agent keeps across calls in `agent` |
| `PipelineProofs` | | theorems about `Pipeline` |
| `Scheduler` | `scheduler.py` | instances running cycles over the leases and backoffs of the document, a mutating store call in two steps as in `JobStore` |
| `SchedulerProofs` | | theorems about `Scheduler` |
| `DraftPr` | `code_editing.py`, `git_workspace.py`, `production_github.py`, `rehearsal.py`, `production_activation.py`, `production_development.py` | one job; a run is a program counter `run.at`, first through the `Checks` of its runner, then through the Worker; one action per store call, mutation or step on the working tree |
| `DraftPrProofs` | | theorems about `DraftPr` |
| `Unattended` | `unattended_scheduler.py`, `live_cli.py`, `deployment.py`, `production_launcher.py` | launcher processes, each a program counter `run.at`; every call on the lease file and the state file is a read and a later replacement; time as ages |
| `UnattendedProofs` | | theorems about `Unattended` |
| `ProductionLoop` | `production_loop.py` | one action per adapter call and per look at the stop, each adapter answering or raising |
| `SupervisedActivation` | `readiness.py`, `supervised_activation.py` | composes `ProductionLoop`: activations that preflight and then start it for one issue, next to operators who run it over the queue |
| `SupervisedProofs` | | theorems about both |
| `GameFlow` | `save_service.gd`, `scene_transition.gd`, `home_morning.gd`, `neighborhood_to_school.gd`, `school_first_day.gd`, `return_home.gd` | one action per button handler and one per thing the engine does |
| `GameFlowProofs` | | theorems about `GameFlow` |
| `MCRecovery` | the specifications of `Pipeline`, `DraftPr`, `Unattended` and `SupervisedActivation` with their fairness | a behaviour is one of one of them, as the variable `driver` says; the liveness properties of all four |
| other `MC...` | | symmetry sets and small constants |

`JobStore`, `Pipeline` and `DraftPr` are shown to implement `JobLifecycle`, with
the refinement mapping in their `Lifecycle` instance: the store maps the record of
one job (`Subject`), the other two their `state`, `attempts` and everything on
record. `results[op]` of the contract is the set of what `op` recorded, empty
before it took effect: the results of the store's operations of `Subject`, and of
a pipeline or a runner its transitions, artifacts, dispatches and reports.

State and code:

* `JobStore!file` is the JSON document, `snapshot[p]` the `data` a call works
  on, `call[p]` its arguments. `events[i]` keeps the type, job, operation and
  states of an `AuditEvent`.
* `Pipeline!done` holds the recorded transition operations without their
  `<job>:<agent>:` prefix, `artifacts` the recorded operation results,
  `dispatched` the orchestrator's, `intents` the memory of
  `DryRunMutationExecutor`. `agent.from` is what `dispatch_once` read,
  `agent.entered` what the agent read, `agent.head` and `agent.ok` what it read
  of the pull request and what it concludes.
* In `Pipeline`, `Raising` says whether a validation command may fail to run at all
  (`ValidationRaises`), which ends the Worker's run between its move to
  `validating` and its result without a death.
* `Scheduler!file` keeps only leases and backoffs of the document; `begun`
  counts dispatches for the properties. `Created` is the order `list_jobs`
  returns, so `First(s)` is the job the loop of `run_cycle` comes to next.

Reductions in `Pipeline`: a store call is one step (section 3 says what
overlapping calls do to the document); the `get` inside `_transition` and the
`transition` it guards are one step; the state `run_to_terminal` reads is the
one its `dispatch_once` reads; the `to_state` a dispatch reports is read when
it is recorded; a validation run is one step that records any of the possible
outcomes. The reads a later decision depends on (`Guarded`, the two reads of
the pull request, the state an agent entered with) are steps of their own.
Jobs do not interact: every identifier is prefixed by the job's.

* `DraftPr!artifacts` are the Worker's recorded operation results, `reports` the
  ones under each runner's `report` operation. `tree` and `local` are the
  uncommitted content and the commits above the base of each branch, `remote`
  what GitHub holds. `calm` is a history variable of `StopIsObeyed`: it is set
  when the stop is off at the step and whenever the stop changes.

Abstractions in `DraftPr`: runs follow each other (each runner is started by
hand and is one-shot), so a crash ends a run and the next one begins where the
store, the tree and GitHub were left. A caller may bring another plan each time.
A plan breaks at most one limit, and its content differs from the base; the
repository allowlists and the branch prefix are the same for every run of a job
and hold. `_authorize` is configuration and lets the two mutations through.
`execute` hands neither `draft` nor `expected_head_sha` to its client, and
nothing in the repository pushes the local commit, so a remote branch and a pull
request are their names only. A look at the job's state and the transition it
guards are one step, as in `Pipeline`.

State and reductions in `Unattended`: `lease` and `counted` are the two files,
`run[p].beat` the age of the time stamp the process wrote last, `control[p]` and
`stop[p]` its `SchedulerControl` and its emergency stop. `owed`, `died`,
`overlapped` and `run[p].standing` are history variables; `overlapped` holds
"lease" or "state" once a call replaced or deleted that file although another had
written it since the call read it. Ages saturate at `Ttl`, from where the
code no longer tells them apart; `counted` is kept modulo `Modulus`. Commands reach
only processes in `Embedded`, those that keep the runtime in memory: the
command line builds a fresh `SchedulerControl` in every process
(`live_cli.py:125`), so `pause`, `drain` and `shutdown` given to it change
nothing for a scheduler that runs elsewhere.

Reductions in `ProductionLoop` and `SupervisedActivation`: the repository
declares the queue, Worker, Reviewer and Merger adapters and does not implement
them, so they may answer anything their types allow or raise; GitHub merges a
head only while it is the current one. The arguments of a run are chosen where
it first reads them. A crash of the process leaves what a raise leaves and has
no action of its own. Taking an issue removes it from the queue; an issue whose
run halted or raised is then neither ready nor quarantined until an operator puts
it back (`Requeue`, bounded). Everything the code asks may raise instead of
answering, the source of the emergency stop and the active-job probe included
(`Raises`, `PreflightRaises`). Operators start activations and runs over the queue
whenever they like, next to each other. `late` counts, for `StopObeyed`, the calls begun
since the stop was raised.

Reductions in `GameFlow`: a press, the handler it runs and the save in it are
one step, as in the engine. `buttons` are the screens whose buttons are in the
tree: showing a screen frees the old buttons only when the frame ends, and a
scene change takes them away at once. `file` is `None` for a file that is missing or
cannot be parsed; a load of a file in order still fails when it cannot be opened
(`Load`). A game killed while it saves is a torn save
followed by `Quit`. `day` keeps the choices of the last school scene after the
scene is gone, for the properties. `current_scene` of a save is written and
never read back: every start of the game begins in the morning.

Definitions named `... Again`, `... Any...` and so on, commented "Mutant:",
are the same operator with a plausible mistake. They are not part of any
specification; each run is known to fail with the mutant `PROJECT.json` names
for its property.

## 3. Runs

| run | bounds | shows |
|---|---|---|
| `store_shared` | 2 processes, 2 jobs, 3 operations, 2 target states, overlapping calls | the document on disk is always consistent; an overtaken call is the only thing that costs an operation or breaks the lifecycle contract |
| `pipeline_safety` | 2 heads, fickle GitHub, raising validation, 1 crash anywhere, 2 operator commands, 3 dispatches per `run_to_terminal` | merge safety, evidence order, final dispatches, immutable evidence |
| `recovery` | pipeline: 1 head, 2 crashes at the resumable points, 2 operator commands; runners: 3 runners, 2 plans for one branch, 3 crashes at the resumable points; launchers: 2 processes with names of their own, 1 cycle, a TTL of 1 tick, 1 crash; operators: 2 processes, 2 issues, 1 issue a run, 1 fix that pushes nothing | a job left alone completes or gets its draft pull request; the lease can be had again after a death; runs of the loop return and the queue drains; the pipeline keeps the lifecycle contract |
| `scheduler` | 2 instances, 3 jobs and 2 of them a cycle, 2 crashes, clock to 1, lease and backoff of 1 | single dispatch, dispatch under one's lease, a backoff for every retryable failure, which jobs are never served |
| `draft_pr` | 3 runners, 2 branches, 2 contents, 6 plans (3 of them to refuse), every GitHub answer, validation that passes, fails or raises, 1 crash anywhere, 1 operator command, the emergency stop | a pull request is backed, one commit per branch, the stop keeps the Worker out, delivered reports are final |
| `unattended` | 2 processes with owner names of their own, 1 of them embedded, 2 modes, 2 cycles a run, a TTL of 1 tick, counts modulo 2, 1 crash, the emergency stop of 1 process, overlapping file calls | one fresh holder and no orphaned lease until two calls on the lease overlap, an obeyed operator, cycles counted until two calls on the state overlap |
| `supervised` | 2 processes, 2 issues, 2 pushes to each pull request, 1 fix, 2 issues a run, 2 configurations, 1 requeue, a stop that comes and goes | reviewed merges, the stop, quarantine |
| `game_flow` | 2 seats, 2 recess choices, 5 presses a frame, any number of days, failed and torn saves, failed loads and scene changes, restarts | the evening is of the day and replaces it only after a failed load, school saves are whole |

Two of everything that can conflict is enough for each hazard: two processes
for a lost update, two heads for a push after the review, two operator
commands for a job sent back and then cancelled, two crashes for a crash
during recovery. The clock passes the end of a lease and of a backoff taken
at its start. Three jobs with two a cycle let a job be cut off by two others,
both of which have lost their holder. Two branches and two contents are enough
for a later run whose plan differs from what an earlier one left.

`recovery` is small because liveness is expensive; the safety of the same
specifications is checked on the larger instances. A pipeline or a runner may die
there at every point but those after which the code cannot resume: between the
Worker's move to `validating` and its result, with edits in the tree or a commit not
on record (the next run refuses the tree or the branch), between a mutation and its
record (GitHub refuses the repetition), and once a draft-PR job is `validating` (the
Worker does not own it). A launcher dies anywhere. The driver never changes, so a
fairness condition of the run serves one step of each driver.

For a TTL of one tick a heartbeat is fresh or stale, which is all the code
tells apart, and a cycle may outlive it. One fix and two heads are enough for a
review, a fix and a push of somebody else between an approval and its merge. Five
presses in one frame reach from the choice of a seat through the recess and back to
the old button of the classroom.

These runs show a violation, each of something the documentation says:

| run | what happens |
|---|---|
| `pipeline_lost_review` | a corrected review approves the job, the record keeps the first rejection and the Merger never merges |
| `scheduler_expired` | an expired lease can never be replaced |
| `unattended_one_owner` | two launchers of one configuration, as shipped, hold the lease at a time with fresh heartbeats and without any overlap of file calls (`live_cli.py:53`; `docs/autonomy-v2-production-launcher.md:36` says startup fails closed when "the scheduler lease is owned by another live process") |
| `supervised_two_active` | two activations both find no active job and both start one (`supervised_activation.py:97`; `docs/autonomy-v2-supervised-activation.md:28` says "One active production job.") |

The Merger's decision is written once like the review: a Merger that was
refused and later allowed merges under a recorded refusal. The persisted
decision is therefore no evidence for a merge, and `MergedHeadWasApproved`
speaks of the review and the validation only.

Some of these races bound what the passing runs can claim, and the properties say
so themselves instead of assuming the race away. In `store_shared`,
`OperationsDurable` and `OnlyOverlapBreaksLifecycle` name the end of an overtaken
call as the one step that may lose something. In `unattended`, `OneFreshHolder`,
`LeaseHasHolder` and `CyclesCounted` hold until two calls on the file in question
overlap (`overlapped`), and `OneFreshHolder` needs owner names that differ.
`unattended_one_owner` shows the second cause; for the first, TLC finds
`OneFreshHolder` and `CyclesCounted` violated as soon as the overlap is dropped
from them. `LeaseHasHolder` stops at an overlap because two overlapping writers
share one temporary file (`live_cli.py:65`), whose mixed contents and failed
`replace` are not modelled.
`QuarantineHolds` lets a second run that already had the issue in hand go on with
it: quarantine tells the queue and no other run. Only `scheduler` and
`scheduler_expired` assume the overlap away (`Serial = TRUE`): store calls of
different instances take turns. With `FALSE` a call that replaces the document erases
the lease another recorded since it read, and `DispatchedOnce`,
`DispatchesUnderLease` and `FailureGetsBackoff` fail.

A scheduler may starve a job. `run_cycle` cuts its list of eligible jobs to
`max_concurrent_jobs` before it looks at their leases, so unfinished jobs created
earlier that cannot be leased fill every cycle: with the shipped limit of one, a
single job whose holder died keeps all later jobs from being served. No document
promises service, so no run shows it as a violation; `ServedOrShutOut` says that a
job is served unless its own holder died or as many earlier jobs as a cycle holds
lost theirs, and that nothing else starves one.

More that the modelled code does and no run is kept for:

* Two overlapping store calls lose an operation
  (`docs/autonomy-v2-foundation.md:19` promises that reusing an operation
  returns the persisted result): the second disjunct of `OperationsDurable`.
* A Worker's run that ends between its move to `validating` and its recorded
  result, because the process died or because a validation command could not be
  run, strands the job: with `CrashAt <- MCAnywhere` or `Raising = TRUE` `Recovers`
  fails (`docs/autonomy-orchestrator.md:24`).
* An activation halted by the emergency stop, or one that failed, stays so once the
  stop is cleared: its report is written once and returned from then on, while
  `docs/autonomy/production-draft-pr-activation.md:93` says to resume through the
  same operations. A halted rehearsal writes its halt under an operation of its own
  (`rehearsal.py:93`), even after its report, and does resume. `DeliveredIsFinal`
  therefore speaks of delivered reports only.
* The Merger records its merge, and the code-editing Worker opens its branch and
  pull request, although the operator cancelled the job after they started
  (`merger.py:175`, `code_editing.py:236`: the state is read again only to skip a
  transition; what they write is still backed by their records). A
  job the operator sends back to `executing` goes no further, because its
  dispatch and its operations are the recorded ones of the first attempt.
* `apply_fixes` that raises ends the run without quarantine, unlike `start`
  (`docs/autonomy-production-loop.md:26` lists Worker failures among the
  reasons for quarantine).
* An activation reports that it completed whatever the loop made of its issue;
  `verify` compares a report with the configuration it is handed, so a report
  for an older main passes as long as the caller brings the older configuration.
* `run_to_terminal` counts dispatches that only return a stored result against
  `max_dispatches`.
* Every unattended run replaces the quarantined issues on file by its own.
* A save of the game that was cut short counts as a success. If that happened on
  the way home, or the file could not be opened there, the evening's save records a
  completed day without a seat, in the second case over the day in the file.
  Every press of the evening's save appends its memory again, and a second press
  on a seat in one frame adds its relationship effect to that of the first.

## 4. Fairness

`Pipeline!FairSpec` has weak fairness of the agents' steps (a running dispatch
goes on: the code has no waiting inside a run) and strong fairness of
`CallRunToTerminal` (somebody keeps calling it; it is enabled only between
dispatches). `Scheduler!FairSpec` has weak fairness of each instance and of
the clock. `DraftPr!FairSpec` has weak fairness of `RunStep` (a run has no
waiting inside) and strong fairness of `Call` for each runner (somebody keeps
invoking it; it is enabled between runs only). `Unattended!FairSpec` has weak
fairness of `Tick` (time passes), of some process being started, of `Proceed`
for each process (a run has no waiting inside) and strong fairness of `Verify`
(a process that is started again and again gets past the checks of its mode).
`SupervisedActivation!FairSpec` has weak fairness of preflights, of the steps of
a run and of its report, strong fairness of `QueueGiven` (runs that ask the queue
while issues are ready are sometimes given one), of `StopAnswered` (the source of
the stop sometimes answers a run over the queue) and of `QueueRun` (somebody keeps
running the loop over the queue). `MCRecovery!MCFairSpec` is the conjunction of
four of these, each for its own driver. Nothing is assumed of GitHub, the operator's other
choices, pushes, the stop or crashes. `GameFlow` has no fairness: nobody has to
go on playing.

## 5. Proofs

Assumptions are the `ASSUME`s of the modules, on constants only.

`JobStoreProofs`. `IInv` says that the document on disk and every process's
copy are well-formed and `Consistent`: an invariant of the disk alone is not
inductive, because a save writes a copy that was read earlier. Each write of a
consistent document is shown to be consistent (`CreatedConsistent`,
`MovedConsistent`, `AnnotatedConsistent`), with no assumption on overlaps:
`TypeCorrect`, `OneEvent`, `AuditTrail`, `Attempts`. The step lemmas then compare
the copy a call saves with the disk: either they are equal, and the write adds to
what is there, or the call was overtaken. `Durable`, `AppendOnly` and `OverlapOnly`
follow for any overlaps; `Implements` is the refinement for behaviours in which no
call is overtaken (`[]Undisturbed`).

`JobLifecycleProofs`. Facts of the contract itself: `NeverBack` (terminal states
are final, attempts never decrease, no result is replaced), `ExecutedFirst` (no
job past `executing` without an attempt) and, for finitely many operations,
`AttemptsBounded` (each attempt took an operation of its own: `attempts` is at
most the number of operations that took effect). The refinements carry them over:
`JobNeverBack` in `JobStoreProofs`, `PipelineProofs` and `DraftPrProofs`,
`JobExecutedFirst` in the last two, and `RetriesAreNoAttempts` of the store. Each
instantiates `JobLifecycleProofs` with its own mapping (`Contract`) and cites the
abstract theorem.

`PipelineProofs`. The inductive invariant `Backed` relates the program counter
to the store: what an agent has concluded at each point (`AgentJustified`) is
backed by what is on record. It is needed because a merge is justified several
steps before it is recorded, and a crash or an operator may come in between.
Theorems: `TypeCorrect`, `MergeIsSafe`, `EvidenceFirst`, `TerminalIsFinal`,
`EvidenceKept`, and the refinement `PipelineImplements`.
`RejectedForGood` follows from `Backed` and says what the write-once review costs:
after a first review that does not approve there is no merge.
`StrandedByLostWorker` says what strands a job: a Worker's run that ends, by a death
or a raising validation, between its move to `validating` and its result, and
nothing else. Its invariant `Followed` relates the point of the Worker
and the Reviewer to the records that must exist by then, for a job the operator has
left alone.

`DraftPrProofs`. Four inductive invariants over `Typed`, which adds to `TypeOK`
what is set at which point of a run. `Calm` says from which check on the stop
is known to have been off (`StopKeepsOut`); `Unreported` that a run past its
look-up has no delivered report, and that what a delivered one rests on is all on
record (`DeliveredFinal`); `Evidence` what is on record at the
points of the Worker, and what a pull request implies (`PullRequestBacked`):
without the points a record written two steps before the pull request says
nothing about it; `Once` what the tree and the branch are between the checkout
and the record of the workspace (`WorkspaceCommittedOnce`). `DraftImplements` is
the refinement of the contract. `SpentStaysSpent` says that only the run that
takes the job to `validating` goes on to its pull request while the operator
leaves the job alone; its invariant `Ahead` says that before that transition no
run is past it (`Preparing`) and after it the state tells the others so
(`Finishing`). The lemmas `Goes`,
`Ends`, `Passes`, `Moves` say where a step takes its run.

`SchedulerProofs`. `Safe` says that at most one instance is inside a mutating
store call, that its copy equals the document, that what an instance has in hand
bears its own lease identifier (`Good`, `Apart`), and that a job was dispatched
at most once and has a backoff only after that (`Once`). The first two are where
`Serial` enters; without them a save could bring back a document from before the
lease. Theorems: `TypeCorrect` for any `Serial`, and under it
`DispatchedAtMostOnce`, `LeaseHeld`, `BackoffIsFree`. `AbandonedStays`, also under
`Serial`, is the other side of single dispatch: a lease whose holder died names
an identifier that no instance has and `uuid4` does not draw again (`IdsKept`), a
lease on record is never replaced (`LeaseKept`), and only its owner dispatches or
ends the job (`OwnersDispatch`). `CyclesBounded` needs no `Serial`: the first `n`
of a set of jobs are at most `n`, because counting the jobs created before is an
injection of them into `0 .. n - 1` (`FirstIsBounded`), and what a cycle has in
hand only shrinks (`HandShrinks`). It is what the assumption `IsFiniteSet(Jobs)`
is for: the store's document lists its jobs.

`UnattendedProofs`. None of its theorems has an assumption beyond the constants'.
`HolderOnFile` is `LeaseHasHolder` with what its inductive form needs; `Heeding`
adds to `OperatorObeyed` what each look at stop and control has established at the
points between the heartbeat and the cycle (`Obeyed`). For `ExclusiveLease` the
invariant says that, until two calls on the lease overlap and while owners differ, a
process with a fresh heartbeat is the one the file names, with a heartbeat no younger
in the file than its own, and that what a process read inside its file call is still
true. `CountExact`: what `CyclesCounted` adds to the count on file is the number of
cycles still to be saved (`Pending`, finite because the processes are), with
`counted` and `owed` following modulo `Modulus`, until two calls on the state
overlap.

`SupervisedProofs`. `Typed` says which calls a run may be about to make, how
often, and with how many calls since the stop: `StopIsObeyed` follows. `Reviewed`
adds that a run about to merge holds a head in `approved`, for `MergesReviewed`.
`Apart` says that no issue in quarantine is ready; with what a step does to the
issue of its run (`StepOnIssue`: it keeps it, drops it, takes one off the queue or
gives it up) `QuarantineLeftAlone` follows for any number of runs at a time. `RunsGetNearer` is the safety half of `RunsEnd`: no step
takes a run back, whatever is answered, pushed or fixed; it either gets nearer its
end in a lexicographic order (issues left, then stages left, three for each fix
left) or stays at its point. What it leaves to fairness is that the run goes on.

`GameFlowProofs`. `Flow` says that a screen whose buttons are in the tree was
reached with the choices it needs, that on the walk home the file holds the day
or nothing readable (`Homeward`), and that in the evening only evening buttons
are left and the copy, if one was loaded, is what the file holds (`Evening`): an old school
button in the evening would change the day under it. Theorems: `TypeCorrect`,
`EveningFaithful`, `SchoolSavesWhole`, `EveningKeeps`.

Only model-checked: the liveness properties (`PipelineRecovers`, `RunnersDeliver`,
`LaunchersRecover`, `LoopsEnd` and `LoopsDrainTheQueue`, which state `Recovers`,
`Delivers`, `LeaseRecovers`, `RunsEnd` and `QueueDrains` for their drivers, and
`ServedOrShutOut`); liveness under fairness is outside what the prover handles, as is
induction over data. `RunsGetNearer` is the step-by-step half of `RunsEnd`,
`AbandonedStays` and `StrandedByLostWorker` say what the exceptions in
`ServedOrShutOut` and `Recovers` are exactly.

Only proved, in no run: `Attempts`, `AppendOnly` and `Implements` of the store,
`DraftImplements`, `RejectedForGood`, `StrandedByLostWorker`, `SpentStaysSpent`,
`AbandonedStays`, `CyclesBounded`, `RunsGetNearer`, the facts of the contract, and
`DraftPr` with the local backend (`GitBacked = FALSE`), which the theorems cover for
either value. Their properties (`RejectionIsFinal`, `OnlyLostWorkerStrands`,
`SpentForGood`, `AbandonedForGood`, `CycleIsBounded`, `RunsShrink`,
`DraftPr!ImplementsLifecycle`) can be added to the configuration of their module.

## 6. Plan

Done: `JobContracts`, `JobLifecycle`, `JobStore`, `Pipeline`, `Scheduler`,
`DraftPr`, `Unattended`, `ProductionLoop` with `SupervisedActivation`, and
`GameFlow`, each with its proofs, in this order; then the results that relate more
than one step or component: the contract's own theorems and their transfer, exact
counting, what a death, a rejection or a lost lease leaves behind.

Left: the guarded executor and the configuration of `production_github.py`,
should they come to keep state; a refinement of `ProductionLoop`'s adapters by
`Pipeline`, once the repository implements them; relationship values of the game,
once a screen depends on them.

## 7. Not modelled

* Formatting, timestamps, schema versions, titles and bodies.
* The commands a validation runs; their outcome is any status.
* `GuardedMutationExecutor`, which passes calls on or refuses them all.
* The CLI's parsers and output, and the redaction of evidence.
* In the game, breakfast, relationships and the memory log, which no screen of the
  flow depends on; `reload_current_scene` and `placeholder_launch.gd`, which the
  main scene never reaches.
* Camera, player and visuals: floating-point geometry without discrete state.
* Build and export scripts: straight-line tool calls.
* `test_repeating_dispatch_operation_is_idempotent`
  (`tests/autonomy/test_orchestrator.py:109`) expects the second of two
  dispatches to return the first. The code runs the Reviewer instead, because
  the Worker has moved the job and dispatches are recorded per state;
  `DispatchCached` models the code.
