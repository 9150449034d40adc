----------------------------- MODULE MCRecovery -----------------------------
(***************************************************************************)
(* What has to come about in the end: recovery of the two ways a job is    *)
(* driven, the dry-run pipeline and the draft-PR runners, of the           *)
(* launchers' lease, and the progress of the production loop.  A behaviour *)
(* is one of Pipeline, of DraftPr, of Unattended or of                     *)
(* SupervisedActivation, as the choice of the driver says, and the         *)
(* variables of the others keep still.  The process of a job dies where a  *)
(* run can be resumed, GitHub and the validation are in order, and the     *)
(* operator may move the job; a launcher dies anywhere.                    *)
(***************************************************************************)
EXTENDS MCPipeline, Sequences

VARIABLES
  driver,                        \* "pipeline", "runners", "launchers" or "operators"
  dstate, dattempts, ddone, dartifacts, reports, tree,   \* the variables of DraftPr
  local, remote, stop, calm, run, dcrashes,
  lease, counted, owed, control, ustop, urun, overlapped, died,   \* those of Unattended
  ucrashes,
  ready, quarantined, sheads, merged, approved, sstop, loop, act, \* SupervisedActivation
  requeues

draftVars == <<dstate, dattempts, ddone, dartifacts, reports, tree, local, remote, stop, calm,
               run, dcrashes>>
launchVars == <<lease, counted, owed, control, ustop, urun, overlapped, died, ucrashes>>
queueVars == <<ready, quarantined, sheads, merged, approved, sstop, loop, act, requeues>>

\* Two good plans for one branch.
MCPlans == [branch : {"b1"}, content : {"c1", "c2"}, kind : {"good"}]

\* The points at which a Git-backed run can die and be resumed: not with
\* uncommitted or unrecorded work in the tree, not between a mutation and its
\* record, and not once the job is validating.
MCResumable == {"check", "worker", "workspace", "checkout", "edit", "branch", "may-validate"}

Draft == INSTANCE DraftPr WITH
  Runners <- {"rehearsal", "activation", "development"},
  Branches <- {"b1"}, Contents <- {"c1", "c2"}, Plans <- MCPlans, GitBacked <- TRUE,
  MaxAttempts <- 2, Answers <- {"done"}, Preflights <- {TRUE}, Stoppable <- FALSE,
  CrashAt <- MCResumable, MaxCrashes <- MaxCrashes + 1,
  state <- dstate, attempts <- dattempts, done <- ddone, artifacts <- dartifacts,
  crashes <- dcrashes

MCLaunchers == {"p1", "p2"}

\* Two launchers with names of their own; the first is launched with a stop now and then.
Launch == INSTANCE Unattended WITH
  Procs <- MCLaunchers, Owner <- [p \in MCLaunchers |-> p], Embedded <- {},
  Modes <- {"always_on"}, MaxCycles <- 1, Ttl <- 1, Modulus <- 1, Stoppable <- {"p1"},
  MaxCrashes <- 1, stop <- ustop, run <- urun, crashes <- ucrashes

\* Two operators who activate an issue each or run the loop over the queue, with
\* fixes that push nothing.
Queue == INSTANCE SupervisedActivation WITH
  Procs <- {"p1", "p2"}, Issues <- {"i1", "i2"}, MaxHead <- 1, MaxFix <- 1, MaxIssues <- 1,
  Configs <- {"c1"}, MaxRequeues <- 0, head <- sheads, stop <- sstop

allVars == <<driver, vars, draftVars, launchVars, queueVars>>

\* A step of one specification, while it is the driver.
Pipes(A) == driver = "pipeline" /\ A /\ UNCHANGED <<driver, draftVars, launchVars, queueVars>>
Runs(A) == driver = "runners" /\ A /\ UNCHANGED <<driver, vars, launchVars, queueVars>>
Launches(A) == driver = "launchers" /\ A /\ UNCHANGED <<driver, vars, draftVars, queueVars>>
Operates(A) == driver = "operators" /\ A /\ UNCHANGED <<driver, vars, draftVars, launchVars>>

MCInit ==
  /\ driver \in {"pipeline", "runners", "launchers", "operators"}
  /\ Init /\ Draft!Init /\ Launch!Init /\ Queue!Init

MCNext ==
  Pipes(Next) \/ Runs(Draft!Next) \/ Launches(Launch!Next) \/ Operates(Queue!Next)

\* The fairness of the four specifications, each for its own driver: the driver never
\* changes, so one condition serves a step of each.
MCFairSpec ==
  /\ MCInit /\ [][MCNext]_allVars
  /\ WF_allVars(\/ Pipes(AgentStep) \/ Runs(Draft!RunStep)
                \/ Launches(Launch!Tick) \/ Operates(Queue!PreflightStep("p1")))
  /\ WF_allVars(\/ Launches(\E p \in MCLaunchers : Launch!Start(p))
                \/ Operates(Queue!PreflightStep("p2")))
  /\ WF_allVars(Launches(Launch!Proceed("p1")) \/ Operates(Queue!LoopStep("p1")))
  /\ WF_allVars(Launches(Launch!Proceed("p2")) \/ Operates(Queue!LoopStep("p2")))
  /\ WF_allVars(Operates(Queue!Finish("p1"))) /\ WF_allVars(Operates(Queue!Finish("p2")))
  /\ SF_allVars(\/ Pipes(CallRunToTerminal) \/ Runs(Draft!Call("rehearsal"))
                \/ Launches(Launch!Verify("p1")) \/ Operates(Queue!QueueGiven))
  /\ SF_allVars(\/ Runs(Draft!Call("activation")) \/ Launches(Launch!Verify("p2"))
                \/ Operates(Queue!StopAnswered))
  /\ SF_allVars(Runs(Draft!Call("development")) \/ Operates(Queue!QueueRun))

\* The property of Pipeline, of the jobs the pipeline drives: repeated calls of
\* run_to_terminal merge a job that the operator leaves alone.
PipelineRecovers == driver = "pipeline" => Recovers

\* The property of DraftPr, of the jobs the runners drive: repeated invocations
\* reach the draft pull request unless the operator moves the job.
RunnersDeliver == driver = "runners" => Draft!Delivers

\* The property of Unattended, of the launchers: no lease is left for ever to a
\* process that does not hold it.
LaunchersRecover == driver = "launchers" => Launch!LeaseRecovers

\* The properties of SupervisedActivation, of the operators: every run of the loop
\* returns, and every ready issue is taken off the queue.
LoopsEnd == driver = "operators" => Queue!RunsEnd
LoopsDrainTheQueue == driver = "operators" => Queue!QueueDrains
=============================================================================
