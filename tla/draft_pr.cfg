\* Every way to refuse a plan, to fail and to die, an operator with the CLI and
\* the emergency stop, and three runners that follow each other in any order.
SPECIFICATION Spec
CONSTANTS
  Runners = {"rehearsal", "activation", "development"}
  Branches = {"b1", "b2"}
  Contents = {"c1", "c2"}
  Plans <- MCPlans
  GitBacked = TRUE
  MaxAttempts = 2
  Outcomes = {"passed", "failed"}
  Answers = {"done", "unnumbered", "lost", "refused"}
  Preflights = {TRUE, FALSE}
  Raising = TRUE
  Stoppable = TRUE
  CliOps = {"o1"}
  CliTargets = {"executing", "cancelled"}
  CrashAt <- MCAnywhere
  MaxCrashes = 1
  None = None
INVARIANTS
  TypeOK
  PullRequestIsBacked
  CommittedOnce
  StopIsObeyed
PROPERTY
  DeliveredIsFinal
