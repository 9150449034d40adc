\* A changing pull request, a crash anywhere, and an operator who retries,
\* approves by hand and cancels while agents run.
SPECIFICATION Spec
CONSTANTS
  Heads = {h1, h2}
  PrStatuses = {"ready", "rebased"}
  Outcomes = {"passed", "failed"}
  CliOps = {c1, c2}
  CliTargets = {"executing", "cancelled", "approved"}
  Fickle = TRUE
  Raising = TRUE
  CrashAt <- MCAnywhere
  MaxCrashes = 1
  MaxDispatches = 3
  None = None
SYMMETRY MCSymmetry
INVARIANTS
  TypeOK
  MergedHeadWasApproved
  LifecycleFollowsEvidence
  TerminalDispatchIsFinal
PROPERTY
  EvidenceIsImmutable
