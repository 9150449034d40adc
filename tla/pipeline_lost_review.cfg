\* A review that is repeated after a rejection: which conclusion is on record.
SPECIFICATION Spec
CONSTANTS
  Heads = {h1, h2}
  PrStatuses = {"ready", "draft"}
  Outcomes = {"passed"}
  CliOps = {}
  CliTargets = {}
  Fickle = TRUE
  Raising = FALSE
  CrashAt <- MCAnywhere
  MaxCrashes = 0
  MaxDispatches = 3
  None = None
INVARIANT
  ApprovalHasEvidence
