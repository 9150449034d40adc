\* Two processes that activate issues and run the loop over the queue at any time.
SPECIFICATION Spec
CONSTANTS
  Procs = {p1, p2}
  Issues = {i1, i2}
  MaxHead = 2
  MaxFix = 1
  MaxIssues = 2
  Configs = {c1, c2}
  MaxRequeues = 1
  None = None
INVARIANTS
  TypeOK
  MergedHeadWasApproved
  StopObeyed
PROPERTY
  QuarantineHolds
