\* Two unsynchronised client processes: every document ever on disk is consistent,
\* and only overlapping calls lose an update.
SPECIFICATION Spec
CONSTANTS
  Procs = {p1, p2}
  JobIds = {j1, j2}
  OpIds = {o1, o2, o3}
  Targets = {"claimed", "executing"}
  Payloads = {"a"}
  Subject = j1
  None = None
SYMMETRY MCSymmetry
INVARIANTS
  TypeOK
  DiskOneEventPerOperation
  DiskAuditTrailExplainsState
PROPERTIES
  OperationsDurable
  OnlyOverlapBreaksLifecycle
