\* Two instances whose store calls do not overlap, crashes and expiring leases.
SPECIFICATION FairSpec
CONSTANTS
  Schedulers = {s1, s2}
  j1 = j1
  j2 = j2
  j3 = j3
  Jobs = {j1, j2, j3}
  Created <- MCCreated
  LeaseIds = {l1, l2, l3, l4}
  LeaseSeconds = 1
  BackoffSeconds = 1
  Limit = 2
  Serial = TRUE
  MaxCrashes = 2
  MaxClock = 1
  None = None
INVARIANTS
  TypeOK
  DispatchedOnce
  DispatchesUnderLease
  FailureGetsBackoff
PROPERTY
  ServedOrShutOut
