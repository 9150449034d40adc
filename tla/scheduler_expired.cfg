\* A job whose lease has expired.
SPECIFICATION FairSpec
CONSTANTS
  Schedulers = {s1}
  j1 = j1
  j2 = j2
  j3 = j3
  Jobs = {j1}
  Created <- MCCreated
  LeaseIds = {l1, l2, l3}
  LeaseSeconds = 1
  BackoffSeconds = 1
  Limit = 1
  Serial = TRUE
  MaxCrashes = 1
  MaxClock = 1
  None = None
PROPERTY
  ExpiredLeaseRecovers
