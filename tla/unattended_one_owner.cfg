\* Two launchers started over the configuration as it is shipped.
SPECIFICATION Spec
CONSTANTS
  Procs = {p1, p2}
  Owner <- MCOneName
  Embedded = {p1}
  Modes = {"observe_only", "always_on"}
  MaxCycles = 2
  Ttl = 1
  Modulus = 3
  Stoppable = {p1}
  MaxCrashes = 1
  None = None
INVARIANT
  OneLiveOwner
