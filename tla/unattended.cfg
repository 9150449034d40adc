\* Two launchers with names of their own, one of them embedded in a program
\* that takes commands; crashes, stale leases, the emergency stop.
SPECIFICATION Spec
CONSTANTS
  Procs = {p1, p2}
  Owner <- MCOwnNames
  Embedded = {p1}
  Modes = {"observe_only", "always_on"}
  MaxCycles = 2
  Ttl = 1
  Modulus = 2
  Stoppable = {p1}
  MaxCrashes = 1
  None = None
INVARIANTS
  TypeOK
  OneFreshHolder
  LeaseHasHolder
  OperatorObeyed
  CyclesCounted
