SPECIFICATION Spec
CONSTANTS
  Operands = {a, b}
  Goroutines = {g1, g2}
  Requests = {r1}
  Listed = {a}
  Periodic = TRUE
  MaxCrashes = 1
INVARIANTS
  WakeupKept
PROPERTIES
  ImplementsWakeups
CHECK_DEADLOCK FALSE
