SPECIFICATION Spec
CONSTANTS
  MaxReleases = 2
  Resources = {web}
  Stack = stack
  Snapshot <- SameResources
INVARIANTS
  NewerReleaseWon
CHECK_DEADLOCK FALSE
