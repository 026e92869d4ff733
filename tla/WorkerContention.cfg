SPECIFICATION Spec
CONSTANTS
  MaxReleases = 2
  Resources = {web}
  Stack = stack
  Snapshot <- SameResources
INVARIANTS
  IInv
  ReleasedIsConverged
PROPERTIES
  WriterInProgress
CHECK_DEADLOCK FALSE
