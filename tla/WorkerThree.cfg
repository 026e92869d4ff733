SPECIFICATION Spec
CONSTANTS
  MaxReleases = 3
  Resources = {web}
  Stack = stack
  Snapshot <- LastPrunes
PROPERTIES
  StackMovesForward
  ImplementsLifecycle
CONSTRAINT QuietTime
CHECK_DEADLOCK FALSE
