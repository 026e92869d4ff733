SPECIFICATION FairSpec
CONSTANTS
  MaxReleases = 2
  Resources = {}
  Stack = stack
  Snapshot <- SameResources
PROPERTIES
  EventuallyTerminal
CONSTRAINT QuietCluster
CHECK_DEADLOCK FALSE
