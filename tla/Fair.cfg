SPECIFICATION Spec
CONSTANTS
  MaxMirrorFailures = 1
  Builds = {"b1", "b2"}
  convergenceTimeout = 2
  releaseLifetimeCap = 6
  MaxTicks = 7
  MaxDeadlineFailures = 1
INVARIANTS
  FailureShown
  DeployWindowKept
PROPERTIES
  EveryChangeHandled
  ClusterDeletionEnds
  DeadlineEnforced
CHECK_DEADLOCK FALSE
