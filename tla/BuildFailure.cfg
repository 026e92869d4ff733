SPECIFICATION Spec
CONSTANT
  MaxFailures = 1
INVARIANTS
  BuildFailureNotDropped
