SPECIFICATION FairSpec
CONSTANTS
  PRs = {1}
  Commits = {1, 2}
  MaxActive = 1
  Requests = {h1}
  MaxPreviews = 1
  MaxStacks = 2
  MaxReleases = 2
INVARIANTS
  ReadyIsReleased
  StackKept
PROPERTIES
  DeletionEnds
CHECK_DEADLOCK FALSE
