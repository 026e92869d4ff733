SPECIFICATION Spec
CONSTANTS
  PRs = {1}
  Commits = {1, 2}
  MaxActive = 1
  Requests = {h1}
  MaxPreviews = 1
  MaxStacks = 1
  MaxReleases = 2
PROPERTY DeletionSticks
CHECK_DEADLOCK FALSE
