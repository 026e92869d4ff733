SPECIFICATION FairSpec
CONSTANTS
  w1 = w1
  w2 = w2
  Writers <- MCWriters
  Reports <- MCReports
  Limit = 2
INVARIANTS
  RecordedOnce
PROPERTIES
  StreamEnds
  ImplementsTimeline
CHECK_DEADLOCK FALSE
