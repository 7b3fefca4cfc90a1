\* The system stops when main has returned or an assert has failed.
CHECK_DEADLOCK FALSE
SPECIFICATION ProcessSpec
CONSTANTS
  Signals = {sigint, sigterm}
  MaxConnections = 2
INVARIANTS
  NothingOutlivesMain
  StrayNeedsOverlap
  AssertSparesFirst
PROPERTIES
  StopsWhenRunning
