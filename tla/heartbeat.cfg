\* The system stops once both processes have ended.
CHECK_DEADLOCK FALSE
SPECIFICATION Spec
CONSTANTS
  Worker = worker
  StaleAge = 8
  SweepPeriod = 2
  Lag = 1
  MaxSilence = 11
  None = None
  Interval = 2
  MainSleep = 2
  MaxCall = 1
  MaxFailures = 1
  MaxDelay = 1
  MaxQueue = 2
INVARIANTS
  StaysListed
  WorkerReturnsInTime
PROPERTIES
  WorkerReturns
