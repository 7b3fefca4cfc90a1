SPECIFICATION Spec
CONSTANTS
  Hosts = {a, b}
  StaleAge = 3
  SweepPeriod = 3
  Lag = 1
  MaxSilence = 8
  None = None
INVARIANTS
  TypeOK
  ListsTheLivingOnly
  StopsWithinASecond
PROPERTIES
  StopReturns
