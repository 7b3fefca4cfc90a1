\* The behaviours end at the bounds on time, loads and rounds.
CHECK_DEADLOCK FALSE
SPECIFICATION CpuSpec
CONSTANTS
  LastCpu = 0
  Ratio = 2
  Wrap = 3
  Precision = 2
  Float <- FloatOf
  MaxTime = 5
  MaxLoads = 2
  MaxRounds = 4
  Nothing = Nothing
INVARIANTS
  NoneNegative
  
  NothingTwice
