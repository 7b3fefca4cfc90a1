\* Threads may wait for ever, once every reconnection slot is lost.
CHECK_DEADLOCK FALSE
SPECIFICATION Spec
CONSTANTS
  PoolSize = 3
  Borrowers = {w1, w2}
  MaxOutages = 3
INVARIANTS
  TypeOK
  SlotsAccounted
PROPERTIES
  HandsOutLive
