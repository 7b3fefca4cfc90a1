SPECIFICATION Spec
CONSTANTS
  CPUs = {a, b, c}
  Interfaces = {1, 2, 3}
  Bucket <- BucketOf
  Directions = {rcv, snd}
  MaxEntries = 2
  MaxPackets = 5
  None = None
SYMMETRY Symmetry
INVARIANTS TypeOK NeverOverstates SharesOneInterval
PROPERTY ExactOnceSettled
CHECK_DEADLOCK FALSE
