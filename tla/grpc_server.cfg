SPECIFICATION Spec
CONSTANTS
  a = a
  b = b
  c = c
  r1 = r1
  r2 = r2
  r3 = r3
  r4 = r4
  r5 = r5
  Requests = {r1, r2, r3, r4, r5}
  Hosts = {a, b, c}
  NoName = NoName
  None = None
  Name <- MCName
  InfoHostname <- MCInfoHostname
  MaxHosts = 2
INVARIANTS
  TypeOK
  CacheMatchesLru
  EvictsLongestSilent
  AcknowledgedOnce
  DrainedOnExit
PROPERTIES
  DeliverySpec
