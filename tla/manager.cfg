\* The system stops after main has returned, and WorkerThread may block for ever.
CHECK_DEADLOCK FALSE
SPECIFICATION Spec
CONSTANTS
  a = a
  a_ip = a_ip
  r1 = r1
  r2 = r2
  r3 = r3
  Requests = {r1, r2, r3}
  Hosts = {a, a_ip}
  NoName = NoName
  None = None
  Name <- MCName
  InfoHostname <- MCInfoHostname
  InfoName <- MCInfoName
  MaxHosts = 1
  PoolSize = 1
  MaxOutages = 1
  Inserts = 2
  MaxRefusals = 1
INVARIANTS
  TablesAgree
  LostFromTheEnd
  StoredUnlessOutage
PROPERTIES
  ScoresMoveForward
  CatchesUp
