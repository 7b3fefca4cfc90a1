SPECIFICATION Spec
CONSTANTS
  h1 = h1
  h2 = h2
  Hosts = {h1, h2}
  None = None
  AnyHost = AnyHost
  eth0 = eth0
  Items = {eth0}
  Contents <- MCContents
  Shift <- MCShift
  StaleAge = 1
  MaxTime = 2
  MaxReports = 3
  MaxRefusals = 1
  LastRestart = 1
  Ranges <- MCRanges
  PageSizes = {0}
  DefaultPageSize = 2
SYMMETRY Symmetry
INVARIANTS
  RatesAgree
  OnlineIsListed
  WalkMissesNothing
  WalkRepeatsOnlyShifted
