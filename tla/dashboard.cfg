SPECIFICATION Spec
CONSTANTS
  h1 = h1
  h2 = h2
  s1 = s1
  s2 = s2
  Hosts = {h1, h2}
  Slots = {s1, s2}
  None = None
  PAGE_SIZE = 1
  MAX_HISTORY = 2
  MaxReports = 3
  MaxFailures = 1
INVARIANTS
  TypeOK
  ViewsAgree
PROPERTIES
  ChoiceKept
  Converges
