SPECIFICATION FairSpec
CONSTANTS
  Processes = {p1, p2, p3}
  Paths = {a}
  Sources = {s1}
  MaxRuns = 1
  MaxFaults = 1
  MaxCrashes = 1
  MaxAges = 1
  MaxReclones = 1
INVARIANTS OneBindingPerPath BindingsBacked NoOrphans
PROPERTIES IdentityKept InvocationsEnd
CHECK_DEADLOCK FALSE
