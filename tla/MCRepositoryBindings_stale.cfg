SPECIFICATION Spec
CONSTANTS
  Processes = {p1, p2}
  Paths = {a}
  Sources = {s1}
  MaxRuns = 2
  MaxFaults = 0
  MaxCrashes = 1
  MaxAges = 1
  MaxReclones = 0
INVARIANTS NoDuplicateBinding
CHECK_DEADLOCK FALSE
