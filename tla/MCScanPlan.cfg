SPECIFICATION PartedSpec
CONSTANTS
  Processes = {p1}
  Paths = {a, b}
  Sources = {s, none}
  NoSource = none
  Planners = {q1, q2}
  MaxRuns = 2
  MaxFaults = 1
  MaxCrashes = 1
  MaxAges = 0
  MaxReclones = 2
SYMMETRY PlanSymmetries
INVARIANTS PlanIsBacked CommitsAreBound
PROPERTIES NoPlanReplaced
CHECK_DEADLOCK FALSE
