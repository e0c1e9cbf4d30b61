SPECIFICATION Spec
CONSTANTS
  Processes = {p1, p2}
  Attempts = 2
  Intents = {i1, i2}
  MaxRuns = 2
  MaxIndexRuns = 1
  MaxFaults = 2
  MaxIndexFaults = 2
  MaxTimeouts = 1
  MaxCrashes = 1
  MaxUpgrades = 1
SYMMETRY Symmetries
INVARIANTS TypeOK OneJob EndIsTrue RecordKept NoFalseConflict WaitSurvivesUpgrade
PROPERTIES AdmissionDoesNotStrand
CHECK_DEADLOCK FALSE
