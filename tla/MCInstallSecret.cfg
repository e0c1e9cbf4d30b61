SPECIFICATION FairSpec
CONSTANTS
  Processes = {p1, p2, p3}
  Attempts = 3
  MaxRuns = 2
  MaxFaults = 1
  MaxCrashes = 1
INVARIANTS OneSecret
PROPERTIES SecretKept WaitingEnds
CHECK_DEADLOCK FALSE
