SPECIFICATION Spec
CONSTANTS
  Clients = {p1, p2}
  N = 2
  NoState = NoState
  NoReply = NoReply
  RetryAttempts = 1
  CoreMayFail = TRUE
  MaxRuns = 2
  MaxFaults = 1
  MaxTimeouts = 0
  MaxCrashes = 1
SYMMETRY ClientSymmetry
INVARIANTS AcceptedInOrder NoSpuriousContractFailure SuccessIsBacked OpenStagingIsResumable
PROPERTIES KeepsPromise
CHECK_DEADLOCK FALSE
