SPECIFICATION FairSpec
CONSTANTS
  Clients = {p1}
  N = 2
  NoState = NoState
  NoReply = NoReply
  RetryAttempts = 2
  CoreMayFail = FALSE
  MaxRuns = 5
  MaxFaults = 2
  MaxTimeouts = 1
  MaxCrashes = 1
INVARIANTS TerminalIsCoreTerminal
PROPERTIES EventuallyUploaded InvocationsEnd
CHECK_DEADLOCK FALSE
