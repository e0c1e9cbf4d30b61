SPECIFICATION Spec
CONSTANTS
  ScanSizes = {0, 1, 2, 4}
  MaxEntries = 6
  MaxFileRecords = 5
  MaxFileBytes = 3
  MaxSupportedBytes = 6
  MaxPartItems = 2
  MaxPartBytes = 3
  MaxContentParts = 2
  Processes = {p1, p2}
  Docs = {"d"}
  Order <- Items
  Alike = {{"f1", "f2"}, {"f2", "f3"}}
  Weight <- Weights
  Torn = Torn
  MaxRuns = 4
  MaxFaults = 2
  Mine = {"d"}
  Other = {"e"}
  PageSize = 1
  MaxTime = 2
  MaxEvents = 2
  MaxGateRuns = 1
  MaxErrors = 1
  MaxLines = 3
  MinLines = 2
  MaxText = 6
  Budgets = {0, 7, 12}
  FileCaps = {0, 1}
  ChunkSizes = {1, 4, 9}
  Overhead = 2
  Least = 1
  Delimiter = 1
  Summary = 2
  MaxTracked = 4
  MaxChunks = 2
INVARIANTS PackingIsExact NothingSwallowed VerdictIsInformed NoLineIsLost SnapshotIsAccounted
CHECK_DEADLOCK FALSE
