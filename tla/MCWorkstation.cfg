SPECIFICATION SideSpec
CONSTANTS
  Processes = {p1, p2}
  Names = {n1, n2}
  Ports = {h1, h2}
  MaxSets = 2
  MaxCoreCommands = 4
  MaxCoreFaults = 1
  Files = {f1, f2}
  InGit = {f2}
  Repos = {r}
  Name <- OneName
  MaxDocs = 3
  MaxCommands = 3
  MaxEdits = 2
  MaxFaults = 1
SYMMETRY Interchangeable
INVARIANTS RestartHeals CacheAgrees SkippedFilesAreGiven NoDocumentIsLeftBehind ReconcileLeavesAgreement
CHECK_DEADLOCK FALSE
