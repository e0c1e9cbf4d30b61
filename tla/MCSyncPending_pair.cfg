SPECIFICATION Spec
CONSTANTS
  Processes = {p1, p2}
  Commands = {"pairwise", "wait", "watch"}
  Peers = 2
  MaxCommits = 2
  MaxTasks = 2
  Troubles = {"failure", "tear"}
  MaxTroubles = 1
SYMMETRY ProcessSymmetry
INVARIANTS SyncedIsProcessed
CHECK_DEADLOCK FALSE
