SPECIFICATION FairSpec
CONSTANTS
  Processes = {p1}
  Commands = {"review", "detach", "push", "wait"}
  Peers = 1
  MaxCommits = 2
  MaxTasks = 4
  Troubles = {"failure", "loss", "age", "timeout", "crash"}
  MaxTroubles = 1
INVARIANTS NoDoubleWork
PROPERTIES LastAdvances EventuallySynced
CHECK_DEADLOCK FALSE
