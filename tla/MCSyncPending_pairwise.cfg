SPECIFICATION Spec
CONSTANTS
  Processes = {p1}
  Commands = {"pairwise"}
  Peers = 2
  MaxCommits = 1
  MaxTasks = 3
  Troubles = {"timeout"}
  MaxTroubles = 1
INVARIANTS PairwiseIsExhaustive
CHECK_DEADLOCK FALSE
