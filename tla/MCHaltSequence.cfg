\* One halt of up to two nodes, every backend, every outcome, weak fairness.
SPECIFICATION FairSpec
CONSTANTS
  n1 = n1
  n2 = n2
  NodeLists <- TwoNodes
  InUse = {"kubernetes", "slurm", "ipmi"}
  Namespace = ns
  MaxAttempts = 1
INVARIANTS TypeOK RecordsComplete RecordsHonest OkMeansHalted EffectsAccounted
PROPERTY EveryHaltEnds
CHECK_DEADLOCK FALSE
