\* One halt of one node: ExecutedIsAttested is violated.
SPECIFICATION Spec
CONSTANTS
  n1 = n1
  n2 = n2
  NodeLists <- OneNode
  InUse = {"kubernetes", "slurm", "ipmi"}
  Namespace = ns
  MaxAttempts = 1
INVARIANT ExecutedIsAttested
CHECK_DEADLOCK FALSE
