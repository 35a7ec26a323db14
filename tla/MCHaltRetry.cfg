\* Three halts of one node in succession, every outcome.
SPECIFICATION Spec
CONSTANTS
  n1 = n1
  n2 = n2
  NodeLists <- OneNode
  InUse = {"ipmi"}
  Namespace = ns
  MaxAttempts = 3
INVARIANTS OkMeansHalted EffectsAccounted PostedIsLogged
CHECK_DEADLOCK FALSE
