\* Two halts, no status command, all faults, weak fairness.
SPECIFICATION FairSystem
CONSTANTS
  n1 = n1
  n2 = n2
  Halts = {h1, h2}
  Auditors = {}
  Key = k
  Nobody = nobody
  Tears = {"part"}
  Serialized = FALSE
  Namespace = ns
  Jobs <- MCJobs
  Asked = {}
PROPERTY HaltsEnd
CHECK_DEADLOCK FALSE
