\* Two halts, a status command, nodes others change, all faults.
SPECIFICATION SystemSpec
CONSTANTS
  n1 = n1
  n2 = n2
  Halts = {h1, h2}
  Auditors = {}
  Key = k
  Nobody = nobody
  Tears = {"part"}
  Serialized = FALSE
  Namespace = ns
  Jobs <- MCJobs
  Asked <- MCAsked
INVARIANTS SystemTypeOK EffectsOnRecord OneAtATime LogOrder
PROPERTY StatusShowsHalts
CHECK_DEADLOCK FALSE
