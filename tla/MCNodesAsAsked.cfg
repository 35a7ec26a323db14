\* Halts given an empty list of nodes: NodesAsAsked is violated.
SPECIFICATION Spec
CONSTANTS
  None = none
  Absent = absent
  Malformed = malformed
  Hosts <- MCHosts
  Arguments <- EmptyLists
  Dirs = {"dir1", "dir2"}
  Relative = {"log"}
  Contents <- MCContents
  MaxHalts = 1
INVARIANT NodesAsAsked
CHECK_DEADLOCK FALSE
