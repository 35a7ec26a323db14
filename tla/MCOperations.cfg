\* Every host and option of MCOperations, up to two recorded halts.
SPECIFICATION Spec
CONSTANTS
  None = none
  Absent = absent
  Malformed = malformed
  Hosts <- MCHosts
  Arguments <- MCArguments
  Dirs = {"dir1", "dir2"}
  Relative = {"log"}
  Contents <- MCContents
  MaxHalts = 2
INVARIANTS RecordsInReach StatusPreviewsHalt ExplicitDecides
PROPERTY KeygenServesHalts
CHECK_DEADLOCK FALSE
