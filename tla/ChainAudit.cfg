\* Two logs, four halts, two changes of the files.
SPECIFICATION Spec
CONSTANTS
  Logs = {l1, l2}
  Key = k
  MaxHalts = 4
  MaxEdits = 2
INVARIANTS TypeOK IntactIffLineage IntactFindable
PROPERTY HaltKeepsVerdict
CHECK_DEADLOCK FALSE
