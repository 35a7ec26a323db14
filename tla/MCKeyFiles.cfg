\* Three keygens, forced or not, and two halts on one key path, all faults.
SPECIFICATION Spec
CONSTANTS
  Keygens = {g1, g2, g3}
  Halts = {h1, h2}
  Absent = absent
  Broken = broken
  Nobody = nobody
SYMMETRY Symmetry
INVARIANTS TypeOK LoneKeygenOwnsPair
PROPERTIES KeptUnlessForced SettledKeyWorks
CHECK_DEADLOCK FALSE
