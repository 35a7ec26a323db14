\* Three halts that may overlap, one auditor, all faults.
SPECIFICATION Spec
CONSTANTS
  Halts = {h1, h2, h3}
  Auditors = {a1}
  Key = k
  Nobody = nobody
  Tears = {"part", "whole"}
  Serialized = FALSE
SYMMETRY Symmetry
INVARIANTS TypeOK LinesIntact ParentPrecedes ReturnedIsLogged VerdictExact
PROPERTIES SyncedPrefixKept AuditCoversCount
CHECK_DEADLOCK FALSE
