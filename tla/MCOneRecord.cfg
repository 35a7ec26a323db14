\* Serial halts and cut lines: a returned halt whose record is lost.
SPECIFICATION Spec
CONSTANTS
  Halts = {h1, h2}
  Auditors = {}
  Key = k
  Nobody = nobody
  Tears = {"part", "whole"}
  Serialized = TRUE
INVARIANT OneRecordPerHalt
CHECK_DEADLOCK FALSE
