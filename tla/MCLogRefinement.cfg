\* Serial halts whose cut lines do not parse: one chain, which implements
\* HashChain.
SPECIFICATION Spec
CONSTANTS
  Halts = {h1, h2, h3}
  Auditors = {}
  Key = k
  Nobody = nobody
  Tears = {"part"}
  Serialized = TRUE
INVARIANT SerialChain
PROPERTY ImplementsHashChain
CHECK_DEADLOCK FALSE
