SPECIFICATION Spec
CONSTANTS
  Calls = {c1, c2, c3}
  Kinds <- MCKinds
  Concurrent = FALSE
INVARIANTS
  SettledUpToDate
  OneUpdate
PROPERTIES
  Converges
CHECK_DEADLOCK FALSE
