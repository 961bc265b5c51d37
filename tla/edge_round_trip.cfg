SPECIFICATION Spec
CONSTANTS
  Modes = {"L1"}
  Warmup = 1
  Iterations = 2
  MaxTests = 2
  MaxLost = 0
INVARIANTS
  RecordsRoundTrip
CHECK_DEADLOCK FALSE
