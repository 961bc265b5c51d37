SPECIFICATION Spec
CONSTANTS
  Bits = 2
  Words = 2
  Depth = 1
  MaxFaults = 1
  Warmup = 1
  Iterations = 2
  MaxRounds = 2
  Random <- Xorshift
INVARIANTS
  TypeOK
  PassSound
  CleanRunPasses
  BuffersOutliveTransfers
PROPERTIES
  RunEnds
CHECK_DEADLOCK FALSE
