SPECIFICATION Spec
CONSTANTS
  Modes = {"L0", "L1", "L2", "L3"}
  Warmup = 1
  Iterations = 2
  MaxTests = 2
  MaxLost = 1
INVARIANTS
  OwnEcho
  BudgetCovers
  PassedThroughCpu
  LeavesNothing
  NeverBothWait
PROPERTIES
  TestEnds
CHECK_DEADLOCK FALSE
