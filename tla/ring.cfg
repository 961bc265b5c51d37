SPECIFICATION Spec
CONSTANTS
  Words = 4
  Period = 2
  Depth = 2
  Held = 2
  Burst = 2
  TxThreshold = 2
  RxThreshold = 2
  MaxWords = 10
  MaxSessions = 2
  MaxFaults = 1
INVARIANTS
  TypeOK
  NoLoss
  InOrder
  CleanSessionPasses
  DiagSound
PROPERTIES
  SessionFills
CHECK_DEADLOCK FALSE
