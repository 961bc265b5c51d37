SPECIFICATION Spec
CONSTANTS
  Callers = {c1}
  Rmmod = rmmod
  MapIds = {m1, m2}
  Calls = {"start", "sram", "stop", "both", "tx", "rx", "bad", "exit", "irq"}
  Faults = {"config", "open", "enable", "prep", "submit", "alloc"}
INVARIANTS
  TypeOK
  ResourcesMatchSession
  CleanStart
  RingBufferSafe
  CountsOwnSession
PROPERTIES
  TeardownWithDreqOff
  SessionSpec
ACTION_CONSTRAINT SramBothWays
