SPECIFICATION Spec
CONSTANTS
  NIrqs = 3
  Doorbell = 2
  Programs = {"bench", "launcher"}
  Attempts = 2
  MaxRuns = 2
  MayTimeout = TRUE
  MaxKills = 1
INVARIANTS
  TypeOK
  NoWildJump
  VectorsRestored
  LaunchHonest
PROPERTIES
  Core0ReturnsUnkilled
  LaunchEnds
CHECK_DEADLOCK FALSE
