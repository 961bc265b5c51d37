SPECIFICATION Spec
CONSTANTS
  N = 5
  Patterns = {"walk", "fixed"}
  Walk = 4
  Depth = 1
  MaxPasses = 2
  MaxFaults = 1
  MayKill = TRUE
INVARIANTS
  TypeOK
  PassSound
  CleanRunPasses
  StatsConsistent
PROPERTIES
  StopObeyed
