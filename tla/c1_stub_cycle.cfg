SPECIFICATION Spec
CONSTANTS
  NIrqs = 2
  Doorbell = 2
  Programs = {"bench", "launcher"}
  Attempts = 2
  MaxRuns = 2
  MayTimeout = FALSE
  MaxKills = 1
PROPERTIES
  Core0Returns
CHECK_DEADLOCK FALSE
