SPECIFICATION BenchSpec
CONSTANTS
  Bench = bench
  Callers = {bench}
  Rmmod = rmmod
  MapIds = {m1}
  Calls = {"start", "sram", "stop", "diag", "both", "tx", "rx", "exit", "irq"}
  Faults = {"open", "enable", "prep", "submit"}
  Programs <- Served
  MaxRuns = 3
  MaxKills = 1
INVARIANTS
  HonestPass
  ReturnsClean
PROPERTIES
  OnlyOwnerStops
  RunEnds
CHECK_DEADLOCK FALSE
