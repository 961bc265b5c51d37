SPECIFICATION BenchSpec
CONSTANTS
  Bench = bench
  Callers = {bench}
  Rmmod = rmmod
  MapIds = {m1}
  Calls = {"start", "sram", "stop", "diag", "both", "tx", "rx", "exit", "irq"}
  Faults = {}
  Programs <- Mixed
  MaxRuns = 2
  MaxKills = 0
INVARIANTS
  DramIsDram
CHECK_DEADLOCK FALSE
