SPECIFICATION Spec
CONSTANTS
  Callers = {c1, c2}
  Rmmod = rmmod
  MapIds = {m1, m2}
  Calls = {"start", "stop", "diag", "probe"}
  Faults = {"open", "prep", "submit", "alloc", "disable", "clear"}
SYMMETRY CallerSymmetry
INVARIANTS
  PrivateBufferSafe
