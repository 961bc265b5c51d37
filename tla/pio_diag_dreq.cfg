SPECIFICATION Spec
CONSTANTS
  Callers = {c1}
  Rmmod = rmmod
  MapIds = {m1, m2}
  Calls = {"diag"}
  Faults = {}
PROPERTIES
  TeardownWithDreqOff
