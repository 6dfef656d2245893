SPECIFICATION Spec
CONSTANTS
  Monitors = {m1}
  Contacted = {m1}
  Slots = {s1, s2}
  NoMonitor = none
  Threshold = 2
  MaxAttempts = 2
  MaxWaiting = 1
  MaxChecks = 4
  MaxFailures = 0
SYMMETRY SlotSymmetry
INVARIANTS
  AtMostOneOpenIncident
CHECK_DEADLOCK FALSE
