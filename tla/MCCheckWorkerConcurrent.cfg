SPECIFICATION Spec
CONSTANTS
  Monitors = {m1}
  Contacted = {m1}
  Slots = {s1, s2}
  NoMonitor = none
  Threshold = 2
  MaxAttempts = 1
  MaxWaiting = 1
  MaxChecks = 4
  MaxFailures = 1
SYMMETRY SlotSymmetry
INVARIANTS
  IncidentsRestOnChecks
  AlertsMatchIncidents
CHECK_DEADLOCK FALSE
