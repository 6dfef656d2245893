SPECIFICATION FairSpec
CONSTANTS
  Monitors = {m1}
  Contacted = {m1}
  Slots = {s1}
  NoMonitor = none
  Threshold = 2
  MaxAttempts = 2
  MaxWaiting = 1
  MaxChecks = 4
  MaxFailures = 2
INVARIANTS
  AtMostOneOpenIncident
  EachIncidentHasItsOwnFailures
  FaultFreeOutagesAreContinuous
PROPERTIES
  LastCheckedAtNeverGoesBack
  ImplementsLifecycle
  EveryIncidentIsAnnounced
CHECK_DEADLOCK FALSE
