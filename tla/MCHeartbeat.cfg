SPECIFICATION FairSpec
CONSTANTS
  Monitor = m1
  Requests = {r1, r2}
  Scheduler = scheduler
  Delay = 2
  MaxAttempts = 2
  RequestsUntil = 1
  MaxTime = 2
  MaxRequests = 2
  MaxFailures = 1
INVARIANTS
  IncidentsMatchResults
PROPERTIES
  LostTimerIsRearmed
  StaleTimersAreRemoved
  SilentMonitorIsReportedOrStuck
CHECK_DEADLOCK FALSE
