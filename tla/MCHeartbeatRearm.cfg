SPECIFICATION FairSpec
CONSTANTS
  Monitor = m1
  Requests = {r1}
  Scheduler = scheduler
  Delay = 2
  MaxAttempts = 3
  RequestsUntil = 0
  MaxTime = 5
  MaxRequests = 0
  MaxFailures = 3
PROPERTIES
  SilentMonitorIsReported
CHECK_DEADLOCK FALSE
