SPECIFICATION Spec
CONSTANTS
  Monitor = m1
  Requests = {r1}
  Scheduler = scheduler
  Delay = 2
  MaxAttempts = 2
  RequestsUntil = 1
  MaxTime = 3
  MaxRequests = 1
  MaxFailures = 0
PROPERTIES
  NoFalseAlarm
CHECK_DEADLOCK FALSE
