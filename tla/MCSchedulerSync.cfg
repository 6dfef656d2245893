SPECIFICATION FairSpec
CONSTANTS
  i1 = i1
  Instances = {i1}
  Runs = {r1, r2}
  Home <- MCHome
  NoRun = none
  Monitors = {m1}
  Queues = {http, tcp}
  Intervals = {30}
  LockTtl = 2
  MaxEdits = 2
  MaxFailures = 1
INVARIANTS
  OverlapOnlyAfterExpiry
  SettledMonitorsAreScheduled
PROPERTIES
  SchedulersConverge
CHECK_DEADLOCK FALSE
