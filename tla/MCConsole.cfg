SPECIFICATION MCSpec
CONSTANTS
  u1 = u1
  u2 = u2
  m1 = m1
  m2 = m2
  Users = {u1, u2}
  NoUser = none
  Plan <- MCPlan
  Monitors = {m1, m2}
  NoMonitor = noMonitor
  Intervals = {60, 300}
  Typed = {"host", "http"}
  Answers <- MCAnswers
  OtherRows <- MCOtherRows
  Ids = {1, 2, 3}
  NoId = 0
  Slugs = {"a", "b"}
  ShownMonitors = {"m"}
  maxAlertContacts = 2
  PAGE_SIZE = 1
  Tabs = {t1, t2}
  Client = client
  Accounts = {1, 2, 3}
  Nobody = nobody
  Credentials <- MCCredentials
INVARIANTS
  TypesOK
  SavesHaveTheirMonitor
  OthersMonitorsAreOnlySeen
  CertificateLabelHasItsCheck
  SavesReachTheirRow
  SessionsAreOfTheirTime
CHECK_DEADLOCK FALSE
