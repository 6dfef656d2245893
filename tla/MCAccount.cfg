SPECIFICATION MCSpec
CONSTANTS
  u1 = u1
  u2 = u2
  e1 = e1
  e2 = e2
  w1 = w1
  m1 = m1
  m2 = m2
  k1 = k1
  k2 = k2
  k3 = k3
  p1 = p1
  Users = {u1, u2}
  Emails = {e1, e2}
  Webhooks = {w1}
  Deliveries = {d1, d2}
  NoUser = none
  NoEmail = noEmail
  Monitors = {m1, m2}
  Contacts = {k1, k2, k3}
  Pages = {p1}
  NoPage = noPage
  Requests = {r1, r2}
  PLAN_LIMITS <- MCLimits
  MonitorInputs <- MCInputs
  Intervals = {60, 300}
  MaxOperations = 4
  MaxFailures = 1
INVARIANTS
  TypeOK
  RecordedPaymentsTookEffect
  PaymentsUpgradeOneUser
  OverrunBoundedByConcurrency
  MonitorsAreWellFormed
  PagesShowOwnMonitors
  SettingsStick
PROPERTIES
  PaymentsAreSettled
CHECK_DEADLOCK FALSE
