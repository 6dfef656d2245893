SPECIFICATION MCSpec
CONSTANTS
  c1 = c1
  c2 = c2
  Contacts = {c1, c2}
  Clients = {p1}
  Threshold = 2
  Attempts = 2
  MaxChecks = 3
  MaxConnects = 3
  MaxEdits = 1
  MaxFailures = 1
INVARIANTS
  TypeOK
  JobsServeTheirContacts
  StaleViewHasACause
  OutageToastedOnce
PROPERTIES
  EveryChangeIsAnnounced
CHECK_DEADLOCK FALSE
