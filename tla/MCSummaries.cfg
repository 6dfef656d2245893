SPECIFICATION MCSpec
CONSTANTS
  m1 = m1
  m2 = m2
  Monitors = {m1, m2}
  Windows <- MCWindows
  CheckDays <- MCCheckDays
  RetentionDays = 4
  MaxFailures = 1
  HISTORY_PAGE_SIZE = 2
  HISTORY_MAX_PAGES = 2
  RangeLength = 3
  DayLength = 2
  Moments = {1, 2, 3, 4, 5, 6}
SYMMETRY MonitorPermutations
INVARIANTS
  TypesOK
  LossOnlyThroughLateRows
  CountedOnceUnlessFailed
  LeftBehindHasACause
  HistoryShowsItsRange
  StatisticsAddUp
CHECK_DEADLOCK FALSE
