SPECIFICATION MonthSpec
CONSTANTS
  Monitors = {m1}
  Windows <- MonthWindow
  CheckDays <- MCCheckDays
  RetentionDays = 30
  MaxFailures = 0
  HISTORY_PAGE_SIZE = 2
  HISTORY_MAX_PAGES = 2
  RangeLength = 3
  DayLength = 2
  Moments = {1, 2, 3, 4, 5, 6}
PROPERTIES
  MonthsAndYearsAreAggregatedOnce
CHECK_DEADLOCK FALSE
