------------------------------ MODULE Calendar ------------------------------
(***************************************************************************)
(* The date arithmetic of the summary jobs.  A date is a number of days    *)
(* since Monday 1 January 2018; the processes run in UTC, as their         *)
(* containers do, so local and UTC dates are the same.                     *)
(***************************************************************************)
EXTENDS Integers, Sequences

FirstYear == 2018
LastYear == 2030
Years == FirstYear..LastYear

IsLeap(y) == (y % 4 = 0 /\ y % 100 # 0) \/ y % 400 = 0

\* Days of year y before the first of month m.
DaysBefore(y, m) ==
  <<0, 31, 59, 90, 120, 151, 181, 212, 243, 273, 304, 334, 365>>[m]
  + (IF m > 2 /\ IsLeap(y) THEN 1 ELSE 0)

\* The first of January of each year.
YearStart[y \in FirstYear..(LastYear + 1)] ==
  IF y = FirstYear THEN 0 ELSE YearStart[y - 1] + DaysBefore(y - 1, 13)

\* new Date(y, m - 1, d), which carries days over the end of the month.
DateOf(y, m, d) == YearStart[y] + DaysBefore(y, m) + d - 1

Dates == 0..(YearStart[LastYear + 1] - 1)

\* getFullYear, getMonth + 1 and getDate.
YearOf == [date \in Dates |-> CHOOSE y \in Years : YearStart[y] <= date /\ date < YearStart[y + 1]]
MonthOf ==
  [date \in Dates |-> LET y == YearOf[date] IN
     CHOOSE m \in 1..12 : DateOf(y, m, 1) <= date /\ date < DateOf(y, m + 1, 1)]
DayOfMonth(date) == date - DateOf(YearOf[date], MonthOf[date], 1) + 1

\* getDay: 0 is Sunday.
DayOfWeek(date) == (date + 1) % 7

-----------------------------------------------------------------------------
(* Weeks *)

\* The year and the week number of the Thursday of the week.
WeekNumber(date) ==
  LET dayNum == IF DayOfWeek(date) = 0 THEN 7 ELSE DayOfWeek(date)
      thursday == date + 4 - dayNum
      yearStart == YearStart[YearOf[thursday]]
  IN (thursday - yearStart + 7) \div 7   \* ceil((days + 1) / 7)

\* getWeekDates: the Monday of week w of year y; the week ends six days later.
WeekStart(y, w) ==
  LET simple == DateOf(y, 1, 1 + (w - 1) * 7)
      dow == DayOfWeek(simple)
  IN IF dow <= 4 THEN simple - dow + 1 ELSE simple + 8 - dow

\* Mutant of WeekEnd: the week ends on its Saturday.
WeekEndOnSaturday(y, w) == WeekStart(y, w) + 5

WeekEnd(y, w) == WeekStart(y, w) + 6

\* getPreviousWeekInfo: what the weekly job of a day aggregates.
PreviousWeek(today) ==
  LET y == YearOf[today]
      week == WeekNumber(today) - 1
  IN IF week = 0 THEN <<y - 1, WeekNumber(DateOf(y - 1, 12, 31))>> ELSE <<y, week>>

-----------------------------------------------------------------------------
(* Months and timers *)

\* getMonthDates
MonthStart(y, m) == DateOf(y, m, 1)
MonthEnd(y, m) == DateOf(y, m + 1, 1) - 1

\* getPreviousMonthInfo
PreviousMonth(today) ==
  IF MonthOf[today] = 1 THEN <<YearOf[today] - 1, 12>> ELSE <<YearOf[today], MonthOf[today] - 1>>

\* getPreviousYearInfo
PreviousYear(today) == <<YearOf[today] - 1>>

\* getNextFirstOfMonthAt and getNextJanuaryFirstAt, for a process started on a day
\* after that day's moment, or before it.
NextFirstOfMonth(today, passed) ==
  IF DayOfMonth(today) = 1 /\ ~passed THEN today
  ELSE today - DayOfMonth(today) + 1 + DaysBefore(YearOf[today], MonthOf[today] + 1)
       - DaysBefore(YearOf[today], MonthOf[today])
NextFirstOfJanuary(today, passed) ==
  IF today = YearStart[YearOf[today]] /\ ~passed THEN today ELSE YearStart[YearOf[today] + 1]
=============================================================================
