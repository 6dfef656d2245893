-------------------------- MODULE SummariesProofs --------------------------
(***************************************************************************)
(* Proofs about the summaries process: what a late row can lose, what      *)
(* counts twice and what is left behind, for every window of dates, any    *)
(* monitors, any check days and any number of failures.                    *)
(*                                                                         *)
(* First the calendar: years, months and weeks as arithmetic, and that the *)
(* period a job is due for holds the days of the rows its where clause     *)
(* selects.  Then rows and runs (BaseInv); what a run has read and its     *)
(* rows still stand on (LossInv); what it is moving (CountInv); and what   *)
(* the moments that passed have left (LeftInv).  Then, of a monitor's      *)
(* past, the statistics that are counted while it goes on (StatisticsInv)  *)
(* and the history that is read page by page (RangeInv); the types of the  *)
(* composed instances; last, the percentile of a day's latencies.          *)
(***************************************************************************)
EXTENDS MCSummaries, FiniteSetTheorems, WellFoundedInduction, TLAPS

-----------------------------------------------------------------------------
(* Years and months *)

\* The recursion of YearStart, unfolded: a function in closed form satisfies it.
LEMMA YearStartStep ==
  /\ YearStart[FirstYear] = 0
  /\ \A y \in (FirstYear + 1)..(LastYear + 1) : YearStart[y] = YearStart[y - 1] + DaysBefore(y - 1, 13)
<1> DEFINE Closed == [y \in FirstYear..(LastYear + 1) |-> 365 * (y - 2018) + ((y - 1) \div 4) - 504]
           Rule(f) == f = [y \in FirstYear..(LastYear + 1) |->
                             IF y = FirstYear THEN 0 ELSE f[y - 1] + DaysBefore(y - 1, 13)]
<1>1. \A y \in FirstYear..(LastYear + 1) :
        Closed[y] = IF y = FirstYear THEN 0 ELSE Closed[y - 1] + DaysBefore(y - 1, 13)
  <2> SUFFICES ASSUME NEW y \in FirstYear..(LastYear + 1)
               PROVE  Closed[y] = IF y = FirstYear THEN 0 ELSE Closed[y - 1] + DaysBefore(y - 1, 13)
    OBVIOUS
  <2>1. CASE y = FirstYear
    BY <2>1 DEF FirstYear, LastYear
  <2>2. CASE y # FirstYear
    <3>1. y \in 2019..2031 /\ y - 1 \in FirstYear..(LastYear + 1)
      BY <2>2 DEF FirstYear, LastYear
    <3>2. DaysBefore(y - 1, 13) = 365 + (IF IsLeap(y - 1) THEN 1 ELSE 0)
      BY <3>1 DEF DaysBefore
    <3>3. (y - 1) \div 4 = ((y - 2) \div 4) + (IF IsLeap(y - 1) THEN 1 ELSE 0)
      BY <3>1 DEF IsLeap
    <3> QED BY <2>2, <3>1, <3>2, <3>3 DEF FirstYear, LastYear
  <2> QED BY <2>1, <2>2
<1>2. Rule(Closed)
  <2>1. Closed = [y \in FirstYear..(LastYear + 1) |-> Closed[y]]
    OBVIOUS
  <2> HIDE DEF Closed
  <2> QED BY <1>1, <2>1, Zenon
<1>3. Rule(YearStart)
  <2> HIDE DEF Closed
  <2> QED BY <1>2, Zenon DEF YearStart
<1>4. YearStart[FirstYear] = 0
  BY <1>3 DEF FirstYear, LastYear
<1>5. ASSUME NEW y \in (FirstYear + 1)..(LastYear + 1)
      PROVE  YearStart[y] = YearStart[y - 1] + DaysBefore(y - 1, 13)
  <2> HIDE DEF Closed
  <2>1. y \in FirstYear..(LastYear + 1) /\ y # FirstYear
    BY DEF FirstYear, LastYear
  <2> QED BY <1>3, <2>1
<1> QED BY <1>4, <1>5

\* The calendar's years.
LEMMA YearStarts ==
  /\ YearStart[2018] = 0 /\ YearStart[2019] = 365 /\ YearStart[2020] = 730 /\ YearStart[2021] = 1096
  /\ YearStart[2022] = 1461 /\ YearStart[2023] = 1826 /\ YearStart[2024] = 2191 /\ YearStart[2025] = 2557
  /\ YearStart[2026] = 2922 /\ YearStart[2027] = 3287 /\ YearStart[2028] = 3652 /\ YearStart[2029] = 4018
  /\ YearStart[2030] = 4383 /\ YearStart[2031] = 4748
<1>1. \A y \in 2018..2030 : DaysBefore(y, 13) = IF y % 4 = 0 THEN 366 ELSE 365
  <2> SUFFICES ASSUME NEW y \in 2018..2030
               PROVE  DaysBefore(y, 13) = IF y % 4 = 0 THEN 366 ELSE 365
    OBVIOUS
  <2>1. DaysBefore(y, 13) = 365 + (IF IsLeap(y) THEN 1 ELSE 0)
    BY DEF DaysBefore
  <2>2. IsLeap(y) <=> y % 4 = 0
    BY DEF IsLeap
  <2> QED BY <2>1, <2>2
<1>2. YearStart[2018] = 0 /\ \A y \in 2019..2031 : YearStart[y] = YearStart[y - 1] + DaysBefore(y - 1, 13)
  BY YearStartStep DEF FirstYear, LastYear
<1>3. \A y \in 2019..2031 : YearStart[y] = YearStart[y - 1] + IF (y - 1) % 4 = 0 THEN 366 ELSE 365
  <2> SUFFICES ASSUME NEW y \in 2019..2031
               PROVE  YearStart[y] = YearStart[y - 1] + IF (y - 1) % 4 = 0 THEN 366 ELSE 365
    OBVIOUS
  <2>1. y - 1 \in 2018..2030
    OBVIOUS
  <2> QED BY <1>1, <1>2, <2>1
<1>4. /\ YearStart[2018] = 0 /\ YearStart[2019] = 365 /\ YearStart[2020] = 730 /\ YearStart[2021] = 1096
      /\ YearStart[2022] = 1461
  BY <1>2, <1>3
<1>5. /\ YearStart[2023] = 1826 /\ YearStart[2024] = 2191 /\ YearStart[2025] = 2557
      /\ YearStart[2026] = 2922
  BY <1>4, <1>3
<1>6. /\ YearStart[2027] = 3287 /\ YearStart[2028] = 3652 /\ YearStart[2029] = 4018
      /\ YearStart[2030] = 4383 /\ YearStart[2031] = 4748
  BY <1>5, <1>3
<1> QED BY <1>4, <1>5, <1>6

\* The dates of the calendar, from 2018 on.
LEMMA CalendarDates == Dates = 0..4747
<1>1. YearStart[LastYear + 1] = 4748
  BY YearStarts DEF LastYear
<1> QED BY <1>1 DEF Dates

\* Where years begin: a year has 365 or 366 days.
LEMMA YearsBegin ==
  /\ \A y \in 2018..2031 : YearStart[y] \in Nat
  /\ \A y \in Years : YearStart[y + 1] = YearStart[y] + DaysBefore(y, 13)
  /\ \A y, z \in 2018..2031 : y < z => YearStart[y] + 365 <= YearStart[z]
<1>1. \A y \in 2018..2031 : YearStart[y] = 365 * (y - 2018) + ((y - 1) \div 4) - 504
  <2> SUFFICES ASSUME NEW y \in 2018..2031
               PROVE  YearStart[y] = 365 * (y - 2018) + ((y - 1) \div 4) - 504
    OBVIOUS
  <2>1. \/ y = 2018 \/ y = 2019 \/ y = 2020 \/ y = 2021 \/ y = 2022 \/ y = 2023 \/ y = 2024
        \/ y = 2025 \/ y = 2026 \/ y = 2027 \/ y = 2028 \/ y = 2029 \/ y = 2030 \/ y = 2031
    OBVIOUS
  <2> QED BY <2>1, YearStarts
<1>2. \A y \in 2018..2031 : YearStart[y] \in Nat
  BY <1>1
<1>3. ASSUME NEW y \in Years
      PROVE  YearStart[y + 1] = YearStart[y] + DaysBefore(y, 13)
  <2>1. y + 1 \in (FirstYear + 1)..(LastYear + 1) /\ (y + 1) - 1 = y
    BY DEF Years, FirstYear, LastYear
  <2> QED BY <2>1, YearStartStep
<1>4. \A y, z \in 2018..2031 : y < z => YearStart[y] + 365 <= YearStart[z]
  BY <1>1
<1> QED BY <1>2, <1>3, <1>4

\* A month has 28 days or more, and December has 31.
LEMMA MonthLengths ==
  ASSUME NEW y \in Years
  PROVE  /\ \A m \in 1..13 : DaysBefore(y, m) \in Nat
         /\ DaysBefore(y, 1) = 0
         /\ \A m, n \in 1..13 : m < n => DaysBefore(y, m) + 28 <= DaysBefore(y, n)
         /\ DaysBefore(y, 13) - DaysBefore(y, 12) = 31
<1> DEFINE l == IF IsLeap(y) THEN 1 ELSE 0
<1>1. l \in 0..1
  OBVIOUS
<1>2. /\ DaysBefore(y, 1) = 0 /\ DaysBefore(y, 2) = 31 /\ DaysBefore(y, 3) = 59 + l
      /\ DaysBefore(y, 4) = 90 + l /\ DaysBefore(y, 5) = 120 + l /\ DaysBefore(y, 6) = 151 + l
      /\ DaysBefore(y, 7) = 181 + l /\ DaysBefore(y, 8) = 212 + l /\ DaysBefore(y, 9) = 243 + l
      /\ DaysBefore(y, 10) = 273 + l /\ DaysBefore(y, 11) = 304 + l /\ DaysBefore(y, 12) = 334 + l
      /\ DaysBefore(y, 13) = 365 + l
  BY DEF DaysBefore
<1> HIDE DEF l
<1>3. \A m \in 1..13 : \/ m = 1 \/ m = 2 \/ m = 3 \/ m = 4 \/ m = 5 \/ m = 6 \/ m = 7 \/ m = 8
                       \/ m = 9 \/ m = 10 \/ m = 11 \/ m = 12 \/ m = 13
  OBVIOUS
<1>4. \A m \in 1..13 : DaysBefore(y, m) \in Nat
  BY <1>1, <1>2, <1>3
<1>5. ASSUME NEW m \in 1..13, NEW n \in 1..13, m < n
      PROVE  DaysBefore(y, m) + 28 <= DaysBefore(y, n)
  BY <1>1, <1>2, <1>3, <1>5
<1> QED BY <1>1, <1>2, <1>4, <1>5

\* The year of a date: there is one, and one only.
LEMMA YearOfDate ==
  ASSUME NEW d \in Dates
  PROVE  /\ YearOf[d] \in Years
         /\ YearStart[YearOf[d]] <= d /\ d < YearStart[YearOf[d] + 1]
         /\ \A y \in Years : YearStart[y] <= d /\ d < YearStart[y + 1] => YearOf[d] = y
<1>1. d \in Nat /\ d < 4748
  BY YearStarts DEF Dates, LastYear
<1>2. \E y \in Years : YearStart[y] <= d /\ d < YearStart[y + 1]
  <2>1. \/ d < 365 \/ (365 <= d /\ d < 730) \/ (730 <= d /\ d < 1096) \/ (1096 <= d /\ d < 1461)
        \/ (1461 <= d /\ d < 1826) \/ (1826 <= d /\ d < 2191) \/ (2191 <= d /\ d < 2557)
        \/ (2557 <= d /\ d < 2922) \/ (2922 <= d /\ d < 3287) \/ (3287 <= d /\ d < 3652)
        \/ (3652 <= d /\ d < 4018) \/ (4018 <= d /\ d < 4383) \/ (4383 <= d /\ d < 4748)
    BY <1>1
  <2> QED BY <1>1, <2>1, YearStarts DEF Years, FirstYear, LastYear
<1>3. YearOf[d] = CHOOSE y \in Years : YearStart[y] <= d /\ d < YearStart[y + 1]
  BY DEF YearOf
<1>4. YearOf[d] \in Years /\ YearStart[YearOf[d]] <= d /\ d < YearStart[YearOf[d] + 1]
  BY <1>2, <1>3
<1>5. ASSUME NEW y \in Years, NEW z \in Years, YearStart[y] <= d, d < YearStart[y + 1],
             YearStart[z] <= d, d < YearStart[z + 1]
      PROVE  y = z
  <2>1. /\ y \in 2018..2031 /\ y + 1 \in 2018..2031 /\ z \in 2018..2031 /\ z + 1 \in 2018..2031
    BY DEF Years, FirstYear, LastYear
  <2>2. /\ \A u \in 2018..2031 : YearStart[u] \in Nat
        /\ \A u, v \in 2018..2031 : u < v => YearStart[u] + 365 <= YearStart[v]
    BY YearsBegin
  <2>3. ~(y < z)
    <3> SUFFICES ASSUME y < z PROVE FALSE
      OBVIOUS
    <3>1. y + 1 = z \/ y + 1 < z
      BY <2>1
    <3> QED BY <1>1, <1>5, <2>1, <2>2, <3>1
  <2>4. ~(z < y)
    <3> SUFFICES ASSUME z < y PROVE FALSE
      OBVIOUS
    <3>1. z + 1 = y \/ z + 1 < y
      BY <2>1
    <3> QED BY <1>1, <1>5, <2>1, <2>2, <3>1
  <2> QED BY <2>1, <2>3, <2>4
<1> QED BY <1>4, <1>5

\* The month of a date: there is one, and one only.
LEMMA MonthOfDate ==
  ASSUME NEW d \in Dates
  PROVE  /\ MonthOf[d] \in 1..12
         /\ DateOf(YearOf[d], MonthOf[d], 1) <= d /\ d < DateOf(YearOf[d], MonthOf[d] + 1, 1)
         /\ \A y \in Years, m \in 1..12 :
              DateOf(y, m, 1) <= d /\ d < DateOf(y, m + 1, 1) => YearOf[d] = y /\ MonthOf[d] = m
<1> DEFINE y == YearOf[d]
<1>1. d \in Nat
  BY YearStarts DEF Dates, LastYear
<1>2. y \in Years /\ YearStart[y] <= d /\ d < YearStart[y + 1]
  BY YearOfDate
<1>3. \A z \in Years : /\ YearStart[z] \in Nat /\ YearStart[z + 1] = YearStart[z] + DaysBefore(z, 13)
                       /\ \A m \in 1..13 : DaysBefore(z, m) \in Nat
                       /\ DaysBefore(z, 1) = 0
                       /\ \A m, n \in 1..13 : m < n => DaysBefore(z, m) + 28 <= DaysBefore(z, n)
  BY YearsBegin, MonthLengths DEF Years, FirstYear, LastYear
<1>4. \A z \in Years, m \in 1..13 : DateOf(z, m, 1) = YearStart[z] + DaysBefore(z, m)
  BY <1>3 DEF DateOf
<1> HIDE DEF y
<1>5. \E m \in 1..12 : DateOf(y, m, 1) <= d /\ d < DateOf(y, m + 1, 1)
  <2> DEFINE c == d - YearStart[y]
  <2>1. c \in Nat /\ c < DaysBefore(y, 13)
    BY <1>1, <1>2, <1>3
  <2>2. \E m \in 1..12 : DaysBefore(y, m) <= c /\ c < DaysBefore(y, m + 1)
    <3> HIDE DEF c
    <3> DEFINE b(m) == DaysBefore(y, m)
    <3>1. \A m \in 1..13 : b(m) \in Nat
      BY <1>2, <1>3
    <3>2. b(1) = 0 /\ c < b(13)
      BY <1>2, <1>3, <2>1
    <3> HIDE DEF b
    <3>3. \/ (b(1) <= c /\ c < b(2)) \/ (b(2) <= c /\ c < b(3)) \/ (b(3) <= c /\ c < b(4))
          \/ (b(4) <= c /\ c < b(5)) \/ (b(5) <= c /\ c < b(6)) \/ (b(6) <= c /\ c < b(7))
          \/ (b(7) <= c /\ c < b(8)) \/ (b(8) <= c /\ c < b(9)) \/ (b(9) <= c /\ c < b(10))
          \/ (b(10) <= c /\ c < b(11)) \/ (b(11) <= c /\ c < b(12)) \/ (b(12) <= c /\ c < b(13))
      BY <2>1, <3>1, <3>2
    <3>4. \E m \in 1..12 : b(m) <= c /\ c < b(m + 1)
      BY <3>3
    <3> QED BY <3>4 DEF b
  <2>3. PICK m \in 1..12 : DaysBefore(y, m) <= c /\ c < DaysBefore(y, m + 1)
    BY <2>2
  <2>4. m \in 1..13 /\ m + 1 \in 1..13
    OBVIOUS
  <2>5. DateOf(y, m, 1) <= d /\ d < DateOf(y, m + 1, 1)
    BY <1>1, <1>2, <1>3, <1>4, <2>3, <2>4
  <2> QED BY <2>5
<1>6. MonthOf[d] = CHOOSE m \in 1..12 : DateOf(y, m, 1) <= d /\ d < DateOf(y, m + 1, 1)
  BY DEF MonthOf, y
<1>7. MonthOf[d] \in 1..12 /\ DateOf(y, MonthOf[d], 1) <= d /\ d < DateOf(y, MonthOf[d] + 1, 1)
  BY <1>5, <1>6
<1>8. ASSUME NEW z \in Years, NEW m \in 1..12, DateOf(z, m, 1) <= d, d < DateOf(z, m + 1, 1)
      PROVE  y = z /\ MonthOf[d] = m
  <2>1. m \in 1..13 /\ m + 1 \in 1..13 /\ 1 \in 1..13 /\ 13 \in 1..13
    OBVIOUS
  <2>2. YearStart[z] <= d
    BY <1>1, <1>3, <1>4, <1>8, <2>1
  <2>3. DaysBefore(z, m + 1) <= DaysBefore(z, 13)
    <3>1. m + 1 = 13 \/ m + 1 < 13
      OBVIOUS
    <3> QED BY <1>3, <2>1, <3>1
  <2>4. d < YearStart[z + 1]
    BY <1>1, <1>3, <1>4, <1>8, <2>1, <2>3
  <2>5. y = z
    BY <2>2, <2>4, YearOfDate DEF y
  <2> DEFINE n == MonthOf[d]
  <2>6. n \in 1..12 /\ n \in 1..13 /\ n + 1 \in 1..13
    BY <1>7
  <2>7. /\ DaysBefore(y, n) <= d - YearStart[y] /\ d - YearStart[y] < DaysBefore(y, n + 1)
        /\ DaysBefore(y, m) <= d - YearStart[y] /\ d - YearStart[y] < DaysBefore(y, m + 1)
    BY <1>1, <1>2, <1>3, <1>4, <1>7, <1>8, <2>1, <2>5, <2>6
  <2> HIDE DEF n
  <2>8. ~(n < m)
    <3>1. n + 1 = m \/ n + 1 < m \/ ~(n < m)
      BY <2>6
    <3> QED BY <1>1, <1>2, <1>3, <2>1, <2>6, <2>7, <3>1
  <2>9. ~(m < n)
    <3>1. m + 1 = n \/ m + 1 < n \/ ~(m < n)
      BY <2>6
    <3> QED BY <1>1, <1>2, <1>3, <2>1, <2>6, <2>7, <3>1
  <2> QED BY <2>5, <2>6, <2>8, <2>9 DEF n
<1> QED BY <1>7, <1>8 DEF y

-----------------------------------------------------------------------------
(* Weeks *)

\* A date has one Monday, at most six days before it.
LEMMA Mondays ==
  ASSUME NEW d \in Int
  PROVE  /\ Monday(d) \in Int /\ Monday(d) % 7 = 0 /\ Monday(d) <= d /\ d <= Monday(d) + 6
         /\ DayOfWeek(d) = 1 <=> Monday(d) = d
         /\ \A x \in Int : x % 7 = 0 /\ x <= d /\ d <= x + 6 => x = Monday(d)
<1>2. Monday(d) = d - (d % 7)
  <2>1. (DayOfWeek(d) + 6) % 7 = d % 7
    BY DEF DayOfWeek
  <2> QED BY <2>1 DEF Monday
<1>1. Monday(d) \in Int /\ Monday(d) % 7 = 0 /\ Monday(d) <= d /\ d <= Monday(d) + 6
  BY <1>2
<1>3. DayOfWeek(d) = 1 <=> d % 7 = 0
  BY DEF DayOfWeek
<1>4. \A x \in Int : x % 7 = 0 /\ x <= d /\ d <= x + 6 => x = Monday(d)
  BY <1>2
<1> QED BY <1>1, <1>2, <1>3, <1>4

\* Is x the Monday of week w of year y: the one whose Thursday is among seven days?
IsMondayOf(y, w, x) ==
  /\ x % 7 = 0
  /\ YearStart[y] + 7 * (w - 1) <= x + 3
  /\ x + 3 <= YearStart[y] + 7 * (w - 1) + 6

\* It is the one that getWeekDates finds.
LEMMA WeekStarts ==
  \A y \in Years, w \in Int :
    /\ WeekStart(y, w) \in Int /\ IsMondayOf(y, w, WeekStart(y, w))
    /\ \A x \in Int : IsMondayOf(y, w, x) => WeekStart(y, w) = x
<1> SUFFICES ASSUME NEW y \in Years, NEW w \in Int
             PROVE  /\ WeekStart(y, w) \in Int /\ IsMondayOf(y, w, WeekStart(y, w))
                    /\ \A x \in Int : IsMondayOf(y, w, x) => WeekStart(y, w) = x
  OBVIOUS
<1> DEFINE simple == DateOf(y, 1, 1 + (w - 1) * 7)
           dow == (simple + 1) % 7
<1>1. YearStart[y] \in Nat
  BY YearsBegin DEF Years, FirstYear, LastYear
<1>2. simple = YearStart[y] + 7 * (w - 1)
  <2>1. DaysBefore(y, 1) = 0
    BY DEF DaysBefore
  <2> QED BY <1>1, <2>1 DEF DateOf
<1>3. WeekStart(y, w) = IF dow <= 4 THEN simple - dow + 1 ELSE simple + 8 - dow
  BY DEF WeekStart, DayOfWeek
<1>4. simple \in Int
  BY <1>1, <1>2
<1> HIDE DEF simple
<1>5. dow \in 0..6
  BY <1>4
<1>6. WeekStart(y, w) \in Int /\ simple <= WeekStart(y, w) + 3 /\ WeekStart(y, w) + 3 <= simple + 6
  <2> HIDE DEF dow
  <2> QED BY <1>3, <1>4, <1>5
<1>7. WeekStart(y, w) % 7 = 0
  BY <1>3, <1>4
<1>8. \A x \in Int : x % 7 = 0 /\ simple <= x + 3 /\ x + 3 <= simple + 6 => WeekStart(y, w) = x
  <2> DEFINE s == WeekStart(y, w)
  <2> HIDE DEF s, dow
  <2>1. s \in Int /\ s % 7 = 0 /\ simple <= s + 3 /\ s + 3 <= simple + 6
    BY <1>6, <1>7 DEF s
  <2>2. \A x \in Int : x % 7 = 0 /\ simple <= x + 3 /\ x + 3 <= simple + 6 => s = x
    BY <1>4, <2>1
  <2> QED BY <2>2 DEF s
<1> QED BY <1>2, <1>6, <1>7, <1>8 DEF IsMondayOf

\* The number of a week is that of its Thursday, in the Thursday's year.
LEMMA WeekNumbers ==
  ASSUME NEW d \in Int, Monday(d) + 3 \in Dates
  PROVE  LET y == YearOf[Monday(d) + 3]
             w == WeekNumber(d)
         IN /\ y \in Years /\ w \in 1..53
            /\ YearStart[y] + 7 * (w - 1) <= Monday(d) + 3
            /\ Monday(d) + 3 <= YearStart[y] + 7 * (w - 1) + 6
            /\ WeekStart(y, w) = Monday(d)
<1> DEFINE t == Monday(d) + 3
           y == YearOf[t]
           w == WeekNumber(d)
<1>1. t \in Int
  BY Mondays
<1>2. y \in Years /\ YearStart[y] <= t /\ t < YearStart[y + 1]
  BY YearOfDate
<1>3. YearStart[y] \in Nat /\ YearStart[y + 1] \in Nat /\ YearStart[y + 1] <= YearStart[y] + 366
  <2>1. y \in 2018..2031 /\ y + 1 \in 2018..2031
    BY <1>2 DEF Years, FirstYear, LastYear
  <2>2. DaysBefore(y, 13) <= 366 /\ DaysBefore(y, 13) \in Nat
    BY DEF DaysBefore
  <2> QED BY <1>2, <2>1, <2>2, YearsBegin
<1>4. w = (t - YearStart[y] + 7) \div 7
  <2>1. d + 4 - (IF DayOfWeek(d) = 0 THEN 7 ELSE DayOfWeek(d)) = t
    <3>1. Monday(d) = d - ((DayOfWeek(d) + 6) % 7) /\ DayOfWeek(d) \in 0..6
      BY DEF Monday, DayOfWeek
    <3> QED BY <3>1
  <2> QED BY <2>1 DEF WeekNumber
<1> HIDE DEF t, y, w
<1>5. /\ w \in 1..53 /\ YearStart[y] + 7 * (w - 1) <= t /\ t <= YearStart[y] + 7 * (w - 1) + 6
  <2> DEFINE c == t - YearStart[y]
  <2>1. c \in 0..365
    BY <1>1, <1>2, <1>3
  <2>2. w = (c + 7) \div 7
    BY <1>1, <1>3, <1>4
  <2>3. t = YearStart[y] + c
    BY <1>1, <1>3
  <2> HIDE DEF c
  <2>4. w \in 1..53 /\ 7 * (w - 1) <= c /\ c <= 7 * (w - 1) + 6
    BY <2>1, <2>2
  <2> QED BY <1>3, <2>1, <2>3, <2>4
<1>6. WeekStart(y, w) = Monday(d)
  <2>1. Monday(d) \in Int /\ Monday(d) % 7 = 0
    BY Mondays
  <2>2. IsMondayOf(y, w, Monday(d))
    BY <1>5, <2>1 DEF IsMondayOf, t
  <2>3. w \in Int
    BY <1>5
  <2> QED BY <1>2, <2>1, <2>2, <2>3, WeekStarts
<1> QED BY <1>2, <1>5, <1>6 DEF t, y, w

\* Is it a week, named by its Thursday's year?
IsWeek(key) ==
  \E y \in Years, w \in 1..53 : key = <<y, w>> /\ YearOf[WeekStart(y, w) + 3] = y

\* A week has one name.
LEMMA WeekNames ==
  ASSUME NEW k, NEW l, IsWeek(k), IsWeek(l), WeekStart(k[1], k[2]) = WeekStart(l[1], l[2])
  PROVE  k = l
<1>1. PICK y \in Years, w \in 1..53 : k = <<y, w>> /\ YearOf[WeekStart(y, w) + 3] = y
  BY DEF IsWeek
<1>2. PICK z \in Years, v \in 1..53 : l = <<z, v>> /\ YearOf[WeekStart(z, v) + 3] = z
  BY DEF IsWeek
<1>3. WeekStart(y, w) = WeekStart(z, v) /\ y = z
  BY <1>1, <1>2
<1> DEFINE s == WeekStart(y, w)
<1>4. YearStart[y] \in Nat /\ w \in Int /\ v \in Int
  BY YearsBegin DEF Years, FirstYear, LastYear
<1>5. s \in Int /\ IsMondayOf(y, w, s) /\ IsMondayOf(y, v, s)
  BY <1>3, <1>4, WeekStarts
<1> HIDE DEF s
<1>7. w = v
  BY <1>4, <1>5 DEF IsMondayOf
<1> QED BY <1>1, <1>2, <1>3, <1>7

\* Dates of the windows have years before and after them.
LEMMA SpanYears ==
  ASSUME NEW t \in Span
  PROVE  /\ t \in Nat /\ t \in Dates /\ t >= 365 /\ t < 4383
         /\ YearOf[t] \in 2019..2029
         /\ Monday(t) \in Dates /\ Monday(t) + 3 \in Dates /\ Monday(t) + 6 \in Dates /\ Monday(t) + 7 \in Dates
<1>1. t \in Nat /\ t >= 365 /\ t < 4383
  BY YearStarts DEF Span, FirstYear, LastYear
<1>2. Dates = 0..4747
  BY CalendarDates
<1>3. t \in Dates
  BY <1>1, <1>2
<1>4. YearOf[t] \in 2019..2029
  <2>1. /\ YearOf[t] \in 2018..2030 /\ YearStart[YearOf[t]] <= t /\ t < YearStart[YearOf[t] + 1]
    BY <1>3, YearOfDate DEF Years, FirstYear, LastYear
  <2>2. YearOf[t] # 2018
    <3> SUFFICES ASSUME YearOf[t] = 2018 PROVE FALSE
      OBVIOUS
    <3>1. YearStart[YearOf[t] + 1] = 365
      BY YearStarts
    <3> QED BY <1>1, <2>1, <3>1
  <2>3. YearOf[t] # 2030
    BY <1>1, <2>1, YearStarts
  <2> QED BY <2>1, <2>2, <2>3
<1> DEFINE x == Monday(t)
<1>5. x \in Int /\ x <= t /\ t <= x + 6
  <2>1. t \in Int
    BY <1>1
  <2> QED BY <2>1, Mondays
<1> HIDE DEF x
<1>6. x \in 359..4382
  BY <1>1, <1>5
<1>7. x \in Dates /\ x + 3 \in Dates /\ x + 6 \in Dates /\ x + 7 \in Dates
  BY <1>2, <1>6
<1> QED BY <1>1, <1>3, <1>4, <1>7 DEF x

\* What getPreviousWeekInfo makes of a Monday is a week; it is the one that has just
\* ended, except on the last three days of December.
LEMMA PreviousWeeks ==
  ASSUME NEW t \in Span, DayOfWeek(t) = 1
  PROVE  /\ IsWeek(PreviousWeek(t))
         /\ \/ MonthOf[t] = 12 /\ DayOfMonth(t) >= 29
            \/ WeekStart(PreviousWeek(t)[1], PreviousWeek(t)[2]) = t - 7
<1> DEFINE y == YearOf[t]
           z == YearOf[t + 3]
           n == WeekNumber(t)
<1>1. t \in Nat /\ t \in Dates /\ t + 3 \in Dates /\ Monday(t) = t /\ t % 7 = 0 /\ t < 4383
  <2>1. t \in Nat /\ t \in Dates /\ Monday(t) + 3 \in Dates /\ t < 4383
    BY SpanYears
  <2>2. t \in Int
    BY <2>1
  <2>3. Monday(t) = t /\ Monday(t) % 7 = 0
    BY <2>2, Mondays
  <2> QED BY <2>1, <2>3
<1>2. y \in Years /\ y - 1 \in Years /\ YearStart[y] <= t /\ t < YearStart[y + 1]
      /\ \A u \in Years : YearStart[u] <= t /\ t < YearStart[u + 1] => y = u
  <2>1. y \in 2019..2029
    BY SpanYears
  <2>2. y - 1 \in Years
    BY <2>1 DEF Years, FirstYear, LastYear
  <2> QED BY <1>1, <2>2, YearOfDate
<1>3. z \in Years /\ YearStart[z] <= t + 3 /\ t + 3 < YearStart[z + 1]
  BY <1>1, YearOfDate
<1>4. /\ n \in 1..53 /\ YearStart[z] + 7 * (n - 1) <= t + 3
      /\ t + 3 <= YearStart[z] + 7 * (n - 1) + 6
  <2>1. t \in Int /\ Monday(t) + 3 \in Dates
    BY <1>1
  <2> QED BY <1>1, <2>1, WeekNumbers
<1>5. \A u \in Years : /\ YearStart[u] \in Nat /\ YearStart[u + 1] \in Nat
                       /\ YearStart[u + 1] >= YearStart[u] + 365
  <2> SUFFICES ASSUME NEW u \in Years
               PROVE  /\ YearStart[u] \in Nat /\ YearStart[u + 1] \in Nat
                      /\ YearStart[u + 1] >= YearStart[u] + 365
    OBVIOUS
  <2>1. u \in 2018..2031 /\ u + 1 \in 2018..2031 /\ u < u + 1
    BY DEF Years, FirstYear, LastYear
  <2> QED BY <2>1, YearsBegin
<1>6. PreviousWeek(t) = IF n - 1 = 0 THEN <<y - 1, WeekNumber(DateOf(y - 1, 12, 31))>> ELSE <<y, n - 1>>
  BY DEF PreviousWeek
<1> HIDE DEF y, z, n
<1>7. CASE n > 1
  <2>1. YearStart[z] <= t
    BY <1>1, <1>3, <1>4, <1>5, <1>7
  <2>2. t < YearStart[z + 1]
    BY <1>1, <1>3, <1>5
  <2>3. y = z
    BY <1>2, <1>3, <2>1, <2>2
  <2>4. n - 1 \in 1..53 /\ n - 1 \in Int /\ t - 7 \in Int
    BY <1>1, <1>4, <1>7
  <2>5. IsMondayOf(y, n - 1, t - 7)
    <3>1. (t - 7) % 7 = 0
      BY <1>1
    <3>2. /\ YearStart[y] + 7 * ((n - 1) - 1) <= (t - 7) + 3
          /\ (t - 7) + 3 <= YearStart[y] + 7 * ((n - 1) - 1) + 6
      BY <1>1, <1>2, <1>4, <1>5, <2>3
    <3> QED BY <3>1, <3>2 DEF IsMondayOf
  <2>6. WeekStart(y, n - 1) = t - 7
    BY <1>2, <2>4, <2>5, WeekStarts
  <2>7. YearOf[(t - 7) + 3] = y
    <3>1. YearStart[y] <= (t - 7) + 3
      BY <1>1, <1>2, <1>4, <1>5, <1>7, <2>3
    <3>2. (t - 7) + 3 < YearStart[y + 1]
      BY <1>1, <1>2, <1>5
    <3>3. (t - 7) + 3 \in Dates
      <4>1. Dates = 0..4747
        BY CalendarDates
      <4> QED BY <1>1, <1>2, <1>5, <3>1, <4>1
    <3> QED BY <1>2, <3>1, <3>2, <3>3, YearOfDate
  <2>8. PreviousWeek(t) = <<y, n - 1>>
    BY <1>4, <1>6, <1>7
  <2> QED BY <1>2, <2>4, <2>6, <2>7, <2>8 DEF IsWeek
<1>8. CASE n = 1
  <2> DEFINE d == DateOf(y - 1, 12, 31)
             m == Monday(d)
             x == YearOf[m + 3]
             v == WeekNumber(d)
  <2>1. PreviousWeek(t) = <<y - 1, v>>
    BY <1>6, <1>8
  <2>2. d = YearStart[y] - 1
    <3>1. YearStart[y] = YearStart[y - 1] + DaysBefore(y - 1, 13)
      <4>1. (y - 1) + 1 = y
        BY <1>2 DEF Years, FirstYear, LastYear
      <4> QED BY <1>2, <4>1, YearsBegin
    <3>2. DaysBefore(y - 1, 13) - DaysBefore(y - 1, 12) = 31 /\ DaysBefore(y - 1, 12) \in Nat
          /\ DaysBefore(y - 1, 13) \in Nat
      BY <1>2, MonthLengths
    <3> QED BY <1>2, <1>5, <3>1, <3>2 DEF DateOf
  <2>3. d \in Int /\ m \in Int /\ m % 7 = 0 /\ m <= d /\ d <= m + 6
        /\ \A a \in Int : a % 7 = 0 /\ a <= d /\ d <= a + 6 => a = m
    <3>1. d \in Int
      BY <1>2, <1>5, <2>2
    <3> QED BY <3>1, Mondays
  <2>4. YearStart[y - 1] + 365 <= YearStart[y] /\ YearStart[y - 1] \in Nat /\ YearStart[y] \in Nat
        /\ YearStart[(y - 1) + 1] = YearStart[y]
    <3>1. (y - 1) + 1 = y
      BY <1>2 DEF Years, FirstYear, LastYear
    <3> QED BY <1>2, <1>5, <3>1
  <2>5. m + 3 \in Dates
    <3> HIDE DEF d, m
    <3>1. Dates = 0..4747
      BY CalendarDates
    <3>2. YearStart[y] <= 4382
      BY <1>1, <1>2, <2>4
    <3> QED BY <2>2, <2>3, <2>4, <3>1, <3>2
  <2>6. x \in Years /\ YearStart[x] <= m + 3 /\ m + 3 < YearStart[x + 1]
        /\ \A u \in Years : YearStart[u] <= m + 3 /\ m + 3 < YearStart[u + 1] => x = u
    BY <2>5, YearOfDate
  <2>7. /\ v \in 1..53
        /\ YearStart[x] + 7 * (v - 1) <= m + 3 /\ m + 3 <= YearStart[x] + 7 * (v - 1) + 6
        /\ WeekStart(x, v) = m
    BY <2>3, <2>5, WeekNumbers
  <2> HIDE DEF d, m, x, v
  <2>8. x = y - 1 \/ x = y
    <3>1. CASE m + 3 < YearStart[y]
      <4>1. YearStart[y - 1] <= m + 3
        BY <2>2, <2>3, <2>4
      <4> QED BY <1>2, <2>4, <2>6, <3>1, <4>1
    <3>2. CASE m + 3 >= YearStart[y]
      <4>1. m + 3 < YearStart[y + 1]
        BY <1>2, <1>5, <2>2, <2>3, <2>4
      <4> QED BY <1>2, <2>3, <2>4, <2>6, <3>2, <4>1
    <3> QED BY <2>3, <2>4, <3>1, <3>2
  <2>9. IsWeek(<<y - 1, v>>)
    <3>1. CASE x = y - 1
      <4>1. WeekStart(y - 1, v) = m /\ YearOf[m + 3] = y - 1
        BY <2>7, <3>1 DEF x
      <4> QED BY <1>2, <2>7, <4>1 DEF IsWeek
    <3>2. CASE x = y
      <4>1. v = 1
        BY <2>2, <2>3, <2>4, <2>7, <3>2
      <4> DEFINE s == WeekStart(y - 1, 1)
      <4>2. s \in Int /\ IsMondayOf(y - 1, 1, s)
        BY <1>2, WeekStarts
      <4> HIDE DEF s
      <4>3. YearStart[y - 1] <= s + 3 /\ s + 3 <= YearStart[y - 1] + 6
        BY <2>4, <4>2 DEF IsMondayOf
      <4>4. YearStart[y - 1] <= s + 3 /\ s + 3 < YearStart[(y - 1) + 1]
        BY <2>4, <4>2, <4>3
      <4>5. s + 3 \in Dates
        <5>1. Dates = 0..4747
          BY CalendarDates
        <5> QED BY <1>1, <1>2, <2>4, <4>2, <4>4, <5>1
      <4>6. YearOf[s + 3] = y - 1
        BY <1>2, <4>4, <4>5, YearOfDate
      <4> QED BY <1>2, <2>7, <4>1, <4>6 DEF IsWeek, s
    <3> QED BY <2>8, <3>1, <3>2
  <2>10. (MonthOf[t] = 12 /\ DayOfMonth(t) >= 29) \/ WeekStart(y - 1, v) = t - 7
    <3>1. CASE t < YearStart[z]
      <4>1. YearStart[z] = YearStart[y + 1]
        <5>1. t + 3 <= YearStart[z] + 6
          BY <1>1, <1>3, <1>4, <1>5, <1>8
        <5>2. z - 1 \in Years /\ (z - 1) + 1 = z
          <6>1. z # 2018
            <7> SUFFICES ASSUME z = 2018 PROVE FALSE
              OBVIOUS
            <7>1. YearStart[z] = 0
              BY YearStarts
            <7> QED BY <1>1, <3>1, <7>1
          <6> QED BY <1>3, <6>1 DEF Years, FirstYear, LastYear
        <5>3. YearStart[z - 1] <= t
          BY <1>1, <1>3, <1>5, <5>2
        <5>4. y = z - 1
          BY <1>2, <3>1, <5>2, <5>3
        <5> QED BY <5>2, <5>4
      <4>2. YearStart[y + 1] = YearStart[y] + DaysBefore(y, 13)
        BY <1>2, YearsBegin
      <4>3. DaysBefore(y, 13) - DaysBefore(y, 12) = 31 /\ DaysBefore(y, 12) \in Nat /\ DaysBefore(y, 13) \in Nat
        BY <1>2, MonthLengths
      <4>4. /\ DateOf(y, 12, 1) = YearStart[y] + DaysBefore(y, 12)
            /\ DateOf(y, 12 + 1, 1) = YearStart[y] + DaysBefore(y, 13)
        BY <1>2, <1>5, <4>3 DEF DateOf
      <4>5. DateOf(y, 12, 1) <= t /\ t < DateOf(y, 12 + 1, 1)
        BY <1>1, <1>2, <1>3, <1>4, <1>5, <1>8, <3>1, <4>1, <4>2, <4>3, <4>4
      <4>6. MonthOf[t] = 12 /\ YearOf[t] = y
        BY <1>1, <1>2, <4>5, MonthOfDate
      <4>7. DayOfMonth(t) = t - DateOf(y, 12, 1) + 1
        BY <4>6 DEF DayOfMonth
      <4>8. t >= YearStart[y + 1] - 3
        BY <1>1, <1>3, <1>5, <4>1
      <4>9. DayOfMonth(t) >= 29
        BY <1>1, <1>2, <1>5, <4>2, <4>3, <4>4, <4>7, <4>8
      <4> QED BY <4>6, <4>9
    <3>2. CASE t >= YearStart[z]
      <4>1. t < YearStart[z + 1]
        BY <1>1, <1>3, <1>5
      <4>2. y = z
        BY <1>2, <1>3, <3>2, <4>1
      <4>3. t - 7 \in Int /\ (t - 7) % 7 = 0 /\ t - 7 <= d /\ d <= (t - 7) + 6
        <5>1. t + 3 <= YearStart[y] + 6 /\ YearStart[y] <= t
          BY <1>1, <1>4, <1>8, <2>4, <3>2, <4>2
        <5>2. (t - 7) % 7 = 0
          BY <1>1
        <5> QED BY <1>1, <2>2, <2>4, <5>1, <5>2
      <4>4. m = t - 7
        BY <2>3, <4>3
      <4>5. m + 3 < YearStart[y]
        BY <2>2, <2>3, <2>4, <4>3, <4>4, <1>1, <1>2, <1>4, <1>8, <4>2
      <4>6. YearStart[y - 1] <= m + 3
        BY <2>2, <2>3, <2>4
      <4>7. x = y - 1
        BY <1>2, <2>4, <2>6, <4>5, <4>6
      <4> QED BY <2>7, <4>4, <4>7
    <3> QED BY <1>1, <1>3, <1>5, <3>1, <3>2
  <2> QED BY <2>1, <2>9, <2>10
<1> QED BY <1>4, <1>7, <1>8

IsMonth(key) == \E y \in Years, m \in 1..12 : key = <<y, m>>

\* What getPreviousMonthInfo makes of a date is a month; it is the one that has just
\* ended, on the first day of the next.
LEMMA PreviousMonths ==
  ASSUME NEW t \in Span
  PROVE  /\ IsMonth(PreviousMonth(t))
         /\ \A y \in Years, m \in 1..12 :
              t = MonthEnd(y, m) + 1 => DayOfMonth(t) = 1 /\ PreviousMonth(t) = <<y, m>>
<1>1. t \in Nat /\ t \in Dates /\ t < 4383 /\ YearOf[t] \in 2019..2029
  BY SpanYears
<1>2. MonthOf[t] \in 1..12
  BY <1>1, MonthOfDate
<1>3. IsMonth(PreviousMonth(t))
  <2>1. YearOf[t] \in Years /\ YearOf[t] - 1 \in Years /\ 12 \in 1..12
    BY <1>1 DEF Years, FirstYear, LastYear
  <2>2. MonthOf[t] # 1 => MonthOf[t] - 1 \in 1..12
    BY <1>2
  <2> QED BY <2>1, <2>2 DEF PreviousMonth, IsMonth
<1>4. ASSUME NEW y \in Years, NEW m \in 1..12, t = MonthEnd(y, m) + 1
      PROVE  DayOfMonth(t) = 1 /\ PreviousMonth(t) = <<y, m>>
  <2>1. /\ YearStart[y] \in Nat /\ YearStart[y + 1] = YearStart[y] + DaysBefore(y, 13)
        /\ \A i \in 1..13 : DaysBefore(y, i) \in Nat
        /\ \A i, j \in 1..13 : i < j => DaysBefore(y, i) + 28 <= DaysBefore(y, j)
    BY YearsBegin, MonthLengths DEF Years, FirstYear, LastYear
  <2>2. m \in 1..13 /\ m + 1 \in 1..13
    OBVIOUS
  <2>3. DateOf(y, m + 1, 1) = YearStart[y] + DaysBefore(y, m + 1)
    BY <2>1, <2>2 DEF DateOf
  <2>4. t = DateOf(y, m + 1, 1)
    BY <1>4, <2>1, <2>2, <2>3 DEF MonthEnd
  <2>5. CASE m < 12
    <3>1. m + 1 \in 1..12 /\ m + 2 \in 1..13 /\ (m + 1) + 1 = m + 2 /\ m + 1 < m + 2
      BY <2>5
    <3>2. DateOf(y, (m + 1) + 1, 1) = YearStart[y] + DaysBefore(y, m + 2)
      BY <2>1, <3>1 DEF DateOf
    <3>3. t < DateOf(y, (m + 1) + 1, 1) /\ DateOf(y, m + 1, 1) <= t
      BY <1>1, <2>1, <2>2, <2>3, <2>4, <3>1, <3>2
    <3>4. YearOf[t] = y /\ MonthOf[t] = m + 1
      BY <1>1, <3>1, <3>3, MonthOfDate
    <3>5. DayOfMonth(t) = t - t + 1
      BY <2>4, <3>4 DEF DayOfMonth
    <3>6. m + 1 # 1 /\ (m + 1) - 1 = m
      OBVIOUS
    <3> QED BY <1>1, <3>4, <3>5, <3>6 DEF PreviousMonth
  <2>6. CASE m = 12
    <3>1. t = YearStart[y + 1]
      BY <2>1, <2>3, <2>4, <2>6
    <3>2. y + 1 \in Years
      <4>1. y # 2030
        BY <1>1, <3>1, YearStarts
      <4> QED BY <4>1 DEF Years, FirstYear, LastYear
    <3>3. /\ DaysBefore(y + 1, 1) = 0 /\ 1 \in 1..13 /\ 2 \in 1..13 /\ DaysBefore(y + 1, 2) \in Nat
          /\ DaysBefore(y + 1, 1) + 28 <= DaysBefore(y + 1, 2)
      BY <3>2, MonthLengths
    <3>4. YearStart[y + 1] \in Nat
      BY <1>1, <3>1
    <3>5. DateOf(y + 1, 1, 1) = t /\ DateOf(y + 1, 1 + 1, 1) = t + DaysBefore(y + 1, 2)
      BY <3>1, <3>3, <3>4 DEF DateOf
    <3>6. DateOf(y + 1, 1, 1) <= t /\ t < DateOf(y + 1, 1 + 1, 1)
      BY <1>1, <3>3, <3>5
    <3>7. YearOf[t] = y + 1 /\ MonthOf[t] = 1
      BY <1>1, <3>2, <3>6, MonthOfDate
    <3>8. DayOfMonth(t) = t - t + 1
      BY <3>5, <3>7 DEF DayOfMonth
    <3>9. (y + 1) - 1 = y
      BY DEF Years, FirstYear, LastYear
    <3> QED BY <1>1, <2>6, <3>7, <3>8, <3>9 DEF PreviousMonth
  <2> QED BY <2>5, <2>6
<1> QED BY <1>3, <1>4

\* The same of getPreviousYearInfo.
LEMMA PreviousYears ==
  ASSUME NEW t \in Span
  PROVE  /\ YearOf[t] - 1 \in Years
         /\ \A y \in Years : t = YearStart[y + 1] =>
              t = YearStart[YearOf[t]] /\ PreviousYear(t) = <<y>>
<1>1. t \in Nat /\ t \in Dates /\ t < 4383 /\ YearOf[t] \in 2019..2029
  BY SpanYears
<1>2. YearOf[t] - 1 \in Years
  BY <1>1 DEF Years, FirstYear, LastYear
<1>3. ASSUME NEW y \in Years, t = YearStart[y + 1]
      PROVE  t = YearStart[YearOf[t]] /\ PreviousYear(t) = <<y>>
  <2>1. y + 1 \in Years
    <3>1. y # 2030
      BY <1>1, <1>3, YearStarts
    <3> QED BY <3>1 DEF Years, FirstYear, LastYear
  <2>2. YearStart[y + 1] < YearStart[(y + 1) + 1]
    <3>1. y + 1 \in 2018..2031 /\ (y + 1) + 1 \in 2018..2031 /\ y + 1 < (y + 1) + 1
      BY <2>1 DEF Years, FirstYear, LastYear
    <3>2. YearStart[(y + 1) + 1] \in Nat /\ YearStart[y + 1] \in Nat
          /\ YearStart[y + 1] + 365 <= YearStart[(y + 1) + 1]
      BY <3>1, YearsBegin
    <3> QED BY <3>2
  <2>3. YearOf[t] = y + 1
    BY <1>1, <1>3, <2>1, <2>2, YearOfDate
  <2>4. (y + 1) - 1 = y
    BY DEF Years, FirstYear, LastYear
  <2> QED BY <1>3, <2>3, <2>4 DEF PreviousYear
<1> QED BY <1>2, <1>3

-----------------------------------------------------------------------------
(* Periods *)

\* The keys of a job's periods.
IsKey(job, key) ==
  \/ job = Day /\ \E d \in Dates : key = <<d>>
  \/ job = Week /\ IsWeek(key)
  \/ job = Month /\ IsMonth(key)
  \/ job = Year /\ \E y \in Years : key = <<y>>

\* A row stands where its days belong.
Placed(row) ==
  \A day \in row.days :
    IF row.level = 0 THEN row.key = <<day>> ELSE Touches(<<row.level, row.key>>, day)

WellPlaced(row) ==
  /\ Placed(row) /\ row.days \subseteq Span
  /\ row.level > 0 => IsKey(row.level, row.key)

LEMMA KeysAreTuples ==
  \A job \in Jobs : \A key : IsKey(job, key) => key \in Seq(Int)
<1> SUFFICES ASSUME NEW job \in Jobs, NEW key, IsKey(job, key)
             PROVE  key \in Seq(Int)
  OBVIOUS
<1>1. Dates \subseteq Int /\ Years \subseteq Int /\ 1..53 \subseteq Int /\ 1..12 \subseteq Int
  BY CalendarDates DEF Years, FirstYear, LastYear
<1>2. CASE \E d \in Int : key = <<d>>
  BY <1>2
<1>3. CASE \E y \in Int, w \in Int : key = <<y, w>>
  BY <1>3
<1>4. (\E d \in Int : key = <<d>>) \/ (\E y \in Int, w \in Int : key = <<y, w>>)
  BY <1>1 DEF IsKey, IsWeek, IsMonth
<1> QED BY <1>2, <1>3, <1>4

\* Selects and Touches, job by job.
LEMMA Selecting ==
  \A key, row :
    /\ Selects(Day, key, row) <=> row.level = 0 /\ row.key = key
    /\ Selects(Week, key, row) <=> row.level = Day /\ InWeek(row, key)
    /\ Selects(Month, key, row) <=> row.level = Week /\ InMonth(row, key)
    /\ Selects(Year, key, row) <=> row.level = Month /\ row.key[1] = key[1]
BY DEF Selects, InDay, InYear, Day, Week, Month, Year

LEMMA Touching ==
  \A key, day :
    /\ Touches(<<Day, key>>, day) <=> key = <<day>>
    /\ Touches(<<Week, key>>, day) <=> WeekStart(key[1], key[2]) = Monday(day)
    /\ Touches(<<Month, key>>, day) <=> key = <<YearOf[Monday(day)], MonthOf[Monday(day)]>>
    /\ Touches(<<Year, key>>, day) <=> key = <<YearOf[Monday(day)]>>
BY DEF Touches, Day, Week, Month, Year

LEMMA JobsAre == Jobs = {Day, Week, Month, Year}
BY DEF Jobs, Day, Week, Month, Year

\* A week is in one month, that of its Monday.
LEMMA WeeksInMonths ==
  ASSUME NEW y \in Years, NEW m \in 1..12, NEW x \in Dates, MonthStart(y, m) <= x, x <= MonthEnd(y, m)
  PROVE  YearOf[x] = y /\ MonthOf[x] = m
<1>1. DateOf(y, m, 1) \in Int /\ DateOf(y, m + 1, 1) \in Int
  <2>1. m \in 1..13 /\ m + 1 \in 1..13
    OBVIOUS
  <2>2. DaysBefore(y, m) \in Nat /\ DaysBefore(y, m + 1) \in Nat /\ YearStart[y] \in Nat
    BY <2>1, MonthLengths, YearsBegin DEF Years, FirstYear, LastYear
  <2> QED BY <2>2 DEF DateOf
<1>2. x \in Int
  BY CalendarDates
<1> DEFINE next == DateOf(y, m + 1, 1)
<1>3. x <= next - 1
  BY DEF MonthEnd
<1>4. x < next
  <2> HIDE DEF next
  <2>1. next \in Int
    BY <1>1 DEF next
  <2> QED BY <1>2, <1>3, <2>1
<1> QED BY <1>4, MonthOfDate DEF MonthStart

\* The days of the rows in a period belong to it.
LEMMA SourcesTouch ==
  ASSUME NEW job \in Jobs, NEW key, IsKey(job, key),
         NEW row, Selects(job, key, row), WellPlaced(row), NEW day \in row.days
  PROVE  Touches(<<job, key>>, day)
<1>1. day \in Span /\ day \in Int /\ Monday(day) \in Dates
  BY SpanYears DEF WellPlaced
<1>2. CASE job = Day
  <2>1. row.level = 0 /\ row.key = key
    BY <1>2, Selecting
  <2>2. key = <<day>>
    BY <2>1 DEF WellPlaced, Placed
  <2> QED BY <1>2, <2>2, Touching
<1>3. CASE job = Week
  <2>1. row.level = Day /\ InWeek(row, key)
    BY <1>3, Selecting
  <2>2. Touches(<<Day, row.key>>, day)
    BY <2>1 DEF WellPlaced, Placed, Day
  <2>3. row.key = <<day>>
    BY <2>2, Touching
  <2>4. PICK y \in Years, w \in 1..53 : key = <<y, w>>
    BY <1>3 DEF IsKey, IsWeek, Day, Week, Month, Year
  <2> DEFINE x == WeekStart(y, w)
  <2>5. x \in Int /\ x % 7 = 0
    BY WeekStarts DEF IsMondayOf
  <2>6. x <= day /\ day <= x + 6
    BY <2>1, <2>3, <2>4 DEF InWeek, WeekEnd
  <2>7. x = Monday(day)
    <3> HIDE DEF x
    <3> QED BY <1>1, <2>5, <2>6, Mondays
  <2> QED BY <1>3, <2>4, <2>7, Touching
<1>4. CASE job = Month
  <2>1. row.level = Week /\ InMonth(row, key)
    BY <1>4, Selecting
  <2>2. Touches(<<Week, row.key>>, day)
    BY <2>1 DEF WellPlaced, Placed, Week
  <2>3. WeekStart(row.key[1], row.key[2]) = Monday(day)
    BY <2>2, Touching
  <2>4. PICK y \in Years, m \in 1..12 : key = <<y, m>>
    BY <1>4 DEF IsKey, IsMonth, Day, Week, Month, Year
  <2>5. MonthStart(y, m) <= Monday(day) /\ Monday(day) <= MonthEnd(y, m)
    BY <2>1, <2>3, <2>4 DEF InMonth
  <2>6. YearOf[Monday(day)] = y /\ MonthOf[Monday(day)] = m
    BY <1>1, <2>5, WeeksInMonths
  <2> QED BY <1>4, <2>4, <2>6, Touching
<1>5. CASE job = Year
  <2>1. row.level = Month /\ row.key[1] = key[1]
    BY <1>5, Selecting
  <2>2. Touches(<<Month, row.key>>, day)
    BY <2>1 DEF WellPlaced, Placed, Month
  <2>3. row.key = <<YearOf[Monday(day)], MonthOf[Monday(day)]>>
    BY <2>2, Touching
  <2>4. PICK y \in Years : key = <<y>>
    BY <1>5 DEF IsKey, Day, Week, Month, Year
  <2>5. key = <<YearOf[Monday(day)]>>
    BY <2>1, <2>3, <2>4
  <2> QED BY <1>5, <2>5, Touching
<1> QED BY <1>2, <1>3, <1>4, <1>5, JobsAre

\* A day is in one period of a job.
LEMMA OnePeriod ==
  ASSUME NEW job \in Jobs, NEW k, NEW l, IsKey(job, k), IsKey(job, l), NEW day,
         Touches(<<job, k>>, day), Touches(<<job, l>>, day)
  PROVE  k = l
<1>1. CASE job = Week
  <2>1. WeekStart(k[1], k[2]) = WeekStart(l[1], l[2])
    BY <1>1, Touching
  <2>2. IsWeek(k) /\ IsWeek(l)
    BY <1>1 DEF IsKey, Day, Week, Month, Year
  <2> QED BY <2>1, <2>2, WeekNames
<1>2. CASE job = Day
  <2>1. k = <<day>>
    BY <1>2, Touching
  <2>2. l = <<day>>
    BY <1>2, Touching
  <2> QED BY <2>1, <2>2
<1>3. CASE job = Month
  BY <1>3, Touching
<1>4. CASE job = Year
  BY <1>4, Touching
<1> QED BY <1>1, <1>2, <1>3, <1>4, JobsAre

\* Two rows of a level that count a day have one key.
LEMMA OneKey ==
  ASSUME NEW r, NEW s, WellPlaced(r), WellPlaced(s), r.level = s.level, r.level \in 0..Year,
         NEW day \in r.days, day \in s.days
  PROVE  r.key = s.key
<1>1. CASE r.level = 0
  BY <1>1 DEF WellPlaced, Placed
<1>2. CASE r.level # 0
  <2>1. /\ Touches(<<r.level, r.key>>, day) /\ IsKey(r.level, r.key)
        /\ Touches(<<r.level, s.key>>, day) /\ IsKey(r.level, s.key)
    BY <1>2 DEF WellPlaced, Placed, Year
  <2>2. r.level \in Jobs
    BY <1>2 DEF Jobs, Day, Year
  <2> QED BY <2>1, <2>2, OnePeriod
<1> QED BY <1>1, <1>2

\* What a period selects is told by the level and the key.
LEMMA SelectsByKey ==
  \A job, key, a, b : a.level = b.level /\ a.key = b.key => (Selects(job, key, a) <=> Selects(job, key, b))
BY DEF Selects, InDay, InWeek, InMonth, InYear

LEMMA SelectsBelow ==
  \A job \in Jobs : \A key, row : Selects(job, key, row) => row.level = job - 1 /\ row.level # job
<1> SUFFICES ASSUME NEW job \in Jobs, NEW key, NEW row, Selects(job, key, row)
             PROVE  row.level = job - 1 /\ row.level # job
  OBVIOUS
<1>1. job \in Int /\ row.level = job - 1
  BY DEF Jobs, Day, Year, Selects
<1> QED BY <1>1

\* The day a job is due and what it is due for, on a date.
ScheduledOn(job, t) ==
  CASE job = Day -> TRUE
    [] job = Week -> DayOfWeek(t) = 1
    [] job = Month -> DayOfMonth(t) = 1
    [] job = Year -> t = YearStart[YearOf[t]]
DueOn(job, t) ==
  CASE job = Day -> <<t - 1>>
    [] job = Week -> PreviousWeek(t)
    [] job = Month -> PreviousMonth(t)
    [] job = Year -> PreviousYear(t)

LEMMA DueToday == \A job \in Jobs : Due(job) = DueOn(job, today) /\ (OnSchedule(job) <=> ScheduledOn(job, today))
BY DEF Due, DueOn, OnSchedule, ScheduledOn

LEMMA DueKeys ==
  ASSUME NEW job \in Jobs, NEW t \in Span, ScheduledOn(job, t) \/ job # Week
  PROVE  IsKey(job, DueOn(job, t)) /\ (job = Day => DueOn(job, t)[1] = t - 1)
<1>1. t \in Nat /\ t >= 365 /\ t < 4383
  BY SpanYears
<1>2. CASE job = Day
  <2>1. DueOn(job, t) = <<t - 1>>
    BY <1>2 DEF DueOn, Day, Week, Month, Year
  <2>2. t - 1 \in Dates
    BY <1>1, CalendarDates
  <2> QED BY <1>2, <2>1, <2>2 DEF IsKey
<1>3. CASE job = Week
  <2>1. DueOn(job, t) = PreviousWeek(t) /\ DayOfWeek(t) = 1
    BY <1>3 DEF DueOn, ScheduledOn, Day, Week, Month, Year
  <2> QED BY <1>3, <2>1, PreviousWeeks DEF IsKey, Day, Week
<1>4. CASE job = Month
  <2>1. DueOn(job, t) = PreviousMonth(t)
    BY <1>4 DEF DueOn, Day, Week, Month, Year
  <2> QED BY <1>4, <2>1, PreviousMonths DEF IsKey, Day, Month
<1>5. CASE job = Year
  <2>1. DueOn(job, t) = <<YearOf[t] - 1>>
    BY <1>5 DEF DueOn, PreviousYear, Day, Week, Month, Year
  <2> QED BY <1>5, <2>1, PreviousYears DEF IsKey, Day, Year
<1> QED BY <1>2, <1>3, <1>4, <1>5, JobsAre

-----------------------------------------------------------------------------
(* The invariant: rows and runs *)

RowSet == [level : 0..Year, monitor : Monitors, key : Seq(Int), days : SUBSET Int]

RunSet ==
  [pc : {"idle", "list", "read", "write", "delete"}, key : Seq(Int), todo : SUBSET Monitors,
   monitor : SUBSET Monitors, read : SUBSET Int, errors : Nat, processed : Nat]

TypesInv ==
  /\ window \in Windows /\ today \in window[1]..window[2] /\ clock \in 0..Year
  /\ rows \subseteq RowSet
  /\ run \in [Jobs -> RunSet]
  /\ up \in BOOLEAN
  /\ looping \subseteq {Month, Year} /\ (looping # {} => up)
  /\ begun \subseteq Jobs \X Seq(Int) /\ late \subseteq begun
  /\ failed \subseteq Jobs \X Seq(Int)
  /\ failures \in 0..MaxFailures

\* Rows count past days of the window, in a period that was begun.
GoodRow(row, periods, from, to) ==
  /\ row.days # {} /\ row.days \subseteq from..(to - 1)
  /\ Placed(row)
  /\ row.level > 0 => <<row.level, row.key>> \in periods

RowsInv ==
  /\ \A row \in rows : GoodRow(row, begun, window[1], today)
  /\ \A row, other \in rows :
       other.level = row.level /\ other.monitor = row.monitor /\ other.key = row.key => other = row

PeriodsInv ==
  \A job \in Jobs, key \in Seq(Int) :
    <<job, key>> \in begun => IsKey(job, key) /\ (job = Day => key[1] < today)

Working(r) == r.pc \in {"read", "write", "delete"}

\* A run that goes on is about the period its job is due for today; what it reads
\* belongs to the period; an error is known to history.
GoodRun(job, r, periods, errors, from, to) ==
  /\ r.pc = "idle" => r = IdleRun
  /\ r.pc \in {"idle", "list"} => r.todo = {} /\ r.errors = 0 /\ r.processed = 0
  /\ r.pc # "idle" => IsKey(job, r.key) /\ r.key = DueOn(job, to)
  /\ Working(r) => <<job, r.key>> \in periods
  /\ r.pc = "write" =>
       /\ \E m \in Monitors : r.monitor = {m} /\ m \notin r.todo
       /\ r.read # {} /\ r.read \subseteq from..(to - 1)
       /\ \A day \in r.read : Touches(<<job, r.key>>, day)
  /\ r.pc # "write" => r.monitor = {}
  /\ r.pc = "read" => r.todo # {}
  /\ r.pc = "delete" => r.todo = {} /\ r.errors = 0
  /\ r.errors > 0 => <<job, r.key>> \in errors
  /\ r.errors + r.processed + Cardinality(r.todo) + Cardinality(r.monitor) <= Cardinality(Monitors)

RunsInv == \A job \in Jobs : GoodRun(job, run[job], begun, failed, window[1], today)

BaseInv == TypesInv /\ RowsInv /\ PeriodsInv /\ RunsInv

LEMMA SpanIs ==
  /\ \A t \in Span : t \in Int /\ 365 <= t /\ t <= 4382
  /\ \A t \in Int : 365 <= t /\ t <= 4382 => t \in Span
<1>1. YearStart[FirstYear + 1] = 365 /\ YearStart[LastYear] = 4383
  BY YearStarts DEF FirstYear, LastYear
<1>2. Span = 365..4382
  BY <1>1 DEF Span
<1> QED BY <1>2

LEMMA Today ==
  ASSUME TypesInv
  PROVE  /\ today \in Span /\ today \in Int /\ today <= window[2] /\ window[1] <= today
         /\ window[1] \in Span /\ window[1] \in Int /\ window[2] \in Span /\ window[2] \in Int
<1>1. window[1] \in Span /\ window[2] \in Span
  BY WindowsAssumption DEF TypesInv
<1>2. PICK a \in Int, b \in Int : a = window[1] /\ b = window[2] /\ 365 <= a /\ b <= 4382
  BY <1>1, SpanIs
<1>3. today \in a..b
  BY <1>2 DEF TypesInv
<1>4. today \in Int /\ a <= today /\ today <= b
  BY <1>3
<1>5. today \in Span
  BY <1>2, <1>4, SpanIs
<1> QED BY <1>1, <1>2, <1>4, <1>5

LEMMA RowsAreWellPlaced ==
  ASSUME TypesInv, RowsInv, PeriodsInv
  PROVE  \A row \in rows : WellPlaced(row)
<1> SUFFICES ASSUME NEW row \in rows PROVE WellPlaced(row)
  OBVIOUS
<1>1. GoodRow(row, begun, window[1], today) /\ row \in RowSet
  BY DEF RowsInv, TypesInv
<1>2. row.days \subseteq Span
  <2>1. PICK a \in Int, b \in Int : a = window[1] /\ b = today /\ 365 <= a /\ b <= 4382
    BY Today, SpanIs
  <2>2. row.days \subseteq a..(b - 1)
    BY <1>1, <2>1 DEF GoodRow
  <2>3. \A d \in row.days : d \in Int /\ 365 <= d /\ d <= 4382
    BY <2>1, <2>2
  <2> QED BY <2>3, SpanIs
<1>3. ASSUME row.level > 0
      PROVE  IsKey(row.level, row.key)
  <2>1. row.level \in Jobs /\ row.key \in Seq(Int)
    BY <1>1, <1>3 DEF RowSet, Jobs, Day, Year
  <2> QED BY <1>1, <1>3, <2>1 DEF GoodRow, PeriodsInv
<1> QED BY <1>1, <1>2, <1>3 DEF WellPlaced, GoodRow

\* A run as a job starts it.
LEMMA StartIsGood ==
  ASSUME NEW job \in Jobs, NEW periods, NEW errors, NEW from, NEW to \in Span,
         ScheduledOn(job, to) \/ job # Week
  PROVE  LET r == [IdleRun EXCEPT !.pc = "list", !.key = DueOn(job, to)] IN
         r \in RunSet /\ GoodRun(job, r, periods, errors, from, to)
<1> DEFINE r == [IdleRun EXCEPT !.pc = "list", !.key = DueOn(job, to)]
<1>1. IsKey(job, DueOn(job, to)) /\ DueOn(job, to) \in Seq(Int)
  BY DueKeys, KeysAreTuples
<1>2. /\ r.pc = "list" /\ r.key = DueOn(job, to) /\ r.todo = {} /\ r.monitor = {} /\ r.read = {}
      /\ r.errors = 0 /\ r.processed = 0 /\ r \in RunSet
  BY <1>1 DEF IdleRun, RunSet
<1>3. Cardinality({}) = 0 /\ Cardinality(Monitors) \in Nat
  BY MonitorsAssumption, FS_EmptySet, FS_CardinalityType
<1> HIDE DEF r
<1>4. GoodRun(job, r, periods, errors, from, to)
  BY <1>1, <1>2, <1>3 DEF GoodRun, Working
<1> QED BY <1>2, <1>4 DEF r

LEMMA IdleIsGood ==
  ASSUME NEW job \in Jobs, NEW periods, NEW errors, NEW from, NEW to
  PROVE  IdleRun \in RunSet /\ GoodRun(job, IdleRun, periods, errors, from, to)
<1>1. /\ IdleRun.pc = "idle" /\ IdleRun.todo = {} /\ IdleRun.monitor = {} /\ IdleRun.read = {}
      /\ IdleRun.errors = 0 /\ IdleRun.processed = 0 /\ IdleRun \in RunSet
  BY DEF IdleRun, RunSet
<1>2. Cardinality({}) = 0 /\ Cardinality(Monitors) \in Nat
  BY MonitorsAssumption, FS_EmptySet, FS_CardinalityType
<1> QED BY <1>1, <1>2 DEF GoodRun, Working

\* What Continue makes of a run after one of its monitors.
Ended(r) == IF AfterLoop(r) = "idle" THEN IdleRun ELSE [r EXCEPT !.pc = AfterLoop(r)]

LEMMA ContinueEnds ==
  \A job, r : Continue(job, r) <=> run' = [run EXCEPT ![job] = Ended(r)]
BY DEF Continue, Ended

\* It goes on or is over; it is over without an error only when it deletes.
LEMMA EndedIs ==
  ASSUME NEW r \in RunSet
  PROVE  /\ Ended(r) \in RunSet
         /\ \/ /\ r.todo # {} /\ Ended(r) = [r EXCEPT !.pc = "read"]
            \/ /\ r.todo = {} /\ r.errors = 0 /\ r.processed > 0 /\ Ended(r) = [r EXCEPT !.pc = "delete"]
            \/ /\ r.todo = {} /\ (r.errors > 0 \/ r.processed = 0) /\ Ended(r) = IdleRun
<1>1. IdleRun \in RunSet
  BY DEF IdleRun, RunSet
<1>2. [r EXCEPT !.pc = "read"] \in RunSet /\ [r EXCEPT !.pc = "delete"] \in RunSet
  BY DEF RunSet
<1>3. r.errors \in Nat /\ r.processed \in Nat
  BY DEF RunSet
<1>4. CASE r.todo # {}
  BY <1>2, <1>4 DEF Ended, AfterLoop
<1>5. CASE r.todo = {} /\ r.errors = 0 /\ r.processed > 0
  BY <1>2, <1>5 DEF Ended, AfterLoop
<1>6. CASE r.todo = {} /\ ~(r.errors = 0 /\ r.processed > 0)
  BY <1>1, <1>3, <1>6 DEF Ended, AfterLoop
<1> QED BY <1>4, <1>5, <1>6

LEMMA EndedIsGood ==
  ASSUME NEW job \in Jobs, NEW r \in RunSet, NEW periods, NEW errors, NEW from, NEW to,
         IsKey(job, r.key), r.key = DueOn(job, to), <<job, r.key>> \in periods, r.monitor = {},
         r.errors > 0 => <<job, r.key>> \in errors,
         r.errors + r.processed + Cardinality(r.todo) <= Cardinality(Monitors)
  PROVE  GoodRun(job, Ended(r), periods, errors, from, to)
<1>1. Cardinality({}) = 0 /\ Cardinality(r.todo) \in Nat /\ Cardinality(Monitors) \in Nat
  <2>1. r.todo \subseteq Monitors
    BY DEF RunSet
  <2> QED BY <2>1, MonitorsAssumption, FS_EmptySet, FS_CardinalityType, FS_Subset
<1>2. r.errors \in Nat /\ r.processed \in Nat
  BY DEF RunSet
<1>3. CASE r.todo # {} /\ Ended(r) = [r EXCEPT !.pc = "read"]
  <2> DEFINE e == [r EXCEPT !.pc = "read"]
  <2>1. /\ e.pc = "read" /\ e.key = r.key /\ e.todo = r.todo /\ e.monitor = {} /\ e.errors = r.errors
        /\ e.processed = r.processed
    BY DEF RunSet
  <2> HIDE DEF e
  <2>2. GoodRun(job, e, periods, errors, from, to)
    BY <1>1, <1>2, <1>3, <2>1 DEF GoodRun, Working
  <2> QED BY <1>3, <2>2 DEF e
<1>4. CASE r.todo = {} /\ r.errors = 0 /\ Ended(r) = [r EXCEPT !.pc = "delete"]
  <2> DEFINE e == [r EXCEPT !.pc = "delete"]
  <2>1. /\ e.pc = "delete" /\ e.key = r.key /\ e.todo = r.todo /\ e.monitor = {} /\ e.errors = r.errors
        /\ e.processed = r.processed
    BY DEF RunSet
  <2> HIDE DEF e
  <2>2. GoodRun(job, e, periods, errors, from, to)
    BY <1>1, <1>2, <1>4, <2>1 DEF GoodRun, Working
  <2> QED BY <1>4, <2>2 DEF e
<1>5. CASE Ended(r) = IdleRun
  BY <1>5, IdleIsGood
<1> QED BY <1>3, <1>4, <1>5, EndedIs

\* Time and history only add to what a run may rest on.
LEMMA GoodRunStays ==
  ASSUME NEW job, NEW r, NEW b1, NEW b2, NEW f1, NEW f2, NEW from, NEW to, b1 \subseteq b2, f1 \subseteq f2,
         GoodRun(job, r, b1, f1, from, to)
  PROVE  GoodRun(job, r, b2, f2, from, to)
BY DEF GoodRun

LEMMA GoodRowStays ==
  ASSUME NEW row, NEW b1, NEW b2, NEW from, NEW to \in Int, NEW later \in Int, b1 \subseteq b2, to <= later,
         from \in Int, GoodRow(row, b1, from, to)
  PROVE  GoodRow(row, b2, from, later)
<1>1. from..(to - 1) \subseteq from..(later - 1)
  OBVIOUS
<1> QED BY <1>1 DEF GoodRow

-----------------------------------------------------------------------------
(* Every step keeps it *)

LEMMA StartsAre ==
  ASSUME TypesInv, NEW job \in Jobs, OnSchedule(job) \/ job # Week
  PROVE  LET r == [IdleRun EXCEPT !.pc = "list", !.key = Due(job)] IN
         /\ Start(job) = [run EXCEPT ![job] = r] /\ r \in RunSet
         /\ \A periods, errors : GoodRun(job, r, periods, errors, window[1], today)
<1>1. today \in Span /\ Due(job) = DueOn(job, today) /\ (ScheduledOn(job, today) \/ job # Week)
  BY Today, DueToday
<1>2. PICK t \in Span : t = today
  BY <1>1
<1> DEFINE r == [IdleRun EXCEPT !.pc = "list", !.key = DueOn(job, t)]
<1>3. r \in RunSet /\ \A periods, errors : GoodRun(job, r, periods, errors, window[1], t)
  BY <1>1, <1>2, StartIsGood, Zenon
<1>4. Start(job) = [run EXCEPT ![job] = r]
  BY <1>1, <1>2 DEF Start
<1> QED BY <1>1, <1>2, <1>3, <1>4

LEMMA DueIsPeriod ==
  ASSUME TypesInv, NEW job \in Jobs, OnSchedule(job) \/ job # Week
  PROVE  Due(job) \in Seq(Int) /\ IsKey(job, Due(job)) /\ (job = Day => Due(job)[1] < today)
<1>1. today \in Span /\ today \in Int /\ Due(job) = DueOn(job, today) /\ (ScheduledOn(job, today) \/ job # Week)
  BY Today, DueToday
<1>2. IsKey(job, DueOn(job, today)) /\ (job = Day => DueOn(job, today)[1] = today - 1)
  BY <1>1, DueKeys
<1>3. today - 1 < today
  BY <1>1
<1> QED BY <1>1, <1>2, <1>3, KeysAreTuples

\* Steps that leave the rows and the date alone.
LEMMA BaseKept ==
  ASSUME BaseInv, TypesInv', PeriodsInv', UNCHANGED <<window, today, rows>>,
         begun \subseteq begun', failed \subseteq failed',
         \A job \in Jobs : \/ run'[job] = run[job]
                           \/ GoodRun(job, run'[job], begun', failed', window[1], today)
  PROVE  BaseInv'
<1>1. RowsInv'
  <2>1. \A row \in rows : GoodRow(row, begun', window[1], today)
    BY DEF BaseInv, RowsInv, GoodRow
  <2> QED BY <2>1 DEF BaseInv, RowsInv
<1>2. RunsInv'
  <2>1. ASSUME NEW job \in Jobs
        PROVE  GoodRun(job, run'[job], begun', failed', window[1], today)
    <3>1. GoodRun(job, run[job], begun, failed, window[1], today)
      BY DEF BaseInv, RunsInv
    <3>2. GoodRun(job, run[job], begun', failed', window[1], today)
      BY <3>1 DEF GoodRun
    <3> QED BY <3>2
  <2> QED BY <2>1 DEF RunsInv
<1> QED BY <1>1, <1>2 DEF BaseInv

LEMMA MomentBase ==
  ASSUME BaseInv, NEW job \in Jobs, Moment(job)
  PROVE  BaseInv'
<1>1. OnSchedule(job)
  <2>1. job \in ToCome(job)
    BY DEF Moment
  <2> QED BY <2>1 DEF ToCome
<1> DEFINE r == [IdleRun EXCEPT !.pc = "list", !.key = Due(job)]
<1>2. /\ Start(job) = [run EXCEPT ![job] = r] /\ r \in RunSet
      /\ \A periods, errors : GoodRun(job, r, periods, errors, window[1], today)
  BY <1>1, StartsAre DEF BaseInv
<1>3. Due(job) \in Seq(Int) /\ IsKey(job, Due(job)) /\ (job = Day => Due(job)[1] < today)
  BY <1>1, DueIsPeriod DEF BaseInv
<1> HIDE DEF r
<1>4. run' = run \/ run' = [run EXCEPT ![job] = r]
  BY <1>2 DEF Moment
<1>5. (begun' = begun \/ begun' = begun \cup {<<job, Due(job)>>})
      /\ (failed' = failed \/ failed' = failed \cup {<<job, Due(job)>>})
  BY DEF Moment
<1>6. UNCHANGED <<window, today, rows, up, late, failures>> /\ clock' = job
      /\ \/ looping' = looping
         \/ /\ looping' = looping \cup {job}
            /\ job \in {Month, Year} /\ up
  BY DEF Moment
<1>7. run' \in [Jobs -> RunSet] /\ \A j \in Jobs : run'[j] = run[j] \/ (j = job /\ run'[j] = r)
  BY <1>2, <1>4 DEF BaseInv, TypesInv
<1>8. TypesInv'
  <2>1. begun' \subseteq Jobs \X Seq(Int) /\ failed' \subseteq Jobs \X Seq(Int) /\ late' \subseteq begun'
    BY <1>3, <1>5, <1>6 DEF BaseInv, TypesInv
  <2>2. job \in 0..Year
    BY DEF Jobs, Day, Year
  <2>3. looping' \subseteq {Month, Year} /\ (looping' # {} => up')
    BY <1>6 DEF BaseInv, TypesInv
  <2> QED BY <1>6, <1>7, <2>1, <2>2, <2>3 DEF BaseInv, TypesInv
<1>9. PeriodsInv'
  BY <1>3, <1>5, <1>6 DEF BaseInv, PeriodsInv
<1>10. begun \subseteq begun' /\ failed \subseteq failed'
  BY <1>5
<1> QED BY <1>2, <1>6, <1>7, <1>8, <1>9, <1>10, BaseKept

LEMMA FireAgainBase ==
  ASSUME BaseInv, NEW job \in Jobs, FireAgain(job)
  PROVE  BaseInv'
<1>1. job # Week
  BY DEF FireAgain, BaseInv, TypesInv, Week, Month, Year
<1> DEFINE r == [IdleRun EXCEPT !.pc = "list", !.key = Due(job)]
<1>2. /\ Start(job) = [run EXCEPT ![job] = r] /\ r \in RunSet
      /\ \A periods, errors : GoodRun(job, r, periods, errors, window[1], today)
  BY <1>1, StartsAre DEF BaseInv
<1> HIDE DEF r
<1>3. run' = [run EXCEPT ![job] = r]
      /\ UNCHANGED <<today, clock, rows, up, looping, window, begun, late, failed, failures>>
  BY <1>2 DEF FireAgain
<1>4. run' \in [Jobs -> RunSet] /\ \A j \in Jobs : run'[j] = run[j] \/ (j = job /\ run'[j] = r)
  BY <1>2, <1>3 DEF BaseInv, TypesInv
<1>5. TypesInv'
  BY <1>3, <1>4 DEF BaseInv, TypesInv
<1>6. PeriodsInv'
  BY <1>3 DEF BaseInv, PeriodsInv
<1> QED BY <1>2, <1>3, <1>4, <1>5, <1>6, BaseKept

LEMMA RestartBase ==
  ASSUME BaseInv, Restart
  PROVE  BaseInv'
<1>1. /\ up' = TRUE /\ looping' \subseteq {Month, Year}
      /\ UNCHANGED <<today, clock, rows, run, window, begun, late, failed, failures>>
  BY DEF Restart, BootLoops
<1>2. TypesInv'
  BY <1>1 DEF BaseInv, TypesInv
<1>3. PeriodsInv'
  BY <1>1 DEF BaseInv, PeriodsInv
<1> QED BY <1>1, <1>2, <1>3, BaseKept

LEMMA CrashBase ==
  ASSUME BaseInv, Crash
  PROVE  BaseInv'
<1>1. /\ failures < MaxFailures /\ failures' = failures + 1 /\ up' = FALSE /\ looping' = {}
      /\ run' = [job \in Jobs |-> IdleRun]
      /\ failed' = failed \cup {<<job, run[job].key>> : job \in {j \in Jobs : ~Idle(j)}}
      /\ UNCHANGED <<today, clock, rows, window, begun, late>>
  BY DEF Crash
<1>2. \A job \in Jobs : /\ run'[job] = IdleRun /\ IdleRun \in RunSet
                        /\ GoodRun(job, IdleRun, begun', failed', window[1], today)
  BY <1>1, IdleIsGood
<1>3. TypesInv'
  <2>1. failed' \subseteq Jobs \X Seq(Int)
    <3>1. \A job \in Jobs : run[job].key \in Seq(Int)
      BY DEF BaseInv, TypesInv, RunSet
    <3> QED BY <1>1, <3>1 DEF BaseInv, TypesInv
  <2>2. failures' \in 0..MaxFailures
    BY <1>1, FailuresAssumption DEF BaseInv, TypesInv
  <2>3. run' \in [Jobs -> RunSet]
    BY <1>1, <1>2
  <2> QED BY <1>1, <2>1, <2>2, <2>3 DEF BaseInv, TypesInv
<1>4. PeriodsInv'
  BY <1>1 DEF BaseInv, PeriodsInv
<1>5. failed \subseteq failed'
  BY <1>1
<1> QED BY <1>1, <1>2, <1>3, <1>4, <1>5, BaseKept

LEMMA ListBase ==
  ASSUME BaseInv, NEW job \in Jobs, List(job)
  PROVE  BaseInv'
<1> DEFINE monitors == {row.monitor : row \in Selected(job, run[job].key)}
           r == run[job]
           opened == [r EXCEPT !.pc = "read", !.todo = monitors]
<1>1. /\ r.pc = "list"
      /\ run' = [run EXCEPT ![job] = IF monitors = {} THEN IdleRun ELSE opened]
      /\ begun' = begun \cup {<<job, r.key>>}
      /\ UNCHANGED <<today, clock, rows, up, looping, window, late, failed, failures>>
  BY DEF List, BaseInv, TypesInv
<1>2. r \in RunSet /\ GoodRun(job, r, begun, failed, window[1], today)
  BY DEF BaseInv, TypesInv, RunsInv
<1>3. monitors \subseteq Monitors
  BY DEF Selected, BaseInv, TypesInv, RowSet
<1>4. /\ opened \in RunSet /\ opened.pc = "read" /\ opened.todo = monitors /\ opened.monitor = {}
      /\ opened.errors = 0 /\ opened.processed = 0 /\ opened.key = r.key
      /\ IsKey(job, r.key) /\ r.key = DueOn(job, today) /\ r.key \in Seq(Int)
  BY <1>1, <1>2, <1>3 DEF RunSet, GoodRun
<1> HIDE DEF monitors, opened, r
<1>5. <<job, r.key>> \in begun' /\ begun \subseteq begun'
  BY <1>1
<1>6. monitors # {} => GoodRun(job, opened, begun', failed', window[1], today)
  <2>1. /\ Cardinality({}) = 0 /\ Cardinality(monitors) \in Nat /\ Cardinality(Monitors) \in Nat
        /\ Cardinality(monitors) <= Cardinality(Monitors)
    BY <1>3, MonitorsAssumption, FS_EmptySet, FS_CardinalityType, FS_Subset
  <2> QED BY <1>4, <1>5, <2>1 DEF GoodRun, Working
<1>7. \A j \in Jobs : \/ run'[j] = run[j]
                      \/ GoodRun(j, run'[j], begun', failed', window[1], today)
  <2>1. GoodRun(job, IdleRun, begun', failed', window[1], today)
    BY IdleIsGood
  <2> QED BY <1>1, <1>6, <2>1 DEF BaseInv, TypesInv
<1>8. TypesInv'
  <2>1. IdleRun \in RunSet
    BY IdleIsGood
  <2>2. run' \in [Jobs -> RunSet]
    BY <1>1, <1>4, <2>1 DEF BaseInv, TypesInv
  <2>3. begun' \subseteq Jobs \X Seq(Int) /\ late' \subseteq begun'
    BY <1>1, <1>4 DEF BaseInv, TypesInv
  <2> QED BY <1>1, <2>2, <2>3 DEF BaseInv, TypesInv
<1>9. PeriodsInv'
  <2>1. job = Day => r.key[1] < today
    <3>1. today \in Span /\ today \in Int
      BY Today DEF BaseInv
    <3>2. job = Day => DueOn(job, today) = <<today - 1>>
      BY DEF DueOn, Day, Week, Month, Year
    <3>3. today - 1 < today
      BY <3>1
    <3> QED BY <1>4, <3>2, <3>3
  <2> QED BY <1>1, <1>4, <2>1 DEF BaseInv, PeriodsInv
<1> QED BY <1>1, <1>5, <1>7, <1>8, <1>9, BaseKept

\* What a run is after its steps.
Skipped(r, m) == [r EXCEPT !.todo = @ \ {m}, !.processed = @ + 1]
Taken(r, m, days) == [r EXCEPT !.todo = @ \ {m}, !.pc = "write", !.monitor = {m}, !.read = days]
Missed(r, m) == [r EXCEPT !.todo = @ \ {m}, !.errors = @ + 1]
Written(r) == [r EXCEPT !.monitor = {}, !.read = {}, !.processed = @ + 1]
Dropped(r) == [r EXCEPT !.monitor = {}, !.read = {}, !.errors = @ + 1]

LEMMA SkippedIs ==
  \A r \in RunSet : \A m :
    LET x == Skipped(r, m) IN
    /\ x \in RunSet /\ x.key = r.key /\ x.pc = r.pc /\ x.todo = r.todo \ {m}
    /\ x.monitor = r.monitor /\ x.read = r.read
    /\ x.errors = r.errors /\ x.processed = r.processed + 1
<1> SUFFICES ASSUME NEW r \in RunSet, NEW m
             PROVE  LET x == Skipped(r, m) IN
                    /\ x \in RunSet /\ x.key = r.key /\ x.pc = r.pc /\ x.todo = r.todo \ {m}
                    /\ x.monitor = r.monitor /\ x.read = r.read
                    /\ x.errors = r.errors /\ x.processed = r.processed + 1
  OBVIOUS
<1>1. r.errors + 1 \in Nat /\ r.processed + 1 \in Nat /\ r.todo \ {m} \subseteq Monitors
  BY DEF RunSet
<1> QED BY <1>1 DEF Skipped, RunSet

LEMMA TakenIs ==
  \A r \in RunSet : \A m \in Monitors : \A days \in SUBSET Int :
    \A x : x = Taken(r, m, days) =>
    /\ x \in RunSet /\ x.key = r.key /\ x.pc = "write" /\ x.todo = r.todo \ {m}
    /\ x.monitor = {m} /\ x.read = days
    /\ x.errors = r.errors /\ x.processed = r.processed
<1> SUFFICES ASSUME NEW r \in RunSet, NEW m \in Monitors, NEW days \in SUBSET Int,
                    NEW x, x = Taken(r, m, days)
             PROVE  /\ x \in RunSet /\ x.key = r.key /\ x.pc = "write" /\ x.todo = r.todo \ {m}
                    /\ x.monitor = {m} /\ x.read = days
                    /\ x.errors = r.errors /\ x.processed = r.processed
  OBVIOUS
<1>1. r.errors + 1 \in Nat /\ r.processed + 1 \in Nat /\ r.todo \ {m} \subseteq Monitors
  BY DEF RunSet
<1> QED BY <1>1 DEF Taken, RunSet

LEMMA MissedIs ==
  \A r \in RunSet : \A m :
    LET x == Missed(r, m) IN
    /\ x \in RunSet /\ x.key = r.key /\ x.pc = r.pc /\ x.todo = r.todo \ {m}
    /\ x.monitor = r.monitor /\ x.read = r.read
    /\ x.errors = r.errors + 1 /\ x.processed = r.processed
<1> SUFFICES ASSUME NEW r \in RunSet, NEW m
             PROVE  LET x == Missed(r, m) IN
                    /\ x \in RunSet /\ x.key = r.key /\ x.pc = r.pc /\ x.todo = r.todo \ {m}
                    /\ x.monitor = r.monitor /\ x.read = r.read
                    /\ x.errors = r.errors + 1 /\ x.processed = r.processed
  OBVIOUS
<1>1. r.errors + 1 \in Nat /\ r.processed + 1 \in Nat /\ r.todo \ {m} \subseteq Monitors
  BY DEF RunSet
<1> QED BY <1>1 DEF Missed, RunSet

LEMMA WrittenIs ==
  \A r \in RunSet :
    LET x == Written(r) IN
    /\ x \in RunSet /\ x.key = r.key /\ x.pc = r.pc /\ x.todo = r.todo
    /\ x.monitor = {} /\ x.read = {}
    /\ x.errors = r.errors /\ x.processed = r.processed + 1
<1> SUFFICES ASSUME NEW r \in RunSet
             PROVE  LET x == Written(r) IN
                    /\ x \in RunSet /\ x.key = r.key /\ x.pc = r.pc /\ x.todo = r.todo
                    /\ x.monitor = {} /\ x.read = {}
                    /\ x.errors = r.errors /\ x.processed = r.processed + 1
  OBVIOUS
<1>1. r.errors + 1 \in Nat /\ r.processed + 1 \in Nat
  BY DEF RunSet
<1> QED BY <1>1 DEF Written, RunSet

LEMMA DroppedIs ==
  \A r \in RunSet :
    LET x == Dropped(r) IN
    /\ x \in RunSet /\ x.key = r.key /\ x.pc = r.pc /\ x.todo = r.todo
    /\ x.monitor = {} /\ x.read = {}
    /\ x.errors = r.errors + 1 /\ x.processed = r.processed
<1> SUFFICES ASSUME NEW r \in RunSet
             PROVE  LET x == Dropped(r) IN
                    /\ x \in RunSet /\ x.key = r.key /\ x.pc = r.pc /\ x.todo = r.todo
                    /\ x.monitor = {} /\ x.read = {}
                    /\ x.errors = r.errors + 1 /\ x.processed = r.processed
  OBVIOUS
<1>1. r.errors + 1 \in Nat /\ r.processed + 1 \in Nat
  BY DEF RunSet
<1> QED BY <1>1 DEF Dropped, RunSet

\* The rows of a monitor in a run's period.
Feeds(row, job, key, m) == Selects(job, key, row) /\ row.monitor = m

LEMMA ReadMonitorIs ==
  ASSUME TypesInv, NEW job \in Jobs, ReadMonitor(job)
  PROVE  /\ run[job].pc = "read"
         /\ UNCHANGED <<today, clock, rows, up, looping, window, begun, late, failed, failures>>
         /\ \E m \in run[job].todo :
              \/ /\ \A row \in rows : ~Feeds(row, job, run[job].key, m)
                 /\ run' = [run EXCEPT ![job] = Ended(Skipped(run[job], m))]
              \/ \E days \in SUBSET Int :
                   /\ days = UNION {row.days : row \in {s \in rows : Feeds(s, job, run[job].key, m)}}
                   /\ \E row \in rows : Feeds(row, job, run[job].key, m)
                   /\ run' = [run EXCEPT ![job] = Taken(run[job], m, days)]
<1> DEFINE r == run[job]
<1>1. r.pc = "read" /\ UNCHANGED <<today, clock, rows, up, looping, window, begun, late, failed, failures>>
  BY DEF ReadMonitor
<1>2. r \in RunSet
  BY DEF TypesInv
<1>3. PICK m \in r.todo :
        LET mine == {row \in Selected(job, r.key) : row.monitor = m}
            rest == [r EXCEPT !.todo = @ \ {m}]
        IN IF mine = {} THEN Continue(job, [rest EXCEPT !.processed = @ + 1])
           ELSE run' = [run EXCEPT ![job] = [rest EXCEPT !.pc = "write", !.monitor = {m},
                                             !.read = Counted(mine)]]
  BY DEF ReadMonitor
<1> DEFINE mine == {row \in Selected(job, r.key) : row.monitor = m}
           rest == [r EXCEPT !.todo = @ \ {m}]
<1>4. mine = {s \in rows : Feeds(s, job, r.key, m)}
  BY DEF Selected, Feeds
<1>5. CASE mine = {}
  <2>1. [rest EXCEPT !.processed = @ + 1] = Skipped(r, m)
    BY <1>2 DEF Skipped, RunSet
  <2>2. Continue(job, Skipped(r, m))
    BY <1>3, <1>5, <2>1
  <2>3. \A row \in rows : ~Feeds(row, job, r.key, m)
    BY <1>4, <1>5
  <2> QED BY <1>1, <2>2, <2>3, ContinueEnds
<1>6. CASE mine # {}
  <2> DEFINE days == Counted(mine)
  <2>1. [rest EXCEPT !.pc = "write", !.monitor = {m}, !.read = days] = Taken(r, m, days)
    BY <1>2 DEF Taken, RunSet
  <2>2. run' = [run EXCEPT ![job] = Taken(r, m, days)]
    BY <1>3, <1>6, <2>1
  <2>3. days = UNION {row.days : row \in {s \in rows : Feeds(s, job, r.key, m)}}
    BY <1>4 DEF Counted
  <2>4. days \in SUBSET Int
    BY <2>3 DEF TypesInv, RowSet
  <2>5. \E row \in rows : Feeds(row, job, r.key, m)
    BY <1>4, <1>6
  <2> QED BY <1>1, <2>2, <2>3, <2>4, <2>5
<1> QED BY <1>5, <1>6

LEMMA QueryFailsIs ==
  ASSUME TypesInv, NEW job \in Jobs, QueryFails(job)
  PROVE  /\ run[job].pc # "idle" /\ failures < MaxFailures /\ failures' = failures + 1
         /\ failed' = failed \cup {<<job, run[job].key>>}
         /\ UNCHANGED <<today, clock, rows, up, looping, window, begun, late>>
         /\ \/ run[job].pc = "read" /\ \E m \in run[job].todo :
                                         run' = [run EXCEPT ![job] = Ended(Missed(run[job], m))]
            \/ run[job].pc = "write" /\ run' = [run EXCEPT ![job] = Ended(Dropped(run[job]))]
            \/ run[job].pc \in {"list", "delete"} /\ run' = [run EXCEPT ![job] = IdleRun]
<1> DEFINE r == run[job]
<1>1. r \in RunSet
  BY DEF TypesInv
<1>2. /\ r.pc # "idle" /\ failures < MaxFailures /\ failures' = failures + 1
      /\ failed' = failed \cup {<<job, r.key>>}
      /\ UNCHANGED <<today, clock, rows, up, looping, window, begun, late>>
  BY DEF QueryFails
<1>3. CASE r.pc = "read"
  <2>1. PICK m \in r.todo : Continue(job, [r EXCEPT !.todo = @ \ {m}, !.errors = @ + 1])
    BY <1>3 DEF QueryFails
  <2> QED BY <1>2, <1>3, <2>1, ContinueEnds DEF Missed
<1>4. CASE r.pc = "write"
  <2>1. Continue(job, [r EXCEPT !.monitor = {}, !.read = {}, !.errors = @ + 1])
    BY <1>4 DEF QueryFails
  <2> QED BY <1>2, <1>4, <2>1, ContinueEnds DEF Dropped
<1>5. CASE r.pc \in {"list", "delete"}
  <2>1. run' = [run EXCEPT ![job] = IdleRun]
    BY <1>5 DEF QueryFails
  <2> QED BY <1>2, <1>5, <2>1
<1>6. r.pc \in {"idle", "list", "read", "write", "delete"}
  BY <1>1 DEF RunSet
<1> QED BY <1>2, <1>3, <1>4, <1>5, <1>6

\* One monitor fewer to do.
LEMMA OneFewer ==
  ASSUME NEW s \in SUBSET Monitors, NEW m \in s
  PROVE  /\ Cardinality(s \ {m}) + 1 = Cardinality(s) /\ Cardinality(s) \in Nat /\ Cardinality(s \ {m}) \in Nat
         /\ Cardinality({}) = 0 /\ Cardinality({m}) = 1 /\ Cardinality(Monitors) \in Nat
<1>1. IsFiniteSet(s) /\ Cardinality(s) \in Nat /\ IsFiniteSet(s \ {m}) /\ Cardinality(s \ {m}) \in Nat
  <2>1. IsFiniteSet(s) /\ IsFiniteSet(s \ {m})
    BY MonitorsAssumption, FS_Subset
  <2> QED BY <2>1, FS_CardinalityType
<1>2. Cardinality(s \ {m}) = Cardinality(s) - 1
  BY <1>1, FS_RemoveElement
<1>3. Cardinality({}) = 0 /\ Cardinality({m}) = 1 /\ Cardinality(Monitors) \in Nat
  BY MonitorsAssumption, FS_EmptySet, FS_Singleton, FS_CardinalityType
<1> QED BY <1>1, <1>2, <1>3

\* What is known of a run between its awaits.
LEMMA WorkingRuns ==
  \A job \in Jobs : \A r \in RunSet : \A periods, errors, from, to :
    GoodRun(job, r, periods, errors, from, to) /\ r.pc = "read" =>
      /\ IsKey(job, r.key) /\ r.key = DueOn(job, to) /\ <<job, r.key>> \in periods /\ r.monitor = {}
      /\ r.errors > 0 => <<job, r.key>> \in errors
      /\ r.errors + r.processed + Cardinality(r.todo) <= Cardinality(Monitors)
<1> SUFFICES ASSUME NEW job \in Jobs, NEW r \in RunSet, NEW periods, NEW errors, NEW from, NEW to,
                    GoodRun(job, r, periods, errors, from, to), r.pc = "read"
             PROVE  /\ IsKey(job, r.key) /\ r.key = DueOn(job, to) /\ <<job, r.key>> \in periods
                    /\ r.monitor = {}
                    /\ r.errors > 0 => <<job, r.key>> \in errors
                    /\ r.errors + r.processed + Cardinality(r.todo) <= Cardinality(Monitors)
  OBVIOUS
<1>1. IsKey(job, r.key) /\ r.key = DueOn(job, to) /\ <<job, r.key>> \in periods /\ r.monitor = {}
  BY DEF GoodRun, Working
<1>2. r.errors > 0 => <<job, r.key>> \in errors
  BY DEF GoodRun
<1>3. r.errors + r.processed + Cardinality(r.todo) + Cardinality(r.monitor) <= Cardinality(Monitors)
  BY DEF GoodRun
<1>4. Cardinality(r.monitor) = 0 /\ r.errors \in Nat /\ r.processed \in Nat /\ r.todo \subseteq Monitors
  BY <1>1, FS_EmptySet DEF RunSet
<1>5. Cardinality(r.todo) \in Nat /\ Cardinality(Monitors) \in Nat
  BY <1>4, MonitorsAssumption, FS_Subset, FS_CardinalityType
<1>6. r.errors + r.processed + Cardinality(r.todo) <= Cardinality(Monitors)
  BY <1>3, <1>4, <1>5
<1> QED BY <1>1, <1>2, <1>6

LEMMA ReadMonitorBase ==
  ASSUME BaseInv, NEW job \in Jobs, ReadMonitor(job)
  PROVE  BaseInv'
<1>1. /\ run[job].pc = "read"
      /\ UNCHANGED <<today, clock, rows, up, looping, window, begun, late, failed, failures>>
  BY ReadMonitorIs DEF BaseInv
<1>2. PICK m \in run[job].todo :
        \/ /\ \A row \in rows : ~Feeds(row, job, run[job].key, m)
           /\ run' = [run EXCEPT ![job] = Ended(Skipped(run[job], m))]
        \/ \E days \in SUBSET Int :
             /\ days = UNION {row.days : row \in {s \in rows : Feeds(s, job, run[job].key, m)}}
             /\ \E row \in rows : Feeds(row, job, run[job].key, m)
             /\ run' = [run EXCEPT ![job] = Taken(run[job], m, days)]
  BY ReadMonitorIs DEF BaseInv
<1>3. PICK r \in RunSet : r = run[job]
  BY DEF BaseInv, TypesInv
<1>4. GoodRun(job, r, begun, failed, window[1], today)
  BY <1>3 DEF BaseInv, RunsInv
<1>5. /\ r.todo \subseteq Monitors /\ m \in r.todo /\ m \in Monitors
      /\ r.errors \in Nat /\ r.processed \in Nat /\ r.pc = "read"
  BY <1>1, <1>2, <1>3 DEF RunSet
<1>6. /\ Cardinality(r.todo \ {m}) + 1 = Cardinality(r.todo) /\ Cardinality(r.todo) \in Nat
      /\ Cardinality(r.todo \ {m}) \in Nat /\ Cardinality({}) = 0 /\ Cardinality({m}) = 1
      /\ Cardinality(Monitors) \in Nat
  BY <1>5, OneFewer
<1>7. /\ IsKey(job, r.key) /\ r.key = DueOn(job, today) /\ <<job, r.key>> \in begun /\ r.monitor = {}
      /\ r.errors > 0 => <<job, r.key>> \in failed
      /\ r.errors + r.processed + Cardinality(r.todo) <= Cardinality(Monitors)
  BY <1>4, <1>5, <1>6, WorkingRuns
<1>8. \E e \in RunSet : /\ run' = [run EXCEPT ![job] = e]
                        /\ GoodRun(job, e, begun, failed, window[1], today)
  <2>1. CASE run' = [run EXCEPT ![job] = Ended(Skipped(run[job], m))]
    <3>1. PICK x : x = Skipped(r, m)
      OBVIOUS
    <3>2. /\ x \in RunSet /\ x.todo = r.todo \ {m} /\ x.monitor = {} /\ x.key = r.key
          /\ x.errors = r.errors /\ x.processed = r.processed + 1
      BY <1>7, <3>1, SkippedIs
    <3>3. x.errors + x.processed + Cardinality(x.todo) <= Cardinality(Monitors)
      BY <1>5, <1>6, <1>7, <3>2
    <3>4. GoodRun(job, Ended(x), begun, failed, window[1], today)
      BY <1>5, <1>7, <3>2, <3>3, EndedIsGood
    <3> QED BY <1>3, <2>1, <3>1, <3>2, <3>4, EndedIs
  <2>2. CASE \E days \in SUBSET Int :
               /\ days = UNION {row.days : row \in {s \in rows : Feeds(s, job, run[job].key, m)}}
               /\ \E row \in rows : Feeds(row, job, run[job].key, m)
               /\ run' = [run EXCEPT ![job] = Taken(run[job], m, days)]
    <3>1. PICK days \in SUBSET Int :
            /\ days = UNION {row.days : row \in {s \in rows : Feeds(s, job, run[job].key, m)}}
            /\ \E row \in rows : Feeds(row, job, run[job].key, m)
            /\ run' = [run EXCEPT ![job] = Taken(run[job], m, days)]
      BY <2>2
    <3>2. PICK x : x = Taken(r, m, days)
      OBVIOUS
    <3>3. /\ x \in RunSet /\ x.pc = "write" /\ x.todo = r.todo \ {m} /\ x.read = days /\ x.monitor = {m}
          /\ x.key = r.key /\ x.errors = r.errors /\ x.processed = r.processed
      BY <1>5, <3>2, TakenIs
    <3>4. \A day \in days : \E row \in rows : Feeds(row, job, r.key, m) /\ day \in row.days
      BY <1>3, <3>1
    <3>5. \A row \in rows : GoodRow(row, begun, window[1], today) /\ WellPlaced(row)
      BY RowsAreWellPlaced DEF BaseInv, RowsInv
    <3>6. days # {} /\ days \subseteq window[1]..(today - 1)
      <4>1. PICK s \in rows : Feeds(s, job, r.key, m)
        BY <1>3, <3>1
      <4>2. s.days # {}
        BY <3>5 DEF GoodRow
      <4>3. s.days \subseteq days
        BY <1>3, <3>1, <4>1
      <4>4. \A row \in rows : \A day \in row.days : day \in window[1]..(today - 1)
        BY <3>5 DEF GoodRow
      <4> QED BY <3>4, <4>2, <4>3, <4>4
    <3>7. \A day \in days : Touches(<<job, r.key>>, day)
      BY <1>7, <3>4, <3>5, SourcesTouch DEF Feeds
    <3>8. x.errors + x.processed + Cardinality(x.todo) + Cardinality(x.monitor) <= Cardinality(Monitors)
      BY <1>5, <1>6, <1>7, <3>3
    <3>9. GoodRun(job, x, begun, failed, window[1], today)
      <4>1. \E n \in Monitors : x.monitor = {n} /\ n \notin x.todo
        BY <1>5, <3>3
      <4>2. x.errors > 0 => <<job, x.key>> \in failed
        BY <1>7, <3>3
      <4> QED BY <1>7, <3>3, <3>6, <3>7, <3>8, <4>1, <4>2 DEF GoodRun, Working
    <3> QED BY <1>3, <3>1, <3>2, <3>3, <3>9
  <2> QED BY <1>2, <2>1, <2>2
<1>9. TypesInv'
  BY <1>1, <1>8 DEF BaseInv, TypesInv
<1>10. PeriodsInv'
  BY <1>1 DEF BaseInv, PeriodsInv
<1>11. \A j \in Jobs : run'[j] = run[j] \/ GoodRun(j, run'[j], begun', failed', window[1], today)
  BY <1>1, <1>8 DEF BaseInv, TypesInv
<1> QED BY <1>1, <1>9, <1>10, <1>11, BaseKept

LEMMA QueryFailsBase ==
  ASSUME BaseInv, NEW job \in Jobs, QueryFails(job)
  PROVE  BaseInv'
<1>1. /\ run[job].pc # "idle" /\ failures < MaxFailures /\ failures' = failures + 1
      /\ failed' = failed \cup {<<job, run[job].key>>}
      /\ UNCHANGED <<today, clock, rows, up, looping, window, begun, late>>
      /\ \/ run[job].pc = "read" /\ \E m \in run[job].todo :
                                      run' = [run EXCEPT ![job] = Ended(Missed(run[job], m))]
         \/ run[job].pc = "write" /\ run' = [run EXCEPT ![job] = Ended(Dropped(run[job]))]
         \/ run[job].pc \in {"list", "delete"} /\ run' = [run EXCEPT ![job] = IdleRun]
  BY QueryFailsIs DEF BaseInv
<1>2. PICK r \in RunSet : r = run[job]
  BY DEF BaseInv, TypesInv
<1>3. GoodRun(job, r, begun, failed, window[1], today)
  BY <1>2 DEF BaseInv, RunsInv
<1>4. r.todo \subseteq Monitors /\ r.errors \in Nat /\ r.processed \in Nat /\ r.key \in Seq(Int)
  BY DEF RunSet
<1>5. IsKey(job, r.key) /\ r.key = DueOn(job, today) /\ <<job, r.key>> \in failed'
  BY <1>1, <1>2, <1>3 DEF GoodRun
<1>6. \E e \in RunSet : /\ run' = [run EXCEPT ![job] = e]
                        /\ GoodRun(job, e, begun, failed', window[1], today)
  <2>1. CASE r.pc = "read" /\ \E m \in r.todo : run' = [run EXCEPT ![job] = Ended(Missed(r, m))]
    <3>1. PICK m \in r.todo : run' = [run EXCEPT ![job] = Ended(Missed(r, m))]
      BY <2>1
    <3>2. /\ Cardinality(r.todo \ {m}) + 1 = Cardinality(r.todo) /\ Cardinality(r.todo) \in Nat
          /\ Cardinality(r.todo \ {m}) \in Nat /\ Cardinality({}) = 0
          /\ Cardinality(Monitors) \in Nat
      BY <1>4, OneFewer
    <3>3. /\ <<job, r.key>> \in begun /\ r.monitor = {}
          /\ r.errors + r.processed + Cardinality(r.todo) <= Cardinality(Monitors)
      BY <1>3, <2>1, WorkingRuns
    <3>4. PICK x : x = Missed(r, m)
      OBVIOUS
    <3>5. /\ x \in RunSet /\ x.todo = r.todo \ {m} /\ x.monitor = {} /\ x.key = r.key
          /\ x.errors = r.errors + 1 /\ x.processed = r.processed
      BY <3>3, <3>4, MissedIs
    <3>6. x.errors + x.processed + Cardinality(x.todo) <= Cardinality(Monitors)
      BY <1>4, <3>2, <3>3, <3>5
    <3>7. GoodRun(job, Ended(x), begun, failed', window[1], today)
      BY <1>5, <3>3, <3>5, <3>6, EndedIsGood
    <3> QED BY <3>1, <3>4, <3>5, <3>7, EndedIs
  <2>2. CASE r.pc = "write" /\ run' = [run EXCEPT ![job] = Ended(Dropped(r))]
    <3>1. PICK m \in Monitors : r.monitor = {m}
      BY <1>3, <2>2 DEF GoodRun
    <3>2. /\ Cardinality(r.todo) \in Nat /\ Cardinality({m}) = 1 /\ Cardinality(Monitors) \in Nat
      BY <1>4, MonitorsAssumption, FS_Subset, FS_CardinalityType, FS_Singleton
    <3>3. /\ <<job, r.key>> \in begun
          /\ r.errors + r.processed + Cardinality(r.todo) + 1 <= Cardinality(Monitors)
      BY <1>3, <1>4, <2>2, <3>1, <3>2 DEF GoodRun, Working
    <3>4. PICK x : x = Dropped(r)
      OBVIOUS
    <3>5. /\ x \in RunSet /\ x.todo = r.todo /\ x.monitor = {} /\ x.key = r.key
          /\ x.errors = r.errors + 1 /\ x.processed = r.processed
      BY <3>4, DroppedIs
    <3>6. x.errors + x.processed + Cardinality(x.todo) <= Cardinality(Monitors)
      BY <1>4, <3>2, <3>3, <3>5
    <3>7. GoodRun(job, Ended(x), begun, failed', window[1], today)
      BY <1>5, <3>3, <3>5, <3>6, EndedIsGood
    <3> QED BY <2>2, <3>4, <3>5, <3>7, EndedIs
  <2>3. CASE run' = [run EXCEPT ![job] = IdleRun]
    BY <2>3, IdleIsGood
  <2> QED BY <1>1, <1>2, <2>1, <2>2, <2>3
<1>7. TypesInv'
  <2>1. run' \in [Jobs -> RunSet]
    BY <1>6 DEF BaseInv, TypesInv
  <2>2. failed' \subseteq Jobs \X Seq(Int)
    BY <1>1, <1>2, <1>4 DEF BaseInv, TypesInv
  <2>3. failures' \in 0..MaxFailures
    BY <1>1, FailuresAssumption DEF BaseInv, TypesInv
  <2> QED BY <1>1, <2>1, <2>2, <2>3 DEF BaseInv, TypesInv
<1>8. PeriodsInv'
  BY <1>1 DEF BaseInv, PeriodsInv
<1>9. \A j \in Jobs : run'[j] = run[j] \/ GoodRun(j, run'[j], begun', failed', window[1], today)
  BY <1>1, <1>6 DEF BaseInv, TypesInv
<1> QED BY <1>1, <1>7, <1>8, <1>9, BaseKept

\* An upsert writes one row: the row of the run's period, for its monitor.
LEMMA UpsertIs ==
  ASSUME BaseInv, NEW job \in Jobs, Upsert(job)
  PROVE  \E m \in Monitors : \E new \in RowSet :
           /\ run[job].pc = "write" /\ run[job].monitor = {m}
           /\ new = Row(job, m, run[job].key, run[job].read)
           /\ new.level = job /\ new.monitor = m /\ new.key = run[job].key /\ new.days = run[job].read
           /\ rows' = {row \in rows : ~(row.level = job /\ row.key = new.key /\ row.monitor = m)} \cup {new}
           /\ late' = late \cup {p \in begun : Selects(p[1], p[2], new)}
           /\ run' = [run EXCEPT ![job] = Ended(Written(run[job]))]
           /\ UNCHANGED <<today, clock, up, looping, window, begun, failed, failures>>
<1> DEFINE r == run[job]
<1>1. r \in RunSet /\ GoodRun(job, r, begun, failed, window[1], today) /\ r.pc = "write"
  BY DEF BaseInv, TypesInv, RunsInv, Upsert
<1>2. PICK m \in Monitors : r.monitor = {m}
  BY <1>1 DEF GoodRun
<1> DEFINE new == Row(job, m, r.key, r.read)
<1>3. new \in RowSet /\ new.level = job /\ new.monitor = m /\ new.key = r.key /\ new.days = r.read
  <2>1. job \in 0..Year
    BY DEF Jobs, Day, Year
  <2> QED BY <1>1, <2>1 DEF Row, RowSet, RunSet
<1>4. {Row(job, n, r.key, r.read) : n \in r.monitor} = {new}
  BY <1>2
<1>5. OtherRows(job) = {row \in rows : ~(row.level = job /\ row.key = new.key /\ row.monitor = m)}
  BY <1>2, <1>3 DEF OtherRows
<1>6. /\ rows' = OtherRows(job) \cup {new}
      /\ late' = late \cup {p \in begun : \E row \in {new} : Selects(p[1], p[2], row)}
      /\ Continue(job, Written(r))
      /\ UNCHANGED <<today, clock, up, looping, window, begun, failed, failures>>
  BY <1>4 DEF Upsert, Written
<1>7. run' = [run EXCEPT ![job] = Ended(Written(r))]
  BY <1>6, ContinueEnds
<1>8. {p \in begun : \E row \in {new} : Selects(p[1], p[2], row)} = {p \in begun : Selects(p[1], p[2], new)}
  OBVIOUS
<1> QED BY <1>1, <1>2, <1>3, <1>5, <1>6, <1>7, <1>8

LEMMA UpsertBase ==
  ASSUME BaseInv, NEW job \in Jobs, Upsert(job)
  PROVE  BaseInv'
<1>1. PICK m \in Monitors, new \in RowSet :
           /\ run[job].pc = "write" /\ run[job].monitor = {m}
           /\ new.level = job /\ new.monitor = m /\ new.key = run[job].key /\ new.days = run[job].read
           /\ rows' = {row \in rows : ~(row.level = job /\ row.key = new.key /\ row.monitor = m)} \cup {new}
           /\ late' = late \cup {p \in begun : Selects(p[1], p[2], new)}
           /\ run' = [run EXCEPT ![job] = Ended(Written(run[job]))]
           /\ UNCHANGED <<today, clock, up, looping, window, begun, failed, failures>>
  BY UpsertIs
<1>2. PICK r \in RunSet : r = run[job]
  BY DEF BaseInv, TypesInv
<1>3. GoodRun(job, r, begun, failed, window[1], today) /\ r.pc = "write"
  BY <1>1, <1>2 DEF BaseInv, RunsInv
<1>4. r.todo \subseteq Monitors /\ r.errors \in Nat /\ r.processed \in Nat
  BY DEF RunSet
<1>5. /\ IsKey(job, r.key) /\ r.key = DueOn(job, today) /\ <<job, r.key>> \in begun
      /\ r.read # {} /\ r.read \subseteq window[1]..(today - 1)
      /\ \A day \in r.read : Touches(<<job, r.key>>, day)
      /\ r.errors > 0 => <<job, r.key>> \in failed
  BY <1>3 DEF GoodRun, Working
<1>6. r.errors + r.processed + Cardinality(r.todo) + 1 <= Cardinality(Monitors)
  <2>1. r.errors + r.processed + Cardinality(r.todo) + Cardinality(r.monitor) <= Cardinality(Monitors)
    BY <1>3 DEF GoodRun
  <2>2. Cardinality(r.monitor) = 1
    BY <1>1, <1>2, FS_Singleton
  <2> QED BY <2>1, <2>2
<1>7. PICK x : x = Written(r)
  OBVIOUS
<1>8. /\ x \in RunSet /\ x.todo = r.todo /\ x.monitor = {} /\ x.key = r.key
      /\ x.errors = r.errors /\ x.processed = r.processed + 1
  BY <1>7, WrittenIs
<1>9. x.errors + x.processed + Cardinality(x.todo) <= Cardinality(Monitors)
  <2>1. Cardinality(r.todo) \in Nat /\ Cardinality(Monitors) \in Nat
    BY <1>4, MonitorsAssumption, FS_Subset, FS_CardinalityType
  <2> QED BY <1>4, <1>6, <1>8, <2>1
<1>10. Ended(x) \in RunSet /\ GoodRun(job, Ended(x), begun, failed, window[1], today)
  BY <1>5, <1>8, <1>9, EndedIs, EndedIsGood
<1>11. run' = [run EXCEPT ![job] = Ended(x)]
  BY <1>1, <1>2, <1>7
<1>12. TypesInv'
  <2>1. run' \in [Jobs -> RunSet]
    BY <1>10, <1>11 DEF BaseInv, TypesInv
  <2>2. rows' \subseteq RowSet /\ late' \subseteq begun'
    BY <1>1 DEF BaseInv, TypesInv
  <2> QED BY <1>1, <2>1, <2>2 DEF BaseInv, TypesInv
<1>13. PeriodsInv'
  BY <1>1 DEF BaseInv, PeriodsInv
<1>14. RowsInv'
  <2>1. \A row \in rows : GoodRow(row, begun, window[1], today)
    BY DEF BaseInv, RowsInv
  <2>2. GoodRow(new, begun, window[1], today)
    <3>1. Placed(new)
      <4>1. new.level # 0
        BY <1>1 DEF Jobs, Day
      <4> QED BY <1>1, <1>2, <1>5, <4>1 DEF Placed
    <3> QED BY <1>1, <1>2, <1>5, <3>1 DEF GoodRow
  <2>3. \A row \in rows' : GoodRow(row, begun', window'[1], today')
    BY <1>1, <2>1, <2>2
  <2>4. \A row, other \in rows :
          other.level = row.level /\ other.monitor = row.monitor /\ other.key = row.key => other = row
    BY DEF BaseInv, RowsInv
  <2>5. \A row, other \in rows' :
          other.level = row.level /\ other.monitor = row.monitor /\ other.key = row.key => other = row
    BY <1>1, <2>4
  <2> QED BY <2>3, <2>5 DEF RowsInv
<1>15. RunsInv'
  <2>1. ASSUME NEW j \in Jobs
        PROVE  GoodRun(j, run'[j], begun, failed, window[1], today)
    <3>1. GoodRun(j, run[j], begun, failed, window[1], today)
      BY DEF BaseInv, RunsInv
    <3>2. run'[j] = IF j = job THEN Ended(x) ELSE run[j]
      BY <1>11 DEF BaseInv, TypesInv
    <3> QED BY <1>10, <3>1, <3>2
  <2> QED BY <1>1, <2>1 DEF RunsInv
<1> QED BY <1>12, <1>13, <1>14, <1>15 DEF BaseInv

\* Steps that delete rows.
LEMMA FewerRows ==
  ASSUME BaseInv, UNCHANGED <<today, clock, up, looping, window, begun, late, failed, failures>>,
         rows' \subseteq rows, run' = run \/ \E job \in Jobs : run' = [run EXCEPT ![job] = IdleRun]
  PROVE  BaseInv'
<1>1. run' \in [Jobs -> RunSet] /\ \A j \in Jobs : run'[j] = run[j] \/ run'[j] = IdleRun
  <2>1. IdleRun \in RunSet
    BY DEF IdleRun, RunSet
  <2> QED BY <2>1 DEF BaseInv, TypesInv
<1>2. TypesInv'
  BY <1>1 DEF BaseInv, TypesInv
<1>3. PeriodsInv'
  BY DEF BaseInv, PeriodsInv
<1>4. RowsInv'
  <2>1. \A row \in rows : GoodRow(row, begun, window[1], today)
    BY DEF BaseInv, RowsInv
  <2>2. \A row, other \in rows :
          other.level = row.level /\ other.monitor = row.monitor /\ other.key = row.key => other = row
    BY DEF BaseInv, RowsInv
  <2>3. \A row \in rows' : GoodRow(row, begun', window'[1], today')
    BY <2>1
  <2>4. \A row, other \in rows' :
          other.level = row.level /\ other.monitor = row.monitor /\ other.key = row.key => other = row
    BY <2>2
  <2> QED BY <2>3, <2>4 DEF RowsInv
<1>5. RunsInv'
  <2>1. \A j \in Jobs : /\ GoodRun(j, run[j], begun, failed, window[1], today)
                        /\ GoodRun(j, IdleRun, begun, failed, window[1], today)
    BY IdleIsGood DEF BaseInv, RunsInv
  <2>2. \A j \in Jobs : GoodRun(j, run'[j], begun, failed, window[1], today)
    BY <1>1, <2>1
  <2> QED BY <2>2 DEF RunsInv
<1> QED BY <1>2, <1>3, <1>4, <1>5 DEF BaseInv

LEMMA DeleteBase ==
  ASSUME BaseInv, NEW job \in Jobs, Delete(job)
  PROVE  BaseInv'
BY FewerRows DEF Delete

LEMMA CleanupIs ==
  ASSUME Cleanup
  PROVE  /\ UNCHANGED <<today, clock, run, up, looping, window, begun, late, failed, failures>>
         /\ \E old \in rows : /\ old.level = 0 /\ old.key[1] < today - RetentionDays
                              /\ rows' = rows \ {old}
BY DEF Cleanup

LEMMA CleanupBase ==
  ASSUME BaseInv, Cleanup
  PROVE  BaseInv'
BY CleanupIs, FewerRows

\* A day passes with no run going.
LEMMA MidnightIs ==
  ASSUME BaseInv, Midnight
  PROVE  /\ \A job \in Jobs : run[job] = IdleRun
         /\ today' = today + 1 /\ clock' = 0 /\ today < window[2]
         /\ \A row \in rows : row \in rows'
         /\ \A row \in rows' : \/ row \in rows
                               \/ /\ row \in RowSet /\ row.level = 0 /\ row.key = <<today>>
                                  /\ row.days = {today} /\ row = Row(0, row.monitor, <<today>>, {today})
         /\ today \in CheckDays => \A m \in Monitors : Row(0, m, <<today>>, {today}) \in rows'
         /\ UNCHANGED <<run, up, looping, window, begun, late, failed, failures>>
<1>1. /\ \A job \in Jobs : Idle(job)
      /\ today < window[2] /\ today' = today + 1 /\ clock' = 0
      /\ rows' = rows \cup {Row(0, m, <<today>>, {today}) : m \in IF today \in CheckDays THEN Monitors ELSE {}}
      /\ UNCHANGED <<run, up, looping, window, begun, late, failed, failures>>
  BY DEF Midnight
<1>2. \A job \in Jobs : run[job] = IdleRun
  BY <1>1 DEF Idle, BaseInv, RunsInv, GoodRun
<1>3. \A m \in Monitors : LET row == Row(0, m, <<today>>, {today}) IN
        /\ row \in RowSet /\ row.level = 0 /\ row.key = <<today>> /\ row.days = {today} /\ row.monitor = m
  <2>1. today \in Int /\ 0 \in 0..Year
    BY Today DEF BaseInv, Year
  <2>2. <<today>> \in Seq(Int) /\ {today} \in SUBSET Int
    BY <2>1
  <2> QED BY <2>1, <2>2 DEF Row, RowSet
<1>4. \A row \in rows' \ rows : \E m \in Monitors : row = Row(0, m, <<today>>, {today})
  BY <1>1
<1>5. today \in CheckDays => \A m \in Monitors : Row(0, m, <<today>>, {today}) \in rows'
  BY <1>1
<1>6. ASSUME NEW row \in rows', row \notin rows
      PROVE  /\ row \in RowSet /\ row.level = 0 /\ row.key = <<today>>
             /\ row.days = {today} /\ row = Row(0, row.monitor, <<today>>, {today})
  <2>1. PICK m \in Monitors : row = Row(0, m, <<today>>, {today})
    BY <1>4, <1>6
  <2> QED BY <1>3, <2>1
<1>7. \A row \in rows : row \in rows'
  BY <1>1
<1> QED BY <1>1, <1>2, <1>5, <1>6, <1>7

LEMMA MidnightBase ==
  ASSUME BaseInv, Midnight
  PROVE  BaseInv'
<1>1. /\ \A job \in Jobs : run[job] = IdleRun
      /\ today' = today + 1 /\ clock' = 0 /\ today < window[2]
      /\ \A row \in rows' : \/ row \in rows
                            \/ /\ row \in RowSet /\ row.level = 0 /\ row.key = <<today>>
                               /\ row.days = {today} /\ row = Row(0, row.monitor, <<today>>, {today})
      /\ UNCHANGED <<run, up, looping, window, begun, late, failed, failures>>
  BY MidnightIs
<1>2. PICK a \in Int, b \in Int, t \in Int : a = window[1] /\ b = window[2] /\ t = today
  BY Today DEF BaseInv
<1>3. a <= t /\ t < b /\ t + 1 = today'
  BY <1>1, <1>2, Today DEF BaseInv
<1>4. TypesInv'
  <2>1. today' \in window'[1]..window'[2]
    BY <1>1, <1>2, <1>3
  <2>2. clock' \in 0..Year
    BY <1>1 DEF Year
  <2>3. rows' \subseteq RowSet
    BY <1>1 DEF BaseInv, TypesInv
  <2> QED BY <1>1, <2>1, <2>2, <2>3 DEF BaseInv, TypesInv
<1>5. PeriodsInv'
  <2>1. ASSUME NEW key \in Seq(Int), <<Day, key>> \in begun
        PROVE  key[1] < t + 1
    <3>1. IsKey(Day, key) /\ key[1] < t
      BY <1>2, <2>1, JobsAre DEF BaseInv, PeriodsInv
    <3>2. PICK d \in Dates : key = <<d>>
      BY <3>1 DEF IsKey, Day, Week, Month, Year
    <3>3. d \in Int /\ key[1] = d
      BY <3>2, CalendarDates
    <3> QED BY <3>1, <3>3
  <2>2. \A job \in Jobs, key \in Seq(Int) : <<job, key>> \in begun => IsKey(job, key)
    BY DEF BaseInv, PeriodsInv
  <2> QED BY <1>1, <1>3, <2>1, <2>2 DEF PeriodsInv
<1>6. RowsInv'
  <2>1. \A row \in rows : GoodRow(row, begun, a, t)
    BY <1>2 DEF BaseInv, RowsInv
  <2>2. \A row \in rows : GoodRow(row, begun, a, t + 1)
    <3>1. a..(t - 1) \subseteq a..t /\ (t + 1) - 1 = t
      BY <1>2
    <3> QED BY <2>1, <3>1 DEF GoodRow
  <2>3. \A row \in rows' \ rows : /\ row.level = 0 /\ row.key = <<t>> /\ row.days = {t}
                                  /\ row = Row(0, row.monitor, <<t>>, {t})
    BY <1>1, <1>2
  <2>4. \A row \in rows' \ rows : GoodRow(row, begun, a, t + 1)
    <3>1. {t} \subseteq a..((t + 1) - 1) /\ {t} # {}
      BY <1>2, <1>3
    <3> QED BY <2>3, <3>1 DEF GoodRow, Placed
  <2>5. \A row \in rows : row.level = 0 => row.key # <<t>>
    <3>1. SUFFICES ASSUME NEW row \in rows, row.level = 0, row.key = <<t>>
                   PROVE  FALSE
      OBVIOUS
    <3>2. PICK day \in row.days : day \in a..(t - 1) /\ row.key = <<day>>
      BY <2>1, <3>1 DEF GoodRow, Placed
    <3>3. day = t
      BY <3>1, <3>2
    <3> QED BY <1>2, <3>2, <3>3
  <2>6. \A row, other \in rows' :
          other.level = row.level /\ other.monitor = row.monitor /\ other.key = row.key => other = row
    <3>1. \A row, other \in rows :
            other.level = row.level /\ other.monitor = row.monitor /\ other.key = row.key => other = row
      BY DEF BaseInv, RowsInv
    <3> QED BY <2>3, <2>5, <3>1
  <2>7. \A row \in rows' : GoodRow(row, begun', window'[1], today')
    BY <1>1, <1>2, <1>3, <2>2, <2>4
  <2> QED BY <2>6, <2>7 DEF RowsInv
<1>7. RunsInv'
  BY <1>1, IdleIsGood DEF RunsInv
<1> QED BY <1>4, <1>5, <1>6, <1>7 DEF BaseInv

LEMMA InitBase ==
  ASSUME Init
  PROVE  BaseInv
<1>1. TypesInv
  <2>1. window \in Windows /\ today = window[1] /\ window \in Span \X Span /\ window[1] <= window[2]
    BY WindowsAssumption DEF Init
  <2>2. window[1] \in Int /\ window[2] \in Int
    BY <2>1, SpanIs
  <2>3. today \in window[1]..window[2]
    <3>1. PICK a \in Int, b \in Int : a = window[1] /\ b = window[2]
      BY <2>2
    <3> QED BY <2>1, <3>1
  <2>4. looping \subseteq {Month, Year} /\ clock \in 0..Year /\ up \in BOOLEAN /\ (looping # {} => up)
    BY DEF Init, BootLoops, Year
  <2>5. run \in [Jobs -> RunSet]
    BY DEF Init, IdleRun, RunSet
  <2>6. failures \in 0..MaxFailures
    BY FailuresAssumption DEF Init
  <2> QED BY <2>1, <2>3, <2>4, <2>5, <2>6 DEF Init, TypesInv
<1>2. RowsInv /\ PeriodsInv
  BY DEF Init, RowsInv, PeriodsInv
<1>3. RunsInv
  BY IdleIsGood DEF Init, RunsInv
<1> QED BY <1>1, <1>2, <1>3 DEF BaseInv

LEMMA StutterBase ==
  ASSUME BaseInv, UNCHANGED vars
  PROVE  BaseInv'
BY DEF vars, BaseInv, TypesInv, RowsInv, PeriodsInv, RunsInv

LEMMA NextBase ==
  ASSUME BaseInv, [Next]_vars
  PROVE  BaseInv'
<1>1. CASE Midnight
  BY <1>1, MidnightBase
<1>2. CASE Crash
  BY <1>2, CrashBase
<1>3. CASE Restart
  BY <1>3, RestartBase
<1>4. CASE Cleanup
  BY <1>4, CleanupBase
<1>5. ASSUME NEW job \in Jobs, Moment(job)
      PROVE  BaseInv'
  BY <1>5, MomentBase
<1>6. ASSUME NEW job \in Jobs, FireAgain(job)
      PROVE  BaseInv'
  BY <1>6, FireAgainBase
<1>7. ASSUME NEW job \in Jobs, List(job)
      PROVE  BaseInv'
  BY <1>7, ListBase
<1>8. ASSUME NEW job \in Jobs, ReadMonitor(job)
      PROVE  BaseInv'
  BY <1>8, ReadMonitorBase
<1>9. ASSUME NEW job \in Jobs, Upsert(job)
      PROVE  BaseInv'
  BY <1>9, UpsertBase
<1>10. ASSUME NEW job \in Jobs, Delete(job)
      PROVE  BaseInv'
  BY <1>10, DeleteBase
<1>11. ASSUME NEW job \in Jobs, QueryFails(job)
      PROVE  BaseInv'
  BY <1>11, QueryFailsBase
<1>12. CASE UNCHANGED vars
  BY <1>12, StutterBase
<1> QED BY <1>1, <1>2, <1>3, <1>4, <1>5, <1>6, <1>7, <1>8, <1>9, <1>10, <1>11, <1>12 DEF Next

LEMMA Invariance == Spec => []BaseInv
<1>1. Init => BaseInv
  BY InitBase
<1>2. BaseInv /\ [Next]_vars => BaseInv'
  BY NextBase
<1> QED BY <1>1, <1>2, PTL DEF Spec

LEMMA BaseTypes == BaseInv => TypeOK
<1> SUFFICES ASSUME BaseInv PROVE TypeOK
  OBVIOUS
<1>1. today \in window[1]..window[2] /\ clock \in 0..Year /\ up \in BOOLEAN /\ looping \subseteq {Month, Year}
      /\ failures \in 0..MaxFailures
  BY DEF BaseInv, TypesInv
<1>2. ASSUME NEW row \in rows
      PROVE  /\ row.level \in 0..Year /\ row.monitor \in Monitors
             /\ row.days # {} /\ row.days \subseteq window[1]..today
             /\ \A other \in rows :
                  other.level = row.level /\ other.monitor = row.monitor /\ other.key = row.key => other = row
  <2>1. row \in RowSet /\ GoodRow(row, begun, window[1], today)
    BY DEF BaseInv, TypesInv, RowsInv
  <2>2. window[1]..(today - 1) \subseteq window[1]..today
    <3>1. PICK a \in Int, b \in Int : a = window[1] /\ b = today
      BY Today DEF BaseInv
    <3>2. a..(b - 1) \subseteq a..b
      OBVIOUS
    <3> QED BY <3>1, <3>2
  <2>3. \A other \in rows :
          other.level = row.level /\ other.monitor = row.monitor /\ other.key = row.key => other = row
    BY DEF BaseInv, RowsInv
  <2> QED BY <2>1, <2>2, <2>3 DEF GoodRow, RowSet
<1>3. ASSUME NEW job \in Jobs
      PROVE  /\ run[job].pc \in {"idle", "list", "read", "write", "delete"}
             /\ run[job].todo \subseteq Monitors /\ Cardinality(run[job].monitor) <= 1
             /\ run[job].errors + run[job].processed + Cardinality(run[job].todo) <= Cardinality(Monitors)
  <2>1. PICK r \in RunSet : r = run[job]
    BY DEF BaseInv, TypesInv
  <2>2. GoodRun(job, r, begun, failed, window[1], today)
    BY <2>1 DEF BaseInv, RunsInv
  <2>3. r.todo \subseteq Monitors /\ r.errors \in Nat /\ r.processed \in Nat
        /\ r.pc \in {"idle", "list", "read", "write", "delete"}
    BY DEF RunSet
  <2>4. r.errors + r.processed + Cardinality(r.todo) + Cardinality(r.monitor) <= Cardinality(Monitors)
    BY <2>2 DEF GoodRun
  <2>5. r.monitor = {} \/ \E m \in Monitors : r.monitor = {m}
    BY <2>2 DEF GoodRun
  <2>6. Cardinality(r.monitor) = 0 \/ Cardinality(r.monitor) = 1
    BY <2>5, FS_EmptySet, FS_Singleton
  <2>7. Cardinality(r.todo) \in Nat /\ Cardinality(Monitors) \in Nat
    BY <2>3, MonitorsAssumption, FS_Subset, FS_CardinalityType
  <2>8. Cardinality(r.monitor) <= 1 /\ r.errors + r.processed + Cardinality(r.todo) <= Cardinality(Monitors)
    BY <2>3, <2>4, <2>6, <2>7
  <2> QED BY <2>1, <2>3, <2>8
<1> QED BY <1>1, <1>2, <1>3 DEF TypeOK

\* The rows, the runs and the calendar keep their shape: no table has two rows for
\* a monitor and a period, no run deals with more monitors than there are, and rows
\* hold past days only (the unique indexes of the summary tables, runAggregation).
THEOREM TypesHold == Spec => []TypeOK
BY Invariance, BaseTypes, PTL

-----------------------------------------------------------------------------
(* No check is lost: what a run has yet to do, and what the rows stand on *)

\* A monitor's checks of a day are in a row of some level or above.
CountedFrom(R, low, m, day) == \E row \in R : row.level >= low /\ Counts(row, m, day)

\* What a run does not read any more is rolled up already, or came late.
AllRead(job, r, R, L) ==
  \A s \in R : Selects(job, r.key, s) =>
    \A day \in s.days :
      \/ Touched(L, day)
      \/ s.monitor \in r.todo
      \/ s.monitor \in r.monitor /\ day \in r.read
      \/ CountedFrom(R, job, s.monitor, day)

NothingUnread(job, r, R, L) == Working(r) /\ r.errors = 0 => AllRead(job, r, R, L)

\* What a run is about to write covers the row it overwrites and stands on rows
\* that are still there.
ReadIsWhole(job, r, R, L) ==
  r.pc = "write" => \A m \in r.monitor :
    /\ \A t \in R : t.level = job /\ t.monitor = m /\ t.key = r.key =>
         \A day \in t.days : day \in r.read \/ Touched(L, day)
    /\ \/ <<job, r.key>> \in L
       \/ job = Day /\ \A s \in R : ~Feeds(s, job, r.key, m)
       \/ \A day \in r.read : \E s \in R : Feeds(s, job, r.key, m) /\ day \in s.days

\* As long as a row has sources, all its days are in them.
StandsOn(t, R, L) ==
  t.level > 0 => \A day \in t.days :
    \/ Touched(L, day)
    \/ \A s \in R : ~Feeds(s, t.level, t.key, t.monitor)
    \/ \E s \in R : Feeds(s, t.level, t.key, t.monitor) /\ day \in s.days

LossInv ==
  /\ \A job \in Jobs : NothingUnread(job, run[job], rows, late) /\ ReadIsWhole(job, run[job], rows, late)
  /\ \A t \in rows : StandsOn(t, rows, late)
  /\ LossOnlyThroughLateRows

LEMMA TouchedMore ==
  \A P, Q, day : P \subseteq Q /\ Touched(P, day) => Touched(Q, day)
BY DEF Touched

LEMMA PeriodTouches ==
  \A P, job, key, day : <<job, key>> \in P /\ Touches(<<job, key>>, day) => Touched(P, day)
BY DEF Touched

\* After a monitor, and before the list.
LEMMA EndedReads ==
  ASSUME NEW job, NEW r \in RunSet, NEW R, NEW L, r.errors = 0 => AllRead(job, r, R, L), r.monitor = {}
  PROVE  NothingUnread(job, Ended(r), R, L) /\ ReadIsWhole(job, Ended(r), R, L)
<1>1. CASE Ended(r) = IdleRun
  BY <1>1 DEF IdleRun, NothingUnread, ReadIsWhole, Working
<1>2. ASSUME NEW pc \in {"read", "delete"}, Ended(r) = [r EXCEPT !.pc = pc]
      PROVE  NothingUnread(job, Ended(r), R, L) /\ ReadIsWhole(job, Ended(r), R, L)
  <2>1. PICK e : e = [r EXCEPT !.pc = pc]
    OBVIOUS
  <2>2. /\ e.pc = pc /\ e.errors = r.errors /\ e.key = r.key /\ e.todo = r.todo /\ e.monitor = r.monitor
        /\ e.read = r.read
    BY <2>1 DEF RunSet
  <2>3. AllRead(job, r, R, L) => AllRead(job, e, R, L)
    BY <2>2 DEF AllRead
  <2>4. NothingUnread(job, e, R, L) /\ ReadIsWhole(job, e, R, L)
    BY <2>2, <2>3 DEF NothingUnread, ReadIsWhole
  <2> QED BY <1>2, <2>1, <2>4
<1> QED BY <1>1, <1>2, EndedIs

LEMMA NotWorking ==
  ASSUME NEW job, NEW r, NEW R, NEW L, ~Working(r)
  PROVE  NothingUnread(job, r, R, L) /\ ReadIsWhole(job, r, R, L)
BY DEF NothingUnread, ReadIsWhole, Working

\* Steps that leave the rows alone.
LEMMA QuietLoss ==
  ASSUME LossInv, UNCHANGED <<rows, late, today, window>>,
         \A job \in Jobs : \/ run'[job] = run[job]
                           \/ NothingUnread(job, run'[job], rows, late) /\ ReadIsWhole(job, run'[job], rows, late)
  PROVE  LossInv'
<1>1. \A job \in Jobs : NothingUnread(job, run'[job], rows, late) /\ ReadIsWhole(job, run'[job], rows, late)
  BY DEF LossInv
<1>2. \A job \in Jobs : NothingUnread(job, run'[job], rows', late') /\ ReadIsWhole(job, run'[job], rows', late')
  BY <1>1
<1>3. \A t \in rows' : StandsOn(t, rows', late')
  BY DEF LossInv
<1>4. LossOnlyThroughLateRows'
  BY DEF LossInv, LossOnlyThroughLateRows, Kept
<1> QED BY <1>2, <1>3, <1>4 DEF LossInv

LEMMA StartedLoss ==
  ASSUME BaseInv, LossInv, NEW job \in Jobs, Moment(job) \/ FireAgain(job)
  PROVE  LossInv'
<1>1. UNCHANGED <<rows, late, today, window>>
  BY DEF Moment, FireAgain
<1>2. run' = run \/ run' = [run EXCEPT ![job] = [IdleRun EXCEPT !.pc = "list", !.key = Due(job)]]
  BY DEF Moment, FireAgain, Start
<1>3. ~Working([IdleRun EXCEPT !.pc = "list", !.key = Due(job)])
  BY DEF Working, IdleRun
<1>4. \A j \in Jobs : run'[j] = run[j] \/ ~Working(run'[j])
  BY <1>2, <1>3 DEF BaseInv, TypesInv
<1> QED BY <1>1, <1>4, NotWorking, QuietLoss

LEMMA CrashLoss ==
  ASSUME LossInv, Crash
  PROVE  LossInv'
<1>1. UNCHANGED <<rows, late, today, window>> /\ run' = [job \in Jobs |-> IdleRun]
  BY DEF Crash
<1>2. ~Working(IdleRun)
  BY DEF Working, IdleRun
<1>3. \A job \in Jobs : ~Working(run'[job])
  BY <1>1, <1>2
<1> QED BY <1>1, <1>3, NotWorking, QuietLoss

LEMMA ListLoss ==
  ASSUME BaseInv, LossInv, NEW job \in Jobs, List(job)
  PROVE  LossInv'
<1> DEFINE monitors == {row.monitor : row \in Selected(job, run[job].key)}
           opened == [run[job] EXCEPT !.pc = "read", !.todo = monitors]
<1>1. UNCHANGED <<rows, late, today, window>>
      /\ run' = [run EXCEPT ![job] = IF monitors = {} THEN IdleRun ELSE opened]
  BY DEF List
<1>2. opened.pc = "read" /\ opened.key = run[job].key /\ opened.todo = monitors
  BY DEF BaseInv, TypesInv, RunSet
<1>3. AllRead(job, opened, rows, late)
  BY <1>2 DEF AllRead, Selected
<1>4. NothingUnread(job, opened, rows, late) /\ ReadIsWhole(job, opened, rows, late)
  BY <1>2, <1>3 DEF NothingUnread, ReadIsWhole
<1>5. ~Working(IdleRun)
  BY DEF Working, IdleRun
<1> HIDE DEF monitors, opened
<1>6. \A j \in Jobs : \/ run'[j] = run[j]
                      \/ j = job /\ run'[j] = opened
                      \/ ~Working(run'[j])
  BY <1>1, <1>5 DEF BaseInv, TypesInv
<1> QED BY <1>1, <1>4, <1>6, NotWorking, QuietLoss

LEMMA ReadMonitorLoss ==
  ASSUME BaseInv, LossInv, NEW job \in Jobs, ReadMonitor(job)
  PROVE  LossInv'
<1>1. /\ run[job].pc = "read"
      /\ UNCHANGED <<today, clock, rows, up, looping, window, begun, late, failed, failures>>
  BY ReadMonitorIs DEF BaseInv
<1>2. PICK m \in run[job].todo :
        \/ /\ \A row \in rows : ~Feeds(row, job, run[job].key, m)
           /\ run' = [run EXCEPT ![job] = Ended(Skipped(run[job], m))]
        \/ \E days \in SUBSET Int :
             /\ days = UNION {row.days : row \in {s \in rows : Feeds(s, job, run[job].key, m)}}
             /\ \E row \in rows : Feeds(row, job, run[job].key, m)
             /\ run' = [run EXCEPT ![job] = Taken(run[job], m, days)]
  BY ReadMonitorIs DEF BaseInv
<1>3. PICK r \in RunSet : r = run[job]
  BY DEF BaseInv, TypesInv
<1>4. GoodRun(job, r, begun, failed, window[1], today) /\ NothingUnread(job, r, rows, late) /\ r.pc = "read"
  BY <1>1, <1>3 DEF BaseInv, RunsInv, LossInv
<1>5. m \in Monitors /\ m \in r.todo /\ r.monitor = {}
  BY <1>2, <1>3, <1>4 DEF RunSet, GoodRun
<1>6. r.errors = 0 => AllRead(job, r, rows, late)
  BY <1>4 DEF NothingUnread, Working
<1>7. \E e : /\ run' = [run EXCEPT ![job] = e]
             /\ NothingUnread(job, e, rows, late) /\ ReadIsWhole(job, e, rows, late)
  <2>1. CASE /\ \A row \in rows : ~Feeds(row, job, run[job].key, m)
             /\ run' = [run EXCEPT ![job] = Ended(Skipped(run[job], m))]
    <3>1. PICK x : x = Skipped(r, m)
      OBVIOUS
    <3>2. /\ x \in RunSet /\ x.todo = r.todo \ {m} /\ x.monitor = {} /\ x.key = r.key
          /\ x.errors = r.errors /\ x.read = r.read
      BY <1>5, <3>1, SkippedIs
    <3>3. AllRead(job, r, rows, late) => AllRead(job, x, rows, late)
      BY <1>3, <1>5, <2>1, <3>2 DEF AllRead, Feeds
    <3>4. NothingUnread(job, Ended(x), rows, late) /\ ReadIsWhole(job, Ended(x), rows, late)
      BY <1>6, <3>2, <3>3, EndedReads
    <3> QED BY <1>3, <2>1, <3>1, <3>4
  <2>2. ASSUME NEW days \in SUBSET Int,
               days = UNION {row.days : row \in {s \in rows : Feeds(s, job, run[job].key, m)}},
               NEW source \in rows, Feeds(source, job, run[job].key, m),
               run' = [run EXCEPT ![job] = Taken(run[job], m, days)]
        PROVE  \E e : /\ run' = [run EXCEPT ![job] = e]
                      /\ NothingUnread(job, e, rows, late) /\ ReadIsWhole(job, e, rows, late)
    <3>1. PICK x : x = Taken(r, m, days)
      OBVIOUS
    <3>2. /\ x.pc = "write" /\ x.todo = r.todo \ {m} /\ x.read = days /\ x.monitor = {m}
          /\ x.key = r.key /\ x.errors = r.errors
      <4>1. days \in SUBSET Int
        BY <2>2
      <4>2. m \in Monitors
        BY <1>5
      <4>3. /\ x \in RunSet /\ x.key = r.key /\ x.pc = "write" /\ x.todo = r.todo \ {m}
            /\ x.monitor = {m} /\ x.read = days
            /\ x.errors = r.errors /\ x.processed = r.processed
        BY <3>1, <4>1, <4>2, TakenIs
      <4> QED BY <4>3
    <3>3. \A day : day \in days <=> \E s \in rows : Feeds(s, job, r.key, m) /\ day \in s.days
      BY <1>3, <2>2
    <3>4. NothingUnread(job, x, rows, late)
      <4>1. AllRead(job, r, rows, late) => AllRead(job, x, rows, late)
        BY <1>5, <3>2, <3>3 DEF AllRead, Feeds
      <4> QED BY <1>6, <3>2, <4>1 DEF NothingUnread
    <3>5. ReadIsWhole(job, x, rows, late)
      <4>1. ASSUME NEW t \in rows, t.level = job, t.monitor = m, t.key = r.key, NEW day \in t.days
            PROVE  day \in x.read \/ Touched(late, day)
        <5>1. StandsOn(t, rows, late) /\ t.level > 0
          BY <4>1 DEF LossInv, Jobs, Day, Year
        <5> QED BY <1>3, <2>2, <3>2, <3>3, <4>1, <5>1 DEF StandsOn
      <4>2. \A day \in x.read : \E s \in rows : Feeds(s, job, x.key, m) /\ day \in s.days
        BY <3>2, <3>3
      <4> QED BY <3>2, <4>1, <4>2 DEF ReadIsWhole
    <3> QED BY <1>3, <2>2, <3>1, <3>4, <3>5
  <2> QED BY <1>2, <2>1, <2>2
<1>8. \A j \in Jobs : \/ run'[j] = run[j]
                      \/ NothingUnread(j, run'[j], rows, late) /\ ReadIsWhole(j, run'[j], rows, late)
  BY <1>7 DEF BaseInv, TypesInv
<1> QED BY <1>1, <1>8, QuietLoss

LEMMA QueryFailsLoss ==
  ASSUME BaseInv, LossInv, NEW job \in Jobs, QueryFails(job)
  PROVE  LossInv'
<1>1. /\ UNCHANGED <<rows, late, today, window>>
      /\ \/ \E m \in run[job].todo : run' = [run EXCEPT ![job] = Ended(Missed(run[job], m))]
         \/ run' = [run EXCEPT ![job] = Ended(Dropped(run[job]))]
         \/ run' = [run EXCEPT ![job] = IdleRun]
      /\ run[job].pc = "read" \/ run[job].monitor = {} \/ run' = [run EXCEPT ![job] = Ended(Dropped(run[job]))]
         \/ run' = [run EXCEPT ![job] = IdleRun]
  BY QueryFailsIs DEF BaseInv
<1>2. PICK r \in RunSet : r = run[job] /\ r.errors \in Nat
  BY DEF BaseInv, TypesInv, RunSet
<1>3. r.pc = "read" => r.monitor = {}
  BY <1>2 DEF BaseInv, RunsInv, GoodRun
<1>4. \E e : /\ run' = [run EXCEPT ![job] = e]
             /\ NothingUnread(job, e, rows, late) /\ ReadIsWhole(job, e, rows, late)
  <2>1. ASSUME NEW x \in RunSet, x.errors = r.errors + 1, x.monitor = {}
        PROVE  NothingUnread(job, Ended(x), rows, late) /\ ReadIsWhole(job, Ended(x), rows, late)
    <3>1. x.errors # 0
      BY <1>2, <2>1
    <3> QED BY <2>1, <3>1, EndedReads
  <2>2. ASSUME NEW m, run' = [run EXCEPT ![job] = Ended(Missed(r, m))], r.monitor = {}
        PROVE  \E e : /\ run' = [run EXCEPT ![job] = e]
                      /\ NothingUnread(job, e, rows, late) /\ ReadIsWhole(job, e, rows, late)
    <3>1. PICK x : x = Missed(r, m)
      OBVIOUS
    <3>2. x \in RunSet /\ x.errors = r.errors + 1 /\ x.monitor = {}
      BY <2>2, <3>1, MissedIs
    <3> QED BY <2>1, <2>2, <3>1, <3>2
  <2>3. CASE run' = [run EXCEPT ![job] = Ended(Dropped(r))]
    <3>1. PICK x : x = Dropped(r)
      OBVIOUS
    <3>2. x \in RunSet /\ x.errors = r.errors + 1 /\ x.monitor = {}
      BY <3>1, DroppedIs
    <3> QED BY <2>1, <2>3, <3>1, <3>2
  <2>4. CASE run' = [run EXCEPT ![job] = IdleRun]
    <3>1. ~Working(IdleRun)
      BY DEF Working, IdleRun
    <3> QED BY <2>4, <3>1, NotWorking
  <2> QED BY <1>1, <1>2, <1>3, <2>2, <2>3, <2>4
<1>5. \A j \in Jobs : \/ run'[j] = run[j]
                      \/ NothingUnread(j, run'[j], rows, late) /\ ReadIsWhole(j, run'[j], rows, late)
  BY <1>4 DEF BaseInv, TypesInv
<1> QED BY <1>1, <1>5, QuietLoss

\* The row an upsert writes belongs to its period.
LEMMA UpsertPlaces ==
  ASSUME BaseInv, NEW job \in Jobs, run[job].pc = "write", NEW new,
         new.level = job, new.key = run[job].key, new.days = run[job].read
  PROVE  /\ WellPlaced(new) /\ IsKey(job, new.key) /\ <<job, new.key>> \in begun
         /\ \A day \in new.days : Touches(<<job, new.key>>, day)
<1>1. GoodRun(job, run[job], begun, failed, window[1], today)
  BY DEF BaseInv, RunsInv
<1>2. /\ IsKey(job, new.key) /\ <<job, new.key>> \in begun
      /\ new.days \subseteq window[1]..(today - 1)
      /\ \A day \in new.days : Touches(<<job, new.key>>, day)
  BY <1>1 DEF GoodRun, Working
<1>3. new.days \subseteq Span
  <2>1. PICK a \in Int, b \in Int : a = window[1] /\ b = today /\ 365 <= a /\ b <= 4382
    BY Today, SpanIs DEF BaseInv
  <2>2. new.days \subseteq a..(b - 1)
    BY <1>2, <2>1
  <2>3. \A d \in new.days : d \in Int /\ 365 <= d /\ d <= 4382
    BY <2>1, <2>2
  <2> QED BY <2>3, SpanIs
<1>4. new.level # 0
  BY DEF Jobs, Day
<1>5. Placed(new)
  BY <1>2, <1>4 DEF Placed
<1> QED BY <1>2, <1>3, <1>5 DEF WellPlaced

\* What an upsert changes: the periods that select its row have a late one, and
\* the others select what they did.
LEMMA UpsertSelects ==
  ASSUME BaseInv, NEW job \in Jobs, NEW m, NEW new, NEW R, NEW L,
         new.level = job, new.monitor = m,
         R = {row \in rows : ~(row.level = job /\ row.key = new.key /\ row.monitor = m)} \cup {new},
         L = late \cup {p \in begun : Selects(p[1], p[2], new)}
  PROVE  \A j \in Jobs, key \in Seq(Int) : <<j, key>> \in begun =>
           \/ <<j, key>> \in L
           \/ \A s : Selects(j, key, s) => (s \in rows <=> s \in R)
<1> SUFFICES ASSUME NEW j \in Jobs, NEW key \in Seq(Int), <<j, key>> \in begun
             PROVE  \/ <<j, key>> \in L
                    \/ \A s : Selects(j, key, s) => (s \in rows <=> s \in R)
  OBVIOUS
<1>1. CASE Selects(j, key, new)
  <2>1. <<j, key>>[1] = j /\ <<j, key>>[2] = key
    OBVIOUS
  <2> QED BY <1>1, <2>1
<1>2. CASE ~Selects(j, key, new)
  <2>1. \A s : s.level = new.level /\ s.key = new.key => ~Selects(j, key, s)
    BY <1>2, SelectsByKey
  <2> QED BY <1>2, <2>1
<1> QED BY <1>1, <1>2

\* The period of a rolled-up row.
LEMMA RowPeriods ==
  ASSUME BaseInv
  PROVE  \A t \in rows : t.level > 0 =>
           /\ t.level \in Jobs /\ t.key \in Seq(Int) /\ <<t.level, t.key>> \in begun /\ IsKey(t.level, t.key)
           /\ \A day \in t.days : Touches(<<t.level, t.key>>, day)
<1> SUFFICES ASSUME NEW t \in rows, t.level > 0
             PROVE  /\ t.level \in Jobs /\ t.key \in Seq(Int) /\ <<t.level, t.key>> \in begun
                    /\ IsKey(t.level, t.key)
                    /\ \A day \in t.days : Touches(<<t.level, t.key>>, day)
  OBVIOUS
<1>1. t \in RowSet /\ GoodRow(t, begun, window[1], today) /\ WellPlaced(t)
  BY RowsAreWellPlaced DEF BaseInv, TypesInv, RowsInv
<1>2. t.level \in Jobs /\ t.key \in Seq(Int) /\ t.level # 0
  BY <1>1 DEF RowSet, Jobs, Day, Year
<1>3. IsKey(t.level, t.key) /\ <<t.level, t.key>> \in begun
  BY <1>1 DEF WellPlaced, GoodRow
<1>4. \A day \in t.days : Touches(<<t.level, t.key>>, day)
  BY <1>1, <1>2 DEF WellPlaced, Placed
<1> QED BY <1>2, <1>3, <1>4

LEMMA UpsertLoss ==
  ASSUME BaseInv, LossInv, NEW job \in Jobs, Upsert(job)
  PROVE  LossInv'
<1>1. PICK m \in Monitors, new \in RowSet :
           /\ run[job].pc = "write" /\ run[job].monitor = {m}
           /\ new.level = job /\ new.monitor = m /\ new.key = run[job].key /\ new.days = run[job].read
           /\ rows' = {row \in rows : ~(row.level = job /\ row.key = new.key /\ row.monitor = m)} \cup {new}
           /\ late' = late \cup {p \in begun : Selects(p[1], p[2], new)}
           /\ run' = [run EXCEPT ![job] = Ended(Written(run[job]))]
           /\ UNCHANGED <<today, clock, up, looping, window, begun, failed, failures>>
  BY UpsertIs
<1>2. PICK r \in RunSet : r = run[job]
  BY DEF BaseInv, TypesInv
<1>3. /\ WellPlaced(new) /\ IsKey(job, new.key) /\ <<job, new.key>> \in begun /\ new.key = r.key
      /\ \A day \in new.days : Touches(<<job, new.key>>, day)
  BY <1>1, <1>2, UpsertPlaces
<1>4. PICK R, L : /\ R = rows' /\ L = late'
                  /\ R = {row \in rows : ~(row.level = job /\ row.key = new.key /\ row.monitor = m)} \cup {new}
                  /\ L = late \cup {p \in begun : Selects(p[1], p[2], new)}
  BY <1>1
<1>5. \A j \in Jobs, key \in Seq(Int) : <<j, key>> \in begun =>
           \/ <<j, key>> \in L
           \/ \A s : Selects(j, key, s) => (s \in rows <=> s \in R)
  BY <1>1, <1>4, UpsertSelects
<1>6. late \subseteq L /\ \A day : Touched(late, day) => Touched(L, day)
  BY <1>4, TouchedMore
<1>7. \A row \in rows : WellPlaced(row) /\ GoodRow(row, begun, window[1], today) /\ row \in RowSet
  BY RowsAreWellPlaced DEF BaseInv, RowsInv, TypesInv
<1>8. \A row \in R : WellPlaced(row)
  BY <1>3, <1>4, <1>7
<1>9. ReadIsWhole(job, r, rows, late) /\ NothingUnread(job, r, rows, late)
  BY <1>2 DEF LossInv
\* No day is lost.
<1>10. \A row \in rows : \A day \in row.days :
         Touched(L, day) \/ \E s \in R : s.level = row.level /\ s.monitor = row.monitor /\ day \in s.days
  <2> SUFFICES ASSUME NEW row \in rows, NEW day \in row.days, row \notin R
               PROVE  Touched(L, day) \/ \E s \in R : s.level = row.level /\ s.monitor = row.monitor /\ day \in s.days
    OBVIOUS
  <2>1. row.level = job /\ row.key = new.key /\ row.monitor = m
    BY <1>4
  <2>2. day \in r.read \/ Touched(late, day)
    BY <1>1, <1>2, <1>9, <2>1 DEF ReadIsWhole
  <2> QED BY <1>1, <1>2, <1>4, <1>6, <2>1, <2>2
<1>11. \A low, n, day : CountedFrom(rows, low, n, day) => Touched(L, day) \/ CountedFrom(R, low, n, day)
  BY <1>10 DEF CountedFrom, Counts
<1>12. \A t \in R : StandsOn(t, R, L)
  <2>1. ASSUME NEW day \in new.days
        PROVE  \/ Touched(L, day)
               \/ \A s \in R : ~Feeds(s, new.level, new.key, new.monitor)
               \/ \E s \in R : Feeds(s, new.level, new.key, new.monitor) /\ day \in s.days
    <3>1. \/ <<job, r.key>> \in late
          \/ \A s \in rows : ~Feeds(s, job, r.key, m)
          \/ \E s \in rows : Feeds(s, job, r.key, m) /\ day \in s.days
      BY <1>1, <1>2, <1>9, <2>1 DEF ReadIsWhole
    <3>2. <<job, r.key>> \in late => Touched(L, day)
      BY <1>3, <1>6, PeriodTouches
    <3>3. \A s : Feeds(s, job, r.key, m) => (s \in rows <=> s \in R)
      BY <1>1, <1>4, SelectsBelow DEF Feeds
    <3> QED BY <1>1, <1>3, <3>1, <3>2, <3>3
  <2>2. ASSUME NEW t \in rows, t.level > 0, NEW day \in t.days
        PROVE  \/ Touched(L, day)
               \/ \A s \in R : ~Feeds(s, t.level, t.key, t.monitor)
               \/ \E s \in R : Feeds(s, t.level, t.key, t.monitor) /\ day \in s.days
    <3>1. <<t.level, t.key>> \in begun /\ t.level \in Jobs /\ t.key \in Seq(Int) /\ Touches(<<t.level, t.key>>, day)
      BY <2>2, RowPeriods
    <3>2. CASE <<t.level, t.key>> \in L
      BY <3>1, <3>2, PeriodTouches
    <3>3. CASE \A s : Selects(t.level, t.key, s) => (s \in rows <=> s \in R)
      <4>1. StandsOn(t, rows, late)
        BY DEF LossInv
      <4> QED BY <1>6, <2>2, <3>3, <4>1 DEF StandsOn, Feeds
    <3> QED BY <1>5, <3>1, <3>2, <3>3
  <2>3. StandsOn(new, R, L)
    BY <2>1 DEF StandsOn
  <2>4. \A t \in rows : StandsOn(t, R, L)
    BY <2>2 DEF StandsOn
  <2> QED BY <1>4, <2>3, <2>4
<1>13. ASSUME NEW j \in Jobs, j # job
       PROVE  NothingUnread(j, run[j], R, L) /\ ReadIsWhole(j, run[j], R, L)
  <2>1. PICK q \in RunSet : q = run[j]
    BY DEF BaseInv, TypesInv
  <2>2. NothingUnread(j, q, rows, late) /\ ReadIsWhole(j, q, rows, late)
        /\ GoodRun(j, q, begun, failed, window[1], today)
    BY <2>1 DEF LossInv, BaseInv, RunsInv
  <2>3. Working(q) => <<j, q.key>> \in begun /\ IsKey(j, q.key) /\ q.key \in Seq(Int)
    BY <2>2 DEF GoodRun, Working, RunSet
  <2>4. ASSUME Working(q), q.errors = 0, NEW s \in R, Selects(j, q.key, s), NEW day \in s.days
        PROVE  \/ Touched(L, day)
               \/ s.monitor \in q.todo
               \/ s.monitor \in q.monitor /\ day \in q.read
               \/ CountedFrom(R, j, s.monitor, day)
    <3>1. CASE <<j, q.key>> \in L
      BY <1>8, <2>3, <2>4, <3>1, SourcesTouch, PeriodTouches
    <3>2. CASE s \in rows
      <4>1. \/ Touched(late, day)
            \/ s.monitor \in q.todo
            \/ s.monitor \in q.monitor /\ day \in q.read
            \/ CountedFrom(rows, j, s.monitor, day)
        BY <2>2, <2>4, <3>2 DEF NothingUnread, AllRead
      <4> QED BY <1>6, <1>11, <4>1
    <3> QED BY <1>5, <2>3, <2>4, <3>1, <3>2
  <2>5. NothingUnread(j, q, R, L)
    BY <2>4 DEF NothingUnread, AllRead
  <2>6. ASSUME q.pc = "write", NEW n \in q.monitor
        PROVE  /\ \A t \in R : t.level = j /\ t.monitor = n /\ t.key = q.key =>
                    \A day \in t.days : day \in q.read \/ Touched(L, day)
               /\ \/ <<j, q.key>> \in L
                  \/ j = Day /\ \A s \in R : ~Feeds(s, j, q.key, n)
                  \/ \A day \in q.read : \E s \in R : Feeds(s, j, q.key, n) /\ day \in s.days
    <3>1. /\ \A t \in rows : t.level = j /\ t.monitor = n /\ t.key = q.key =>
                    \A day \in t.days : day \in q.read \/ Touched(late, day)
          /\ \/ <<j, q.key>> \in late
             \/ j = Day /\ \A s \in rows : ~Feeds(s, j, q.key, n)
             \/ \A day \in q.read : \E s \in rows : Feeds(s, j, q.key, n) /\ day \in s.days
      BY <2>2, <2>6 DEF ReadIsWhole
    <3>2. \A t \in R : t.level = j => t \in rows
      BY <1>1, <1>4, <1>13
    <3>3. \/ <<j, q.key>> \in L
          \/ \A s : Selects(j, q.key, s) => (s \in rows <=> s \in R)
      BY <1>5, <2>3, <2>6 DEF Working
    <3>4. \A t \in R : t.level = j /\ t.monitor = n /\ t.key = q.key =>
                    \A day \in t.days : day \in q.read \/ Touched(L, day)
      BY <1>6, <3>1, <3>2
    <3>5. \/ <<j, q.key>> \in L
          \/ j = Day /\ \A s \in R : ~Feeds(s, j, q.key, n)
          \/ \A day \in q.read : \E s \in R : Feeds(s, j, q.key, n) /\ day \in s.days
      BY <1>6, <3>1, <3>3 DEF Feeds
    <3> QED BY <3>4, <3>5
  <2>7. ReadIsWhole(j, q, R, L)
    BY <2>6 DEF ReadIsWhole
  <2> QED BY <2>1, <2>5, <2>7
<1>14. NothingUnread(job, Ended(Written(r)), R, L) /\ ReadIsWhole(job, Ended(Written(r)), R, L)
  <2>1. PICK x : x = Written(r)
    OBVIOUS
  <2>2. /\ x \in RunSet /\ x.todo = r.todo /\ x.monitor = {} /\ x.key = r.key /\ x.errors = r.errors
    BY <2>1, WrittenIs
  <2>3. ASSUME r.errors = 0, NEW s \in R, Selects(job, r.key, s), NEW day \in s.days
        PROVE  Touched(L, day) \/ s.monitor \in r.todo \/ CountedFrom(R, job, s.monitor, day)
    <3>1. s \in rows
      BY <1>1, <1>4, <2>3, SelectsBelow
    <3>2. \/ Touched(late, day)
          \/ s.monitor \in r.todo
          \/ s.monitor \in r.monitor /\ day \in r.read
          \/ CountedFrom(rows, job, s.monitor, day)
      BY <1>1, <1>2, <1>9, <2>3, <3>1 DEF NothingUnread, AllRead, Working
    <3>3. s.monitor \in r.monitor /\ day \in r.read => CountedFrom(R, job, s.monitor, day)
      <4>1. new \in R /\ new.level >= job
        BY <1>1, <1>4 DEF Jobs, Day, Year
      <4> QED BY <1>1, <1>2, <4>1 DEF CountedFrom, Counts
    <3> QED BY <1>6, <1>11, <3>2, <3>3
  <2>4. x.errors = 0 => AllRead(job, x, R, L)
    BY <2>2, <2>3 DEF AllRead
  <2> QED BY <2>1, <2>2, <2>4, EndedReads
<1>15. \A j \in Jobs : NothingUnread(j, run'[j], R, L) /\ ReadIsWhole(j, run'[j], R, L)
  <2>1. \A j \in Jobs : run'[j] = IF j = job THEN Ended(Written(r)) ELSE run[j]
    BY <1>1, <1>2 DEF BaseInv, TypesInv
  <2> QED BY <1>13, <1>14, <2>1
<1>16. LossOnlyThroughLateRows'
  <2>1. \A n \in Monitors, day \in Kept :
          (\E row \in R : Counts(row, n, day)) \/ Touched(L, day)
    BY <1>6, <1>10 DEF LossInv, LossOnlyThroughLateRows, Counts
  <2>2. Kept' = Kept
    BY <1>1 DEF Kept
  <2> QED BY <1>4, <2>1, <2>2 DEF LossOnlyThroughLateRows
<1> QED BY <1>4, <1>12, <1>15, <1>16 DEF LossInv

LEMMA DeleteLoss ==
  ASSUME BaseInv, LossInv, NEW job \in Jobs, Delete(job)
  PROVE  LossInv'
<1>1. /\ run[job].pc = "delete" /\ rows' = rows \ Selected(job, run[job].key)
      /\ run' = [run EXCEPT ![job] = IdleRun]
      /\ UNCHANGED <<today, clock, up, looping, window, begun, late, failed, failures>>
  BY DEF Delete
<1>2. PICK r \in RunSet : r = run[job]
  BY DEF BaseInv, TypesInv
<1>3. /\ r.todo = {} /\ r.monitor = {} /\ r.errors = 0 /\ IsKey(job, r.key) /\ AllRead(job, r, rows, late)
  BY <1>1, <1>2 DEF BaseInv, RunsInv, GoodRun, LossInv, NothingUnread, Working
<1>4. PICK R : R = rows' /\ \A s : s \in R <=> s \in rows /\ ~Selects(job, r.key, s)
  BY <1>1, <1>2 DEF Selected
<1>5. \A s \in rows : s \notin R => s.level = job - 1 /\ s.level # job
  BY <1>4, SelectsBelow
<1>6. \A row \in rows : WellPlaced(row) /\ row \in RowSet /\ row.level \in Int
  BY RowsAreWellPlaced DEF BaseInv, RowsInv, TypesInv, RowSet
\* What is deleted is in a row above, or came late.
<1>7. \A row \in rows : \A day \in row.days :
         Touched(late, day) \/ \E s \in R : s.level >= row.level /\ s.monitor = row.monitor /\ day \in s.days
  <2> SUFFICES ASSUME NEW row \in rows, NEW day \in row.days
               PROVE  Touched(late, day) \/ \E s \in R : s.level >= row.level /\ s.monitor = row.monitor /\ day \in s.days
    OBVIOUS
  <2>1. CASE row \in R
    <3>1. row.level >= row.level
      BY <1>6
    <3> QED BY <2>1, <3>1
  <2>2. CASE row \notin R
    <3>1. Selects(job, r.key, row) /\ row.level = job - 1
      BY <1>4, <1>5, <2>2
    <3>2. Touched(late, day) \/ CountedFrom(rows, job, row.monitor, day)
      BY <1>3, <3>1 DEF AllRead
    <3>3. \A s \in rows : s.level >= job => s \in R /\ s.level >= row.level
      BY <1>5, <1>6, <3>1 DEF Jobs, Day, Year
    <3> QED BY <3>2, <3>3 DEF CountedFrom, Counts
  <2> QED BY <2>1, <2>2
<1>8. \A low \in Jobs : \A n, day : CountedFrom(rows, low, n, day) => Touched(late, day) \/ CountedFrom(R, low, n, day)
  <2> SUFFICES ASSUME NEW low \in Jobs, NEW n, NEW day, NEW row \in rows, row.level >= low, Counts(row, n, day)
               PROVE  Touched(late, day) \/ CountedFrom(R, low, n, day)
    BY DEF CountedFrom
  <2>1. CASE Touched(late, day)
    BY <2>1
  <2>2. ASSUME NEW s \in R, s.level >= row.level, s.monitor = row.monitor, day \in s.days
        PROVE  CountedFrom(R, low, n, day)
    <3>1. s.level \in Int /\ row.level \in Int /\ low \in Int
      BY <1>4, <1>6 DEF Jobs, Day, Year
    <3>2. s.level >= low
      BY <2>2, <3>1
    <3> QED BY <2>2, <3>2 DEF CountedFrom, Counts
  <2> QED BY <1>7, <2>1, <2>2 DEF Counts
<1>9. ASSUME NEW t \in R
      PROVE  StandsOn(t, R, late)
  <2>1. StandsOn(t, rows, late) /\ t \in rows
    BY <1>4 DEF LossInv
  <2>2. ASSUME t.level > 0, NEW day \in t.days, NEW s \in rows, Feeds(s, t.level, t.key, t.monitor), day \in s.days
        PROVE  \/ \A o \in R : ~Feeds(o, t.level, t.key, t.monitor)
               \/ \E o \in R : Feeds(o, t.level, t.key, t.monitor) /\ day \in o.days
    <3>1. CASE s \in R
      BY <2>2, <3>1
    <3>2. CASE s \notin R
      <4>1. Selects(job, r.key, s) /\ s.level = job - 1
        BY <1>4, <1>5, <3>2
      <4>2. t.level \in Jobs /\ s.level = t.level - 1 /\ IsKey(t.level, t.key) /\ Touches(<<t.level, t.key>>, day)
        BY <2>1, <2>2, RowPeriods, SelectsBelow DEF Feeds
      <4>3. t.level = job
        BY <4>1, <4>2 DEF Jobs, Day, Year
      <4>4. Touches(<<job, r.key>>, day)
        BY <1>3, <1>6, <2>2, <4>1, SourcesTouch
      <4>5. t.key = r.key
        BY <1>3, <4>2, <4>3, <4>4, OnePeriod
      <4> QED BY <1>4, <4>3, <4>5 DEF Feeds
    <3> QED BY <3>1, <3>2
  <2>3. \A o \in R : o \in rows
    BY <1>4
  <2> QED BY <2>1, <2>2, <2>3 DEF StandsOn
<1>10. ASSUME NEW j \in Jobs, j # job
       PROVE  NothingUnread(j, run[j], R, late) /\ ReadIsWhole(j, run[j], R, late)
  <2>1. PICK q \in RunSet : q = run[j] /\ NothingUnread(j, q, rows, late) /\ ReadIsWhole(j, q, rows, late)
    BY DEF BaseInv, TypesInv, LossInv
  <2>2. \A s \in rows : Selects(j, q.key, s) => s \in R
    <3>1. j - 1 # job - 1
      BY <1>10 DEF Jobs, Day, Year
    <3> QED BY <1>5, <3>1, SelectsBelow
  <2>3. AllRead(j, q, rows, late) => AllRead(j, q, R, late)
    BY <1>4, <1>8 DEF AllRead
  <2>4. NothingUnread(j, q, R, late)
    BY <2>1, <2>3 DEF NothingUnread
  <2>5. \A o \in R : o \in rows
    BY <1>4
  <2>6. ReadIsWhole(j, q, R, late)
    BY <2>1, <2>2, <2>5 DEF ReadIsWhole, Feeds
  <2> QED BY <2>1, <2>4, <2>6
<1>11. \A j \in Jobs : NothingUnread(j, run'[j], R, late) /\ ReadIsWhole(j, run'[j], R, late)
  <2>1. \A j \in Jobs : run'[j] = IF j = job THEN IdleRun ELSE run[j]
    BY <1>1 DEF BaseInv, TypesInv
  <2>2. ~Working(IdleRun)
    BY DEF Working, IdleRun
  <2> QED BY <1>10, <2>1, <2>2, NotWorking
<1>12. LossOnlyThroughLateRows'
  <2>1. \A n \in Monitors, day \in Kept : (\E row \in R : Counts(row, n, day)) \/ Touched(late, day)
    BY <1>7 DEF LossInv, LossOnlyThroughLateRows, Counts
  <2>2. Kept' = Kept
    BY <1>1 DEF Kept
  <2> QED BY <1>1, <1>4, <2>1, <2>2 DEF LossOnlyThroughLateRows
<1> QED BY <1>1, <1>4, <1>9, <1>11, <1>12 DEF LossInv

\* The one raw row of a monitor and a day.
LEMMA OneRawRow ==
  ASSUME BaseInv, NEW old \in rows, old.level = 0, NEW j, NEW key, NEW n, Feeds(old, j, key, n),
         NEW s \in rows, Feeds(s, j, key, n), j \in Jobs
  PROVE  s = old /\ j = Day
<1>1. j - 1 = 0 /\ s.level = 0 /\ j \in Int
  BY SelectsBelow DEF Feeds, Jobs, Day, Year
<1>2. j = Day
  BY <1>1 DEF Day
<1>3. s.key = key /\ old.key = key /\ s.monitor = n /\ old.monitor = n
  BY <1>2, Selecting DEF Feeds
<1> QED BY <1>1, <1>2, <1>3 DEF BaseInv, RowsInv

LEMMA CleanupLoss ==
  ASSUME BaseInv, LossInv, Cleanup
  PROVE  LossInv'
<1>1. PICK old \in rows : old.level = 0 /\ old.key[1] < today - RetentionDays /\ rows' = rows \ {old}
  BY CleanupIs
<1>2. UNCHANGED <<today, clock, run, up, looping, window, begun, late, failed, failures>>
  BY CleanupIs
<1>3. PICK R : R = rows' /\ \A s : s \in R <=> s \in rows /\ s # old
  BY <1>1
<1>4. \A low \in Jobs : \A n, day : CountedFrom(rows, low, n, day) => CountedFrom(R, low, n, day)
  <2>1. \A low \in Jobs : ~(0 >= low)
    BY DEF Jobs, Day, Year
  <2> QED BY <1>1, <1>3, <2>1 DEF CountedFrom
\* The sources of a monitor stay, or there is none any more.
<1>5. \A j \in Jobs : \A key, n :
         \/ j = Day /\ \A s \in R : ~Feeds(s, j, key, n)
         \/ \A s \in rows : Feeds(s, j, key, n) => s \in R
  BY <1>1, <1>3, OneRawRow
<1>6. ASSUME NEW t \in R
      PROVE  StandsOn(t, R, late)
  <2>1. StandsOn(t, rows, late) /\ t \in rows /\ (t.level > 0 => t.level \in Jobs)
    BY <1>3, RowPeriods DEF LossInv
  <2> QED BY <1>3, <1>5, <2>1 DEF StandsOn
<1>7. ASSUME NEW j \in Jobs
      PROVE  NothingUnread(j, run[j], R, late) /\ ReadIsWhole(j, run[j], R, late)
  <2>1. PICK q : q = run[j] /\ NothingUnread(j, q, rows, late) /\ ReadIsWhole(j, q, rows, late)
    BY DEF LossInv
  <2>2. AllRead(j, q, rows, late) => AllRead(j, q, R, late)
    BY <1>3, <1>4 DEF AllRead
  <2>3. NothingUnread(j, q, R, late)
    BY <2>1, <2>2 DEF NothingUnread
  <2>4. \A n : \/ j = Day /\ \A s \in R : ~Feeds(s, j, q.key, n)
               \/ \A s \in rows : Feeds(s, j, q.key, n) => s \in R
    BY <1>5
  <2>5. \A s \in R : s \in rows
    BY <1>3
  <2>6. ReadIsWhole(j, q, R, late)
    BY <2>1, <2>4, <2>5 DEF ReadIsWhole
  <2> QED BY <2>1, <2>3, <2>6
<1>8. LossOnlyThroughLateRows'
  <2>1. \A day \in Kept : day \notin old.days
    <3>1. SUFFICES ASSUME NEW day \in Kept, day \in old.days PROVE FALSE
      OBVIOUS
    <3>2. old.key = <<day>>
      BY <1>1, <3>1 DEF BaseInv, RowsInv, GoodRow, Placed
    <3>3. old \in RowSet /\ day \in Int
      BY <3>1 DEF BaseInv, TypesInv, RowSet
    <3>4. day < today - RetentionDays /\ day >= today - RetentionDays
      BY <1>1, <3>1, <3>2 DEF Kept
    <3>5. today \in Int /\ RetentionDays \in Int
      BY Today, RetentionAssumption DEF BaseInv
    <3> QED BY <3>3, <3>4, <3>5
  <2>2. \A n \in Monitors, day \in Kept : (\E row \in R : Counts(row, n, day)) \/ Touched(late, day)
    BY <1>3, <2>1 DEF LossInv, LossOnlyThroughLateRows, Counts
  <2>3. Kept' = Kept
    BY <1>2 DEF Kept
  <2> QED BY <1>2, <1>3, <2>2, <2>3 DEF LossOnlyThroughLateRows
<1> QED BY <1>2, <1>3, <1>6, <1>7, <1>8 DEF LossInv

LEMMA MidnightLoss ==
  ASSUME BaseInv, LossInv, Midnight
  PROVE  LossInv'
<1>1. /\ \A job \in Jobs : run[job] = IdleRun
      /\ today' = today + 1
      /\ \A row \in rows : row \in rows'
      /\ \A row \in rows' : \/ row \in rows
                            \/ /\ row \in RowSet /\ row.level = 0 /\ row.key = <<today>>
                               /\ row.days = {today} /\ row = Row(0, row.monitor, <<today>>, {today})
      /\ today \in CheckDays => \A m \in Monitors : Row(0, m, <<today>>, {today}) \in rows'
      /\ UNCHANGED <<run, up, looping, window, begun, late, failed, failures>>
  BY MidnightIs
<1>2. PICK R : R = rows'
  OBVIOUS
<1>3. today \in Int /\ RetentionDays \in Nat /\ window[1] \in Int
  BY Today, RetentionAssumption DEF BaseInv
<1>4. ASSUME NEW t \in R
      PROVE  StandsOn(t, R, late)
  <2>1. CASE t \notin rows
    BY <1>1, <1>2, <2>1 DEF StandsOn
  <2>2. ASSUME t \in rows, t.level > 0, NEW s \in R, s \notin rows, Feeds(s, t.level, t.key, t.monitor)
        PROVE  FALSE
    <3>1. s.level = 0 /\ s.key = <<today>>
      BY <1>1, <1>2, <2>2
    <3>2. t.level \in Jobs /\ (\A day \in t.days : Touches(<<t.level, t.key>>, day))
      BY <2>2, RowPeriods
    <3>3. t.level = Day
      <4>1. t.level - 1 = 0 /\ t.level \in Int
        BY <2>2, <3>1, <3>2, SelectsBelow DEF Feeds, Jobs, Day, Year
      <4> QED BY <4>1 DEF Day
    <3>4. t.key = <<today>>
      BY <2>2, <3>1, <3>3, Selecting DEF Feeds
    <3>5. PICK day \in t.days : day \in window[1]..(today - 1)
      BY <2>2 DEF BaseInv, RowsInv, GoodRow
    <3>6. t.key = <<day>>
      BY <3>2, <3>3, <3>5, Touching
    <3>7. day = today /\ day <= today - 1
      BY <1>3, <3>4, <3>5, <3>6
    <3> QED BY <1>3, <3>7
  <2>3. CASE t \in rows
    <3>1. StandsOn(t, rows, late)
      BY <2>3 DEF LossInv
    <3> QED BY <1>1, <1>2, <2>2, <2>3, <3>1 DEF StandsOn
  <2> QED BY <2>1, <2>3
<1>5. \A job \in Jobs : NothingUnread(job, run'[job], R, late) /\ ReadIsWhole(job, run'[job], R, late)
  <2>1. ~Working(IdleRun)
    BY DEF Working, IdleRun
  <2> QED BY <1>1, <2>1, NotWorking
<1>6. LossOnlyThroughLateRows'
  <2>1. \A n \in Monitors, day \in Kept : (\E row \in R : Counts(row, n, day)) \/ Touched(late, day)
    BY <1>1, <1>2 DEF LossInv, LossOnlyThroughLateRows
  <2>2. ASSUME NEW day, day \in Kept'
        PROVE  day \in Kept \/ (day = today /\ today \in CheckDays)
    <3>1. day \in CheckDays /\ window[1] <= day /\ day < today + 1 /\ day >= (today + 1) - RetentionDays
      <4>1. Kept' = {d \in CheckDays : window[1] <= d /\ d < today + 1 /\ d >= (today + 1) - RetentionDays}
        BY <1>1 DEF Kept
      <4> QED BY <2>2, <4>1
    <3>2. day \in Int
      BY CheckDaysAssumption, <3>1
    <3>3. (day < today /\ day >= today - RetentionDays) \/ day = today
      BY <1>3, <3>1, <3>2
    <3> QED BY <3>1, <3>3 DEF Kept
  <2>3. ASSUME NEW n \in Monitors, today \in CheckDays
        PROVE  \E row \in R : Counts(row, n, today)
    <3>1. Row(0, n, <<today>>, {today}) \in R
      BY <1>1, <1>2, <2>3
    <3>2. Counts(Row(0, n, <<today>>, {today}), n, today)
      BY DEF Counts, Row
    <3> QED BY <3>1, <3>2
  <2>4. \A n \in Monitors, day \in Kept' : (\E row \in R : Counts(row, n, day)) \/ Touched(late, day)
    BY <2>1, <2>2, <2>3
  <2> QED BY <1>1, <1>2, <2>4 DEF LossOnlyThroughLateRows
<1> QED BY <1>1, <1>2, <1>4, <1>5, <1>6 DEF LossInv

LEMMA InitLoss ==
  ASSUME Init, BaseInv
  PROVE  LossInv
<1>1. rows = {} /\ \A job \in Jobs : run[job] = IdleRun
  BY DEF Init
<1>2. ~Working(IdleRun)
  BY DEF Working, IdleRun
<1>3. \A job \in Jobs : NothingUnread(job, run[job], rows, late) /\ ReadIsWhole(job, run[job], rows, late)
  BY <1>1, <1>2, NotWorking
<1>4. LossOnlyThroughLateRows
  <2>1. ASSUME NEW day \in Kept
        PROVE  FALSE
    <3>1. day \in Int /\ window[1] <= day /\ day < today
      BY CheckDaysAssumption DEF Kept
    <3>2. today \in Int /\ today = window[1]
      BY Today DEF Init, BaseInv
    <3> QED BY <3>1, <3>2
  <2> QED BY <2>1 DEF LossOnlyThroughLateRows
<1> QED BY <1>1, <1>3, <1>4 DEF LossInv

LEMMA NextLoss ==
  ASSUME BaseInv, LossInv, [Next]_vars
  PROVE  LossInv'
<1>1. CASE Midnight
  BY <1>1, MidnightLoss
<1>2. CASE Crash
  BY <1>2, CrashLoss
<1>3. CASE Restart \/ UNCHANGED vars
  <2>1. UNCHANGED <<rows, late, today, window, run>>
    BY <1>3 DEF Restart, vars
  <2> QED BY <2>1, QuietLoss
<1>4. CASE Cleanup
  BY <1>4, CleanupLoss
<1>5. ASSUME NEW job \in Jobs, Moment(job) \/ FireAgain(job)
      PROVE  LossInv'
  BY <1>5, StartedLoss
<1>6. ASSUME NEW job \in Jobs, List(job)
      PROVE  LossInv'
  BY <1>6, ListLoss
<1>7. ASSUME NEW job \in Jobs, ReadMonitor(job)
      PROVE  LossInv'
  BY <1>7, ReadMonitorLoss
<1>8. ASSUME NEW job \in Jobs, Upsert(job)
      PROVE  LossInv'
  BY <1>8, UpsertLoss
<1>9. ASSUME NEW job \in Jobs, Delete(job)
      PROVE  LossInv'
  BY <1>9, DeleteLoss
<1>10. ASSUME NEW job \in Jobs, QueryFails(job)
      PROVE  LossInv'
  BY <1>10, QueryFailsLoss
<1> QED BY <1>1, <1>2, <1>3, <1>4, <1>5, <1>6, <1>7, <1>8, <1>9, <1>10 DEF Next

\* Failing queries and crashes lose no check: one that no table counts was deleted or
\* overwritten because a row came late (runAggregation lists, reads, upserts, and deletes
\* the period without looking again).
THEOREM ChecksAreNotLost == Spec => []LossOnlyThroughLateRows
<1>1. Init => BaseInv /\ LossInv
  BY InitBase, InitLoss
<1>2. BaseInv /\ LossInv /\ [Next]_vars => BaseInv' /\ LossInv'
  BY NextBase, NextLoss
<1>3. LossInv => LossOnlyThroughLateRows
  BY DEF LossInv
<1> QED BY <1>1, <1>2, <1>3, PTL DEF Spec

-----------------------------------------------------------------------------
(* No check is counted twice for good: what is rolled up while it is still there *)

\* What a run is about to write is counted nowhere else.
NotCounted(job, r, R, X) ==
  r.pc = "write" => \A m \in r.monitor, day \in r.read, c \in R :
    c.level >= job /\ Counts(c, m, day) => Touched(X, day)

\* A run has rolled a row up and has still to delete it.
Moving(s, job, r) == Working(r) /\ Selects(job, r.key, s) /\ s.monitor \notin r.todo \cup r.monitor

CountedOnce(R, runs, X) ==
  \A a, b \in R : \A day \in a.days :
    a.level < b.level /\ Counts(b, a.monitor, day) =>
      Touched(X, day) \/ \E job \in Jobs : Moving(a, job, runs[job])

CountInv ==
  /\ \A job \in Jobs : NotCounted(job, run[job], rows, failed \cup late)
  /\ CountedOnce(rows, run, failed \cup late)

LEMMA MovingTouches ==
  ASSUME BaseInv, NEW job \in Jobs, NEW a \in rows, Moving(a, job, run[job]), NEW day \in a.days
  PROVE  Touches(<<job, run[job].key>>, day)
<1>1. IsKey(job, run[job].key)
  BY DEF BaseInv, RunsInv, GoodRun, Moving, Working
<1>2. WellPlaced(a) /\ Selects(job, run[job].key, a)
  BY RowsAreWellPlaced DEF BaseInv, Moving
<1> QED BY <1>1, <1>2, SourcesTouch

\* Unless it failed, a run that goes on deletes what it has read.
LEMMA EndedMoves ==
  ASSUME NEW job, NEW x \in RunSet, NEW a, Selects(job, x.key, a), a.monitor \notin x.todo, x.monitor = {},
         x.processed # 0
  PROVE  Moving(a, job, Ended(x)) \/ x.errors > 0
<1>1. ASSUME NEW pc \in {"read", "delete"}, Ended(x) = [x EXCEPT !.pc = pc]
      PROVE  Moving(a, job, Ended(x))
  <2>1. PICK e : e = [x EXCEPT !.pc = pc]
    OBVIOUS
  <2>2. e.pc = pc /\ e.key = x.key /\ e.todo = x.todo /\ e.monitor = x.monitor
    BY <2>1 DEF RunSet
  <2> QED BY <1>1, <2>1, <2>2 DEF Moving, Working
<1> QED BY <1>1, EndedIs

LEMMA EndedCounts ==
  \A job : \A x \in RunSet : \A R, X : NotCounted(job, Ended(x), R, X)
<1> SUFFICES ASSUME NEW x \in RunSet PROVE Ended(x).pc # "write"
  BY DEF NotCounted
<1>1. \A pc \in {"read", "delete"} : [x EXCEPT !.pc = pc].pc = pc
  BY DEF RunSet
<1>2. IdleRun.pc = "idle"
  BY DEF IdleRun
<1> QED BY <1>1, <1>2, EndedIs

\* Steps that write nothing.
LEMMA QuietCounts ==
  ASSUME CountInv, rows' \subseteq rows, failed \cup late \subseteq failed' \cup late',
         \A job \in Jobs : \/ run'[job] = run[job]
                           \/ NotCounted(job, run'[job], rows, failed' \cup late'),
         \A a \in rows', job \in Jobs : \A day \in a.days :
           Moving(a, job, run[job]) => Touched(failed' \cup late', day) \/ Moving(a, job, run'[job])
  PROVE  CountInv'
<1>1. \A day : Touched(failed \cup late, day) => Touched(failed' \cup late', day)
  BY TouchedMore
<1>2. \A job \in Jobs : NotCounted(job, run[job], rows, failed' \cup late')
  BY <1>1 DEF CountInv, NotCounted
<1>3. \A job \in Jobs : NotCounted(job, run'[job], rows', failed' \cup late')
  <2>1. \A job \in Jobs : NotCounted(job, run'[job], rows, failed' \cup late')
    BY <1>2
  <2> QED BY <2>1 DEF NotCounted
<1>4. CountedOnce(rows', run', failed' \cup late')
  BY <1>1 DEF CountInv, CountedOnce
<1> QED BY <1>3, <1>4 DEF CountInv

LEMMA IdleCounts ==
  \A job, R, X, r : r.pc # "write" => NotCounted(job, r, R, X)
BY DEF NotCounted

LEMMA StartedCounts ==
  ASSUME BaseInv, CountInv, NEW job \in Jobs, Moment(job) \/ FireAgain(job) \/ List(job)
  PROVE  CountInv'
<1>1. UNCHANGED <<rows, late>> /\ failed \subseteq failed'
  BY DEF Moment, FireAgain, List
<1>2. run' = run \/ (~Working(run[job]) /\ \E r : run' = [run EXCEPT ![job] = r] /\ r.pc # "write")
  <2>1. CASE Moment(job) \/ FireAgain(job)
    <3>1. [IdleRun EXCEPT !.pc = "list", !.key = Due(job)].pc = "list"
      BY DEF IdleRun
    <3> QED BY <2>1, <3>1 DEF Moment, FireAgain, Start, Idle, Working
  <2>2. CASE List(job)
    <3> DEFINE monitors == {row.monitor : row \in Selected(job, run[job].key)}
               opened == [run[job] EXCEPT !.pc = "read", !.todo = monitors]
    <3>1. opened.pc = "read" /\ IdleRun.pc = "idle"
      BY DEF BaseInv, TypesInv, RunSet, IdleRun
    <3>2. run[job].pc = "list" /\ run' = [run EXCEPT ![job] = IF monitors = {} THEN IdleRun ELSE opened]
      BY <2>2 DEF List
    <3> HIDE DEF monitors, opened
    <3> QED BY <3>1, <3>2 DEF Working
  <2> QED BY <2>1, <2>2
<1>3. \A j \in Jobs : \/ run'[j] = run[j]
                      \/ ~Working(run[j]) /\ run'[j].pc # "write"
  BY <1>2 DEF BaseInv, TypesInv
<1>4. \A a \in rows', j \in Jobs : \A day \in a.days :
        Moving(a, j, run[j]) => Touched(failed' \cup late', day) \/ Moving(a, j, run'[j])
  BY <1>3 DEF Moving
<1>5. \A j \in Jobs : run'[j] = run[j] \/ NotCounted(j, run'[j], rows, failed' \cup late')
  BY <1>3, IdleCounts
<1> QED BY <1>1, <1>4, <1>5, QuietCounts

LEMMA CrashCounts ==
  ASSUME BaseInv, CountInv, Crash
  PROVE  CountInv'
<1>1. UNCHANGED <<rows, late>> /\ run' = [job \in Jobs |-> IdleRun]
      /\ failed' = failed \cup {<<job, run[job].key>> : job \in {j \in Jobs : ~Idle(j)}}
  BY DEF Crash
<1>2. \A j \in Jobs : NotCounted(j, run'[j], rows, failed' \cup late')
  BY <1>1 DEF NotCounted, IdleRun
<1>3. ASSUME NEW a \in rows, NEW j \in Jobs, NEW day \in a.days, Moving(a, j, run[j])
      PROVE  Touched(failed' \cup late', day)
  <2>1. <<j, run[j].key>> \in failed' \cup late'
    BY <1>1, <1>3 DEF Moving, Working, Idle
  <2> QED BY <1>3, <2>1, MovingTouches, PeriodTouches
<1>4. failed \cup late \subseteq failed' \cup late'
  BY <1>1
<1> QED BY <1>1, <1>2, <1>3, <1>4, QuietCounts

LEMMA ReadMonitorCounts ==
  ASSUME BaseInv, CountInv, NEW job \in Jobs, ReadMonitor(job)
  PROVE  CountInv'
<1>1. /\ run[job].pc = "read"
      /\ UNCHANGED <<today, clock, rows, up, looping, window, begun, late, failed, failures>>
  BY ReadMonitorIs DEF BaseInv
<1>2. PICK m \in run[job].todo :
        \/ /\ \A row \in rows : ~Feeds(row, job, run[job].key, m)
           /\ run' = [run EXCEPT ![job] = Ended(Skipped(run[job], m))]
        \/ \E days \in SUBSET Int :
             /\ days = UNION {row.days : row \in {s \in rows : Feeds(s, job, run[job].key, m)}}
             /\ \E row \in rows : Feeds(row, job, run[job].key, m)
             /\ run' = [run EXCEPT ![job] = Taken(run[job], m, days)]
  BY ReadMonitorIs DEF BaseInv
<1>3. PICK r \in RunSet : r = run[job]
  BY DEF BaseInv, TypesInv
<1>4. /\ GoodRun(job, r, begun, failed, window[1], today) /\ r.pc = "read"
      /\ m \in Monitors /\ m \in r.todo /\ r.errors \in Nat /\ r.processed \in Nat
  BY <1>1, <1>2, <1>3 DEF BaseInv, RunsInv, RunSet
<1>5. r.monitor = {} /\ (r.errors > 0 => <<job, r.key>> \in failed)
  BY <1>4 DEF GoodRun
<1>6. \E e : /\ run' = [run EXCEPT ![job] = e] /\ NotCounted(job, e, rows, failed \cup late)
             /\ \A a \in rows : Moving(a, job, r) => Moving(a, job, e) \/ r.errors > 0
  <2>1. CASE run' = [run EXCEPT ![job] = Ended(Skipped(run[job], m))]
    <3>1. PICK x : x = Skipped(r, m)
      OBVIOUS
    <3>2. /\ x \in RunSet /\ x.todo = r.todo \ {m} /\ x.monitor = {} /\ x.key = r.key
          /\ x.errors = r.errors /\ x.processed = r.processed + 1
      BY <1>5, <3>1, SkippedIs
    <3>3. x.processed # 0
      BY <1>4, <3>2
    <3>4. \A a \in rows : Moving(a, job, r) => Moving(a, job, Ended(x)) \/ r.errors > 0
      BY <3>2, <3>3, EndedMoves DEF Moving
    <3>5. NotCounted(job, Ended(x), rows, failed \cup late)
      BY <3>2, EndedCounts
    <3> QED BY <1>3, <2>1, <3>1, <3>4, <3>5
  <2>2. CASE \E days \in SUBSET Int :
               /\ days = UNION {row.days : row \in {s \in rows : Feeds(s, job, run[job].key, m)}}
               /\ \E row \in rows : Feeds(row, job, run[job].key, m)
               /\ run' = [run EXCEPT ![job] = Taken(run[job], m, days)]
    <3>1. PICK days \in SUBSET Int :
            /\ days = UNION {row.days : row \in {s \in rows : Feeds(s, job, run[job].key, m)}}
            /\ run' = [run EXCEPT ![job] = Taken(run[job], m, days)]
      BY <2>2
    <3>2. PICK x : x = Taken(r, m, days)
      OBVIOUS
    <3>3. /\ x.pc = "write" /\ x.todo = r.todo \ {m} /\ x.read = days /\ x.monitor = {m} /\ x.key = r.key
      <4>1. days \in SUBSET Int
        BY <3>1
      <4>2. m \in Monitors
        BY <1>4
      <4>3. /\ x \in RunSet /\ x.key = r.key /\ x.pc = "write" /\ x.todo = r.todo \ {m}
            /\ x.monitor = {m} /\ x.read = days
            /\ x.errors = r.errors /\ x.processed = r.processed
        BY <3>2, <4>1, <4>2, TakenIs
      <4> QED BY <4>3
    <3>4. \A a \in rows : Moving(a, job, r) => Moving(a, job, x)
      BY <1>4, <3>3 DEF Moving, Working
    <3>5. ASSUME NEW day \in days, NEW c \in rows, c.level >= job, Counts(c, m, day)
          PROVE  Touched(failed \cup late, day)
      <4>1. PICK s \in rows : Feeds(s, job, r.key, m) /\ day \in s.days
        BY <1>3, <3>1
      <4>2. s.monitor = m /\ Selects(job, r.key, s) /\ s.level = job - 1
        BY <4>1, SelectsBelow DEF Feeds
      <4>3. s.level < c.level
        <5>1. c.level \in Int /\ job \in Int
          BY DEF BaseInv, TypesInv, RowSet, Jobs, Day, Year
        <5> QED BY <3>5, <4>2, <5>1
      <4>4. Touched(failed \cup late, day) \/ \E j \in Jobs : Moving(s, j, run[j])
        BY <3>5, <4>1, <4>2, <4>3 DEF CountInv, CountedOnce
      <4>5. \A j \in Jobs : Moving(s, j, run[j]) => j = job
        <5>1. \A j \in Jobs : Moving(s, j, run[j]) => s.level = j - 1
          BY SelectsBelow DEF Moving
        <5> QED BY <4>2, <5>1 DEF Jobs, Day, Year
      <4>6. ~Moving(s, job, run[job])
        BY <1>3, <1>4, <4>2 DEF Moving
      <4> QED BY <4>4, <4>5, <4>6
    <3>6. NotCounted(job, x, rows, failed \cup late)
      BY <3>3, <3>5 DEF NotCounted
    <3> QED BY <1>3, <3>1, <3>2, <3>4, <3>6
  <2> QED BY <1>2, <2>1, <2>2
<1>7. \A j \in Jobs : run'[j] = run[j] \/ NotCounted(j, run'[j], rows, failed' \cup late')
  BY <1>1, <1>6 DEF BaseInv, TypesInv
<1>8. ASSUME NEW a \in rows, NEW j \in Jobs, NEW day \in a.days, Moving(a, j, run[j])
      PROVE  Touched(failed' \cup late', day) \/ Moving(a, j, run'[j])
  <2>1. CASE j # job
    <3>1. run'[j] = run[j]
      BY <1>6, <2>1 DEF BaseInv, TypesInv
    <3> QED BY <1>8, <3>1
  <2>2. CASE j = job
    <3>1. Moving(a, job, run'[job]) \/ r.errors > 0
      BY <1>3, <1>6, <1>8, <2>2 DEF BaseInv, TypesInv
    <3>2. Touches(<<job, r.key>>, day)
      BY <1>3, <1>8, <2>2, MovingTouches
    <3>3. r.errors > 0 => Touched(failed' \cup late', day)
      BY <1>1, <1>5, <3>2, PeriodTouches
    <3> QED BY <2>2, <3>1, <3>3
  <2> QED BY <2>1, <2>2
<1> QED BY <1>1, <1>7, <1>8, QuietCounts

LEMMA QueryFailsCounts ==
  ASSUME BaseInv, CountInv, NEW job \in Jobs, QueryFails(job)
  PROVE  CountInv'
<1>1. /\ UNCHANGED <<rows, late>> /\ failed' = failed \cup {<<job, run[job].key>>}
      /\ \/ \E m \in run[job].todo : run' = [run EXCEPT ![job] = Ended(Missed(run[job], m))]
         \/ run' = [run EXCEPT ![job] = Ended(Dropped(run[job]))]
         \/ run' = [run EXCEPT ![job] = IdleRun]
  BY QueryFailsIs DEF BaseInv
<1>2. PICK r \in RunSet : r = run[job]
  BY DEF BaseInv, TypesInv
<1>3. /\ NotCounted(job, IdleRun, rows, failed' \cup late')
      /\ NotCounted(job, Ended(Dropped(r)), rows, failed' \cup late')
      /\ \A m : NotCounted(job, Ended(Missed(r, m)), rows, failed' \cup late')
  <2>1. Dropped(r) \in RunSet /\ \A m : Missed(r, m) \in RunSet
    BY DroppedIs, MissedIs
  <2>2. IdleRun.pc # "write"
    BY DEF IdleRun
  <2> QED BY <2>1, <2>2, EndedCounts, IdleCounts
<1>4. \A j \in Jobs : run'[j] = run[j] \/ (j = job /\ NotCounted(j, run'[j], rows, failed' \cup late'))
  BY <1>1, <1>2, <1>3 DEF BaseInv, TypesInv
<1>5. ASSUME NEW a \in rows, NEW j \in Jobs, NEW day \in a.days, Moving(a, j, run[j])
      PROVE  Touched(failed' \cup late', day) \/ Moving(a, j, run'[j])
  <2>1. CASE j # job
    <3>1. run'[j] = run[j]
      BY <1>4, <2>1
    <3> QED BY <1>5, <3>1
  <2>2. CASE j = job
    <3>1. Touches(<<job, run[job].key>>, day)
      BY <1>5, <2>2, MovingTouches
    <3>2. <<job, run[job].key>> \in failed' \cup late'
      BY <1>1
    <3> QED BY <3>1, <3>2, PeriodTouches
  <2> QED BY <2>1, <2>2
<1>6. failed \cup late \subseteq failed' \cup late'
  BY <1>1
<1> QED BY <1>1, <1>4, <1>5, <1>6, QuietCounts

LEMMA DeleteCounts ==
  ASSUME BaseInv, CountInv, NEW job \in Jobs, Delete(job)
  PROVE  CountInv'
<1>1. /\ rows' = rows \ Selected(job, run[job].key) /\ run' = [run EXCEPT ![job] = IdleRun]
      /\ UNCHANGED <<late, failed>>
  BY DEF Delete
<1>2. \A j \in Jobs : run'[j] = IF j = job THEN IdleRun ELSE run[j]
  BY <1>1 DEF BaseInv, TypesInv
<1>3. IdleRun.pc # "write"
  BY DEF IdleRun
<1>4. \A j \in Jobs : run'[j] = run[j] \/ NotCounted(j, run'[j], rows, failed' \cup late')
  BY <1>2, <1>3, IdleCounts
<1>5. \A a \in rows' : ~Moving(a, job, run[job])
  BY <1>1 DEF Moving, Selected
<1>6. \A a \in rows', j \in Jobs : \A day \in a.days :
        Moving(a, j, run[j]) => Touched(failed' \cup late', day) \/ Moving(a, j, run'[j])
  BY <1>2, <1>5
<1> QED BY <1>1, <1>4, <1>6, QuietCounts

LEMMA UpsertCounts ==
  ASSUME BaseInv, LossInv, CountInv, NEW job \in Jobs, Upsert(job)
  PROVE  CountInv'
<1>1. PICK m \in Monitors, new \in RowSet :
           /\ run[job].pc = "write" /\ run[job].monitor = {m}
           /\ new.level = job /\ new.monitor = m /\ new.key = run[job].key /\ new.days = run[job].read
           /\ rows' = {row \in rows : ~(row.level = job /\ row.key = new.key /\ row.monitor = m)} \cup {new}
           /\ late' = late \cup {p \in begun : Selects(p[1], p[2], new)}
           /\ run' = [run EXCEPT ![job] = Ended(Written(run[job]))]
           /\ UNCHANGED <<today, clock, up, looping, window, begun, failed, failures>>
  BY UpsertIs
<1>2. PICK r \in RunSet : r = run[job] /\ r.errors \in Nat /\ r.processed \in Nat
  BY DEF BaseInv, TypesInv, RunSet
<1>3. /\ IsKey(job, r.key) /\ WellPlaced(new) /\ (\A day \in r.read : Touches(<<job, r.key>>, day))
      /\ r.errors > 0 => <<job, r.key>> \in failed
  BY <1>1, <1>2, UpsertPlaces DEF BaseInv, RunsInv, GoodRun
<1>4. PICK R, X : /\ R = rows' /\ X = failed' \cup late'
                  /\ \A a \in R : a \in rows \/ a = new
                  /\ failed \cup late \subseteq X
  <2>1. (\A a \in rows' : a \in rows \/ a = new) /\ failed \cup late \subseteq failed' \cup late'
    BY <1>1
  <2> QED BY <2>1
<1>5. \A day : Touched(failed \cup late, day) => Touched(X, day)
  BY <1>4, TouchedMore
<1>6. ReadIsWhole(job, r, rows, late) /\ NotCounted(job, r, rows, failed \cup late)
  BY <1>2 DEF LossInv, CountInv
<1>7. \A row \in rows : WellPlaced(row) /\ row \in RowSet /\ row.level \in Int
  BY RowsAreWellPlaced DEF BaseInv, TypesInv, RowSet
<1>8. job \in Int /\ Jobs \subseteq Int
  BY DEF Jobs, Day, Year
\* What was read is in the sources still, or the period has a late row.
<1>9. \A day \in r.read :
        \/ Touched(X, day)
        \/ job = Day /\ \A s \in rows : ~Feeds(s, job, r.key, m)
        \/ \E s \in rows : Feeds(s, job, r.key, m) /\ day \in s.days
  <2>1. <<job, r.key>> \in late => <<job, r.key>> \in X
    BY <1>4
  <2> QED BY <1>1, <1>2, <1>3, <1>6, <2>1, PeriodTouches DEF ReadIsWhole
<1>10. PICK x : x = Written(r)
  OBVIOUS
<1>11. /\ x \in RunSet /\ x.todo = r.todo /\ x.monitor = {} /\ x.key = r.key
       /\ x.errors = r.errors /\ x.processed = r.processed + 1 /\ x.processed # 0
  <2>1. /\ x \in RunSet /\ x.todo = r.todo /\ x.monitor = {} /\ x.key = r.key
        /\ x.errors = r.errors /\ x.processed = r.processed + 1
    BY <1>10, WrittenIs
  <2> QED BY <1>2, <2>1
<1>12. \A j \in Jobs : run'[j] = IF j = job THEN Ended(x) ELSE run[j]
  BY <1>1, <1>2, <1>10 DEF BaseInv, TypesInv
\* The run has moved the rows it read.
<1>13. \A a \in rows : \A day \in a.days :
         Selects(job, r.key, a) /\ a.monitor \notin r.todo => Touched(X, day) \/ Moving(a, job, Ended(x))
  <2> SUFFICES ASSUME NEW a \in rows, NEW day \in a.days, Selects(job, r.key, a), a.monitor \notin r.todo,
                      ~Moving(a, job, Ended(x))
               PROVE  Touched(X, day)
    OBVIOUS
  <2>1. x.errors > 0
    BY <1>11, EndedMoves
  <2>2. <<job, r.key>> \in X
    BY <1>3, <1>4, <1>11, <2>1
  <2>3. Touches(<<job, r.key>>, day)
    BY <1>3, <1>7, SourcesTouch
  <2> QED BY <2>2, <2>3, PeriodTouches
<1>14. ASSUME NEW j \in Jobs
       PROVE  NotCounted(j, run'[j], R, X)
  <2>1. CASE j = job
    BY <1>11, <1>12, <2>1, EndedCounts
  <2>2. CASE j # job
    <3>1. PICK q : q = run[j] /\ NotCounted(j, q, rows, failed \cup late) /\ run'[j] = q
      BY <1>12, <2>2 DEF CountInv
    <3>2. ASSUME q.pc = "write", NEW n \in q.monitor, NEW day \in q.read, NEW c \in R, c.level >= j, Counts(c, n, day)
          PROVE  Touched(X, day)
      <4>1. CASE c \in rows
        BY <1>5, <3>1, <3>2, <4>1 DEF NotCounted
      <4>2. CASE c = new
        <5>1. n = m /\ day \in r.read /\ job > j /\ job # Day
          <6>1. n = m /\ day \in r.read
            BY <1>1, <1>2, <3>2, <4>2 DEF Counts
          <6>2. j \in Int /\ job \in Int /\ j >= 1 /\ job >= j
            BY <1>1, <1>8, <3>2, <4>2 DEF Jobs, Day, Year
          <6> QED BY <2>2, <6>1, <6>2 DEF Day
        <5>2. ASSUME NEW s \in rows, Feeds(s, job, r.key, m), day \in s.days
              PROVE  Touched(failed \cup late, day)
          <6>1. s.monitor = n /\ s.level = job - 1
            BY <5>1, <5>2, SelectsBelow DEF Feeds
          <6>2. s.level >= j
            BY <1>8, <5>1, <6>1
          <6> QED BY <3>1, <3>2, <5>2, <6>1, <6>2 DEF NotCounted, Counts
        <5> QED BY <1>5, <1>9, <5>1, <5>2
      <4> QED BY <1>4, <3>2, <4>1, <4>2
    <3> QED BY <3>1, <3>2 DEF NotCounted
  <2> QED BY <2>1, <2>2
<1>15. ASSUME NEW a \in R, NEW b \in R, NEW day \in a.days, a.level < b.level, Counts(b, a.monitor, day)
       PROVE  Touched(X, day) \/ \E j \in Jobs : Moving(a, j, run'[j])
  <2>1. ASSUME a \in rows, NEW c \in rows, a.level < c.level, Counts(c, a.monitor, day)
        PROVE  Touched(X, day) \/ \E j \in Jobs : Moving(a, j, run'[j])
    <3>1. Touched(X, day) \/ \E j \in Jobs : Moving(a, j, run[j])
      BY <1>5, <2>1 DEF CountInv, CountedOnce
    <3>2. ASSUME NEW j \in Jobs, Moving(a, j, run[j])
          PROVE  Touched(X, day) \/ Moving(a, j, run'[j])
      <4>1. CASE j # job
        BY <1>12, <3>2, <4>1
      <4>2. CASE j = job
        <5>1. Selects(job, r.key, a) /\ a.monitor \notin r.todo
          BY <1>2, <3>2, <4>2 DEF Moving
        <5>2. Touched(X, day) \/ Moving(a, job, Ended(x))
          BY <1>13, <2>1, <5>1
        <5> QED BY <1>12, <4>2, <5>2
      <4> QED BY <4>1, <4>2
    <3> QED BY <3>1, <3>2
  <2>2. CASE a = new /\ b \in rows
    <3>1. b.level >= job /\ Counts(b, m, day) /\ day \in r.read
      BY <1>1, <1>2, <1>7, <1>8, <1>15, <2>2
    <3>2. Touched(failed \cup late, day)
      BY <1>1, <1>2, <1>6, <2>2, <3>1 DEF NotCounted
    <3> QED BY <1>5, <3>2
  <2>3. CASE a \in rows /\ b = new
    <3>1. a.monitor = m /\ day \in r.read /\ a.level < job
      BY <1>1, <1>2, <1>15, <2>3 DEF Counts
    <3>2. CASE job = Day /\ \A s \in rows : ~Feeds(s, job, r.key, m)
      <4>1. a.level = 0
        <5>1. a.level \in 0..Year
          BY <1>7, <2>3 DEF RowSet
        <5> QED BY <3>1, <3>2, <5>1 DEF Day, Year
      <4>2. a.key = <<day>> /\ r.key = <<day>>
        <5>1. a.key = <<day>>
          BY <1>7, <2>3, <4>1 DEF WellPlaced, Placed
        <5>2. r.key = <<day>>
          BY <1>3, <3>1, <3>2, Touching
        <5> QED BY <5>1, <5>2
      <4>3. Feeds(a, job, r.key, m)
        BY <3>1, <3>2, <4>1, <4>2, Selecting DEF Feeds
      <4> QED BY <2>3, <3>2, <4>3
    <3>3. ASSUME NEW s \in rows, Feeds(s, job, r.key, m), day \in s.days
          PROVE  Touched(X, day) \/ \E j \in Jobs : Moving(a, j, run'[j])
      <4>1. s.level = job - 1 /\ s.monitor = m /\ Selects(job, r.key, s)
        BY <3>3, SelectsBelow DEF Feeds
      <4>2. CASE a.level = s.level
        <5>1. a.key = s.key
          <6>1. a.level \in 0..Year
            BY <1>7, <2>3 DEF RowSet
          <6> QED BY <1>7, <2>3, <3>3, <4>2, <6>1, OneKey
        <5>2. a = s
          BY <2>3, <3>1, <4>1, <4>2, <5>1 DEF BaseInv, RowsInv
        <5>3. a.monitor \notin r.todo
          <6>1. m \notin r.todo
            <7>1. GoodRun(job, r, begun, failed, window[1], today) /\ r.pc = "write" /\ r.monitor = {m}
              BY <1>1, <1>2 DEF BaseInv, RunsInv
            <7>2. PICK n \in Monitors : r.monitor = {n} /\ n \notin r.todo
              BY <7>1 DEF GoodRun
            <7> QED BY <7>1, <7>2
          <6> QED BY <3>1, <6>1
        <5>4. Touched(X, day) \/ Moving(a, job, Ended(x))
          BY <1>13, <2>3, <4>1, <5>2, <5>3
        <5> QED BY <1>12, <5>4
      <4>3. CASE a.level # s.level
        <5>1. a.level < s.level
          BY <1>7, <1>8, <2>3, <3>1, <4>1, <4>3
        <5>2. Counts(s, a.monitor, day)
          BY <3>1, <3>3, <4>1 DEF Counts
        <5> QED BY <2>1, <2>3, <5>1, <5>2
      <4> QED BY <4>2, <4>3
    <3> QED BY <1>9, <3>1, <3>2, <3>3
  <2>4. ~(a = new /\ b = new)
    BY <1>1, <1>8, <1>15
  <2> QED BY <1>4, <1>15, <2>1, <2>2, <2>3, <2>4
<1>16. CountedOnce(R, run', X)
  BY <1>15 DEF CountedOnce
<1> QED BY <1>4, <1>14, <1>16 DEF CountInv

LEMMA MidnightCounts ==
  ASSUME BaseInv, CountInv, Midnight
  PROVE  CountInv'
<1>1. /\ \A job \in Jobs : run[job] = IdleRun
      /\ \A row \in rows' : \/ row \in rows
                            \/ /\ row \in RowSet /\ row.level = 0 /\ row.key = <<today>>
                               /\ row.days = {today} /\ row = Row(0, row.monitor, <<today>>, {today})
      /\ UNCHANGED <<run, up, looping, window, begun, late, failed, failures>>
  BY MidnightIs
<1>2. PICK R : R = rows'
  OBVIOUS
<1>3. IdleRun.pc # "write" /\ ~Working(IdleRun)
  BY DEF IdleRun, Working
<1>4. \A job \in Jobs : NotCounted(job, run'[job], R, failed \cup late) /\ (\A a : ~Moving(a, job, run[job]))
  BY <1>1, <1>3, IdleCounts DEF Moving
<1>5. \A row \in R : row.level \in Int /\ row.level >= 0
  BY <1>1, <1>2 DEF BaseInv, TypesInv, RowSet, Year
<1>6. ASSUME NEW a \in R, NEW b \in R, NEW day \in a.days, a.level < b.level, Counts(b, a.monitor, day)
      PROVE  Touched(failed \cup late, day)
  <2>1. b \in rows
    BY <1>1, <1>2, <1>5, <1>6
  <2>2. CASE a \in rows
    BY <1>4, <1>6, <2>1, <2>2 DEF CountInv, CountedOnce
  <2>3. CASE a \notin rows
    <3>1. day = today
      BY <1>1, <1>2, <1>6, <2>3
    <3>2. day \in window[1]..(today - 1)
      BY <1>6, <2>1 DEF Counts, BaseInv, RowsInv, GoodRow
    <3>3. today \in Int /\ window[1] \in Int
      BY Today DEF BaseInv
    <3> QED BY <3>1, <3>2, <3>3
  <2> QED BY <2>2, <2>3
<1>7. CountedOnce(R, run', failed \cup late)
  BY <1>6 DEF CountedOnce
<1> QED BY <1>1, <1>2, <1>4, <1>7 DEF CountInv

LEMMA NextCounts ==
  ASSUME BaseInv, LossInv, CountInv, [Next]_vars
  PROVE  CountInv'
<1>1. CASE Midnight
  BY <1>1, MidnightCounts
<1>2. CASE Crash
  BY <1>2, CrashCounts
<1>3. CASE Restart \/ Cleanup \/ UNCHANGED vars
  <2>1. rows' \subseteq rows /\ UNCHANGED <<late, failed, run>>
    BY <1>3 DEF Restart, Cleanup, vars
  <2> QED BY <2>1, QuietCounts
<1>4. ASSUME NEW job \in Jobs, Moment(job) \/ FireAgain(job) \/ List(job)
      PROVE  CountInv'
  BY <1>4, StartedCounts
<1>5. ASSUME NEW job \in Jobs, ReadMonitor(job)
      PROVE  CountInv'
  BY <1>5, ReadMonitorCounts
<1>6. ASSUME NEW job \in Jobs, Upsert(job)
      PROVE  CountInv'
  BY <1>6, UpsertCounts
<1>7. ASSUME NEW job \in Jobs, Delete(job)
      PROVE  CountInv'
  BY <1>7, DeleteCounts
<1>8. ASSUME NEW job \in Jobs, QueryFails(job)
      PROVE  CountInv'
  BY <1>8, QueryFailsCounts
<1> QED BY <1>1, <1>2, <1>3, <1>4, <1>5, <1>6, <1>7, <1>8 DEF Next

\* A check counts in two tables only while a run is moving it, or after one was cut
\* short, failed, or met a late row (the upsert and the deleteMany of runAggregation
\* are two statements, and no transaction holds them together).
THEOREM ChecksCountOnce == Spec => []CountedOnceUnlessFailed
<1>1. Init => BaseInv /\ LossInv /\ CountInv
  <2>1. Init => CountInv
    BY DEF Init, CountInv, NotCounted, CountedOnce, IdleRun
  <2> QED BY <2>1, InitBase, InitLoss
<1>2. BaseInv /\ LossInv /\ CountInv /\ [Next]_vars => BaseInv' /\ LossInv' /\ CountInv'
  BY NextBase, NextLoss, NextCounts
<1>3. BaseInv /\ CountInv => CountedOnceUnlessFailed
  <2> SUFFICES ASSUME BaseInv, CountInv, NEW r1 \in rows, NEW r2 \in rows, NEW day \in r1.days,
                      r1 # r2, Counts(r2, r1.monitor, day)
               PROVE  Touched(failed \cup late \cup Running, day)
    BY DEF CountedOnceUnlessFailed
  <2>1. ASSUME NEW a \in rows, NEW b \in rows, day \in a.days, a.level < b.level, Counts(b, a.monitor, day)
        PROVE  Touched(failed \cup late \cup Running, day)
    <3>1. CASE Touched(failed \cup late, day)
      <4>1. failed \cup late \subseteq failed \cup late \cup Running
        OBVIOUS
      <4> QED BY <3>1, <4>1, TouchedMore
    <3>2. ASSUME NEW job \in Jobs, Moving(a, job, run[job])
          PROVE  Touched(failed \cup late \cup Running, day)
      <4>1. <<job, run[job].key>> \in failed \cup late \cup Running
        BY <3>2 DEF Running, Idle, Moving, Working
      <4>2. Touches(<<job, run[job].key>>, day)
        BY <2>1, <3>2, MovingTouches
      <4> QED BY <4>1, <4>2, PeriodTouches
    <3> QED BY <2>1, <3>1, <3>2 DEF CountInv, CountedOnce
  <2>2. \A row \in rows : WellPlaced(row) /\ row.level \in 0..Year /\ row.level \in Int
    BY RowsAreWellPlaced DEF BaseInv, TypesInv, RowSet
  <2>3. r1.level # r2.level
    <3>1. SUFFICES ASSUME r1.level = r2.level PROVE FALSE
      OBVIOUS
    <3>2. r1.key = r2.key
      BY <2>2, <3>1, OneKey DEF Counts
    <3> QED BY <3>1, <3>2 DEF BaseInv, RowsInv, Counts
  <2>4. CASE r1.level < r2.level
    BY <2>1, <2>4
  <2>5. CASE r2.level < r1.level
    BY <2>1, <2>5 DEF Counts
  <2> QED BY <2>2, <2>3, <2>4, <2>5
<1> QED BY <1>1, <1>2, <1>3, PTL DEF Spec

-----------------------------------------------------------------------------
(* No row is left behind without a cause: the moments that passed and what they left *)

\* The rows of a period that was listed are gone, unless a run is at it.
AllMoved ==
  \A p \in begun : p \notin late \cup failed \cup Running => \A row \in rows : ~Selects(p[1], p[2], row)

\* The moments that passed were kept, or missed.
MomentsKept ==
  \A job \in Jobs, t \in window[1]..today :
    ScheduledOn(job, t) /\ (t < today \/ clock >= job) =>
      <<job, DueOn(job, t)>> \in begun \cup failed \cup Running

LeftInv == AllMoved /\ MomentsKept

LEMMA RunningStays ==
  ASSUME NEW job \in Jobs, \A j \in Jobs : j # job => run'[j] = run[j]
  PROVE  /\ Running \subseteq Running' \cup {<<job, run[job].key>>}
         /\ Idle(job) => Running \subseteq Running'
         /\ run'[job].pc # "idle" => <<job, run'[job].key>> \in Running'
BY DEF Running, Idle

LEMMA EndedRuns ==
  ASSUME NEW x \in RunSet, x.processed # 0
  PROVE  (Ended(x).pc # "idle" /\ Ended(x).key = x.key) \/ x.errors > 0
<1>1. \A pc \in {"read", "delete"} : [x EXCEPT !.pc = pc].pc = pc /\ [x EXCEPT !.pc = pc].key = x.key
  BY DEF RunSet
<1> QED BY <1>1, EndedIs

\* Steps that write nothing and pass no moment.
LEMMA QuietLeft ==
  ASSUME LeftInv, UNCHANGED <<today, clock, window>>, rows' \subseteq rows,
         begun \subseteq begun', late \subseteq late', failed \subseteq failed',
         \A p \in begun' : p \in begun \/ p \in Running' \/ \A row \in rows' : ~Selects(p[1], p[2], row),
         \A p \in Running :
           \/ p \in failed' \cup Running'
           \/ p \in begun' /\ \A row \in rows' : ~Selects(p[1], p[2], row)
  PROVE  LeftInv'
<1>1. AllMoved'
  <2>1. SUFFICES ASSUME NEW p \in begun', p \notin late' \cup failed' \cup Running', NEW row \in rows'
                 PROVE  ~Selects(p[1], p[2], row)
    BY DEF AllMoved
  <2>2. CASE p \in Running
    BY <2>1, <2>2
  <2>3. CASE p \in begun /\ p \notin Running
    BY <2>1, <2>3 DEF LeftInv, AllMoved
  <2>4. CASE p \notin begun
    BY <2>1, <2>4
  <2> QED BY <2>2, <2>3, <2>4
<1>2. MomentsKept'
  <2>1. begun \cup failed \cup Running \subseteq begun' \cup failed' \cup Running'
    OBVIOUS
  <2> QED BY <2>1 DEF LeftInv, MomentsKept
<1> QED BY <1>1, <1>2 DEF LeftInv

LEMMA MomentLeft ==
  ASSUME BaseInv, LeftInv, NEW job \in Jobs, Moment(job)
  PROVE  LeftInv'
<1>1. /\ UNCHANGED <<today, window, rows, late>> /\ clock' = job
      /\ run' = run \/ (Idle(job) /\ run' = [run EXCEPT ![job] = [IdleRun EXCEPT !.pc = "list", !.key = Due(job)]])
      /\ failed \subseteq failed' /\ begun \subseteq begun'
  BY DEF Moment, Start
<1>2. Running \subseteq Running'
  <2>1. \A j \in Jobs : j # job => run'[j] = run[j]
    BY <1>1 DEF BaseInv, TypesInv
  <2> QED BY <1>1, <2>1, RunningStays DEF Running, Idle
<1>3. ASSUME NEW p \in begun', p \notin begun
      PROVE  p = <<job, Due(job)>> /\ \A row \in rows : ~Selects(job, Due(job), row)
  <2>1. p = <<job, Due(job)>> /\ job \in looping /\ Idle(job) /\ Caught(job)
    BY <1>3 DEF Moment
  <2>2. up
    BY <2>1 DEF BaseInv, TypesInv
  <2>3. Selected(job, Due(job)) = {}
    BY <2>1, <2>2 DEF Caught
  <2> QED BY <2>1, <2>3 DEF Selected
<1>4. AllMoved'
  <2>1. SUFFICES ASSUME NEW p \in begun', p \notin late' \cup failed' \cup Running', NEW row \in rows'
                 PROVE  ~Selects(p[1], p[2], row)
    BY DEF AllMoved
  <2>2. CASE p \in begun
    BY <1>1, <1>2, <2>1, <2>2 DEF LeftInv, AllMoved
  <2>3. CASE p \notin begun
    <3>1. p = <<job, Due(job)>> /\ row \in rows /\ \A o \in rows : ~Selects(job, Due(job), o)
      BY <1>1, <1>3, <2>1, <2>3
    <3>2. p[1] = job /\ p[2] = Due(job)
      BY <3>1
    <3> QED BY <3>1, <3>2
  <2> QED BY <2>2, <2>3
\* This moment is kept: by a run, by the looping runs, or it is missed.
<1>5. <<job, Due(job)>> \in begun' \cup failed' \cup Running'
  <2>1. CASE job \notin looping /\ up /\ Idle(job)
    <3>1. run'[job] = [IdleRun EXCEPT !.pc = "list", !.key = Due(job)]
      BY <2>1 DEF Moment, Start, BaseInv, TypesInv
    <3>2. run'[job].pc # "idle" /\ run'[job].key = Due(job)
      BY <3>1 DEF IdleRun
    <3> QED BY <3>2 DEF Running, Idle
  <2>2. CASE job \notin looping /\ ~(up /\ Idle(job))
    BY <2>2 DEF Moment
  <2>3. CASE job \in looping /\ Idle(job)
    BY <2>3 DEF Moment
  <2>4. CASE job \in looping /\ ~Idle(job)
    <3>1. run[job].key = DueOn(job, today)
      BY <2>4 DEF Idle, BaseInv, RunsInv, GoodRun
    <3>2. <<job, Due(job)>> \in Running
      BY <2>4, <3>1, DueToday DEF Running
    <3> QED BY <1>2, <3>2
  <2> QED BY <2>1, <2>2, <2>3, <2>4
<1>6. MomentsKept'
  <2>1. SUFFICES ASSUME NEW j \in Jobs, NEW t \in window[1]..today, ScheduledOn(j, t), t < today \/ job >= j
                 PROVE  <<j, DueOn(j, t)>> \in begun' \cup failed' \cup Running'
    BY <1>1 DEF MomentsKept
  <2>2. CASE t < today \/ clock >= j
    BY <1>1, <1>2, <2>1, <2>2 DEF LeftInv, MomentsKept
  <2>3. CASE t = today /\ j > clock /\ job >= j
    <3>1. j \in (clock + 1)..job /\ OnSchedule(j)
      <4>1. clock \in Int /\ j \in Int /\ job \in Int
        BY DEF BaseInv, TypesInv, Jobs, Day, Year
      <4> QED BY <2>1, <2>3, <4>1, DueToday
    <3>2. j = job
      BY <3>1 DEF Moment, ToCome
    <3> QED BY <1>5, <2>3, <3>2, DueToday
  <2>4. t \in Int /\ today \in Int /\ t <= today /\ clock \in Int /\ j \in Int
    <3>1. PICK a \in Int, b \in Int : a = window[1] /\ b = today
      BY Today DEF BaseInv
    <3>2. t \in a..b
      BY <2>1, <3>1
    <3>3. t \in Int /\ t <= b
      BY <3>1, <3>2
    <3> QED BY <3>1, <3>3 DEF BaseInv, TypesInv, Jobs, Day, Year
  <2> QED BY <2>1, <2>2, <2>3, <2>4
<1> QED BY <1>4, <1>6 DEF LeftInv

LEMMA FireAgainLeft ==
  ASSUME BaseInv, LeftInv, NEW job \in Jobs, FireAgain(job)
  PROVE  LeftInv'
<1>1. /\ UNCHANGED <<today, clock, window, rows, begun, late, failed>> /\ Idle(job)
      /\ run' = [run EXCEPT ![job] = [IdleRun EXCEPT !.pc = "list", !.key = Due(job)]]
  BY DEF FireAgain, Start
<1>2. Running \subseteq Running'
  <2>1. \A j \in Jobs : j # job => run'[j] = run[j]
    BY <1>1 DEF BaseInv, TypesInv
  <2> QED BY <1>1, <2>1, RunningStays
<1> QED BY <1>1, <1>2, QuietLeft

LEMMA CrashLeft ==
  ASSUME BaseInv, LeftInv, Crash
  PROVE  LeftInv'
<1>1. /\ UNCHANGED <<today, clock, window, rows, begun, late>> /\ failed \subseteq failed'
      /\ Running \subseteq failed'
  BY DEF Crash, Running
<1> QED BY <1>1, QuietLeft

LEMMA ListLeft ==
  ASSUME BaseInv, LeftInv, NEW job \in Jobs, List(job)
  PROVE  LeftInv'
<1> DEFINE monitors == {row.monitor : row \in Selected(job, run[job].key)}
           opened == [run[job] EXCEPT !.pc = "read", !.todo = monitors]
           period == <<job, run[job].key>>
<1>1. /\ UNCHANGED <<today, clock, window, rows, late, failed>>
      /\ run' = [run EXCEPT ![job] = IF monitors = {} THEN IdleRun ELSE opened]
      /\ begun' = begun \cup {period}
  BY DEF List
<1>2. opened.pc = "read" /\ opened.key = run[job].key
  BY DEF BaseInv, TypesInv, RunSet
<1>3. monitors = {} => \A row \in rows : ~Selects(period[1], period[2], row)
  BY DEF Selected
<1> HIDE DEF monitors, opened
<1>4. run'[job] = (IF monitors = {} THEN IdleRun ELSE opened) /\ \A j \in Jobs : j # job => run'[j] = run[j]
  BY <1>1 DEF BaseInv, TypesInv
<1>5. monitors # {} => period \in Running'
  BY <1>2, <1>4, RunningStays
<1>6. Running \subseteq Running' \cup {period}
  BY <1>4, RunningStays
<1>7. \A p \in begun' : p \in begun \/ p \in Running' \/ \A row \in rows' : ~Selects(p[1], p[2], row)
  BY <1>1, <1>3, <1>5
<1>8. \A p \in Running :
        \/ p \in failed' \cup Running'
        \/ p \in begun' /\ \A row \in rows' : ~Selects(p[1], p[2], row)
  BY <1>1, <1>3, <1>5, <1>6
<1>9. begun \subseteq begun'
  BY <1>1
<1> QED BY <1>1, <1>7, <1>8, <1>9, QuietLeft

LEMMA ReadMonitorLeft ==
  ASSUME BaseInv, LeftInv, NEW job \in Jobs, ReadMonitor(job)
  PROVE  LeftInv'
<1>1. UNCHANGED <<today, clock, rows, up, looping, window, begun, late, failed, failures>>
  BY ReadMonitorIs DEF BaseInv
<1>2. PICK r \in RunSet : r = run[job]
  BY DEF BaseInv, TypesInv
<1>3. PICK m \in r.todo : \/ run' = [run EXCEPT ![job] = Ended(Skipped(r, m))]
                          \/ \E days \in SUBSET Int : run' = [run EXCEPT ![job] = Taken(r, m, days)]
  BY <1>2, ReadMonitorIs DEF BaseInv
<1>4. m \in Monitors /\ r.processed \in Nat /\ (r.errors > 0 => <<job, r.key>> \in failed)
  BY <1>2, <1>3 DEF BaseInv, RunsInv, GoodRun, RunSet
<1>5. \E e : /\ run' = [run EXCEPT ![job] = e]
             /\ ((e.pc # "idle" /\ e.key = r.key) \/ <<job, r.key>> \in failed)
  <2>1. CASE run' = [run EXCEPT ![job] = Ended(Skipped(r, m))]
    <3>1. PICK x : x = Skipped(r, m)
      OBVIOUS
    <3>2. x \in RunSet /\ x.key = r.key /\ x.errors = r.errors /\ x.processed = r.processed + 1
      BY <3>1, SkippedIs
    <3>3. x.processed # 0
      BY <1>4, <3>2
    <3>4. (Ended(x).pc # "idle" /\ Ended(x).key = r.key) \/ <<job, r.key>> \in failed
      BY <1>4, <3>2, <3>3, EndedRuns
    <3> QED BY <2>1, <3>1, <3>4
  <2>2. CASE \E days \in SUBSET Int : run' = [run EXCEPT ![job] = Taken(r, m, days)]
    <3>1. PICK days \in SUBSET Int : run' = [run EXCEPT ![job] = Taken(r, m, days)]
      BY <2>2
    <3>2. Taken(r, m, days).pc = "write" /\ Taken(r, m, days).key = r.key
      BY DEF Taken, RunSet
    <3> QED BY <3>1, <3>2
  <2> QED BY <1>3, <2>1, <2>2
<1>6. Running \subseteq failed' \cup Running'
  <2>1. PICK e : /\ run'[job] = e /\ ((e.pc # "idle" /\ e.key = r.key) \/ <<job, r.key>> \in failed)
                 /\ \A j \in Jobs : j # job => run'[j] = run[j]
    BY <1>5 DEF BaseInv, TypesInv
  <2> QED BY <1>1, <1>2, <2>1, RunningStays
<1> QED BY <1>1, <1>6, QuietLeft

LEMMA DeleteLeft ==
  ASSUME BaseInv, LeftInv, NEW job \in Jobs, Delete(job)
  PROVE  LeftInv'
<1> DEFINE period == <<job, run[job].key>>
<1>1. /\ UNCHANGED <<today, clock, window, begun, late, failed>> /\ run[job].pc = "delete"
      /\ rows' = rows \ Selected(job, run[job].key)
      /\ run' = [run EXCEPT ![job] = IdleRun]
  BY DEF Delete
<1>2. period \in begun
  BY <1>1 DEF BaseInv, RunsInv, GoodRun, Working
<1>3. rows' \subseteq rows /\ \A row \in rows' : ~Selects(period[1], period[2], row)
  BY <1>1 DEF Selected
<1>4. Running \subseteq Running' \cup {period}
  <2>1. \A j \in Jobs : j # job => run'[j] = run[j]
    BY <1>1 DEF BaseInv, TypesInv
  <2> QED BY <2>1, RunningStays
<1>5. \A p \in Running :
        \/ p \in failed' \cup Running'
        \/ p \in begun' /\ \A row \in rows' : ~Selects(p[1], p[2], row)
  BY <1>1, <1>2, <1>3, <1>4
<1> QED BY <1>1, <1>3, <1>5, QuietLeft

LEMMA QueryFailsLeft ==
  ASSUME BaseInv, LeftInv, NEW job \in Jobs, QueryFails(job)
  PROVE  LeftInv'
<1>1. /\ UNCHANGED <<today, clock, window, rows, begun, late>>
      /\ failed' = failed \cup {<<job, run[job].key>>}
      /\ \E e : run' = [run EXCEPT ![job] = e]
  BY QueryFailsIs DEF BaseInv
<1>2. Running \subseteq failed' \cup Running'
  <2>1. \A j \in Jobs : j # job => run'[j] = run[j]
    BY <1>1 DEF BaseInv, TypesInv
  <2> QED BY <1>1, <2>1, RunningStays
<1>3. failed \subseteq failed'
  BY <1>1
<1> QED BY <1>1, <1>2, <1>3, QuietLeft

\* A row that comes when its period has been listed comes late.
LEMMA UpsertLeft ==
  ASSUME BaseInv, LeftInv, NEW job \in Jobs, Upsert(job)
  PROVE  LeftInv'
<1>1. PICK m \in Monitors, new \in RowSet :
           /\ run[job].pc = "write"
           /\ rows' = {row \in rows : ~(row.level = job /\ row.key = new.key /\ row.monitor = m)} \cup {new}
           /\ late' = late \cup {p \in begun : Selects(p[1], p[2], new)}
           /\ run' = [run EXCEPT ![job] = Ended(Written(run[job]))]
           /\ UNCHANGED <<today, clock, up, looping, window, begun, failed, failures>>
  BY UpsertIs
<1>2. PICK r \in RunSet : r = run[job] /\ r.processed \in Nat
  BY DEF BaseInv, TypesInv, RunSet
<1>3. r.errors > 0 => <<job, r.key>> \in failed
  BY <1>2 DEF BaseInv, RunsInv, GoodRun
<1>4. PICK x : x = Written(r)
  OBVIOUS
<1>5. x \in RunSet /\ x.key = r.key /\ x.errors = r.errors /\ x.processed = r.processed + 1
  BY <1>4, WrittenIs
<1>6. (Ended(x).pc # "idle" /\ Ended(x).key = r.key) \/ <<job, r.key>> \in failed
  <2>1. x.processed # 0
    BY <1>2, <1>5
  <2> QED BY <1>3, <1>5, <2>1, EndedRuns
<1>7. Running \subseteq failed \cup Running'
  <2>1. run'[job] = Ended(x) /\ \A j \in Jobs : j # job => run'[j] = run[j]
    BY <1>1, <1>2, <1>4 DEF BaseInv, TypesInv
  <2> QED BY <1>2, <1>6, <2>1, RunningStays
<1>8. AllMoved'
  <2>1. SUFFICES ASSUME NEW p \in begun, p \notin late' \cup failed \cup Running', NEW row \in rows',
                        Selects(p[1], p[2], row)
                 PROVE  FALSE
    BY <1>1 DEF AllMoved
  <2>2. p \notin late \cup failed \cup Running /\ ~Selects(p[1], p[2], new)
    BY <1>1, <1>7, <2>1
  <2>3. row \in rows
    BY <1>1, <2>1, <2>2
  <2> QED BY <2>1, <2>2, <2>3 DEF LeftInv, AllMoved
<1>9. MomentsKept'
  <2>1. begun \cup failed \cup Running \subseteq begun' \cup failed' \cup Running'
    BY <1>1, <1>7
  <2> QED BY <1>1, <2>1 DEF LeftInv, MomentsKept
<1> QED BY <1>8, <1>9 DEF LeftInv

LEMMA MidnightLeft ==
  ASSUME BaseInv, LeftInv, Midnight
  PROVE  LeftInv'
<1>1. /\ today' = today + 1 /\ clock' = 0
      /\ \A row \in rows' : \/ row \in rows
                            \/ /\ row \in RowSet /\ row.level = 0 /\ row.key = <<today>>
                               /\ row.days = {today} /\ row = Row(0, row.monitor, <<today>>, {today})
      /\ UNCHANGED <<run, up, looping, window, begun, late, failed, failures>>
  BY MidnightIs
<1>2. Running' = Running
  BY <1>1 DEF Running, Idle
<1>3. PICK a \in Int, t \in Int : a = window[1] /\ t = today /\ clock \in Nat
  BY Today DEF BaseInv, TypesInv, Year
<1>4. AllMoved'
  <2>1. SUFFICES ASSUME NEW p \in begun, p \notin late \cup failed \cup Running, NEW row \in rows',
                        Selects(p[1], p[2], row)
                 PROVE  FALSE
    BY <1>1, <1>2 DEF AllMoved
  <2>2. row \notin rows
    BY <2>1 DEF LeftInv, AllMoved
  <2>3. row.level = 0 /\ row.key = <<t>>
    BY <1>1, <1>3, <2>1, <2>2
  <2>4. PICK j \in Jobs, key \in Seq(Int) : p = <<j, key>>
    BY <2>1 DEF BaseInv, TypesInv
  <2>5. Selects(j, key, row)
    BY <2>1, <2>4
  <2>6. j = Day
    <3>1. j \in Int /\ j - 1 = 0
      BY <2>3, <2>5, SelectsBelow DEF Jobs, Day, Year
    <3> QED BY <3>1 DEF Day
  <2>7. key = <<t>> /\ key[1] < t
    BY <1>3, <2>1, <2>3, <2>4, <2>5, <2>6, Selecting DEF BaseInv, PeriodsInv
  <2>8. key[1] = t
    BY <2>7
  <2> QED BY <1>3, <2>7, <2>8
<1>5. MomentsKept'
  <2>1. SUFFICES ASSUME NEW j \in Jobs, NEW d \in a..(t + 1), ScheduledOn(j, d), d < t + 1 \/ 0 >= j
                 PROVE  <<j, DueOn(j, d)>> \in begun \cup failed \cup Running
    BY <1>1, <1>2, <1>3 DEF MomentsKept
  <2>2. d \in a..t /\ j \in Int /\ 1 <= j /\ j <= Year
    BY <1>3, <2>1 DEF Jobs, Day, Year
  <2>3. CASE d < t \/ clock >= j
    BY <1>3, <2>1, <2>2, <2>3 DEF LeftInv, MomentsKept
  <2>4. CASE d = t /\ clock < j
    <3>1. j \in (clock + 1)..Year
      BY <1>3, <2>2, <2>4 DEF Year
    <3>2. OnSchedule(j)
      BY <1>3, <2>1, <2>4, DueToday
    <3>3. ToCome(Year) = {}
      BY DEF Midnight
    <3> QED BY <3>1, <3>2, <3>3 DEF ToCome
  <2> QED BY <1>3, <2>2, <2>3, <2>4
<1> QED BY <1>4, <1>5 DEF LeftInv

LEMMA NextLeft ==
  ASSUME BaseInv, LeftInv, [Next]_vars
  PROVE  LeftInv'
<1>1. CASE Midnight
  BY <1>1, MidnightLeft
<1>2. CASE Crash
  BY <1>2, CrashLeft
<1>3. CASE Restart \/ Cleanup \/ UNCHANGED vars
  <2>1. rows' \subseteq rows /\ UNCHANGED <<today, clock, window, begun, late, failed, run>>
    BY <1>3 DEF Restart, Cleanup, vars
  <2>2. Running' = Running
    BY <2>1 DEF Running, Idle
  <2> QED BY <2>1, <2>2, QuietLeft
<1>4. ASSUME NEW job \in Jobs, Moment(job)
      PROVE  LeftInv'
  BY <1>4, MomentLeft
<1>5. ASSUME NEW job \in Jobs, FireAgain(job)
      PROVE  LeftInv'
  BY <1>5, FireAgainLeft
<1>6. ASSUME NEW job \in Jobs, List(job)
      PROVE  LeftInv'
  BY <1>6, ListLeft
<1>7. ASSUME NEW job \in Jobs, ReadMonitor(job)
      PROVE  LeftInv'
  BY <1>7, ReadMonitorLeft
<1>8. ASSUME NEW job \in Jobs, Upsert(job)
      PROVE  LeftInv'
  BY <1>8, UpsertLeft
<1>9. ASSUME NEW job \in Jobs, Delete(job)
      PROVE  LeftInv'
  BY <1>9, DeleteLeft
<1>10. ASSUME NEW job \in Jobs, QueryFails(job)
      PROVE  LeftInv'
  BY <1>10, QueryFailsLeft
<1> QED BY <1>1, <1>2, <1>3, <1>4, <1>5, <1>6, <1>7, <1>8, <1>9, <1>10 DEF Next

\* A week whose Monday and Thursday are of two years is of neither month.
LEMMA NewYearWeek ==
  ASSUME NEW x \in Dates, x + 3 \in Dates, x + 6 \in Dates, YearOf[x] # YearOf[x + 3]
  PROVE  YearOf[x] # YearOf[x + 6] /\ DayOfMonth(x) >= 29
<1>1. PICK y \in Years : y = YearOf[x] /\ YearStart[y] <= x /\ x < YearStart[y + 1]
  BY YearOfDate
<1>2. x \in Int /\ YearStart[y] \in Int /\ YearStart[y + 1] \in Int
  <2>1. x \in Int
    BY CalendarDates
  <2>2. y \in 2018..2030
    BY DEF Years, FirstYear, LastYear
  <2> QED BY <2>1, <2>2, YearsBegin
<1>3. x + 3 >= YearStart[y + 1]
  <2>1. YearStart[y] <= x + 3 /\ x + 3 < YearStart[y + 1] => YearOf[x + 3] = y
    BY YearOfDate
  <2> QED BY <1>1, <1>2, <2>1
<1>4. YearOf[x] # YearOf[x + 6]
  <2>1. x + 6 < YearStart[YearOf[x + 6] + 1]
    BY YearOfDate
  <2>2. CASE YearOf[x + 6] = y
    BY <1>2, <1>3, <2>1, <2>2
  <2> QED BY <1>1, <2>2
<1>5. DaysBefore(y, 13) = DaysBefore(y, 12) + 31 /\ DaysBefore(y, 12) \in Nat
  <2>1. 12 \in 1..13
    OBVIOUS
  <2>2. DaysBefore(y, 12) \in Nat
    BY <2>1, MonthLengths
  <2> QED BY <2>2 DEF DaysBefore
<1>6. YearStart[y + 1] = YearStart[y] + DaysBefore(y, 13)
  BY YearsBegin
<1> DEFINE december == DateOf(y, 12, 1)
<1>7. december \in Int /\ december = YearStart[y + 1] - 31
  <2>1. december = YearStart[y] + DaysBefore(y, 12)
    <3>1. YearStart[y] + DaysBefore(y, 12) \in Int
      BY <1>2, <1>5
    <3> QED BY <1>2, <1>5, <3>1 DEF DateOf
  <2> QED BY <1>2, <1>5, <1>6, <2>1
<1>8. DateOf(y, 12 + 1, 1) = YearStart[y + 1]
  <2>1. DateOf(y, 13, 1) = YearStart[y] + DaysBefore(y, 13)
    BY <1>2, <1>5 DEF DateOf
  <2> QED BY <1>6, <2>1
<1> HIDE DEF december
<1>9. december <= x /\ x < YearStart[y + 1] /\ x - december + 1 >= 29
  BY <1>1, <1>2, <1>3, <1>7
<1>10. MonthOf[x] = 12
  <2>1. 12 \in 1..12
    OBVIOUS
  <2>2. DateOf(y, 12, 1) <= x /\ x < DateOf(y, 12 + 1, 1)
    BY <1>8, <1>9 DEF december
  <2> QED BY <2>1, <2>2, MonthOfDate
<1>11. DayOfMonth(x) = x - december + 1
  BY <1>1, <1>10 DEF DayOfMonth, december
<1> QED BY <1>4, <1>9, <1>11

\* When a row's run is due, that run is about a period that selects it.
LEMMA DayIsDue ==
  ASSUME NEW row, WellPlaced(row), row.level = 0, NEW day \in row.days, NEW t \in Span, t = day + 1
  PROVE  ScheduledOn(Day, t) /\ Selects(Day, DueOn(Day, t), row)
<1>a. day \in Span
  BY DEF WellPlaced
<1>b. day \in Int
  BY <1>a, SpanIs
<1>c. row.key = <<day>>
  BY DEF WellPlaced, Placed
<1>1. row.key = <<day>> /\ day \in Int
  BY <1>b, <1>c
<1>2. DueOn(Day, t) = <<t - 1>> /\ ScheduledOn(Day, t)
  BY DEF DueOn, ScheduledOn, Day, Week, Month, Year
<1>3. t - 1 = day
  BY <1>1
<1> QED BY <1>1, <1>2, <1>3, Selecting

LEMMA WeekIsDue ==
  ASSUME NEW row, WellPlaced(row), row.level = Day, NEW day \in row.days, NEW t \in Span, t = Monday(day) + 7
  PROVE  \/ MonthOf[t] = 12 /\ DayOfMonth(t) >= 29
         \/ ScheduledOn(Week, t) /\ Selects(Week, DueOn(Week, t), row)
<1>a. day \in Span
  BY DEF WellPlaced
<1>b. day \in Int
  BY <1>a, SpanIs
<1>c. row.level # 0 /\ row.level = Day
  BY DEF Day
<1>d. Touches(<<row.level, row.key>>, day)
  BY <1>c DEF WellPlaced, Placed
<1>1. day \in Int /\ Touches(<<Day, row.key>>, day)
  BY <1>b, <1>c, <1>d
<1>2. row.key = <<day>>
  BY <1>1, Touching
<1>3. PICK x \in Int : x = Monday(day) /\ x % 7 = 0 /\ x <= day /\ day <= x + 6 /\ t = x + 7
  BY <1>1, Mondays
<1>4. t \in Int /\ t % 7 = 0
  BY <1>3
<1>5. Monday(t) = t
  <2>1. t <= t /\ t <= t + 6
    BY <1>4
  <2> QED BY <1>4, <2>1, Mondays
<1>6. DayOfWeek(t) = 1
  BY <1>4, <1>5, Mondays
<1>7. ScheduledOn(Week, t) /\ DueOn(Week, t) = PreviousWeek(t)
  BY <1>6 DEF DueOn, ScheduledOn, Day, Week, Month, Year
<1>8. PICK key : key = PreviousWeek(t)
  OBVIOUS
<1>9. CASE WeekStart(key[1], key[2]) = t - 7
  <2>1. WeekStart(key[1], key[2]) = x
    BY <1>3, <1>9
  <2>2. InWeek(row, key)
    BY <1>2, <1>3, <2>1 DEF InWeek, WeekEnd
  <2> QED BY <1>7, <1>8, <2>2, Selecting
<1> QED BY <1>6, <1>8, <1>9, PreviousWeeks

LEMMA MonthIsDue ==
  ASSUME NEW row, WellPlaced(row), row.level = Week, NEW day \in row.days, NEW t \in Span,
         t = MonthEnd(YearOf[Monday(day)], MonthOf[Monday(day)]) + 1
  PROVE  \/ YearOf[Monday(day)] # YearOf[Monday(day) + 6] /\ DayOfMonth(Monday(day)) >= 29
         \/ ScheduledOn(Month, t) /\ Selects(Month, DueOn(Month, t), row)
<1>1. day \in Span /\ Touches(<<Week, row.key>>, day) /\ IsKey(Week, row.key)
  BY DEF WellPlaced, Placed, Week
<1>2. PICK x \in Dates : x = Monday(day) /\ x + 3 \in Dates /\ x + 6 \in Dates
  BY <1>1, SpanYears
<1>3. PICK y \in Years, m \in 1..12 : y = YearOf[x] /\ m = MonthOf[x] /\ DateOf(y, m, 1) <= x /\ x < DateOf(y, m + 1, 1)
  BY YearOfDate, MonthOfDate
<1>4. DayOfMonth(t) = 1 /\ PreviousMonth(t) = <<y, m>>
  BY <1>2, <1>3, PreviousMonths
<1>5. ScheduledOn(Month, t) /\ DueOn(Month, t) = <<y, m>>
  BY <1>4 DEF DueOn, ScheduledOn, Day, Week, Month, Year
<1>6. WeekStart(row.key[1], row.key[2]) = x
  BY <1>1, <1>2, Touching
<1>7. row.key[1] = YearOf[x + 3]
  <2>1. IsWeek(row.key)
    BY <1>1 DEF IsKey, Day, Week, Month, Year
  <2>2. PICK z \in Years, w \in 1..53 : row.key = <<z, w>> /\ YearOf[WeekStart(z, w) + 3] = z
    BY <2>1 DEF IsWeek
  <2> QED BY <1>6, <2>2
<1>8. CASE YearOf[x + 3] = y
  <2>1. MonthStart(y, m) <= x /\ x <= MonthEnd(y, m)
    <3>1. DateOf(y, m + 1, 1) \in Int /\ x \in Int
      <4>1. m + 1 \in 1..13
        OBVIOUS
      <4>2. DaysBefore(y, m + 1) \in Nat /\ YearStart[y] \in Nat
        BY <4>1, MonthLengths, YearsBegin DEF Years, FirstYear, LastYear
      <4> QED BY <4>2, CalendarDates DEF DateOf
    <3>2. PICK n \in Int : n = DateOf(y, m + 1, 1)
      BY <3>1
    <3>3. x <= n - 1
      BY <1>3, <3>1, <3>2
    <3> QED BY <1>3, <3>2, <3>3 DEF MonthStart, MonthEnd
  <2>2. InMonth(row, <<y, m>>)
    BY <1>6, <1>7, <1>8, <2>1 DEF InMonth
  <2> QED BY <1>5, <2>2, Selecting
<1>9. CASE YearOf[x + 3] # y
  BY <1>2, <1>3, <1>9, NewYearWeek
<1> QED BY <1>8, <1>9

LEMMA YearIsDue ==
  ASSUME NEW row, WellPlaced(row), row.level = Month, NEW day \in row.days, NEW t \in Span,
         t = YearStart[YearOf[Monday(day)] + 1]
  PROVE  ScheduledOn(Year, t) /\ Selects(Year, DueOn(Year, t), row)
<1>1. day \in Span /\ Touches(<<Month, row.key>>, day)
  BY DEF WellPlaced, Placed, Month
<1>2. PICK x \in Dates : x = Monday(day)
  BY <1>1, SpanYears
<1>3. PICK y \in Years : y = YearOf[x]
  BY YearOfDate
<1>4. row.key = <<y, MonthOf[x]>>
  BY <1>1, <1>2, <1>3, Touching
<1>5. t = YearStart[YearOf[t]] /\ PreviousYear(t) = <<y>>
  BY <1>2, <1>3, PreviousYears
<1>6. ScheduledOn(Year, t) /\ DueOn(Year, t) = <<y>>
  BY <1>5 DEF DueOn, ScheduledOn, Day, Week, Month, Year
<1>7. row.key[1] = <<y>>[1]
  BY <1>4
<1> QED BY <1>6, <1>7, Selecting

\* What becomes of the row of a period whose moment was kept.
LEMMA KeptMoment ==
  ASSUME BaseInv, LeftInv, NEW row \in rows, NEW day \in row.days, NEW job \in Jobs, NEW t \in Int,
         window[1] <= t, t < today \/ (t = today /\ clock >= job),
         ScheduledOn(job, t), Selects(job, DueOn(job, t), row)
  PROVE  Touched(failed \cup late \cup Running, day)
<1>1. t \in window[1]..today /\ t \in Span
  <2>1. PICK a \in Int, b \in Int : a = window[1] /\ b = today /\ 365 <= a /\ b <= 4382
    BY Today, SpanIs DEF BaseInv
  <2>2. a <= t /\ t <= b
    BY <2>1
  <2>3. t \in Span
    BY <2>1, <2>2, SpanIs
  <2> QED BY <2>1, <2>2, <2>3
<1>2. IsKey(job, DueOn(job, t))
  BY <1>1, DueKeys
<1>3. Touches(<<job, DueOn(job, t)>>, day)
  BY <1>2, RowsAreWellPlaced, SourcesTouch DEF BaseInv
<1> DEFINE p == <<job, DueOn(job, t)>>
<1>4. p \in begun \cup failed \cup Running
  BY <1>1 DEF LeftInv, MomentsKept
<1>5. p \in late \cup failed \cup Running
  <2>1. p[1] = job /\ p[2] = DueOn(job, t)
    OBVIOUS
  <2> HIDE DEF p
  <2> QED BY <1>4, <2>1 DEF LeftInv, AllMoved
<1>6. p \in failed \cup late \cup Running
  BY <1>5
<1> QED BY <1>3, <1>6, PeriodTouches

\* A row is still there when the moment of the run that should have rolled it up has
\* passed only when that run failed, was missed or is going on, when the row came late,
\* or at the turn of a year (the getPrevious... helpers of the four jobs and their where
\* clauses agree on every other row).
THEOREM RowsAreNotLeftBehind == Spec => []LeftBehindHasACause
<1>1. Init => BaseInv /\ LeftInv
  <2> SUFFICES ASSUME Init PROVE BaseInv /\ LeftInv
    OBVIOUS
  <2>1. BaseInv
    BY InitBase
  <2>2. AllMoved
    BY DEF Init, AllMoved
  <2>3. MomentsKept
    <3>1. PICK a \in Int : a = window[1] /\ a = today /\ clock = 0
      BY <2>1, Today DEF Init, BaseInv
    <3>2. \A job \in Jobs : ~(0 >= job)
      BY DEF Jobs, Day, Year
    <3>3. \A t \in a..a : ~(t < a)
      OBVIOUS
    <3> QED BY <3>1, <3>2, <3>3 DEF MomentsKept
  <2> QED BY <2>1, <2>2, <2>3 DEF LeftInv
<1>2. BaseInv /\ LeftInv /\ [Next]_vars => BaseInv' /\ LeftInv'
  BY NextBase, NextLeft
<1>3. BaseInv /\ LeftInv => LeftBehindHasACause
  <2> SUFFICES ASSUME BaseInv, LeftInv, NEW row \in rows, NEW day \in row.days, Passed(DueAt(row.level, day))
               PROVE  \/ Touched(failed \cup late \cup Running, day)
                      \/ SkippedAtNewYear(row.level, day)
    BY DEF LeftBehindHasACause
  <2>1. WellPlaced(row) /\ row.level \in 0..Year
    BY RowsAreWellPlaced DEF BaseInv, TypesInv, RowSet
  <2>2. day \in Span /\ day \in Int
    BY <2>1, SpanIs DEF WellPlaced
  \* The moment is in the calendar.
  <2>3. ASSUME NEW t \in Int, NEW job \in Jobs, DueAt(row.level, day) = <<t, job>>
        PROVE  /\ t \in Span /\ window[1] <= t
               /\ t < today \/ (t = today /\ clock >= job)
    <3>1. /\ window[1] <= t
          /\ t < today \/ (t = today /\ clock >= job)
      BY <2>3, Today DEF Passed, BaseInv
    <3>2. PICK a \in Int, b \in Int : a = window[1] /\ b = today /\ 365 <= a /\ b <= 4382
      BY Today, SpanIs DEF BaseInv
    <3>3. 365 <= t /\ t <= 4382
      BY <3>1, <3>2
    <3> QED BY <3>1, <3>3, SpanIs
  <2>4. ASSUME NEW t \in Int, NEW job \in Jobs, DueAt(row.level, day) = <<t, job>>,
               ScheduledOn(job, t), Selects(job, DueOn(job, t), row)
        PROVE  Touched(failed \cup late \cup Running, day)
    BY <2>3, <2>4, KeptMoment
  <2>5. CASE row.level = 0
    <3>1. PICK t \in Int : t = day + 1
      BY <2>2
    <3>2. DueAt(row.level, day) = <<t, Day>> /\ Day \in Jobs
      BY <2>5, <3>1 DEF DueAt, Jobs, Day, Week, Month, Year
    <3> QED BY <2>1, <2>3, <2>4, <2>5, <3>1, <3>2, DayIsDue
  <2>6. CASE row.level = Day
    <3>1. PICK t \in Int : t = Monday(day) + 7
      BY <2>2, Mondays
    <3>2. DueAt(row.level, day) = <<t, Week>> /\ Week \in Jobs
      BY <2>6, <3>1 DEF DueAt, Jobs, Day, Week, Month, Year
    <3>3. MonthOf[t] = 12 /\ DayOfMonth(t) >= 29 => SkippedAtNewYear(row.level, day)
      BY <2>6, <3>1 DEF SkippedAtNewYear
    <3> QED BY <2>1, <2>3, <2>4, <2>6, <3>1, <3>2, <3>3, WeekIsDue
  <2>7. CASE row.level = Week
    <3>1. PICK y \in Years, m \in 1..12 : y = YearOf[Monday(day)] /\ m = MonthOf[Monday(day)]
      BY <2>2, SpanYears, YearOfDate, MonthOfDate
    <3>2. DateOf(y, m + 1, 1) \in Int
      <4>1. m + 1 \in 1..13
        OBVIOUS
      <4>2. DaysBefore(y, m + 1) \in Nat /\ YearStart[y] \in Nat
        BY <4>1, MonthLengths, YearsBegin DEF Years, FirstYear, LastYear
      <4> QED BY <4>2 DEF DateOf
    <3>3. PICK t \in Int : t = MonthEnd(y, m) + 1
      BY <3>2 DEF MonthEnd
    <3>4. DueAt(row.level, day) = <<t, Month>> /\ Month \in Jobs
      BY <2>7, <3>1, <3>3 DEF DueAt, Jobs, Day, Week, Month, Year
    <3>5. YearOf[Monday(day)] # YearOf[Monday(day) + 6] /\ DayOfMonth(Monday(day)) >= 29
            => SkippedAtNewYear(row.level, day)
      BY <2>7 DEF SkippedAtNewYear
    <3> QED BY <2>1, <2>3, <2>4, <2>7, <3>1, <3>3, <3>4, <3>5, MonthIsDue
  <2>8. CASE row.level = Month
    <3>1. PICK y \in Years : y = YearOf[Monday(day)]
      BY <2>2, SpanYears, YearOfDate
    <3>2. PICK t \in Int : t = YearStart[y + 1]
      BY YearsBegin DEF Years, FirstYear, LastYear
    <3>3. DueAt(row.level, day) = <<t, Year>> /\ Year \in Jobs
      BY <2>8, <3>1, <3>2 DEF DueAt, Jobs, Day, Week, Month, Year
    <3> QED BY <2>1, <2>3, <2>4, <2>8, <3>1, <3>2, <3>3, YearIsDue
  <2>9. CASE row.level = Year
    <3>1. DueAt(row.level, day) = <<window[2] + 1, 0>>
      BY <2>9 DEF DueAt, Day, Week, Month, Year
    <3>2. PICK b \in Int : b = window[2]
      BY Today DEF BaseInv
    <3>3. today > b + 1 \/ today = b + 1
      BY <3>1, <3>2 DEF Passed
    <3>4. today \in Int /\ today <= b
      BY <3>2, Today DEF BaseInv
    <3> QED BY <3>2, <3>3, <3>4
  <2>10. row.level \in {0, Day, Week, Month, Year}
    BY <2>1 DEF Day, Week, Month, Year
  <2> QED BY <2>5, <2>6, <2>7, <2>8, <2>9, <2>10
<1> QED BY <1>1, <1>2, <1>3, PTL DEF Spec

-----------------------------------------------------------------------------
(* The statistics of a monitor: figures of different moments *)

\* What a figure is, once the ones not yet counted are counted.
FigureTaken(name) == IF name \in DOMAIN counting.stats THEN counting.stats[name] ELSE Figure(name)

\* The three counts are as far apart as rows came and went, and no further.
Balanced ==
  /\ \A name \in {"totalChecks", "upChecks", "downChecks"} : FigureTaken(name) \in Nat
  /\ FigureTaken("totalChecks") <= FigureTaken("upChecks") + FigureTaken("downChecks") + changes
  /\ FigureTaken("upChecks") + FigureTaken("downChecks") <= FigureTaken("totalChecks") + changes
  /\ changes = 0 => (FigureTaken("latestCheck") = "UNKNOWN" <=> FigureTaken("totalChecks") = 0)

RecordedInv ==
  /\ recorded = [source \in Sources |-> recorded[source]]
  /\ recorded["checks"] \subseteq Moments /\ IsFiniteSet(recorded["checks"])
  /\ upAt \subseteq recorded["checks"] /\ changes \in Nat

CountingInv ==
  \/ counting.pc \in {"idle", "off"}
  \/ /\ counting.pc \in {"count", "answered"}
     /\ counting = [pc |-> counting.pc, stats |-> counting.stats]
     /\ counting.pc = "answered" => DOMAIN counting.stats = Figures
     /\ Balanced

StatisticsInv == RecordedInv /\ CountingInv

\* The checks are those that were up and those that were not.
LEMMA ChecksOfBothKinds ==
  ASSUME NEW checks, IsFiniteSet(checks), NEW working
  PROVE  /\ Cardinality(checks) \in Nat /\ Cardinality(checks \cap working) \in Nat
         /\ Cardinality(checks \ working) \in Nat
         /\ Cardinality(checks) = Cardinality(checks \cap working) + Cardinality(checks \ working)
         /\ Cardinality(checks) = 0 <=> checks = {}
<1>1. IsFiniteSet(checks \cap working) /\ IsFiniteSet(checks \ working)
  BY FS_Subset
<1>2. /\ Cardinality((checks \cap working) \cup (checks \ working))
           = Cardinality(checks \cap working) + Cardinality(checks \ working)
               - Cardinality((checks \cap working) \cap (checks \ working))
  BY <1>1, FS_Union
<1>3. (checks \cap working) \cup (checks \ working) = checks /\ (checks \cap working) \cap (checks \ working) = {}
  OBVIOUS
<1>4. /\ Cardinality(checks) \in Nat /\ Cardinality(checks \cap working) \in Nat
      /\ Cardinality(checks \ working) \in Nat
  BY <1>1, FS_CardinalityType
<1>5. Cardinality({}) = 0 /\ (Cardinality(checks) = 0 <=> checks = {})
  BY FS_EmptySet
<1>6. Cardinality(checks) = Cardinality(checks \cap working) + Cardinality(checks \ working) - 0
  BY <1>2, <1>3, <1>5
<1> QED BY <1>4, <1>5, <1>6

\* What the figures are of: the checks there are, and those that found it up.
FiguresAreOf(checks, working, total, ups, downs, latest) ==
  /\ total = Cardinality(checks) /\ ups = Cardinality(checks \cap working) /\ downs = Cardinality(checks \ working)
  /\ total \in Nat /\ ups \in Nat /\ downs \in Nat /\ total = ups + downs
  /\ latest = "UNKNOWN" <=> total = 0

LEMMA FiguresAre ==
  /\ RecordedInv => FiguresAreOf(recorded["checks"], upAt, Figure("totalChecks"), Figure("upChecks"),
                                 Figure("downChecks"), Figure("latestCheck"))
  /\ RecordedInv' => FiguresAreOf(recorded'["checks"], upAt', Figure("totalChecks")', Figure("upChecks")',
                                  Figure("downChecks")', Figure("latestCheck")')
<1>1. ASSUME NEW checks, NEW working, IsFiniteSet(checks), NEW latest,
             latest = (IF checks = {} THEN "UNKNOWN"
                       ELSE IF \E t \in working : Rank(checks, t) = 0 THEN "UP" ELSE "DOWN")
      PROVE  FiguresAreOf(checks, working, Cardinality(checks), Cardinality(checks \cap working),
                          Cardinality(checks \ working), latest)
  <2>1. latest = "UNKNOWN" <=> checks = {}
    <3>1. CASE checks = {}
      BY <1>1, <3>1
    <3>2. CASE checks # {}
      <4>1. latest \in {"UP", "DOWN"}
        BY <1>1, <3>2
      <4> QED BY <3>2, <4>1
    <3> QED BY <3>1, <3>2
  <2> QED BY <1>1, <2>1, ChecksOfBothKinds DEF FiguresAreOf
<1>2. RecordedInv => FiguresAreOf(recorded["checks"], upAt, Figure("totalChecks"), Figure("upChecks"),
                                  Figure("downChecks"), Figure("latestCheck"))
  BY <1>1 DEF RecordedInv, Figure
<1>3. RecordedInv' => FiguresAreOf(recorded'["checks"], upAt', Figure("totalChecks")', Figure("upChecks")',
                                   Figure("downChecks")', Figure("latestCheck")')
  BY <1>1 DEF RecordedInv, Figure
<1> QED BY <1>2, <1>3

\* Checks that come or go are of one kind each: the counts of all and of both kinds
\* differ from what they were by as many at most.
LEMMA ChangesAreBalanced ==
  ASSUME StatisticsInv, RecordedInv', UNCHANGED counting,
         NEW n \in Nat, changes' = changes + n, n # 0 \/ UNCHANGED <<recorded, upAt>>,
         NEW total \in Int, NEW working \in Int, NEW failing \in Int, total = working + failing,
         \/ 0 <= working /\ 0 <= failing /\ total <= n
         \/ working <= 0 /\ failing <= 0 /\ -n <= total,
         Figure("totalChecks")' = Figure("totalChecks") + total,
         Figure("upChecks")' = Figure("upChecks") + working,
         Figure("downChecks")' = Figure("downChecks") + failing,
         UNCHANGED <<recorded, upAt>> => Figure("latestCheck")' = Figure("latestCheck")
  PROVE  StatisticsInv'
<1>1. CASE counting.pc \in {"idle", "off"}
  BY <1>1 DEF StatisticsInv, CountingInv
<1>2. CASE counting.pc \in {"count", "answered"} /\ Balanced
  <2>1. PICK t, u, d, l, t1, u1, d1, l1 :
          /\ t = FigureTaken("totalChecks") /\ u = FigureTaken("upChecks")
          /\ d = FigureTaken("downChecks") /\ l = FigureTaken("latestCheck")
          /\ t1 = FigureTaken("totalChecks")' /\ u1 = FigureTaken("upChecks")' /\ d1 = FigureTaken("downChecks")'
          /\ l1 = FigureTaken("latestCheck")'
    OBVIOUS
  <2>2. /\ t \in Nat /\ u \in Nat /\ d \in Nat /\ t <= u + d + changes /\ u + d <= t + changes
        /\ changes = 0 => (l = "UNKNOWN" <=> t = 0)
    BY <1>2, <2>1 DEF Balanced
  <2>3. /\ t1 = t \/ t1 = t + total
        /\ u1 = u \/ u1 = u + working
        /\ d1 = d \/ d1 = d + failing
    BY <2>1 DEF FigureTaken
  <2>4. t1 \in Nat /\ u1 \in Nat /\ d1 \in Nat
    <3>1. Figure("totalChecks")' \in Nat /\ Figure("upChecks")' \in Nat /\ Figure("downChecks")' \in Nat
      BY FiguresAre DEF FiguresAreOf
    <3> QED BY <2>1, <2>2, <3>1 DEF FigureTaken
  <2>5. changes \in Nat /\ changes' = changes + n
    BY DEF StatisticsInv, RecordedInv
  <2>6. t1 <= u1 + d1 + changes' /\ u1 + d1 <= t1 + changes'
    BY <2>2, <2>3, <2>4, <2>5
  <2>7. changes' = 0 => (l1 = "UNKNOWN" <=> t1 = 0)
    <3>1. SUFFICES ASSUME changes' = 0
                   PROVE  l1 = "UNKNOWN" <=> t1 = 0
      OBVIOUS
    <3>2. changes = 0 /\ UNCHANGED <<recorded, upAt>> /\ n = 0
      BY <2>5, <3>1
    <3>3. total = 0 /\ l1 = l
      BY <2>1, <3>2 DEF FigureTaken
    <3> QED BY <2>2, <2>3, <3>2, <3>3
  <2>8. Balanced'
    BY <2>1, <2>4, <2>6, <2>7 DEF Balanced
  <2> QED BY <1>2, <2>8 DEF StatisticsInv, CountingInv
<1> QED BY <1>1, <1>2 DEF StatisticsInv, CountingInv

LEMMA RecordKeeps ==
  ASSUME StatisticsInv, NEW source \in Sources, NEW t, NEW isUp \in BOOLEAN, Record(source, t, isUp)
  PROVE  StatisticsInv'
<1>1. /\ t \notin recorded[source] /\ recorded' = [recorded EXCEPT ![source] = @ \cup {t}]
      /\ upAt' = IF source = "checks" /\ isUp THEN upAt \cup {t} ELSE upAt
      /\ changes' = changes + 1 /\ UNCHANGED counting
  BY DEF Record
<1>2. RecordedInv
  BY DEF StatisticsInv
<1>3. PICK before, after : before = recorded["checks"] /\ after = recorded'["checks"]
  OBVIOUS
<1>4. /\ source = "checks" => t \notin before /\ after = before \cup {t}
      /\ source # "checks" => after = before
      /\ recorded' = [x \in Sources |-> recorded'[x]]
  BY <1>1, <1>2, <1>3 DEF RecordedInv, Sources
<1>5. IsFiniteSet(before) /\ upAt \subseteq before /\ changes \in Nat
  BY <1>2, <1>3 DEF RecordedInv
<1>6. IsFiniteSet(after) /\ upAt' \subseteq after /\ after \subseteq Moments
  <2>1. t \in Moments /\ before \subseteq Moments
    BY <1>2, <1>3 DEF Record, RecordedInv
  <2> QED BY <1>1, <1>4, <1>5, <2>1, FS_AddElement
<1>7. RecordedInv'
  BY <1>1, <1>3, <1>4, <1>5, <1>6 DEF RecordedInv
<1>8. /\ Figure("totalChecks") = Cardinality(before)
      /\ Figure("upChecks") = Cardinality(before \cap upAt) /\ Figure("downChecks") = Cardinality(before \ upAt)
      /\ Figure("totalChecks") \in Nat /\ Figure("upChecks") \in Nat /\ Figure("downChecks") \in Nat
  BY <1>2, <1>3, FiguresAre DEF FiguresAreOf
<1>9. /\ Figure("totalChecks")' = Cardinality(after)
      /\ Figure("upChecks")' = Cardinality(after \cap upAt') /\ Figure("downChecks")' = Cardinality(after \ upAt')
      /\ Figure("totalChecks")' \in Nat /\ Figure("upChecks")' \in Nat /\ Figure("downChecks")' \in Nat
  BY <1>3, <1>7, FiguresAre DEF FiguresAreOf
<1>10. IsFiniteSet(before \cap upAt) /\ IsFiniteSet(before \ upAt)
  BY <1>5, FS_Subset
<1>11. CASE source = "checks" /\ isUp
  <2>1. /\ after \cap upAt' = (before \cap upAt) \cup {t} /\ after \ upAt' = before \ upAt
        /\ t \notin before \cap upAt
    BY <1>1, <1>4, <1>11
  <2>2. /\ Cardinality(after) = Cardinality(before) + 1
        /\ Cardinality(after \cap upAt') = Cardinality(before \cap upAt) + 1
    BY <1>4, <1>5, <1>10, <1>11, <2>1, FS_AddElement
  <2>3. /\ Figure("totalChecks")' = Figure("totalChecks") + 1
        /\ Figure("upChecks")' = Figure("upChecks") + 1 /\ Figure("downChecks")' = Figure("downChecks") + 0
    <3>1. /\ Figure("totalChecks")' = Figure("totalChecks") + 1
          /\ Figure("upChecks")' = Figure("upChecks") + 1 /\ Figure("downChecks")' = Figure("downChecks")
      BY <1>8, <1>9, <2>1, <2>2
    <3>2. \A figure \in Nat : figure = figure + 0
      OBVIOUS
    <3> QED BY <1>8, <3>1, <3>2
  <2>4. ~UNCHANGED <<recorded, upAt>>
    BY <1>1, <1>3, <1>4, <1>11
  <2> QED BY <1>1, <1>7, <2>3, <2>4, ChangesAreBalanced
<1>12. CASE source = "checks" /\ ~isUp
  <2>1. /\ after \cap upAt' = before \cap upAt /\ after \ upAt' = (before \ upAt) \cup {t}
        /\ t \notin before \ upAt
    BY <1>1, <1>4, <1>5, <1>12
  <2>2. /\ Cardinality(after) = Cardinality(before) + 1
        /\ Cardinality(after \ upAt') = Cardinality(before \ upAt) + 1
    BY <1>4, <1>5, <1>10, <1>12, <2>1, FS_AddElement
  <2>3. /\ Figure("totalChecks")' = Figure("totalChecks") + 1
        /\ Figure("upChecks")' = Figure("upChecks") + 0 /\ Figure("downChecks")' = Figure("downChecks") + 1
    <3>1. /\ Figure("totalChecks")' = Figure("totalChecks") + 1 /\ Figure("upChecks")' = Figure("upChecks")
          /\ Figure("downChecks")' = Figure("downChecks") + 1
      BY <1>8, <1>9, <2>1, <2>2
    <3>2. \A figure \in Nat : figure = figure + 0
      OBVIOUS
    <3> QED BY <1>8, <3>1, <3>2
  <2>4. ~UNCHANGED <<recorded, upAt>>
    BY <1>1, <1>3, <1>4, <1>12
  <2> QED BY <1>1, <1>7, <2>3, <2>4, ChangesAreBalanced
<1>13. CASE source # "checks"
  <2>1. after = before /\ upAt' = upAt
    BY <1>1, <1>4, <1>13
  <2>2. /\ Figure("totalChecks")' = Figure("totalChecks") /\ Figure("upChecks")' = Figure("upChecks")
        /\ Figure("downChecks")' = Figure("downChecks")
    BY <1>8, <1>9, <2>1
  <2>3. \A figure \in Nat : figure = figure + 0
    OBVIOUS
  <2>4. /\ Figure("totalChecks")' = Figure("totalChecks") + 0
        /\ Figure("upChecks")' = Figure("upChecks") + 0 /\ Figure("downChecks")' = Figure("downChecks") + 0
    BY <1>8, <2>2, <2>3
  <2>5. ~UNCHANGED <<recorded, upAt>>
    <3>1. t \in recorded'[source]
      BY <1>1, <1>2 DEF RecordedInv
    <3> QED BY <1>1, <3>1
  <2> QED BY <1>1, <1>7, <2>4, <2>5, ChangesAreBalanced
<1> QED BY <1>11, <1>12, <1>13

LEMMA SomeAreForgotten ==
  ASSUME \E t \in Moments : ForgetOldest(t) \/ ForgetDay(t \div DayLength)
  PROVE  \E gone \in SUBSET recorded["checks"] : Forget(gone)
<1>1. PICK t \in Moments : ForgetOldest(t) \/ ForgetDay(t \div DayLength)
  OBVIOUS
<1>2. PICK oldest, ofDay : /\ oldest = {x \in recorded["checks"] : x <= t}
                           /\ ofDay = {x \in recorded["checks"] : x \div DayLength = t \div DayLength}
  OBVIOUS
<1>3. Forget(oldest) \/ Forget(ofDay)
  BY <1>1, <1>2, Zenon DEF ForgetOldest, ForgetDay
<1>4. oldest \in SUBSET recorded["checks"] /\ ofDay \in SUBSET recorded["checks"]
  BY <1>2
<1> QED BY <1>3, <1>4

LEMMA ForgetKeeps ==
  ASSUME StatisticsInv, NEW gone \in SUBSET recorded["checks"], Forget(gone)
  PROVE  StatisticsInv'
<1>1. PICK before, after : before = recorded["checks"] /\ after = before \ gone
  OBVIOUS
<1>2. /\ recorded' = [recorded EXCEPT !["checks"] = after]
      /\ upAt' = upAt \ gone /\ changes' = changes + Cardinality(gone) /\ UNCHANGED counting /\ gone # {}
  BY <1>1 DEF Forget
<1>3. RecordedInv /\ IsFiniteSet(before) /\ upAt \subseteq before /\ changes \in Nat
  BY <1>1 DEF StatisticsInv, RecordedInv
<1>4. before \subseteq Moments /\ before \subseteq Nat
  BY <1>1, <1>3, HistoryAssumption DEF RecordedInv
<1>5. /\ before = after \cup gone /\ after \cap gone = {} /\ after \subseteq before /\ gone \subseteq before
      /\ upAt' = upAt \cap after /\ gone # {}
  BY <1>1, <1>2, <1>3
<1>6. IsFiniteSet(after) /\ IsFiniteSet(gone)
  BY <1>3, <1>5, FS_Subset
<1>7. recorded'["checks"] = after /\ recorded' = [x \in Sources |-> recorded'[x]]
  BY <1>2, <1>3 DEF RecordedInv, Sources
<1>8. Cardinality(gone) \in Nat /\ Cardinality(gone) # 0
  BY <1>5, <1>6, FS_CardinalityType, FS_EmptySet
<1>9. RecordedInv'
  BY <1>2, <1>3, <1>4, <1>5, <1>6, <1>7, <1>8 DEF RecordedInv
\* Some of both kinds go.
<1>10. PICK kept, working, failing : kept = after \cap upAt /\ working = gone \cap upAt /\ failing = gone \ upAt
  OBVIOUS
<1>11. /\ Cardinality(before) = Cardinality(after) + Cardinality(gone)
       /\ Cardinality(before \cap upAt) = Cardinality(kept) + Cardinality(working)
       /\ Cardinality(before \ upAt) = Cardinality(after \ upAt) + Cardinality(failing)
  <2>1. IsFiniteSet(kept) /\ IsFiniteSet(working) /\ IsFiniteSet(failing) /\ IsFiniteSet(after \ upAt)
    BY <1>6, <1>10, FS_Subset
  <2>2. /\ before \cap upAt = kept \cup working /\ kept \cap working = {}
        /\ before \ upAt = (after \ upAt) \cup failing /\ (after \ upAt) \cap failing = {}
    BY <1>5, <1>10
  <2>3. ASSUME NEW S, NEW T, IsFiniteSet(S), IsFiniteSet(T), S \cap T = {}
        PROVE  Cardinality(S \cup T) = Cardinality(S) + Cardinality(T)
    <3>1. Cardinality(S \cup T) = Cardinality(S) + Cardinality(T) - Cardinality(S \cap T)
      BY <2>3, FS_Union
    <3>2. Cardinality(S \cap T) = 0 /\ Cardinality(S) \in Nat /\ Cardinality(T) \in Nat
      BY <2>3, FS_EmptySet, FS_CardinalityType
    <3> QED BY <3>1, <3>2
  <2> QED BY <1>5, <1>6, <2>1, <2>2, <2>3
<1>12. /\ Cardinality(gone) = Cardinality(working) + Cardinality(failing)
       /\ Cardinality(working) \in Nat /\ Cardinality(failing) \in Nat
  BY <1>6, <1>10, ChecksOfBothKinds
<1>13. after \cap upAt' = kept /\ after \ upAt' = after \ upAt
  BY <1>5, <1>10
<1>14. /\ Figure("totalChecks") = Cardinality(before)
       /\ Figure("upChecks") = Cardinality(before \cap upAt) /\ Figure("downChecks") = Cardinality(before \ upAt)
  BY <1>1, <1>3, FiguresAre DEF FiguresAreOf
<1>15. /\ Figure("totalChecks")' = Cardinality(after)
       /\ Figure("upChecks")' = Cardinality(kept) /\ Figure("downChecks")' = Cardinality(after \ upAt)
       /\ Figure("totalChecks")' \in Nat /\ Figure("upChecks")' \in Nat /\ Figure("downChecks")' \in Nat
  BY <1>7, <1>9, <1>13, FiguresAre DEF FiguresAreOf
<1>16. /\ Figure("totalChecks")' = Figure("totalChecks") + (-Cardinality(gone))
       /\ Figure("upChecks")' = Figure("upChecks") + (-Cardinality(working))
       /\ Figure("downChecks")' = Figure("downChecks") + (-Cardinality(failing))
  BY <1>8, <1>11, <1>12, <1>14, <1>15
<1>17. PICK n, total, less, fewer :
         /\ n = Cardinality(gone) /\ total = -Cardinality(gone)
         /\ less = -Cardinality(working) /\ fewer = -Cardinality(failing)
  OBVIOUS
<1>18. /\ n \in Nat /\ n # 0 /\ total \in Int /\ less \in Int /\ fewer \in Int /\ total = less + fewer
       /\ less <= 0 /\ fewer <= 0 /\ -n <= total /\ changes' = changes + n
  BY <1>2, <1>8, <1>12, <1>17
<1>19. ~UNCHANGED <<recorded, upAt>>
  BY <1>1, <1>5, <1>7
<1> QED BY <1>2, <1>9, <1>16, <1>17, <1>18, <1>19, ChangesAreBalanced

LEMMA CountKeeps ==
  ASSUME StatisticsInv, StartCounting \/ \E name \in Figures : Count(name)
  PROVE  StatisticsInv'
<1>1. UNCHANGED <<recorded, upAt>>
  BY DEF StartCounting, Count
<1>2. RecordedInv
  BY DEF StatisticsInv
<1>3. RecordedInv'
  <2>1. changes' \in Nat
    <3>1. changes' = 0 \/ changes' = changes
      BY DEF StartCounting, Count
    <3> QED BY <1>2, <3>1 DEF RecordedInv
  <2> QED BY <1>1, <1>2, <2>1 DEF RecordedInv
<1>4. \A name \in Figures : Figure(name)' = Figure(name)
  BY <1>1 DEF Figure
<1>5. CASE StartCounting
  <2>1. counting' = [pc |-> "count", stats |-> <<>>] /\ changes' = 0
    BY <1>5 DEF StartCounting
  <2>2. DOMAIN counting.stats' = {}
    BY <2>1
  <2>3. \A name \in Figures : FigureTaken(name)' = Figure(name)
    BY <1>4, <2>2 DEF FigureTaken
  <2>4. Balanced'
    BY <1>2, <2>1, <2>3, FiguresAre DEF Balanced, FiguresAreOf, Figures
  <2>5. CountingInv'
    BY <2>1, <2>2, <2>4 DEF CountingInv
  <2> QED BY <1>3, <2>5 DEF StatisticsInv
<1>6. ASSUME NEW name \in Figures, Count(name)
      PROVE  StatisticsInv'
  <2>1. PICK stats : /\ stats = [x \in DOMAIN counting.stats \cup {name} |->
                                   IF x = name THEN Figure(name) ELSE counting.stats[x]]
                     /\ counting' = [pc |-> IF DOMAIN stats = Figures THEN "answered" ELSE "count", stats |-> stats]
                     /\ counting.pc = "count" /\ name \notin DOMAIN counting.stats /\ changes' = changes
    BY <1>6 DEF Count
  <2>2. counting'.stats = stats /\ counting'.pc \in {"count", "answered"}
    BY <2>1
  <2>3. \A x \in Figures : FigureTaken(x)' = FigureTaken(x)
    BY <1>4, <2>1, <2>2 DEF FigureTaken
  <2>4. Balanced
    BY <2>1 DEF StatisticsInv, CountingInv
  <2>5. Balanced'
    BY <2>1, <2>3, <2>4 DEF Balanced, Figures
  <2>6. CountingInv'
    BY <2>1, <2>2, <2>5 DEF CountingInv
  <2> QED BY <1>3, <2>6 DEF StatisticsInv
<1> QED BY <1>5, <1>6

LEMMA HistoryStep == StatisticsInv /\ [HistoryNext]_historyVars => StatisticsInv'
<1>1. SUFFICES ASSUME StatisticsInv, [HistoryNext]_historyVars
               PROVE  StatisticsInv'
  OBVIOUS
<1>2. CASE UNCHANGED <<recorded, upAt, counting, changes>>
  BY <1>1, <1>2 DEF StatisticsInv, RecordedInv, CountingInv, Balanced, FigureTaken, Figure
<1>3. CASE UNCHANGED historyVars
  BY <1>2, <1>3 DEF historyVars
<1>4. CASE (\E source \in Sources : StartReading(source)) \/ ReadItems \/ ReadTotal \/ NextPage
  BY <1>2, <1>4 DEF StartReading, ReadItems, ReadTotal, NextPage
<1>5. CASE StartCounting \/ \E name \in Figures : Count(name)
  BY <1>1, <1>5, CountKeeps
<1>6. CASE \E source \in Sources, t \in Moments, isUp \in BOOLEAN : Record(source, t, isUp)
  BY <1>1, <1>6, RecordKeeps
<1>7. CASE \E t \in Moments : ForgetOldest(t) \/ ForgetDay(t \div DayLength)
  <2>1. PICK gone \in SUBSET recorded["checks"] : Forget(gone)
    BY <1>7, SomeAreForgotten
  <2> QED BY <1>1, <2>1, ForgetKeeps
<1> QED BY <1>1, <1>3, <1>4, <1>5, <1>6, <1>7 DEF HistoryNext

LEMMA StatisticsInit == HistoryInit => StatisticsInv
<1>1. SUFFICES ASSUME HistoryInit
               PROVE  StatisticsInv
  OBVIOUS
<1>2. RecordedInv
  BY <1>1 DEF HistoryInit, RecordedInv, Sources
<1>3. CountingInv
  BY <1>1 DEF HistoryInit, CountingInv, NoCounting, Off
<1> QED BY <1>2, <1>3 DEF StatisticsInv

\* The counts of the statistics are as far apart as checks were recorded or deleted
\* between the queries that took them, whichever was answered first.
THEOREM StatisticsOfDifferentMoments == HistorySpec => []StatisticsAddUp
<1>1. StatisticsInv => StatisticsAddUp
  <2>1. SUFFICES ASSUME StatisticsInv, counting.pc = "answered"
                 PROVE  LET s == counting.stats IN
                        /\ s.totalChecks <= s.upChecks + s.downChecks + changes
                        /\ s.upChecks + s.downChecks <= s.totalChecks + changes
                        /\ changes = 0 => (s.latestCheck = "UNKNOWN" <=> s.totalChecks = 0)
    BY DEF StatisticsAddUp
  <2>2. Balanced /\ DOMAIN counting.stats = Figures
    BY <2>1 DEF StatisticsInv, CountingInv
  <2>3. \A name \in Figures : FigureTaken(name) = counting.stats[name]
    BY <2>2 DEF FigureTaken
  <2> QED BY <2>2, <2>3 DEF Balanced, Figures
<1> QED BY <1>1, StatisticsInit, HistoryStep, PTL DEF HistorySpec

-----------------------------------------------------------------------------
(* Ranks *)

LEMMA RankType ==
  ASSUME NEW list, IsFiniteSet(list), NEW t
  PROVE  IsFiniteSet({x \in list : x > t}) /\ Rank(list, t) \in Nat
<1>1. IsFiniteSet({x \in list : x > t})
  BY FS_Subset
<1> QED BY <1>1, FS_CardinalityType DEF Rank

\* One more than the rank of the next newer row at least.
LEMMA RankOrder ==
  ASSUME NEW list \in SUBSET Nat, IsFiniteSet(list), NEW x \in Int, NEW y \in list, x < y
  PROVE  Rank(list, y) < Rank(list, x)
<1>1. PICK newer : newer = {z \in list : z > y}
  OBVIOUS
<1>2. IsFiniteSet(newer) /\ y \notin newer /\ Rank(list, y) = Cardinality(newer) /\ Cardinality(newer) \in Nat
  <2>1. IsFiniteSet(newer) /\ Rank(list, y) = Cardinality(newer) /\ Cardinality(newer) \in Nat
    BY <1>1, RankType DEF Rank
  <2> QED BY <1>1, <2>1
<1>3. newer \cup {y} \subseteq {z \in list : z > x}
  <2>1. \A z \in list : z > y => z > x
    OBVIOUS
  <2> QED BY <1>1, <2>1
<1>4. Cardinality(newer \cup {y}) = Cardinality(newer) + 1
  BY <1>2, FS_AddElement
<1>5. Cardinality(newer \cup {y}) <= Rank(list, x) /\ Rank(list, x) \in Nat
  BY <1>3, RankType, FS_Subset DEF Rank
<1> QED BY <1>2, <1>4, <1>5

\* Ranks tell the rows apart, and are fewer than the rows.
LEMMA RanksDiffer ==
  ASSUME NEW list \in SUBSET Nat, IsFiniteSet(list), NEW x \in list, NEW y \in list,
         Rank(list, x) = Rank(list, y)
  PROVE  x = y
<1>1. Rank(list, x) \in Nat /\ Rank(list, y) \in Nat
  BY RankType
<1>2. ~(x < y) /\ ~(y < x)
  <2>1. CASE x < y
    BY <1>1, <2>1, RankOrder
  <2>2. CASE y < x
    BY <1>1, <2>2, RankOrder
  <2> QED BY <2>1, <2>2
<1> QED BY <1>2

LEMMA RankBound ==
  ASSUME NEW list \in SUBSET Nat, IsFiniteSet(list), NEW x \in list
  PROVE  Rank(list, x) < Cardinality(list)
<1>1. PICK newer : newer = {z \in list : z > x}
  OBVIOUS
<1>2. IsFiniteSet(newer) /\ x \notin newer /\ Rank(list, x) = Cardinality(newer) /\ Cardinality(newer) \in Nat
  <2>1. IsFiniteSet(newer) /\ Rank(list, x) = Cardinality(newer) /\ Cardinality(newer) \in Nat
    BY <1>1, RankType DEF Rank
  <2> QED BY <1>1, <2>1
<1>3. newer \cup {x} \subseteq list
  BY <1>1
<1>4. Cardinality(newer \cup {x}) = Cardinality(newer) + 1
  BY <1>2, FS_AddElement
<1>5. Cardinality(newer \cup {x}) <= Cardinality(list) /\ Cardinality(list) \in Nat
  BY <1>3, FS_Subset, FS_CardinalityType
<1> QED BY <1>2, <1>4, <1>5

\* A row that is recorded pushes those before it, by one.
LEMMA RankAfterRecord ==
  ASSUME NEW list \in SUBSET Nat, IsFiniteSet(list), NEW t \in Nat, t \notin list, NEW x \in Nat
  PROVE  Rank(list \cup {t}, x) = IF x < t THEN Rank(list, x) + 1 ELSE Rank(list, x)
<1>1. PICK newer : newer = {z \in list : z > x}
  OBVIOUS
<1>2. IsFiniteSet(newer) /\ t \notin newer /\ Rank(list, x) = Cardinality(newer)
  BY <1>1, RankType DEF Rank
<1>3. CASE x < t
  <2>1. {z \in list \cup {t} : z > x} = newer \cup {t}
    BY <1>1, <1>3
  <2>2. Cardinality(newer \cup {t}) = Cardinality(newer) + 1
    BY <1>2, FS_AddElement
  <2> QED BY <1>2, <1>3, <2>1, <2>2 DEF Rank
<1>4. CASE ~(x < t)
  <2>1. {z \in list \cup {t} : z > x} = newer
    BY <1>1, <1>4
  <2> QED BY <1>2, <1>4, <2>1 DEF Rank
<1> QED BY <1>3, <1>4

\* No row moves back when others go.
LEMMA RankAfterForget ==
  ASSUME NEW list, IsFiniteSet(list), NEW gone, NEW x
  PROVE  Rank(list \ gone, x) <= Rank(list, x) /\ Rank(list \ gone, x) \in Nat /\ Rank(list, x) \in Nat
<1>1. PICK newer, left : newer = {z \in list : z > x} /\ left = {z \in list \ gone : z > x}
  OBVIOUS
<1>2. left \subseteq newer /\ IsFiniteSet(newer) /\ IsFiniteSet(list \ gone)
  BY <1>1, RankType, FS_Subset
<1>3. Cardinality(left) <= Cardinality(newer) /\ Cardinality(left) \in Nat /\ Cardinality(newer) \in Nat
  BY <1>2, FS_Subset, FS_CardinalityType
<1> QED BY <1>1, <1>3 DEF Rank

-----------------------------------------------------------------------------
(* Pages *)

LEMMA PageLines ==
  ASSUME NEW page \in Nat \ {0}
  PROVE  /\ (page - 1) * HISTORY_PAGE_SIZE \in Nat /\ page * HISTORY_PAGE_SIZE \in Nat
         /\ page * HISTORY_PAGE_SIZE = (page - 1) * HISTORY_PAGE_SIZE + HISTORY_PAGE_SIZE
         /\ (page + 1 - 1) * HISTORY_PAGE_SIZE = page * HISTORY_PAGE_SIZE
<1>1. HISTORY_PAGE_SIZE \in Nat
  BY HistoryAssumption
<1> QED BY <1>1

LEMMA Quotients ==
  ASSUME NEW n \in Nat, NEW d \in Nat \ {0}
  PROVE  (n \div d) \in Nat /\ d * (n \div d) <= n /\ n < d * (n \div d) + d
  OBVIOUS

\* The pages hold all rows; fewer pages do only if they are of fewer rows.
LEMMA PagesHoldRows ==
  ASSUME NEW list, IsFiniteSet(list), NEW page \in Nat, PagesOf(list) <= page
  PROVE  PagesOf(list) \in Nat /\ Cardinality(list) <= page * HISTORY_PAGE_SIZE
<1>1. PICK n, d, q : n = Cardinality(list) /\ d = HISTORY_PAGE_SIZE /\ q = (n + d - 1) \div d
  OBVIOUS
<1>2. n \in Nat /\ d \in Nat \ {0} /\ n + d - 1 \in Nat /\ PagesOf(list) = q
  BY <1>1, FS_CardinalityType, HistoryAssumption DEF PagesOf
<1>3. q \in Nat /\ n + d - 1 < d * q + d
  BY <1>1, <1>2, Quotients
<1>4. n <= d * q
  <2>1. d * q \in Int
    BY <1>2, <1>3
  <2> QED BY <1>2, <1>3, <2>1
<1>5. d * q <= d * page
  <2>1. PICK k \in Nat : page = q + k
    <3>1. page - q \in Nat /\ page = q + (page - q)
      BY <1>2, <1>3
    <3> QED BY <3>1
  <2>2. d * page = d * q + d * k /\ d * k \in Nat /\ d * q \in Nat
    BY <1>2, <1>3, <2>1
  <2> QED BY <2>2
<1>6. page * d = d * page /\ d * q \in Nat /\ d * page \in Nat
  BY <1>2, <1>3
<1> QED BY <1>1, <1>2, <1>3, <1>4, <1>5, <1>6

-----------------------------------------------------------------------------
(* A history that is collected *)

Items == [page : Nat, row : Nat]
Collections ==
  [pc : {"page", "shown"}, source : Sources, start : Int, end : Int, page : Nat \ {0}, totalPages : Nat,
   items : SUBSET Items, pending : SUBSET {"items", "total"}, last : SUBSET Nat, seen : Nat,
   there : SUBSET Nat, added : Nat, lowered : Nat, behind : BOOLEAN, cut : BOOLEAN]

RowsOf(items) == {item.row : item \in items}

\* Rows that were read, and have been pushed over the line: they will be read again.
Beyond(items, list, line) == {t \in RowsOf(items) \cap list : Rank(list, t) >= line}

\* What was there all the time was read, moved up before the line (missed), or is yet
\* to come; at the end of the list, or of the pages, nothing is yet to come.
Covered(r, list, missed) ==
  /\ r.there \subseteq list
  /\ \A t \in r.there : t >= r.start /\ (t \in RowsOf(r.items) \cup missed \/ Rank(list, t) >= Line(r))
  /\ "items" \notin r.pending /\ (r.last = {} \/ \E t \in r.last : t < r.start)
       => r.there \subseteq RowsOf(r.items) \cup missed
  /\ "total" \notin r.pending => \A page \in Nat : r.totalPages <= page => r.seen <= page * HISTORY_PAGE_SIZE
  /\ r.pending = {} /\ r.totalPages <= r.page => r.there \subseteq RowsOf(r.items) \cup missed \/ r.behind

\* As many moved up as were deleted before them, or fewer.
Lowered(r, missed) == IsFiniteSet(missed) /\ Cardinality(missed) <= r.lowered

\* What was read twice, and what will be, was pushed by as many rows.
Repeats(r, list) ==
  /\ IsFiniteSet(r.items)
  /\ \A item \in r.items : item.page <= r.page /\ (item.page = r.page => "items" \notin r.pending)
  /\ Cardinality(r.items) + Cardinality(Beyond(r.items, list, Line(r))) <= Cardinality(RowsOf(r.items)) + r.added

OfRange(r) == r.source = "incidents" => \A item \in r.items : item.row >= r.start

PageInv(r, list, missed) ==
  /\ r \in Collections /\ r.pc = "page" /\ r.page <= HISTORY_MAX_PAGES
  /\ Covered(r, list, missed) /\ Lowered(r, missed) /\ Repeats(r, list) /\ OfRange(r)

ShownInv(r) ==
  /\ r \in Collections /\ r.pc = "shown"
  /\ Cardinality(r.there \ RowsOf(r.items)) <= r.lowered \/ r.cut \/ r.behind
  /\ \A t \in RowsOf(r.items) : t >= r.start
  /\ Cardinality(r.items) - Cardinality(RowsOf(r.items)) <= r.added

\* Rows are as many as the pages and times they were read at, or fewer.
LEMMA ItemRows ==
  ASSUME NEW items, IsFiniteSet(items)
  PROVE  /\ IsFiniteSet(RowsOf(items)) /\ Cardinality(RowsOf(items)) <= Cardinality(items)
         /\ Cardinality(items) \in Nat /\ Cardinality(RowsOf(items)) \in Nat
<1>1. PICK f : f = [item \in items |-> item.row]
  OBVIOUS
<1>2. f \in Surjection(items, RowsOf(items))
  BY <1>1 DEF Surjection, RowsOf
<1>3. IsFiniteSet(RowsOf(items)) /\ Cardinality(RowsOf(items)) <= Cardinality(items)
  BY <1>2, FS_Surjection
<1> QED BY <1>3, FS_CardinalityType

LEMMA BeyondType ==
  ASSUME NEW items, IsFiniteSet(items), NEW list, NEW line
  PROVE  /\ IsFiniteSet(Beyond(items, list, line)) /\ Cardinality(Beyond(items, list, line)) \in Nat
         /\ Beyond(items, list, line) \subseteq RowsOf(items) /\ Beyond(items, list, line) \subseteq list
<1>1. Beyond(items, list, line) \subseteq RowsOf(items) /\ Beyond(items, list, line) \subseteq list
  BY DEF Beyond
<1>2. IsFiniteSet(Beyond(items, list, line))
  BY <1>1, ItemRows, FS_Subset
<1> QED BY <1>1, <1>2, FS_CardinalityType

LEMMA DisjointUnion ==
  ASSUME NEW S, NEW T, IsFiniteSet(S), IsFiniteSet(T), S \cap T = {}
  PROVE  /\ IsFiniteSet(S \cup T) /\ Cardinality(S \cup T) = Cardinality(S) + Cardinality(T)
         /\ Cardinality(S) \in Nat /\ Cardinality(T) \in Nat
<1>1. Cardinality(S \cup T) = Cardinality(S) + Cardinality(T) - Cardinality(S \cap T) /\ IsFiniteSet(S \cup T)
  BY FS_Union
<1>2. Cardinality(S \cap T) = 0 /\ Cardinality(S) \in Nat /\ Cardinality(T) \in Nat
  BY FS_EmptySet, FS_CardinalityType
<1> QED BY <1>1, <1>2

\* The items of a page.
LEMMA PageItems ==
  ASSUME NEW page \in Nat \ {0}, NEW last \in SUBSET Nat, IsFiniteSet(last)
  PROVE  LET new == [page : {page}, row : last] IN
         /\ new \subseteq Items /\ IsFiniteSet(new) /\ Cardinality(new) = Cardinality(last) /\ RowsOf(new) = last
         /\ \A item \in new : item.page = page
<1>1. PICK new : new = [page : {page}, row : last]
  OBVIOUS
<1>2. PICK f : f = [t \in last |-> [page |-> page, row |-> t]]
  OBVIOUS
<1>3. f \in Bijection(last, new)
  <2>1. f \in [last -> new]
    BY <1>1, <1>2
  <2>2. \A s, t \in last : f[s] = f[t] => s = t
    <3>1. \A t \in last : f[t].row = t
      BY <1>2
    <3> QED BY <3>1
  <2>3. \A item \in new : \E t \in last : f[t] = item
    <3>1. ASSUME NEW item \in new
          PROVE  item.row \in last /\ f[item.row] = item
      BY <1>1, <1>2
    <3> QED BY <3>1
  <2> QED BY <2>1, <2>2, <2>3 DEF Bijection, Injection, IsInjective, Surjection
<1>4. IsFiniteSet(new) /\ Cardinality(new) = Cardinality(last)
  <2>1. ExistsBijection(last, new)
    BY <1>3 DEF ExistsBijection
  <2> QED BY <2>1, FS_Bijection
<1>5. new \subseteq Items /\ \A item \in new : item.page = page /\ item.row \in last
  BY <1>1 DEF Items
<1>6. RowsOf(new) = last
  <2>1. \A t \in last : [page |-> page, row |-> t] \in new /\ [page |-> page, row |-> t].row = t
    BY <1>1
  <2> QED BY <1>5, <2>1 DEF RowsOf
<1> QED BY <1>1, <1>4, <1>5, <1>6


-----------------------------------------------------------------------------
(* The steps of a collection *)

\* The smallest of a set of numbers.
LEMMA LeastNumber ==
  ASSUME NEW T \in SUBSET Nat, T # {}
  PROVE  \E x \in T : \A y \in T : x <= y
<1>1. PICK x \in T : \A y \in T : ~(<<y, x>> \in OpToRel(<, Nat))
  BY NatLessThanWellFounded, WFMin
<1>2. \A y \in T : ~(y < x)
  BY <1>1 DEF OpToRel
<1> QED BY <1>2

\* No rank is left out: an empty page is beyond the end of the list.
LEMMA RanksFollow ==
  ASSUME NEW list \in SUBSET Nat, IsFiniteSet(list), NEW line \in Nat, NEW x \in list, Rank(list, x) >= line
  PROVE  \E y \in list : Rank(list, y) = line
<1>1. PICK T : T = {k \in Nat : k >= line /\ \E y \in list : Rank(list, y) = k}
  OBVIOUS
<1>2. T \subseteq Nat /\ T # {}
  BY <1>1, RankType
<1>3. PICK k \in T : \A j \in T : k <= j
  BY <1>2, LeastNumber
<1>4. PICK y \in list : Rank(list, y) = k
  BY <1>1, <1>3
<1>5. SUFFICES ASSUME k > line PROVE FALSE
  BY <1>1, <1>3, <1>4
<1>6. PICK newer : newer = {z \in list : z > y}
  OBVIOUS
<1>7. newer # {} /\ newer \subseteq Nat /\ IsFiniteSet(newer)
  <2>1. Cardinality(newer) = k /\ IsFiniteSet(newer) /\ k # 0
    <3>1. Cardinality(newer) = k /\ IsFiniteSet(newer)
      BY <1>4, <1>6, RankType DEF Rank
    <3> QED BY <1>5, <3>1
  <2>2. newer # {}
    BY <2>1, FS_EmptySet
  <2> QED BY <1>6, <2>1, <2>2
<1>8. PICK z \in newer : \A w \in newer : z <= w
  BY <1>7, LeastNumber
<1>9. PICK least : least = {w \in list : w > z}
  OBVIOUS
<1>10. newer = least \cup {z} /\ z \notin least
  <2>1. z > y /\ z \in list /\ \A w \in list : w > z => w > y
    BY <1>6, <1>8
  <2>2. \A w \in newer : w = z \/ w > z
    BY <1>6, <1>8
  <2>3. z \notin least /\ least \subseteq newer
    <3>1. ~(z > z)
      BY <2>1
    <3>2. \A w \in least : w \in list /\ w > y
      BY <1>9, <2>1
    <3> QED BY <1>6, <1>9, <3>1, <3>2
  <2>4. \A w \in newer : w = z \/ w \in least
    BY <1>6, <1>9, <2>2
  <2> QED BY <1>8, <2>3, <2>4
<1>11. Cardinality(newer) = Cardinality(least) + 1 /\ Cardinality(least) \in Nat
  <2>1. IsFiniteSet(least)
    BY <1>7, <1>10, FS_Subset
  <2> QED BY <1>10, <2>1, FS_AddElement, FS_CardinalityType
<1>12. Rank(list, z) = k - 1 /\ z \in list
  BY <1>4, <1>6, <1>8, <1>9, <1>11 DEF Rank
<1>13. k - 1 \in T
  BY <1>1, <1>3, <1>5, <1>12
<1> QED BY <1>1, <1>3, <1>13

LEMMA LineType ==
  ASSUME NEW r, r.page \in Nat \ {0}
  PROVE  Line(r) \in Nat
<1>1. (r.page - 1) * HISTORY_PAGE_SIZE \in Nat /\ r.page * HISTORY_PAGE_SIZE \in Nat
  BY PageLines
<1> QED BY <1>1 DEF Line

\* The rows of a page are those between its lines.
LEMMA SliceRows ==
  ASSUME NEW list \in SUBSET Nat, IsFiniteSet(list), NEW page \in Nat \ {0}
  PROVE  /\ Slice(list, page) \in SUBSET Nat /\ IsFiniteSet(Slice(list, page)) /\ Slice(list, page) \subseteq list
         /\ \A t \in list : Rank(list, t) >= (page - 1) * HISTORY_PAGE_SIZE
              => t \in Slice(list, page) \/ Rank(list, t) >= page * HISTORY_PAGE_SIZE
         /\ \A t \in Slice(list, page) : /\ Rank(list, t) >= (page - 1) * HISTORY_PAGE_SIZE
                                         /\ Rank(list, t) < page * HISTORY_PAGE_SIZE
<1>1. Slice(list, page) \subseteq list
  BY DEF Slice
<1>2. IsFiniteSet(Slice(list, page))
  BY <1>1, FS_Subset
<1>3. \A t \in list : Rank(list, t) \in Nat
  BY RankType
<1>4. PICK from, to : from = (page - 1) * HISTORY_PAGE_SIZE /\ to = page * HISTORY_PAGE_SIZE
  OBVIOUS
<1>5. from \in Nat /\ to \in Nat
  BY <1>4, PageLines
<1>6. Slice(list, page) = {t \in list : from <= Rank(list, t) /\ Rank(list, t) < to}
  BY <1>4 DEF Slice
<1>7. \A t \in list : Rank(list, t) >= from => t \in Slice(list, page) \/ Rank(list, t) >= to
  BY <1>3, <1>5, <1>6
<1>8. \A t \in Slice(list, page) : Rank(list, t) >= from /\ Rank(list, t) < to
  BY <1>3, <1>5, <1>6
<1> QED BY <1>1, <1>2, <1>4, <1>7, <1>8

WithPage(items, page, last) == items \cup [page : {page}, row : last]

\* Reading a page: the rows that were waiting beyond the line are read again.
LEMMA RepeatsAfterRead ==
  ASSUME NEW list \in SUBSET Nat, IsFiniteSet(list), NEW page \in Nat \ {0}, NEW items \in SUBSET Items,
         IsFiniteSet(items), \A item \in items : item.page < page, NEW added \in Nat,
         Cardinality(items) + Cardinality(Beyond(items, list, (page - 1) * HISTORY_PAGE_SIZE))
           <= Cardinality(RowsOf(items)) + added,
         NEW all, all = WithPage(items, page, Slice(list, page))
  PROVE  /\ all \in SUBSET Items /\ IsFiniteSet(all) /\ RowsOf(all) = RowsOf(items) \cup Slice(list, page)
         /\ \A item \in all : item.page <= page
         /\ Cardinality(all) + Cardinality(Beyond(all, list, page * HISTORY_PAGE_SIZE))
              <= Cardinality(RowsOf(all)) + added
<1>1. PICK last, new, here : /\ last = Slice(list, page) /\ new = [page : {page}, row : last]
                             /\ here = Beyond(items, list, (page - 1) * HISTORY_PAGE_SIZE)
  OBVIOUS
<1>2. PICK next : next = Beyond(items, list, page * HISTORY_PAGE_SIZE)
  OBVIOUS
<1>3. last \in SUBSET Nat /\ IsFiniteSet(last) /\ last \subseteq list
  BY <1>1, SliceRows
<1>4. /\ new \subseteq Items /\ IsFiniteSet(new) /\ Cardinality(new) = Cardinality(last) /\ RowsOf(new) = last
      /\ \A item \in new : item.page = page
  BY <1>1, <1>3, PageItems
<1>5. all = items \cup new /\ RowsOf(all) = RowsOf(items) \cup last
  BY <1>1, <1>4 DEF RowsOf, WithPage
<1>6. items \cap new = {}
  BY <1>4
<1>7. /\ IsFiniteSet(all) /\ Cardinality(all) = Cardinality(items) + Cardinality(last)
      /\ Cardinality(items) \in Nat /\ Cardinality(last) \in Nat
  <2>1. IsFiniteSet(items \cup new) /\ Cardinality(items \cup new) = Cardinality(items) + Cardinality(new)
    BY <1>4, <1>6, DisjointUnion
  <2> QED BY <1>3, <1>4, <1>5, <2>1, FS_CardinalityType
<1>8. here = (RowsOf(items) \cap last) \cup next /\ (RowsOf(items) \cap last) \cap next = {}
  <2>1. \A t \in list : Rank(list, t) \in Nat
    BY RankType
  <2>2. PICK from, to : from = (page - 1) * HISTORY_PAGE_SIZE /\ to = page * HISTORY_PAGE_SIZE
    OBVIOUS
  <2>3. from \in Nat /\ to \in Nat /\ from <= to
    BY <2>2, PageLines, HistoryAssumption
  <2>4. here = {t \in RowsOf(items) \cap list : Rank(list, t) >= from}
    BY <1>1, <2>2 DEF Beyond
  <2>5. next = {t \in RowsOf(items) \cap list : Rank(list, t) >= to}
    BY <1>2, <2>2 DEF Beyond
  <2>6. last = {t \in list : from <= Rank(list, t) /\ Rank(list, t) < to}
    BY <1>1, <2>2 DEF Slice
  <2>7. \A t \in list : Rank(list, t) >= from <=> (from <= Rank(list, t) /\ Rank(list, t) < to) \/ Rank(list, t) >= to
    BY <2>1, <2>3
  <2>8. \A t \in list : ~(Rank(list, t) < to /\ Rank(list, t) >= to)
    BY <2>1, <2>3
  <2>9. (RowsOf(items) \cap last) \cap next = {}
    BY <2>5, <2>6, <2>8
  <2> QED BY <2>4, <2>5, <2>6, <2>7, <2>9
<1>9. Beyond(all, list, page * HISTORY_PAGE_SIZE) = next
  <2>1. \A t \in last : Rank(list, t) < page * HISTORY_PAGE_SIZE /\ Rank(list, t) \in Nat
    BY <1>1, <1>3, SliceRows, RankType
  <2>2. page * HISTORY_PAGE_SIZE \in Nat
    BY PageLines
  <2>3. \A t \in last : ~(Rank(list, t) >= page * HISTORY_PAGE_SIZE)
    BY <2>1, <2>2
  <2> QED BY <1>2, <1>5, <2>3 DEF Beyond
<1>10. /\ IsFiniteSet(RowsOf(items)) /\ Cardinality(RowsOf(items)) \in Nat
  BY ItemRows
<1>11. /\ Cardinality(here) = Cardinality(RowsOf(items) \cap last) + Cardinality(next)
       /\ Cardinality(RowsOf(items) \cap last) \in Nat /\ Cardinality(next) \in Nat
  <2>1. IsFiniteSet(RowsOf(items) \cap last) /\ IsFiniteSet(next)
    BY <1>2, <1>10, BeyondType, FS_Subset
  <2> QED BY <1>8, <2>1, DisjointUnion
<1>12. Cardinality(RowsOf(all)) = Cardinality(RowsOf(items)) + Cardinality(last) - Cardinality(RowsOf(items) \cap last)
  BY <1>3, <1>5, <1>10, FS_Union
<1>13. Cardinality(all) + Cardinality(next) <= Cardinality(RowsOf(all)) + added
  BY <1>1, <1>7, <1>10, <1>11, <1>12
<1>14. \A item \in all : item.page <= page
  BY <1>4, <1>5 DEF Items
<1> QED BY <1>1, <1>4, <1>5, <1>7, <1>9, <1>13, <1>14

LEMMA PageAfterItems ==
  ASSUME NEW r, NEW list \in SUBSET Nat, IsFiniteSet(list), NEW missed, PageInv(r, list, missed), "items" \in r.pending,
         r.source = "incidents" => \A t \in list : t >= r.start,
         NEW s, s = [r EXCEPT !.pending = @ \ {"items"}, !.last = Slice(list, r.page),
                              !.items = @ \cup [page : {r.page}, row : Slice(list, r.page)],
                              !.behind = @ \/ ("total" \notin r.pending /\ Cardinality(list) > r.seen)]
  PROVE  PageInv(s, list, missed)
<1>1. PICK last, all : last = Slice(list, r.page) /\ all = r.items \cup [page : {r.page}, row : last]
  OBVIOUS
<1>2. r \in Collections /\ r.page \in Nat \ {0} /\ r.items \in SUBSET Items /\ r.added \in Nat /\ r.start \in Int
  BY DEF PageInv, Collections
<1>3. /\ s.pc = r.pc /\ s.source = r.source /\ s.start = r.start /\ s.page = r.page /\ s.totalPages = r.totalPages
      /\ s.items = all /\ s.pending = r.pending \ {"items"} /\ s.last = last /\ s.seen = r.seen
      /\ s.there = r.there /\ s.added = r.added /\ s.lowered = r.lowered
      /\ s.behind = (r.behind \/ ("total" \notin r.pending /\ Cardinality(list) > r.seen))
  BY <1>1, <1>2 DEF Collections
<1>4. /\ last \in SUBSET Nat /\ last \subseteq list
      /\ \A t \in list : Rank(list, t) >= (r.page - 1) * HISTORY_PAGE_SIZE
            => t \in last \/ Rank(list, t) >= r.page * HISTORY_PAGE_SIZE
      /\ \A t \in last : Rank(list, t) < r.page * HISTORY_PAGE_SIZE
  BY <1>1, <1>2, SliceRows
<1>5. Line(r) = (r.page - 1) * HISTORY_PAGE_SIZE /\ Line(s) = r.page * HISTORY_PAGE_SIZE
  BY <1>3 DEF Line
<1>6. /\ all \in SUBSET Items /\ IsFiniteSet(all) /\ RowsOf(all) = RowsOf(r.items) \cup last
      /\ \A item \in all : item.page <= r.page
      /\ Cardinality(all) + Cardinality(Beyond(all, list, Line(s))) <= Cardinality(RowsOf(all)) + r.added
  <2>1. IsFiniteSet(r.items) /\ \A item \in r.items : item.page < r.page
    <3>1. IsFiniteSet(r.items) /\ \A item \in r.items : item.page <= r.page /\ item.page # r.page /\ item.page \in Nat
      BY <1>2 DEF PageInv, Repeats, Items
    <3> QED BY <1>2, <3>1
  <2>2. Cardinality(r.items) + Cardinality(Beyond(r.items, list, (r.page - 1) * HISTORY_PAGE_SIZE))
          <= Cardinality(RowsOf(r.items)) + r.added
    BY <1>5 DEF PageInv, Repeats
  <2>3. PICK page, items, added : page = r.page /\ items = r.items /\ added = r.added
    OBVIOUS
  <2>4. page \in Nat \ {0} /\ items \in SUBSET Items /\ added \in Nat /\ IsFiniteSet(items)
    BY <1>2, <2>1, <2>3
  <2>5. \A item \in items : item.page < page
    BY <2>1, <2>3
  <2>6. Cardinality(items) + Cardinality(Beyond(items, list, (page - 1) * HISTORY_PAGE_SIZE))
          <= Cardinality(RowsOf(items)) + added
    BY <2>2, <2>3
  <2>7. all = WithPage(items, page, Slice(list, page))
    BY <1>1, <2>3 DEF WithPage
  <2>8. /\ all \in SUBSET Items /\ IsFiniteSet(all) /\ RowsOf(all) = RowsOf(items) \cup Slice(list, page)
        /\ \A item \in all : item.page <= page
        /\ Cardinality(all) + Cardinality(Beyond(all, list, page * HISTORY_PAGE_SIZE)) <= Cardinality(RowsOf(all)) + added
    BY <2>4, <2>5, <2>6, <2>7, RepeatsAfterRead
  <2> QED BY <1>1, <1>5, <2>3, <2>8
<1>7. s \in Collections
  <2>1. s.behind \in BOOLEAN
    BY <1>2, <1>3 DEF Collections
  <2>2. s = [r EXCEPT !.pending = s.pending, !.last = s.last, !.items = s.items, !.behind = s.behind]
    BY <1>1, <1>2, <1>3 DEF Collections
  <2>3. s.pending \in SUBSET {"items", "total"} /\ s.last \in SUBSET Nat /\ s.items \in SUBSET Items
    BY <1>2, <1>3, <1>4, <1>6 DEF Collections
  <2> QED BY <1>2, <2>1, <2>2, <2>3 DEF Collections
<1>8. r.there \subseteq list /\ \A t \in r.there : t >= r.start /\ (t \in RowsOf(all) \cup missed \/ Rank(list, t) >= Line(s))
  BY <1>4, <1>5, <1>6 DEF PageInv, Covered
<1>9. last = {} \/ (\E t \in last : t < r.start) => r.there \subseteq RowsOf(all) \cup missed
  <2>1. CASE last = {}
    <3>1. ASSUME NEW t \in r.there, Rank(list, t) >= Line(s)
          PROVE  FALSE
      <4>1. Line(r) \in Nat /\ Line(s) \in Nat /\ Line(r) < Line(s)
        BY <1>2, <1>5, PageLines, HistoryAssumption
      <4>2. Rank(list, t) >= Line(r) /\ t \in list
        <5>1. t \in list /\ Rank(list, t) \in Nat
          BY <1>8, <3>1, RankType
        <5> QED BY <3>1, <4>1, <5>1
      <4>3. PICK y \in list : Rank(list, y) = Line(r)
        BY <4>1, <4>2, RanksFollow
      <4>4. y \in last \/ Line(r) >= Line(s)
        BY <1>4, <1>5, <4>1, <4>3
      <4> QED BY <2>1, <4>1, <4>4
    <3> QED BY <1>8, <3>1
  <2>2. ASSUME NEW t \in last, t < r.start
        PROVE  r.there \subseteq RowsOf(all) \cup missed
    <3>1. ASSUME NEW x \in r.there
          PROVE  ~(Rank(list, x) >= Line(s))
      <4>1. x \in list /\ t \in list /\ t < x
        BY <1>2, <1>4, <1>8, <2>2
      <4>2. Rank(list, x) < Rank(list, t) /\ Rank(list, t) < Line(s)
        BY <1>4, <1>5, <4>1, RankOrder
      <4>3. Rank(list, x) \in Nat /\ Rank(list, t) \in Nat /\ Line(s) \in Nat
        BY <1>2, <1>5, PageLines, RankType
      <4> QED BY <4>2, <4>3
    <3> QED BY <1>8, <3>1
  <2> QED BY <2>1, <2>2
<1>10. s.pending = {} /\ s.totalPages <= s.page => s.there \subseteq RowsOf(all) \cup missed \/ s.behind
  <2>1. SUFFICES ASSUME s.pending = {}, r.totalPages <= r.page, ~s.behind PROVE r.there \subseteq RowsOf(all) \cup missed
    BY <1>3
  <2>2. "total" \notin r.pending
    BY <1>3, <2>1
  <2>3. r.seen <= Line(s) /\ ~(Cardinality(list) > r.seen)
    BY <1>2, <1>3, <1>5, <2>1, <2>2 DEF PageInv, Covered
  <2>4. Cardinality(list) <= Line(s) /\ Cardinality(list) \in Nat /\ Line(s) \in Nat
    <3>1. Cardinality(list) \in Nat /\ r.seen \in Nat /\ Line(s) \in Nat
      BY <1>2, <1>5, FS_CardinalityType, PageLines DEF Collections
    <3> QED BY <2>3, <3>1
  <2>5. \A t \in list : Rank(list, t) < Cardinality(list) /\ Rank(list, t) \in Nat
    BY RankBound, RankType
  <2> QED BY <1>8, <2>4, <2>5
<1>11. Covered(s, list, missed)
  <2>1. "total" \notin s.pending => \A page \in Nat : s.totalPages <= page => s.seen <= page * HISTORY_PAGE_SIZE
    BY <1>3 DEF PageInv, Covered
  <2> QED BY <1>3, <1>8, <1>9, <1>10, <2>1 DEF Covered
<1>12. Repeats(s, list)
  BY <1>3, <1>6 DEF Repeats
<1>13. OfRange(s)
  <2>1. SUFFICES ASSUME r.source = "incidents", NEW item \in all PROVE item.row >= r.start
    BY <1>3 DEF OfRange
  <2>2. CASE item \in r.items
    BY <2>1, <2>2 DEF PageInv, OfRange
  <2>3. CASE item \in [page : {r.page}, row : last]
    BY <1>4, <2>1, <2>3
  <2> QED BY <1>1, <2>2, <2>3
<1>14. Lowered(s, missed)
  BY <1>3 DEF PageInv, Lowered
<1> QED BY <1>3, <1>7, <1>11, <1>12, <1>13, <1>14 DEF PageInv

LEMMA PageAfterTotal ==
  ASSUME NEW r, NEW list \in SUBSET Nat, IsFiniteSet(list), NEW missed, PageInv(r, list, missed), "total" \in r.pending,
         NEW s, s = [r EXCEPT !.pending = @ \ {"total"}, !.totalPages = PagesOf(list), !.seen = Cardinality(list)]
  PROVE  PageInv(s, list, missed)
<1>1. r \in Collections /\ r.page \in Nat \ {0}
  BY DEF PageInv, Collections
<1>2. /\ s.pc = r.pc /\ s.source = r.source /\ s.start = r.start /\ s.page = r.page /\ s.items = r.items
      /\ s.pending = r.pending \ {"total"} /\ s.last = r.last /\ s.there = r.there /\ s.added = r.added
      /\ s.lowered = r.lowered
      /\ s.behind = r.behind /\ s.totalPages = PagesOf(list) /\ s.seen = Cardinality(list)
  BY <1>1 DEF Collections
<1>3. PagesOf(list) \in Nat /\ Cardinality(list) \in Nat
  <2>1. PICK n, d : n = Cardinality(list) /\ d = HISTORY_PAGE_SIZE
    OBVIOUS
  <2>2. n \in Nat /\ d \in Nat \ {0} /\ n + d - 1 \in Nat
    BY <2>1, FS_CardinalityType, HistoryAssumption
  <2>3. ((n + d - 1) \div d) \in Nat
    BY <2>2, Quotients
  <2> QED BY <2>1, <2>2, <2>3 DEF PagesOf
<1>4. s \in Collections
  BY <1>1, <1>2, <1>3 DEF Collections
<1>5. Line(s) = Line(r)
  BY <1>2 DEF Line
<1>6. \A page \in Nat : s.totalPages <= page => s.seen <= page * HISTORY_PAGE_SIZE
  BY <1>2, PagesHoldRows
<1>7. s.pending = {} /\ s.totalPages <= s.page => s.there \subseteq RowsOf(s.items) \cup missed
  <2>1. SUFFICES ASSUME s.pending = {}, s.totalPages <= s.page, NEW t \in r.there PROVE t \in RowsOf(r.items) \cup missed
    BY <1>2
  <2>2. Line(r) = r.page * HISTORY_PAGE_SIZE /\ Line(r) \in Nat
    <3>1. "items" \notin r.pending
      BY <1>2, <2>1
    <3> QED BY <1>1, <3>1, PageLines DEF Line
  <2>3. Cardinality(list) <= Line(r)
    BY <1>1, <1>2, <1>6, <2>1, <2>2
  <2>4. t \in list /\ (t \in RowsOf(r.items) \cup missed \/ Rank(list, t) >= Line(r))
    BY DEF PageInv, Covered
  <2>5. Rank(list, t) < Cardinality(list) /\ Rank(list, t) \in Nat
    BY <2>4, RankBound, RankType
  <2> QED BY <1>3, <2>2, <2>3, <2>4, <2>5
<1>8. Covered(s, list, missed)
  BY <1>2, <1>5, <1>6, <1>7 DEF PageInv, Covered
<1>9. Repeats(s, list) /\ OfRange(s) /\ Lowered(s, missed)
  BY <1>2, <1>5 DEF PageInv, Repeats, OfRange, Lowered
<1> QED BY <1>2, <1>4, <1>8, <1>9 DEF PageInv

LEMMA PageAfterNext ==
  ASSUME NEW r, NEW list \in SUBSET Nat, IsFiniteSet(list), NEW missed, PageInv(r, list, missed), r.pending = {},
         r.page < HISTORY_MAX_PAGES,
         NEW s, s = [r EXCEPT !.page = @ + 1, !.pending = {"items", "total"}]
  PROVE  PageInv(s, list, missed)
<1>1. r \in Collections /\ r.page \in Nat \ {0}
  BY DEF PageInv, Collections
<1>2. /\ s.pc = r.pc /\ s.source = r.source /\ s.start = r.start /\ s.page = r.page + 1 /\ s.items = r.items
      /\ s.pending = {"items", "total"} /\ s.last = r.last /\ s.there = r.there /\ s.added = r.added
      /\ s.behind = r.behind /\ s.lowered = r.lowered
  BY <1>1 DEF Collections
<1>3. s \in Collections
  <2>1. PICK next : next = r.page + 1
    OBVIOUS
  <2>2. next \in Nat \ {0} /\ s = [r EXCEPT !.page = next, !.pending = {"items", "total"}]
    BY <1>1, <2>1
  <2> QED BY <1>1, <2>2 DEF Collections
<1>4. Line(s) = Line(r)
  <2>1. Line(s) = r.page * HISTORY_PAGE_SIZE
    <3>1. "items" \in s.pending
      BY <1>2
    <3>2. Line(s) = (s.page - 1) * HISTORY_PAGE_SIZE
      BY <3>1 DEF Line
    <3>3. s.page - 1 = r.page
      BY <1>1, <1>2
    <3> QED BY <3>2, <3>3
  <2>2. Line(r) = r.page * HISTORY_PAGE_SIZE
    BY DEF Line
  <2> QED BY <2>1, <2>2
<1>5. Covered(s, list, missed)
  BY <1>2, <1>4 DEF PageInv, Covered
<1>6. \A item \in s.items : item.page <= s.page /\ item.page # s.page
  BY <1>1, <1>2 DEF PageInv, Repeats, Collections, Items
<1>7. Repeats(s, list) /\ OfRange(s) /\ Lowered(s, missed)
  BY <1>2, <1>4, <1>6 DEF PageInv, Repeats, OfRange, Lowered
<1>8. s.page <= HISTORY_MAX_PAGES
  BY <1>1, <1>2, HistoryAssumption
<1> QED BY <1>2, <1>3, <1>5, <1>7, <1>8 DEF PageInv

\* Leaving out what is older than the range leaves out no fewer items than rows.
LEMMA PageShown ==
  ASSUME NEW r, NEW list \in SUBSET Nat, IsFiniteSet(list), NEW missed, PageInv(r, list, missed), r.pending = {},
         NEW more \in BOOLEAN,
         more \/ (r.last = {} \/ \E t \in r.last : t < r.start) \/ ~(r.page < r.totalPages),
         NEW shown, shown = {item \in r.items : r.source = "incidents" \/ item.row >= r.start},
         NEW s, s = [r EXCEPT !.pc = "shown", !.items = shown, !.cut = more]
  PROVE  ShownInv(s)
<1>1. /\ r \in Collections /\ r.page \in Nat /\ r.totalPages \in Nat /\ r.start \in Int /\ r.added \in Nat
      /\ r.items \in SUBSET Items /\ r.lowered \in Nat
  BY DEF PageInv, Collections
<1>2. /\ s.pc = "shown" /\ s.start = r.start /\ s.items = shown /\ s.there = r.there /\ s.added = r.added
      /\ s.behind = r.behind /\ s.cut = more /\ s.lowered = r.lowered
  BY <1>1 DEF Collections
<1>3. s \in Collections
  BY <1>1 DEF Collections
<1>4. r.there \subseteq RowsOf(r.items) \cup missed \/ more \/ r.behind
  BY <1>1 DEF PageInv, Covered
<1>5. \A t \in r.there : t >= r.start
  BY DEF PageInv, Covered
<1>6. Cardinality(r.there \ RowsOf(shown)) <= r.lowered \/ more \/ r.behind
  <2>1. SUFFICES ASSUME ~more, ~r.behind PROVE Cardinality(r.there \ RowsOf(shown)) <= r.lowered
    OBVIOUS
  <2>2. r.there \ RowsOf(shown) \subseteq missed
    BY <1>4, <1>5, <2>1 DEF RowsOf
  <2>3. IsFiniteSet(missed) /\ Cardinality(missed) <= r.lowered /\ Cardinality(missed) \in Nat
    BY FS_CardinalityType DEF PageInv, Lowered
  <2>4. /\ Cardinality(r.there \ RowsOf(shown)) <= Cardinality(missed)
        /\ Cardinality(r.there \ RowsOf(shown)) \in Nat
    BY <2>2, <2>3, FS_Subset, FS_CardinalityType
  <2> QED BY <1>1, <2>3, <2>4
<1>7. \A t \in RowsOf(shown) : t >= r.start
  BY DEF PageInv, OfRange, RowsOf
<1>8. PICK older : older = r.items \ shown
  OBVIOUS
<1>9. IsFiniteSet(r.items) /\ IsFiniteSet(shown) /\ IsFiniteSet(older)
  <2>1. IsFiniteSet(r.items) /\ shown \subseteq r.items /\ older \subseteq r.items
    BY <1>8 DEF PageInv, Repeats
  <2> QED BY <2>1, FS_Subset
<1>10. Cardinality(r.items) = Cardinality(shown) + Cardinality(older)
  <2>1. r.items = shown \cup older /\ shown \cap older = {}
    BY <1>8
  <2> QED BY <1>9, <2>1, DisjointUnion
<1>11. RowsOf(r.items) = RowsOf(shown) \cup RowsOf(older)
  BY <1>8 DEF RowsOf
<1>12. /\ IsFiniteSet(RowsOf(shown)) /\ Cardinality(RowsOf(shown)) \in Nat /\ Cardinality(shown) \in Nat
       /\ IsFiniteSet(RowsOf(older)) /\ Cardinality(RowsOf(older)) \in Nat /\ Cardinality(older) \in Nat
       /\ Cardinality(RowsOf(older)) <= Cardinality(older)
  BY <1>9, ItemRows
<1>13. Cardinality(RowsOf(r.items)) <= Cardinality(RowsOf(shown)) + Cardinality(RowsOf(older))
  <2>1. /\ Cardinality(RowsOf(r.items)) = Cardinality(RowsOf(shown)) + Cardinality(RowsOf(older))
                                           - Cardinality(RowsOf(shown) \cap RowsOf(older))
        /\ Cardinality(RowsOf(shown) \cap RowsOf(older)) \in Nat
    <3>1. IsFiniteSet(RowsOf(shown) \cap RowsOf(older))
      BY <1>12, FS_Subset
    <3> QED BY <1>11, <1>12, <3>1, FS_Union, FS_CardinalityType
  <2> QED BY <1>12, <2>1
<1>14. Cardinality(r.items) <= Cardinality(RowsOf(r.items)) + r.added
  <2>1. /\ Cardinality(Beyond(r.items, list, Line(r))) \in Nat
        /\ Cardinality(r.items) + Cardinality(Beyond(r.items, list, Line(r))) <= Cardinality(RowsOf(r.items)) + r.added
    BY <1>9, BeyondType DEF PageInv, Repeats
  <2>2. Cardinality(r.items) \in Nat /\ Cardinality(RowsOf(r.items)) \in Nat
    BY <1>9, ItemRows
  <2> QED BY <1>1, <2>1, <2>2
<1>15. Cardinality(RowsOf(r.items)) \in Nat
  BY <1>9, ItemRows
<1>16. Cardinality(shown) - Cardinality(RowsOf(shown)) <= r.added
  BY <1>1, <1>10, <1>12, <1>13, <1>14, <1>15
<1> QED BY <1>2, <1>3, <1>6, <1>7, <1>16 DEF ShownInv

-----------------------------------------------------------------------------
(* Rows come and go meanwhile *)

\* A row that is recorded pushes one row over the line at most.
LEMMA BeyondAfterRecord ==
  ASSUME NEW items \in SUBSET Items, IsFiniteSet(items), NEW list \in SUBSET Nat, IsFiniteSet(list),
         NEW line \in Nat, NEW t \in Nat, t \notin list
  PROVE  Cardinality(Beyond(items, list \cup {t}, line)) <= Cardinality(Beyond(items, list, line)) + 1
<1>1. PICK before, after, more : /\ before = Beyond(items, list, line) /\ more = list \cup {t}
                                 /\ after = Beyond(items, more, line)
  OBVIOUS
<1>2. /\ \A x \in list : Rank(more, x) = IF x < t THEN Rank(list, x) + 1 ELSE Rank(list, x)
      /\ \A x \in list : Rank(list, x) \in Nat
      /\ more \in SUBSET Nat /\ IsFiniteSet(more)
  BY <1>1, RankAfterRecord, RankType, FS_AddElement
<1>3. /\ IsFiniteSet(before) /\ Cardinality(before) \in Nat /\ IsFiniteSet(after) /\ Cardinality(after) \in Nat
  BY <1>1, BeyondType
<1>4. \A x \in after : x \in before \/ x = t \/ (x \in list /\ x < t /\ Rank(more, x) = line)
  <2>1. SUFFICES ASSUME NEW x \in after, x # t, x \notin before
                 PROVE  x \in list /\ x < t /\ Rank(more, x) = line
    OBVIOUS
  <2>2. x \in list /\ x \in RowsOf(items) /\ Rank(more, x) >= line
    BY <1>1, <2>1 DEF Beyond
  <2>3. ~(Rank(list, x) >= line)
    BY <1>1, <2>1, <2>2 DEF Beyond
  <2>4. Rank(more, x) = (IF x < t THEN Rank(list, x) + 1 ELSE Rank(list, x)) /\ Rank(list, x) \in Nat
    BY <1>2, <2>2
  <2> QED BY <2>2, <2>3, <2>4
<1>5. \E x : after \subseteq before \cup {x}
  <2>1. CASE t \in after
    <3>1. ASSUME NEW x \in list, x < t, Rank(more, x) = line
          PROVE  FALSE
      <4>1. t \in more /\ Rank(more, t) >= line
        BY <1>1, <2>1 DEF Beyond
      <4>2. Rank(more, t) < Rank(more, x) /\ Rank(more, t) \in Nat
        <5>1. x \in Int /\ Rank(more, t) \in Nat
          <6>1. x \in Int
            OBVIOUS
          <6>2. Rank(more, t) \in Nat
            BY <1>2, RankType
          <6> QED BY <6>1, <6>2
        <5> QED BY <1>2, <3>1, <4>1, <5>1, RankOrder
      <4> QED BY <3>1, <4>1, <4>2
    <3> QED BY <1>4, <3>1
  <2>2. CASE t \notin after
    <3>1. \A x, y \in list : Rank(more, x) = line /\ Rank(more, y) = line => x = y
      BY <1>1, <1>2, RanksDiffer
    <3>2. CASE \E x \in list : Rank(more, x) = line
      <4>1. PICK x \in list : Rank(more, x) = line
        BY <3>2
      <4>2. after \subseteq before \cup {x}
        BY <1>4, <2>2, <3>1, <4>1
      <4> QED BY <4>2
    <3>3. CASE ~ \E x \in list : Rank(more, x) = line
      BY <1>4, <2>2, <3>3
    <3> QED BY <3>2, <3>3
  <2> QED BY <2>1, <2>2
<1>6. PICK x : after \subseteq before \cup {x}
  BY <1>5
<1>7. /\ IsFiniteSet(before \cup {x}) /\ Cardinality(before \cup {x}) \in Nat
      /\ Cardinality(before \cup {x}) <= Cardinality(before) + 1
  <2>1. CASE x \in before
    <3>1. before \cup {x} = before
      BY <2>1
    <3> QED BY <1>3, <3>1
  <2>2. CASE x \notin before
    <3>1. IsFiniteSet(before \cup {x}) /\ Cardinality(before \cup {x}) = Cardinality(before) + 1
      BY <1>3, <2>2, FS_AddElement
    <3> QED BY <1>3, <3>1
  <2> QED BY <2>1, <2>2
<1>8. Cardinality(after) <= Cardinality(before \cup {x})
  BY <1>6, <1>7, FS_Subset
<1> QED BY <1>1, <1>3, <1>7, <1>8

\* The history reads the rows of this source: the row is one of them, or not in the range.
LEMMA PageAfterRecord ==
  ASSUME NEW r, NEW list \in SUBSET Nat, IsFiniteSet(list), NEW missed, PageInv(r, list, missed), NEW t \in Nat, t \notin list,
         NEW more \in {list, list \cup {t}},
         NEW s, s = [r EXCEPT !.added = @ + 1]
  PROVE  PageInv(s, more, missed)
<1>1. r \in Collections /\ r.page \in Nat \ {0} /\ r.added \in Nat /\ r.items \in SUBSET Items /\ IsFiniteSet(r.items)
  BY DEF PageInv, Repeats, Collections
<1>2. /\ s.pc = r.pc /\ s.source = r.source /\ s.start = r.start /\ s.page = r.page /\ s.totalPages = r.totalPages
      /\ s.items = r.items /\ s.pending = r.pending /\ s.last = r.last /\ s.seen = r.seen
      /\ s.there = r.there /\ s.added = r.added + 1 /\ s.behind = r.behind /\ s.lowered = r.lowered
  BY <1>1 DEF Collections
<1>3. s \in Collections
  BY <1>1 DEF Collections
<1>4. Line(s) = Line(r) /\ Line(r) \in Nat
  BY <1>1, <1>2, LineType DEF Line
<1>5. \A x \in list : Rank(list, x) \in Nat /\ Rank(more, x) \in Nat /\ Rank(list, x) <= Rank(more, x)
  <2>1. \A x \in list : Rank(list \cup {t}, x) = IF x < t THEN Rank(list, x) + 1 ELSE Rank(list, x)
    BY RankAfterRecord
  <2>2. \A x \in list : Rank(list, x) \in Nat
    BY RankType
  <2>3. CASE more = list
    BY <2>2, <2>3
  <2>4. CASE more = list \cup {t}
    <3>1. ASSUME NEW x \in list
          PROVE  Rank(more, x) \in {Rank(list, x), Rank(list, x) + 1} /\ Rank(list, x) \in Nat
      BY <2>1, <2>2, <2>4
    <3> QED BY <3>1
  <2> QED BY <2>3, <2>4
<1>6. Covered(s, more, missed)
  <2>1. s.there \subseteq more /\ s.there \subseteq list
    BY <1>2 DEF PageInv, Covered
  <2>2. ASSUME NEW x \in s.there
        PROVE  x >= s.start /\ (x \in RowsOf(s.items) \cup missed \/ Rank(more, x) >= Line(s))
    <3>1. x \in list /\ x >= r.start /\ (x \in RowsOf(r.items) \cup missed \/ Rank(list, x) >= Line(r))
      BY <1>2, <2>2 DEF PageInv, Covered
    <3>2. Rank(list, x) >= Line(r) => Rank(more, x) >= Line(r)
      BY <1>4, <1>5, <3>1
    <3> QED BY <1>2, <1>4, <3>1, <3>2
  <2> QED BY <1>2, <2>1, <2>2 DEF PageInv, Covered
<1>7. Repeats(s, more)
  <2>1. PICK before, after, all, read, added : /\ before = Cardinality(Beyond(r.items, list, Line(r)))
                                               /\ after = Cardinality(Beyond(r.items, more, Line(r)))
                                               /\ all = Cardinality(r.items) /\ read = Cardinality(RowsOf(r.items))
                                               /\ added = r.added
    OBVIOUS
  <2>2. before \in Nat /\ after \in Nat /\ all \in Nat /\ read \in Nat /\ added \in Nat
    BY <1>1, <2>1, BeyondType, ItemRows
  <2>3. after <= before + 1
    <3>1. CASE more = list
      BY <2>1, <2>2, <3>1
    <3>2. CASE more = list \cup {t}
      BY <1>1, <1>4, <2>1, <3>2, BeyondAfterRecord
    <3> QED BY <3>1, <3>2
  <2>4. all + before <= read + added
    BY <2>1 DEF PageInv, Repeats
  <2>5. all + after <= read + (added + 1)
    BY <2>2, <2>3, <2>4
  <2> QED BY <1>2, <1>4, <2>1, <2>5 DEF PageInv, Repeats
<1>8. OfRange(s) /\ Lowered(s, missed)
  BY <1>2 DEF PageInv, OfRange, Lowered
<1> QED BY <1>2, <1>3, <1>6, <1>7, <1>8 DEF PageInv

\* Rows that move up before the line are no more than those deleted before it: no
\* row of a rank before the line is left out of the count, and ranks tell them apart.
LEMMA MovedUp ==
  ASSUME NEW list \in SUBSET Nat, IsFiniteSet(list), NEW gone \in SUBSET list, NEW line \in Nat,
         NEW low, low = {x \in gone : Rank(list, x) < line /\ \E y \in list \ gone : y < x},
         NEW moved, moved = {x \in list \ gone : Rank(list, x) >= line /\ Rank(list \ gone, x) < line}
  PROVE  /\ IsFiniteSet(moved) /\ Cardinality(moved) \in Nat /\ Cardinality(low) \in Nat
         /\ Cardinality(moved) <= Cardinality(low)
<1>1. IsFiniteSet(low) /\ IsFiniteSet(moved) /\ IsFiniteSet(gone) /\ IsFiniteSet(list \ gone)
  <2>1. low \subseteq list /\ moved \subseteq list /\ gone \subseteq list /\ list \ gone \subseteq list
    OBVIOUS
  <2> QED BY <2>1, FS_Subset
<1>2. Cardinality(low) \in Nat /\ Cardinality(moved) \in Nat
  BY <1>1, FS_CardinalityType
<1>3. CASE moved = {}
  <2>1. Cardinality(moved) = 0
    BY <1>3, FS_EmptySet
  <2> QED BY <1>1, <1>2, <2>1
<1>4. CASE moved # {}
  <2>1. PICK t \in moved : TRUE
    BY <1>4
  <2>2. PICK first \in list : Rank(list, first) = line
    <3>1. t \in list /\ Rank(list, t) >= line
      BY <2>1
    <3> QED BY <3>1, RanksFollow
  <2>3. PICK before : before = {z \in list : z > first}
    OBVIOUS
  <2>4. IsFiniteSet(before) /\ Cardinality(before) = line
    BY <2>2, <2>3, RankType DEF Rank
  <2>5. \A x \in moved : ~(x > first) /\ x \in Nat
    <3>1. ASSUME NEW x \in moved, first < x
          PROVE  FALSE
      <4>1. x \in list /\ Rank(list, x) >= line
        OBVIOUS
      <4>2. first \in Int /\ x \in list
        BY <4>1
      <4>3. Rank(list, x) < Rank(list, first)
        BY <3>1, <4>2, RankOrder
      <4>4. Rank(list, x) \in Nat
        BY RankType
      <4> QED BY <2>2, <4>1, <4>3, <4>4
    <3>2. moved \subseteq Nat /\ first \in Nat
      OBVIOUS
    <3> QED BY <3>1, <3>2
  <2>6. before \cap gone \subseteq low
    <3>1. SUFFICES ASSUME NEW z \in before \cap gone
                   PROVE  Rank(list, z) < line /\ \E y \in list \ gone : y < z
      OBVIOUS
    <3>2. z \in list /\ first < z /\ first \in Nat
      BY <2>3
    <3>3. Rank(list, z) < line
      BY <2>2, <3>2, RankOrder
    <3>4. t \in list \ gone /\ ~(t > first) /\ t \in Nat
      BY <2>1, <2>5
    <3>5. t < z
      BY <3>2, <3>4
    <3> QED BY <3>3, <3>4, <3>5
  <2>7. PICK kept, k : kept = before \ gone /\ k = Cardinality(low)
    OBVIOUS
  <2>8. IsFiniteSet(kept) /\ Cardinality(kept) \in Nat /\ line - k <= Cardinality(kept)
    <3>1. IsFiniteSet(kept) /\ IsFiniteSet(before \cap gone)
      BY <2>4, <2>7, FS_Subset
    <3>2. /\ Cardinality(kept \cup (before \cap gone)) = Cardinality(kept) + Cardinality(before \cap gone)
          /\ Cardinality(kept) \in Nat /\ Cardinality(before \cap gone) \in Nat
      BY <2>7, <3>1, DisjointUnion
    <3>3. kept \cup (before \cap gone) = before
      BY <2>7
    <3>4. Cardinality(before \cap gone) <= k
      BY <1>1, <2>6, <2>7, FS_Subset
    <3> QED BY <1>2, <2>4, <2>7, <3>1, <3>2, <3>3, <3>4
  <2>9. \A x \in moved : Rank(list \ gone, x) \in (line - k)..(line - 1)
    <3>1. SUFFICES ASSUME NEW x \in moved PROVE Rank(list \ gone, x) \in (line - k)..(line - 1)
      OBVIOUS
    <3>2. PICK newer : newer = {z \in list \ gone : z > x}
      OBVIOUS
    <3>3. IsFiniteSet(newer) /\ Rank(list \ gone, x) = Cardinality(newer) /\ Cardinality(newer) \in Nat
      BY <1>1, <3>2, RankType DEF Rank
    <3>4. kept \subseteq newer
      <4>1. SUFFICES ASSUME NEW z \in kept PROVE z > x
        BY <2>3, <2>7, <3>2
      <4>2. z \in Nat /\ z > first /\ first \in Nat
        BY <2>3, <2>7
      <4> QED BY <2>5, <4>2
    <3>5. Cardinality(kept) <= Cardinality(newer)
      BY <3>3, <3>4, FS_Subset
    <3>6. Rank(list \ gone, x) < line
      OBVIOUS
    <3> QED BY <1>2, <2>7, <2>8, <3>3, <3>5, <3>6
  <2>10. PICK ranks, f : ranks = (line - k)..(line - 1) /\ f = [x \in moved |-> Rank(list \ gone, x)]
    OBVIOUS
  <2>11. f \in Injection(moved, ranks)
    <3>1. f \in [moved -> ranks]
      BY <2>9, <2>10
    <3>2. \A x, y \in moved : f[x] = f[y] => x = y
      <4>1. SUFFICES ASSUME NEW x \in moved, NEW y \in moved, Rank(list \ gone, x) = Rank(list \ gone, y)
                     PROVE  x = y
        BY <2>10
      <4>2. x \in list \ gone /\ y \in list \ gone /\ list \ gone \in SUBSET Nat
        OBVIOUS
      <4> QED BY <1>1, <4>1, <4>2, RanksDiffer
    <3> QED BY <3>1, <3>2 DEF Injection, IsInjective
  <2>12. IsFiniteSet(ranks) /\ Cardinality(ranks) = k
    <3>1. line - k \in Int /\ line - 1 \in Int /\ k \in Nat
      BY <1>2, <2>7
    <3>2. IsFiniteSet(ranks) /\ Cardinality(ranks) = IF line - k > line - 1 THEN 0 ELSE (line - 1) - (line - k) + 1
      BY <2>10, <3>1, FS_Interval
    <3> QED BY <3>1, <3>2
  <2>13. Cardinality(moved) <= Cardinality(ranks)
    BY <2>11, <2>12, FS_Injection
  <2> QED BY <1>1, <1>2, <2>7, <2>12, <2>13
<1> QED BY <1>3, <1>4

\* Checks go: no row moves back, and what moves up before the line is missed.
LEMMA PageAfterForget ==
  ASSUME NEW r, NEW list \in SUBSET Nat, IsFiniteSet(list), NEW missed, PageInv(r, list, missed),
         NEW gone \in SUBSET list, NEW fewer, fewer = list \ gone,
         NEW low, low = {x \in gone : Rank(list, x) < Line(r) /\ \E y \in list \ gone : y < x},
         NEW s, s = [r EXCEPT !.there = @ \ gone, !.lowered = @ + Cardinality(low)]
  PROVE  \E all : PageInv(s, fewer, all)
<1>1. /\ r \in Collections /\ r.items \in SUBSET Items /\ IsFiniteSet(r.items) /\ r.lowered \in Nat
      /\ r.page \in Nat \ {0} /\ Line(r) \in Nat
  BY LineType DEF PageInv, Repeats, Collections
<1>2. PICK moved : moved = {x \in list \ gone : Rank(list, x) >= Line(r) /\ Rank(list \ gone, x) < Line(r)}
  OBVIOUS
<1>3. /\ IsFiniteSet(moved) /\ Cardinality(moved) \in Nat /\ Cardinality(low) \in Nat
      /\ Cardinality(moved) <= Cardinality(low)
  BY <1>1, <1>2, MovedUp
<1>4. /\ s.pc = r.pc /\ s.source = r.source /\ s.start = r.start /\ s.page = r.page /\ s.totalPages = r.totalPages
      /\ s.items = r.items /\ s.pending = r.pending /\ s.last = r.last /\ s.seen = r.seen
      /\ s.there = r.there \ gone /\ s.added = r.added /\ s.behind = r.behind
      /\ s.lowered = r.lowered + Cardinality(low)
  BY <1>1 DEF Collections
<1>5. s \in Collections
  <2>1. PICK there, lowered : there = r.there \ gone /\ lowered = r.lowered + Cardinality(low)
    OBVIOUS
  <2>2. there \in SUBSET Nat /\ lowered \in Nat /\ s = [r EXCEPT !.there = there, !.lowered = lowered]
    BY <1>1, <1>3, <2>1 DEF Collections
  <2> QED BY <1>1, <2>2 DEF Collections
<1>6. Line(s) = Line(r)
  BY <1>4 DEF Line
<1>7. \A x : Rank(fewer, x) <= Rank(list, x) /\ Rank(fewer, x) \in Nat /\ Rank(list, x) \in Nat
  BY RankAfterForget
<1>8. PICK all : all = missed \cup moved
  OBVIOUS
<1>9. Lowered(s, all)
  <2>1. IsFiniteSet(missed) /\ Cardinality(missed) <= r.lowered /\ Cardinality(missed) \in Nat
    BY FS_CardinalityType DEF PageInv, Lowered
  <2>2. IsFiniteSet(missed \cap moved) /\ Cardinality(missed \cap moved) \in Nat
    BY <1>3, FS_Subset, FS_CardinalityType
  <2>3. /\ IsFiniteSet(missed \cup moved)
        /\ Cardinality(missed \cup moved) = Cardinality(missed) + Cardinality(moved) - Cardinality(missed \cap moved)
    BY <1>3, <2>1, FS_Union
  <2> QED BY <1>1, <1>3, <1>4, <1>8, <2>1, <2>2, <2>3 DEF Lowered
<1>10. Covered(s, fewer, all)
  <2>1. s.there \subseteq fewer
    BY <1>4 DEF PageInv, Covered
  <2>2. ASSUME NEW x \in s.there
        PROVE  x >= s.start /\ (x \in RowsOf(s.items) \cup all \/ Rank(fewer, x) >= Line(s))
    <3>1. x \in r.there /\ x \in list \ gone /\ x >= r.start
          /\ (x \in RowsOf(r.items) \cup missed \/ Rank(list, x) >= Line(r))
      BY <1>4, <2>1 DEF PageInv, Covered
    <3>2. Rank(list, x) >= Line(r) => x \in moved \/ Rank(fewer, x) >= Line(r)
      BY <1>1, <1>2, <1>7, <3>1
    <3> QED BY <1>4, <1>6, <1>8, <3>1, <3>2
  <2>3. r.there \subseteq RowsOf(r.items) \cup missed => s.there \subseteq RowsOf(s.items) \cup all
    BY <1>4, <1>8
  <2> QED BY <1>4, <2>1, <2>2, <2>3 DEF PageInv, Covered
<1>11. Repeats(s, fewer)
  <2>1. PICK before, after : before = Beyond(r.items, list, Line(r)) /\ after = Beyond(r.items, fewer, Line(r))
    OBVIOUS
  <2>2. after \subseteq before /\ IsFiniteSet(before)
    <3>1. fewer \subseteq list /\ IsFiniteSet(before)
      BY <1>1, <2>1, BeyondType
    <3>2. \A x : Rank(fewer, x) >= Line(r) => Rank(list, x) >= Line(r)
      BY <1>1, <1>7
    <3> QED BY <2>1, <3>1, <3>2 DEF Beyond
  <2>3. Cardinality(after) <= Cardinality(before) /\ Cardinality(after) \in Nat /\ Cardinality(before) \in Nat
    BY <2>2, FS_Subset, FS_CardinalityType
  <2>4. Cardinality(r.items) \in Nat /\ Cardinality(RowsOf(r.items)) \in Nat /\ r.added \in Nat
    BY <1>1, ItemRows DEF Collections
  <2>5. Cardinality(r.items) + Cardinality(before) <= Cardinality(RowsOf(r.items)) + r.added
    BY <2>1 DEF PageInv, Repeats
  <2>6. Cardinality(r.items) + Cardinality(after) <= Cardinality(RowsOf(r.items)) + r.added
    BY <2>3, <2>4, <2>5
  <2> QED BY <1>4, <1>6, <2>1, <2>6 DEF PageInv, Repeats
<1>12. OfRange(s)
  BY <1>4 DEF PageInv, OfRange
<1>13. PageInv(s, fewer, all)
  BY <1>4, <1>5, <1>9, <1>10, <1>11, <1>12 DEF PageInv
<1> QED BY <1>13

-----------------------------------------------------------------------------
(* The history of a range *)

\* The rows are finitely many, of times that have been.
TablesInv ==
  /\ now \in Nat /\ recorded \in [Sources -> SUBSET Moments] /\ upAt \subseteq recorded["checks"]
  /\ \A source \in Sources : IsFiniteSet(recorded[source]) /\ \A t \in recorded[source] : t <= now

Asked == Visible(reading.source, reading.start, reading.end)

ReadingInv ==
  \/ reading \in {NoReading, Off}
  \/ \E missed : PageInv(reading, Asked, missed)
  \/ ShownInv(reading)

RangeInv == TablesInv /\ ReadingInv

\* The rows a query sees, as the pages need them.
LEMMA AskedRows ==
  ASSUME TablesInv, NEW r, r \in Collections
  PROVE  LET list == Visible(r.source, r.start, r.end) IN
         /\ list \in SUBSET Nat /\ IsFiniteSet(list) /\ list \subseteq recorded[r.source]
         /\ r.source = "incidents" => \A t \in list : t >= r.start
<1>1. PICK list : list = Visible(r.source, r.start, r.end)
  OBVIOUS
<1>2. r.source \in Sources /\ r.start \in Int
  BY DEF Collections
<1>3. recorded[r.source] \subseteq Nat /\ IsFiniteSet(recorded[r.source])
  BY <1>2, HistoryAssumption DEF TablesInv
<1>4. list \subseteq recorded[r.source]
  BY <1>1, <1>2 DEF Visible, Sources
<1>5. r.source = "incidents" => \A t \in list : t >= r.start
  <2>1. SUFFICES ASSUME r.source = "incidents", NEW t \in list PROVE t >= r.start
    OBVIOUS
  <2>2. r.start <= t /\ t \in Nat
    BY <1>1, <1>3, <1>4, <2>1 DEF Visible
  <2> QED BY <1>2, <2>2
<1>6. IsFiniteSet(list)
  BY <1>3, <1>4, FS_Subset
<1> QED BY <1>1, <1>3, <1>4, <1>5, <1>6

LEMMA Collecting ==
  ASSUME RangeInv, reading.pc = "page"
  PROVE  /\ reading \in Collections /\ (\E missed : PageInv(reading, Asked, missed)) /\ Asked \in SUBSET Nat /\ IsFiniteSet(Asked)
         /\ Asked \subseteq recorded[reading.source]
         /\ reading.source = "incidents" => \A t \in Asked : t >= reading.start
<1>1. ~ReadingInv \/ \E missed : PageInv(reading, Asked, missed)
  BY DEF ReadingInv, NoReading, Off, ShownInv
<1>2. (\E missed : PageInv(reading, Asked, missed)) /\ reading \in Collections
  BY <1>1 DEF RangeInv, PageInv
<1> QED BY <1>2, AskedRows DEF RangeInv, Asked

LEMMA StartReadingKeeps ==
  ASSUME RangeInv, NEW source \in Sources, StartReading(source)
  PROVE  RangeInv'
<1>1. TablesInv' /\ UNCHANGED <<now, recorded>>
  BY DEF StartReading, RangeInv, TablesInv
<1>2. PICK start : start = getRangeStartDate
  OBVIOUS
<1>3. start \in Int /\ now \in Nat
  BY <1>2, HistoryAssumption DEF getRangeStartDate, RangeInv, TablesInv
<1>4. PICK there : there = {t \in recorded[source] : t >= start}
  OBVIOUS
<1>5. there \subseteq Nat /\ recorded[source] \subseteq Nat
  BY <1>4, HistoryAssumption DEF RangeInv, TablesInv
<1>6. PICK s : s = [pc |-> "page", source |-> source, start |-> start, end |-> now,
                    page |-> 1, totalPages |-> 1, items |-> {}, pending |-> {"items", "total"},
                    last |-> {}, seen |-> 0, there |-> there, added |-> 0, lowered |-> 0, behind |-> FALSE, cut |-> FALSE]
  OBVIOUS
<1>7. s \in Collections
  BY <1>3, <1>5, <1>6 DEF Collections, Items
<1>8. reading' = s
  BY <1>2, <1>4, <1>6 DEF StartReading
<1>9. PICK list : list = Visible(source, start, now)
  OBVIOUS
<1>10. list \in SUBSET Nat /\ IsFiniteSet(list)
  BY <1>6, <1>7, <1>9, AskedRows DEF RangeInv
<1>11. there \subseteq list
  <2>1. \A t \in recorded[source] : t <= now /\ t \in Nat
    BY <1>5 DEF RangeInv, TablesInv
  <2>2. CASE source = "checks"
    BY <1>4, <1>9, <2>2 DEF Visible
  <2>3. CASE source = "incidents"
    <3>1. list = {t \in recorded["incidents"] : start <= t /\ t <= now}
      BY <1>9, <2>3 DEF Visible
    <3>2. \A t \in there : start <= t
      BY <1>3, <1>4, <2>1
    <3> QED BY <1>4, <2>1, <2>3, <3>1, <3>2
  <2> QED BY <2>2, <2>3 DEF Sources
<1>12. Line(s) = 0
  <2>1. (1 - 1) * HISTORY_PAGE_SIZE = 0
    BY HistoryAssumption
  <2> QED BY <1>6, <2>1 DEF Line
<1>13. Covered(s, list, {})
  <2>1. \A t \in there : t >= start /\ Rank(list, t) >= 0
    <3>1. \A t : Rank(list, t) \in Nat
      BY <1>10, RankType
    <3>2. \A t : Rank(list, t) >= 0
      BY <3>1
    <3> QED BY <1>4, <3>2
  <2> QED BY <1>6, <1>11, <1>12, <2>1 DEF Covered
<1>14. Repeats(s, list)
  <2>1. RowsOf({}) = {} /\ Beyond({}, list, 0) = {}
    BY DEF RowsOf, Beyond
  <2>2. IsFiniteSet({}) /\ Cardinality({}) = 0
    BY FS_EmptySet
  <2> QED BY <1>6, <1>12, <2>1, <2>2 DEF Repeats
<1>15. OfRange(s)
  BY <1>6 DEF OfRange
<1>16. PageInv(s, list, {})
  <2>1. s.pc = "page" /\ s.page = 1
    BY <1>6
  <2>2. Lowered(s, {})
    BY <1>6, FS_EmptySet DEF Lowered
  <2> QED BY <1>7, <1>13, <1>14, <1>15, <2>1, <2>2, HistoryAssumption DEF PageInv
<1>17. Asked' = list
  <2>1. Asked' = Visible(s.source, s.start, s.end)'
    BY <1>8 DEF Asked, Visible
  <2> QED BY <1>1, <1>6, <1>9, <2>1 DEF Visible
<1> QED BY <1>1, <1>8, <1>16, <1>17 DEF RangeInv, ReadingInv

\* The tables, and the range, of a reading that goes on.
LEMMA AskedStays ==
  ASSUME UNCHANGED recorded, reading'.source = reading.source, reading'.start = reading.start,
         reading'.end = reading.end
  PROVE  Asked' = Asked
BY DEF Asked, Visible

LEMMA QueriesKeep ==
  ASSUME RangeInv, ReadItems \/ ReadTotal \/ NextPage
  PROVE  RangeInv'
<1>1. TablesInv' /\ UNCHANGED recorded /\ reading.pc = "page"
  BY DEF ReadItems, ReadTotal, NextPage, RangeInv, TablesInv
<1>2. PICK r, list, s : r = reading /\ list = Asked /\ s = reading'
  OBVIOUS
<1>3. /\ r \in Collections /\ (\E missed : PageInv(r, list, missed)) /\ list \in SUBSET Nat /\ IsFiniteSet(list)
      /\ r.source = "incidents" => \A t \in list : t >= r.start
  BY <1>1, <1>2, Collecting
<1>4. PICK missed : PageInv(r, list, missed)
  BY <1>3
<1>5. CASE ReadItems
  <2>1. /\ "items" \in r.pending
        /\ s = [r EXCEPT !.pending = @ \ {"items"}, !.last = Slice(list, r.page),
                         !.items = @ \cup [page : {r.page}, row : Slice(list, r.page)],
                         !.behind = @ \/ ("total" \notin r.pending /\ Cardinality(list) > r.seen)]
    BY <1>2, <1>5 DEF ReadItems, Asked
  <2>2. PageInv(s, list, missed)
    BY <1>3, <1>4, <2>1, PageAfterItems
  <2>3. s.source = r.source /\ s.start = r.start /\ s.end = r.end
    BY <1>3, <2>1 DEF Collections
  <2>4. Asked' = list
    BY <1>1, <1>2, <2>3, AskedStays
  <2> QED BY <1>1, <1>2, <2>2, <2>4 DEF RangeInv, ReadingInv
<1>6. CASE ReadTotal
  <2>1. /\ "total" \in r.pending
        /\ s = [r EXCEPT !.pending = @ \ {"total"}, !.totalPages = PagesOf(list), !.seen = Cardinality(list)]
    BY <1>2, <1>6 DEF ReadTotal, Asked
  <2>2. PageInv(s, list, missed)
    BY <1>3, <1>4, <2>1, PageAfterTotal
  <2>3. s.source = r.source /\ s.start = r.start /\ s.end = r.end
    BY <1>3, <2>1 DEF Collections
  <2>4. Asked' = list
    BY <1>1, <1>2, <2>3, AskedStays
  <2> QED BY <1>1, <1>2, <2>2, <2>4 DEF RangeInv, ReadingInv
<1>7. CASE NextPage
  <2>1. PICK more : more = (~ReachedStart /\ r.page < r.totalPages)
    OBVIOUS
  <2>2. /\ r.pending = {}
        /\ s = IF more /\ r.page < HISTORY_MAX_PAGES
               THEN [r EXCEPT !.page = @ + 1, !.pending = {"items", "total"}]
               ELSE [r EXCEPT !.pc = "shown", !.items = Collected, !.cut = more]
    BY <1>2, <1>7, <2>1 DEF NextPage
  <2>3. CASE more /\ r.page < HISTORY_MAX_PAGES
    <3>1. s = [r EXCEPT !.page = @ + 1, !.pending = {"items", "total"}]
      BY <2>2, <2>3
    <3>2. PageInv(s, list, missed)
      BY <1>3, <1>4, <2>2, <2>3, <3>1, PageAfterNext
    <3>3. s.source = r.source /\ s.start = r.start /\ s.end = r.end
      BY <1>3, <3>1 DEF Collections
    <3>4. Asked' = list
      BY <1>1, <1>2, <3>3, AskedStays
    <3> QED BY <1>1, <1>2, <3>2, <3>4 DEF RangeInv, ReadingInv
  <2>4. CASE ~(more /\ r.page < HISTORY_MAX_PAGES)
    <3>1. PICK shown : shown = {item \in r.items : r.source = "incidents" \/ item.row >= r.start}
      OBVIOUS
    <3>2. s = [r EXCEPT !.pc = "shown", !.items = shown, !.cut = more]
      BY <1>2, <2>2, <2>4, <3>1 DEF Collected
    <3>3. more \in BOOLEAN /\ (more \/ (r.last = {} \/ \E t \in r.last : t < r.start) \/ ~(r.page < r.totalPages))
      BY <1>2, <2>1 DEF ReachedStart
    <3>4. ShownInv(s)
      BY <1>3, <1>4, <2>2, <3>1, <3>2, <3>3, PageShown
    <3> QED BY <1>1, <1>2, <3>4 DEF RangeInv, ReadingInv
  <2> QED BY <2>3, <2>4
<1> QED BY <1>5, <1>6, <1>7

\* What is not read any more is not changed by what is recorded or deleted.
LEMMA NotCollecting ==
  ASSUME ReadingInv, reading.pc # "page", UNCHANGED reading
  PROVE  ReadingInv'
<1>1. reading \in {NoReading, Off} \/ ShownInv(reading)
  BY DEF ReadingInv, PageInv
<1> QED BY <1>1 DEF ReadingInv

LEMMA RangeAfterRecord ==
  ASSUME RangeInv, NEW source \in Sources, NEW t \in Moments, NEW isUp \in BOOLEAN, Record(source, t, isUp)
  PROVE  RangeInv'
<1>1. /\ t \notin recorded[source] /\ t <= now + 1 /\ t \in Nat
      /\ recorded' = [recorded EXCEPT ![source] = @ \cup {t}]
      /\ now' = IF t > now THEN t ELSE now
      /\ upAt' = IF source = "checks" /\ isUp THEN upAt \cup {t} ELSE upAt
      /\ reading' = IF reading.pc = "page" /\ reading.source = source THEN [reading EXCEPT !.added = @ + 1] ELSE reading
  BY HistoryAssumption DEF Record
<1>2. TablesInv
  BY DEF RangeInv
<1>3. /\ now' \in Nat /\ now <= now' /\ t <= now' /\ now \in Nat
  BY <1>1, <1>2 DEF TablesInv
<1>4. /\ recorded' \in [Sources -> SUBSET Moments]
      /\ \A s \in Sources : recorded'[s] = IF s = source THEN recorded[s] \cup {t} ELSE recorded[s]
  BY <1>1, <1>2 DEF TablesInv
<1>5. TablesInv'
  <2>1. ASSUME NEW s \in Sources
        PROVE  IsFiniteSet(recorded'[s]) /\ \A x \in recorded'[s] : x <= now'
    <3>1. IsFiniteSet(recorded[s]) /\ \A x \in recorded[s] : x <= now /\ x \in Nat
      BY <1>2, HistoryAssumption DEF TablesInv
    <3>2. \A x \in recorded[s] : x <= now'
      BY <1>3, <3>1
    <3>3. CASE s = source
      <4>1. recorded'[s] = recorded[s] \cup {t}
        BY <1>4, <3>3
      <4> QED BY <1>3, <3>1, <3>2, <4>1, FS_AddElement
    <3>4. CASE s # source
      BY <1>4, <3>1, <3>2, <3>4
    <3> QED BY <3>3, <3>4
  <2>2. upAt' \subseteq recorded'["checks"]
    BY <1>1, <1>2, <1>4 DEF TablesInv, Sources
  <2> QED BY <1>3, <1>4, <2>1, <2>2 DEF TablesInv
<1>6. ReadingInv'
  <2>1. CASE reading.pc # "page"
    BY <1>1, <2>1, NotCollecting DEF RangeInv
  <2>2. CASE reading.pc = "page"
    <3>1. PICK r, list, s, more : r = reading /\ list = Asked /\ s = reading' /\ more = Asked'
      OBVIOUS
    <3>2. /\ r \in Collections /\ (\E missed : PageInv(r, list, missed)) /\ list \in SUBSET Nat /\ IsFiniteSet(list)
          /\ list \subseteq recorded[r.source]
      BY <2>2, <3>1, Collecting
    <3>3. r.source \in Sources /\ list = Visible(r.source, r.start, r.end)
      BY <3>1, <3>2 DEF Collections, Asked
    <3>4. CASE r.source = source
      <4>1. s = [r EXCEPT !.added = @ + 1]
        BY <1>1, <2>2, <3>1, <3>4
      <4>2. s.source = r.source /\ s.start = r.start /\ s.end = r.end
        BY <3>2, <4>1 DEF Collections
      <4>3. recorded'[source] = recorded[source] \cup {t} /\ t \notin list
        BY <1>1, <1>4, <3>2, <3>4
      <4>4. more \in {list, list \cup {t}}
        <5>1. more = Visible(r.source, r.start, r.end)'
          BY <3>1, <4>2 DEF Asked, Visible
        <5>2. CASE source = "checks"
          BY <3>3, <3>4, <4>3, <5>1, <5>2 DEF Visible
        <5>3. CASE source = "incidents"
          <6>1. more = {x \in recorded'["incidents"] : r.start <= x /\ x <= r.end}
            BY <3>4, <5>1, <5>3 DEF Visible
          <6>2. list = {x \in recorded["incidents"] : r.start <= x /\ x <= r.end}
            BY <3>3, <3>4, <5>3 DEF Visible
          <6> QED BY <4>3, <5>3, <6>1, <6>2
        <5> QED BY <5>2, <5>3 DEF Sources
      <4>5. \E missed : PageInv(s, more, missed)
        <5>1. t \in Nat /\ t \notin list
          BY <1>1, <4>3
        <5>2. PICK missed : PageInv(r, list, missed)
          BY <3>2
        <5>3. PageInv(s, more, missed)
          BY <3>2, <4>1, <4>4, <5>1, <5>2, PageAfterRecord
        <5> QED BY <5>3
      <4> QED BY <3>1, <4>5 DEF ReadingInv
    <3>5. CASE r.source # source
      <4>1. s = r /\ recorded'[r.source] = recorded[r.source]
        BY <1>1, <1>4, <3>1, <3>3, <3>5
      <4>2. more = list
        BY <3>1, <3>3, <4>1 DEF Asked, Visible, Sources
      <4> QED BY <3>1, <3>2, <4>1, <4>2 DEF ReadingInv
    <3> QED BY <3>4, <3>5
  <2> QED BY <2>1, <2>2
<1> QED BY <1>5, <1>6 DEF RangeInv

LEMMA RangeAfterForget ==
  ASSUME RangeInv, NEW gone \in SUBSET recorded["checks"], Forget(gone)
  PROVE  RangeInv'
<1>1. /\ recorded' = [recorded EXCEPT !["checks"] = @ \ gone]
      /\ upAt' = upAt \ gone /\ UNCHANGED now
      /\ reading' = IF reading.pc = "page" /\ reading.source = "checks"
                    THEN [reading EXCEPT !.there = @ \ gone, !.lowered = @ + Cardinality(Lowering(gone))]
                    ELSE reading
  BY DEF Forget
<1>2. TablesInv
  BY DEF RangeInv
<1>3. /\ recorded' \in [Sources -> SUBSET Moments]
      /\ recorded'["checks"] = recorded["checks"] \ gone /\ recorded'["incidents"] = recorded["incidents"]
  BY <1>1, <1>2 DEF TablesInv, Sources
<1>4. TablesInv'
  <2>1. ASSUME NEW s \in Sources
        PROVE  IsFiniteSet(recorded'[s]) /\ \A x \in recorded'[s] : x <= now
    <3>1. IsFiniteSet(recorded[s]) /\ (\A x \in recorded[s] : x <= now) /\ recorded'[s] \subseteq recorded[s]
      BY <1>2, <1>3 DEF TablesInv, Sources
    <3> QED BY <3>1, FS_Subset
  <2>2. upAt' \subseteq recorded'["checks"]
    BY <1>1, <1>2, <1>3 DEF TablesInv
  <2> QED BY <1>1, <1>2, <1>3, <2>1, <2>2 DEF TablesInv
<1>5. ReadingInv'
  <2>1. CASE reading.pc # "page"
    BY <1>1, <2>1, NotCollecting DEF RangeInv
  <2>2. CASE reading.pc = "page"
    <3>1. PICK r, list, s, fewer : r = reading /\ list = Asked /\ s = reading' /\ fewer = Asked'
      OBVIOUS
    <3>2. /\ r \in Collections /\ (\E missed : PageInv(r, list, missed)) /\ list \in SUBSET Nat /\ IsFiniteSet(list)
      BY <2>2, <3>1, Collecting
    <3>3. r.source \in Sources /\ list = Visible(r.source, r.start, r.end)
      BY <3>1, <3>2 DEF Collections, Asked
    <3>4. CASE r.source = "checks"
      <4>1. PICK low : low = Lowering(gone)
        OBVIOUS
      <4>2. list = recorded["checks"]
        BY <3>3, <3>4 DEF Visible
      <4>3. low = {x \in gone : Rank(list, x) < Line(r) /\ \E y \in list \ gone : y < x}
        BY <3>1, <4>1, <4>2 DEF Lowering
      <4>4. s = [r EXCEPT !.there = @ \ gone, !.lowered = @ + Cardinality(low)]
        BY <1>1, <2>2, <3>1, <3>4, <4>1
      <4>5. s.source = r.source
        BY <3>2, <4>4 DEF Collections
      <4>6. fewer = list \ gone
        BY <1>3, <3>1, <3>4, <4>2, <4>5 DEF Asked, Visible
      <4>7. \E all : PageInv(s, fewer, all)
        <5>1. PICK missed : PageInv(r, list, missed)
          BY <3>2
        <5> QED BY <3>2, <4>2, <4>3, <4>4, <4>6, <5>1, PageAfterForget
      <4> QED BY <3>1, <4>7 DEF ReadingInv
    <3>5. CASE r.source = "incidents"
      <4>1. s = r
        BY <1>1, <3>1, <3>5
      <4>2. fewer = list
        BY <1>3, <3>1, <3>3, <3>5, <4>1 DEF Asked, Visible
      <4> QED BY <3>1, <3>2, <4>1, <4>2 DEF ReadingInv
    <3> QED BY <3>3, <3>4, <3>5 DEF Sources
  <2> QED BY <2>1, <2>2
<1> QED BY <1>4, <1>5 DEF RangeInv

LEMMA RangeStep == RangeInv /\ [HistoryNext]_historyVars => RangeInv'
<1>1. SUFFICES ASSUME RangeInv, [HistoryNext]_historyVars
               PROVE  RangeInv'
  OBVIOUS
<1>2. CASE UNCHANGED <<now, recorded, upAt, reading>>
  BY <1>1, <1>2 DEF RangeInv, TablesInv, ReadingInv, Asked, Visible
<1>3. CASE UNCHANGED historyVars
  BY <1>2, <1>3 DEF historyVars
<1>4. CASE StartCounting \/ \E name \in Figures : Count(name)
  BY <1>2, <1>4 DEF StartCounting, Count
<1>5. CASE \E source \in Sources : StartReading(source)
  BY <1>1, <1>5, StartReadingKeeps
<1>6. CASE ReadItems \/ ReadTotal \/ NextPage
  BY <1>1, <1>6, QueriesKeep
<1>7. CASE \E source \in Sources, t \in Moments, isUp \in BOOLEAN : Record(source, t, isUp)
  BY <1>1, <1>7, RangeAfterRecord
<1>8. CASE \E t \in Moments : ForgetOldest(t) \/ ForgetDay(t \div DayLength)
  <2>1. PICK gone \in SUBSET recorded["checks"] : Forget(gone)
    BY <1>8, SomeAreForgotten
  <2> QED BY <1>1, <2>1, RangeAfterForget
<1> QED BY <1>1, <1>3, <1>4, <1>5, <1>6, <1>7, <1>8 DEF HistoryNext

LEMMA RangeInit == HistoryInit => RangeInv
BY DEF HistoryInit, RangeInv, TablesInv, ReadingInv

\* However rows are recorded and deleted while a history is collected page by page,
\* the oldest or those of a day in the midst of others: it shows all of its range that
\* was there throughout, but for as many rows as were deleted of the pages already
\* read while older ones stayed, unless it was cut at the last page it may read, or a
\* total was taken before a row was recorded and its page after; nothing before its
\* range; and no more rows twice than were recorded.
THEOREM HistoriesShowTheirRange == HistorySpec => []HistoryShowsItsRange
<1>1. RangeInv => HistoryShowsItsRange
  <2>1. SUFFICES ASSUME ReadingInv, reading.pc = "shown"
                 PROVE  LET shown == {item.row : item \in reading.items} IN
                        /\ \/ Cardinality(reading.there \ shown) <= reading.lowered
                           \/ reading.cut \/ reading.behind
                        /\ \A t \in shown : t >= reading.start
                        /\ Cardinality(reading.items) - Cardinality(shown) <= reading.added
    BY DEF HistoryShowsItsRange, RangeInv
  <2>2. ShownInv(reading)
    BY <2>1 DEF ReadingInv, NoReading, Off, PageInv
  <2> QED BY <2>2 DEF ShownInv, RowsOf
<1> QED BY <1>1, RangeInit, RangeStep, PTL DEF HistorySpec

-----------------------------------------------------------------------------
(* Types, of what is kept and of what is read of it *)

LEMMA ReadingTypes ==
  ASSUME RangeInv, StatisticsInv
  PROVE  HistoryTypeOK
<1>1. now \in Nat /\ recorded \in [Sources -> SUBSET Moments] /\ upAt \subseteq recorded["checks"]
  BY DEF RangeInv, TablesInv
<1>2. counting.pc \in {"idle", "count", "answered", "off"}
  BY DEF StatisticsInv, CountingInv
<1>3. /\ reading.pc \in {"idle", "page", "shown", "off"}
      /\ reading.pc = "page" => reading.page \in 1..HISTORY_MAX_PAGES
  <2>1. CASE reading \in {NoReading, Off}
    BY <2>1 DEF NoReading, Off
  <2>2. CASE \E missed : PageInv(reading, Asked, missed)
    <3>1. reading.pc = "page" /\ reading.page \in Nat \ {0} /\ reading.page <= HISTORY_MAX_PAGES
      BY <2>2 DEF PageInv, Collections
    <3> QED BY <3>1, HistoryAssumption
  <2>3. CASE ShownInv(reading)
    BY <2>3 DEF ShownInv
  <2> QED BY <2>1, <2>2, <2>3 DEF RangeInv, ReadingInv
<1> QED BY <1>1, <1>2, <1>3 DEF HistoryTypeOK

\* The instances that are checked, of summaries or of what a page is told, are of
\* their types whatever is changed meanwhile.
InstanceInv == (window # <<0, 0>> => BaseInv) /\ RangeInv /\ StatisticsInv

THEOREM RowsAndReadingsHaveTypes == MCSpec => []TypesOK
<1>1. MCInit => InstanceInv
  <2>1. SUFFICES ASSUME MCInit PROVE InstanceInv
    OBVIOUS
  <2>2. RangeInv /\ StatisticsInv
    BY <2>1, RangeInit, StatisticsInit DEF MCInit
  <2>3. window # <<0, 0>> => BaseInv
    BY <2>1, InitBase DEF MCInit, Nothing
  <2> QED BY <2>2, <2>3 DEF InstanceInv
<1>2. InstanceInv /\ [MCNext]_<<vars, historyVars>> => InstanceInv'
  <2>1. SUFFICES ASSUME InstanceInv, [MCNext]_<<vars, historyVars>> PROVE InstanceInv'
    OBVIOUS
  <2>2. CASE window # <<0, 0>> /\ Next /\ UNCHANGED historyVars
    BY <2>1, <2>2, NextBase, RangeStep, HistoryStep DEF InstanceInv
  <2>3. CASE UNCHANGED vars /\ [HistoryNext]_historyVars
    <3>1. UNCHANGED window
      BY <2>3 DEF vars
    <3>2. window # <<0, 0>> => BaseInv'
      BY <2>1, <2>3, NextBase DEF InstanceInv
    <3> QED BY <2>1, <2>3, <3>1, <3>2, RangeStep, HistoryStep DEF InstanceInv
  <2> QED BY <2>1, <2>2, <2>3 DEF MCNext
<1>3. InstanceInv => TypesOK
  BY BaseTypes, ReadingTypes DEF InstanceInv, TypesOK
<1> QED BY <1>1, <1>2, <1>3, PTL DEF MCSpec

-----------------------------------------------------------------------------
(* Percentiles *)

\* The rank that is taken is the first that so many percent reach.
PercentileRank(count, percent) == (count * percent + 99) \div 100

LEMMA RankOfPercent ==
  ASSUME NEW count \in Nat \ {0}, NEW percent \in 1..100
  PROVE  /\ PercentileRank(count, percent) \in 1..count
         /\ 100 * PercentileRank(count, percent) >= percent * count
         /\ 100 * (PercentileRank(count, percent) - 1) < percent * count
<1>1. PICK part : part = percent * count
  OBVIOUS
<1>2. part \in Nat /\ part >= 1 /\ part <= 100 * count /\ count * percent = part
  <2>1. percent - 1 \in Nat /\ count - 1 \in Nat /\ 100 - percent \in Nat
    OBVIOUS
  <2>2. (percent - 1) * count \in Nat /\ (100 - percent) * count \in Nat
    BY <2>1
  <2>3. part = (percent - 1) * count + count /\ 100 * count = part + (100 - percent) * count
    BY <1>1
  <2> QED BY <1>1, <2>2, <2>3
<1>3. PICK rank : rank = (part + 99) \div 100
  OBVIOUS
<1>4. rank \in Int /\ 100 * rank <= part + 99 /\ part + 99 < 100 * rank + 100
  BY <1>2, <1>3
<1>5. rank \in 1..count
  BY <1>2, <1>4
<1> QED BY <1>1, <1>2, <1>3, <1>4, <1>5 DEF PercentileRank

InOrder(s) == \A i, j \in DOMAIN s : i <= j => s[i] <= s[j]

LEMMA PercentileIs ==
  ASSUME NEW s \in Seq(Int), s # <<>>, NEW percent \in 1..100
  PROVE  /\ PercentileRank(Len(s), percent) \in DOMAIN s
         /\ calculatePercentile(s, percent) = s[PercentileRank(Len(s), percent)]
<1>1. PICK count, rank : count = Len(s) /\ rank = PercentileRank(count, percent)
  OBVIOUS
<1>2. count \in Nat \ {0} /\ DOMAIN s = 1..count
  BY <1>1
<1>3. rank \in 1..count
  BY <1>1, <1>2, RankOfPercent
<1>4. (IF rank < 1 THEN 1 ELSE IF rank > count THEN count ELSE rank) = rank
  BY <1>2, <1>3
<1>5. calculatePercentile(s, percent) = s[IF rank < 1 THEN 1 ELSE IF rank > count THEN count ELSE rank]
  BY <1>1 DEF calculatePercentile, PercentileRank
<1> QED BY <1>1, <1>2, <1>3, <1>4, <1>5

\* The latencies of a day, in order, however many: calculatePercentile gives their
\* nearest-rank percentile, one of them, that so many percent do not exceed, and
\* fewer any that is smaller.
THEOREM PercentileIsNearestRank ==
  ASSUME NEW s \in Seq(Int), s # <<>>, InOrder(s), NEW percent \in 1..100
  PROVE  IsPercentile(calculatePercentile(s, percent), s, percent)
<1>1. PICK count, rank, value : /\ count = Len(s) /\ rank = PercentileRank(count, percent)
                                /\ value = calculatePercentile(s, percent)
  OBVIOUS
<1>2. /\ count \in Nat \ {0} /\ DOMAIN s = 1..count /\ rank \in 1..count /\ value = s[rank]
      /\ \A i \in 1..count : s[i] \in Int
  <2>1. PercentileRank(Len(s), percent) \in DOMAIN s /\ calculatePercentile(s, percent) = s[PercentileRank(Len(s), percent)]
    BY PercentileIs
  <2>2. Len(s) \in Nat \ {0} /\ DOMAIN s = 1..Len(s) /\ \A i \in 1..Len(s) : s[i] \in Int
    OBVIOUS
  <2> QED BY <1>1, <2>1, <2>2
<1>3. 100 * rank >= percent * count /\ 100 * (rank - 1) < percent * count
  BY <1>1, <1>2, RankOfPercent
<1>4. \A n \in 0..count : IsFiniteSet(1..n) /\ Cardinality(1..n) = n
  BY <1>2, FS_Interval
<1>5. percent * count \in Nat
  BY <1>2
<1>6. 100 * Cardinality({i \in DOMAIN s : s[i] <= value}) >= percent * Len(s)
  <2>1. PICK reached : reached = {i \in 1..count : s[i] <= value}
    OBVIOUS
  <2>2. 1..rank \subseteq reached /\ reached \subseteq 1..count
    <3>1. \A i \in 1..rank : i \in 1..count /\ i <= rank
      BY <1>2
    <3>2. \A i \in 1..rank : s[i] <= value
      BY <1>2, <3>1 DEF InOrder
    <3> QED BY <2>1, <3>1, <3>2
  <2>3. IsFiniteSet(reached) /\ Cardinality(reached) \in Nat
    <3>1. IsFiniteSet(1..count)
      BY <1>2, <1>4
    <3> QED BY <2>2, <3>1, FS_Subset, FS_CardinalityType
  <2>4. rank <= Cardinality(reached)
    <3>1. Cardinality(1..rank) = rank
      BY <1>2, <1>4
    <3> QED BY <2>2, <2>3, <3>1, FS_Subset
  <2>5. 100 * Cardinality(reached) >= percent * count
    BY <1>2, <1>3, <1>5, <2>3, <2>4
  <2> QED BY <1>1, <1>2, <2>1, <2>5
<1>7. ASSUME NEW i \in DOMAIN s, s[i] < value
      PROVE  100 * Cardinality({j \in DOMAIN s : s[j] <= s[i]}) < percent * Len(s)
  <2>1. PICK reached : reached = {j \in 1..count : s[j] <= s[i]}
    OBVIOUS
  <2>2. reached \subseteq 1..(rank - 1)
    <3>1. ASSUME NEW j \in 1..count, s[j] <= s[i], j >= rank
          PROVE  FALSE
      <4>1. value <= s[j]
        BY <1>2, <3>1 DEF InOrder
      <4>2. s[i] \in Int /\ s[j] \in Int /\ value \in Int
        BY <1>2, <1>7
      <4> QED BY <1>7, <3>1, <4>1, <4>2
    <3>2. \A j \in reached : j \in 1..count /\ ~(j >= rank)
      BY <2>1, <3>1
    <3>3. \A j \in 1..count : ~(j >= rank) => j \in 1..(rank - 1)
      BY <1>2
    <3> QED BY <3>2, <3>3
  <2>3. rank - 1 \in 0..count
    BY <1>2
  <2>4. IsFiniteSet(1..(rank - 1)) /\ Cardinality(1..(rank - 1)) = rank - 1
    BY <1>4, <2>3
  <2>5. Cardinality(reached) <= rank - 1 /\ Cardinality(reached) \in Nat
    <3>1. IsFiniteSet(reached) /\ Cardinality(reached) <= Cardinality(1..(rank - 1))
      BY <2>2, <2>4, FS_Subset
    <3> QED BY <2>4, <3>1, FS_CardinalityType
  <2>6. 100 * Cardinality(reached) < percent * count
    BY <1>2, <1>3, <1>5, <2>5
  <2> QED BY <1>1, <1>2, <2>1, <2>6
<1>8. value \in {s[i] : i \in DOMAIN s}
  BY <1>2
<1> QED BY <1>1, <1>6, <1>7, <1>8 DEF IsPercentile

\* A higher percentile is no smaller: the p95 of a day is at most its p99.
THEOREM PercentilesRise ==
  ASSUME NEW s \in Seq(Int), s # <<>>, InOrder(s), NEW low \in 1..100, NEW high \in 1..100, low <= high
  PROVE  calculatePercentile(s, low) <= calculatePercentile(s, high)
<1>1. PICK count, a, b : count = Len(s) /\ a = PercentileRank(count, low) /\ b = PercentileRank(count, high)
  OBVIOUS
<1>2. count \in Nat \ {0} /\ a \in DOMAIN s /\ b \in DOMAIN s /\ DOMAIN s = 1..count
  <2>1. /\ PercentileRank(Len(s), low) \in DOMAIN s
        /\ PercentileRank(Len(s), high) \in DOMAIN s
    BY PercentileIs
  <2>2. Len(s) \in Nat \ {0} /\ DOMAIN s = 1..Len(s)
    OBVIOUS
  <2> QED BY <1>1, <2>1, <2>2
<1>3. a <= b
  <2>1. 100 * (a - 1) < low * count /\ 100 * b >= high * count
    BY <1>1, <1>2, RankOfPercent
  <2>2. low * count <= high * count
    <3>1. high - low \in Nat
      OBVIOUS
    <3>2. (high - low) * count \in Nat /\ high * count = low * count + (high - low) * count
      BY <1>2, <3>1
    <3>3. low * count \in Nat /\ high * count \in Nat
      BY <1>2
    <3> QED BY <3>2, <3>3
  <2>3. low * count \in Nat /\ high * count \in Nat
    BY <1>2
  <2>4. 100 * (a - 1) < 100 * b
    <3>1. PICK x \in Nat, y \in Nat : x = low * count /\ y = high * count
      BY <2>3
    <3>2. a \in Int /\ b \in Int /\ 100 * (a - 1) < x /\ 100 * b >= y /\ x <= y
      BY <1>2, <2>1, <2>2, <3>1
    <3> QED BY <3>2
  <2> QED BY <1>2, <2>4
<1> QED BY <1>1, <1>2, <1>3, PercentileIs DEF InOrder
=============================================================================
