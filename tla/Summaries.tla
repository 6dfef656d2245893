----------------------------- MODULE Summaries -----------------------------
(***************************************************************************)
(* The summaries process rolls check results up into daily, weekly,        *)
(* monthly and yearly rows: four jobs of one shape.  A job lists the       *)
(* monitors that have rows of the level below in its period, writes one    *)
(* row for each from what it reads, and, when none failed, deletes the     *)
(* rows of the period.  Nothing holds the four together but the clock:     *)
(* they are timers five minutes apart, and no run waits for another.       *)
(*                                                                         *)
(* Every await is an action.  The rows of one monitor and day of check     *)
(* results are one row of level 0, and a row of any level is the set of    *)
(* days whose checks it counts.  The same process deletes old raw rows.    *)
(***************************************************************************)
EXTENDS Calendar, FiniteSets

CONSTANTS
  Monitors,       \* monitor ids
  Windows,        \* <<first, last>>: the days a behaviour may cover
  CheckDays,      \* days with check results
  RetentionDays,  \* CHECK_RESULTS_RETENTION_DAYS
  MaxFailures     \* bound: crashes and failing queries in a behaviour

\* Bound: the dates whose years have a year before and after them in the calendar.
Span == YearStart[FirstYear + 1]..(YearStart[LastYear] - 1)

ASSUME RetentionAssumption == RetentionDays \in Nat \ {0}
ASSUME MonitorsAssumption == IsFiniteSet(Monitors)
ASSUME WindowsAssumption == \A w \in Windows : w \in Span \X Span /\ w[1] <= w[2]
ASSUME CheckDaysAssumption == CheckDays \subseteq Int
ASSUME FailuresAssumption == MaxFailures \in Nat

VARIABLES
  today, clock,  \* the date, and how many of the day's moments have passed
  rows,          \* CheckResult and the four summary tables
  run,           \* per job, its run: isRunning and the locals of runAggregation
  up,            \* the process is up
  looping,       \* jobs whose timer exceeds what a timer can hold
  window,        \* the days of this behaviour
  begun,         \* history: the periods some run listed
  late,          \* history: periods begun before all their rows were there
  failed,        \* history: periods missed, cut short, or left with an error
  failures       \* failures so far, for the bound

vars == <<today, clock, rows, run, up, looping, window, begun, late, failed, failures>>

Day == 1  Week == 2  Month == 3  Year == 4
Jobs == Day..Year

\* The moment of each job, in the order of the day: 00:05, 00:10, 00:15, 00:20.
OnSchedule(job) ==
  CASE job = Day -> TRUE
    [] job = Week -> DayOfWeek(today) = 1
    [] job = Month -> DayOfMonth(today) = 1
    [] job = Year -> today = YearStart[YearOf[today]]

\* The period a run aggregates: yesterday, and the three getPrevious...Info.
Due(job) ==
  CASE job = Day -> <<today - 1>>
    [] job = Week -> PreviousWeek(today)
    [] job = Month -> PreviousMonth(today)
    [] job = Year -> PreviousYear(today)

\* The where clauses: of the raw rows of a day, the days of a week (by their date),
\* the weeks of a month (by their Monday) and the months of a year (by their key).
InDay(row, key) == row.key = key
InWeek(row, key) == WeekStart(key[1], key[2]) <= row.key[1] /\ row.key[1] <= WeekEnd(key[1], key[2])
InMonth(row, key) ==
  LET start == WeekStart(row.key[1], row.key[2]) IN
  /\ row.key[1] = key[1]
  /\ MonthStart(key[1], key[2]) <= start /\ start <= MonthEnd(key[1], key[2])
InYear(row, key) == row.key[1] = key[1]

\* Is the row, of the level below, in the period of the job?
Selects(job, key, row) ==
  /\ row.level = job - 1
  /\ CASE job = Day -> InDay(row, key)
       [] job = Week -> InWeek(row, key)
       [] job = Month -> InMonth(row, key)
       [] job = Year -> InYear(row, key)

Selected(job, key) == {row \in rows : Selects(job, key, row)}

Row(level, m, key, days) == [level |-> level, monitor |-> m, key |-> key, days |-> days]

IdleRun == [pc |-> "idle", key |-> <<>>, todo |-> {}, monitor |-> {}, read |-> {},
            errors |-> 0, processed |-> 0]

\* Timers wait 2^31 - 1 ms at most, 24.86 days; a longer one fires after 1 ms.
Overflows(days) == IF days > 25 THEN {TRUE} ELSE IF days = 25 THEN BOOLEAN ELSE {FALSE}

\* What the bootstraps of the monthly and the yearly job may leave looping.
BootLoops ==
  {loops \in SUBSET {Month, Year} :
     /\ (Month \in loops) \in Overflows(NextFirstOfMonth(today, clock >= Month) - today)
     /\ (Year \in loops) \in Overflows(NextFirstOfJanuary(today, clock >= Year) - today)}

Init ==
  /\ window \in Windows
  /\ today = window[1] /\ clock = 0
  /\ rows = {}
  /\ run = [job \in Jobs |-> IdleRun]
  /\ up = TRUE
  /\ looping \in BootLoops
  /\ begun = {} /\ late = {} /\ failed = {}
  /\ failures = 0

-----------------------------------------------------------------------------
(* Time *)

Idle(job) == run[job].pc = "idle"

\* A job that fires again after 1 ms has nothing left to do.
Caught(job) == job \in looping /\ up /\ Idle(job) => Selected(job, Due(job)) = {}

Start(job) == [run EXCEPT ![job] = [IdleRun EXCEPT !.pc = "list", !.key = Due(job)]]

\* The jobs whose moment of today is still to come, up to a job.
ToCome(last) == {job \in (clock + 1)..last : OnSchedule(job)}

\* The moment of a job passes: runAggregation, unless the last one is running.
\* The intervals of the monthly and the yearly job overflow: one of those is running,
\* or has just listed the period and found nothing.
Moment(job) ==
  /\ ToCome(job) = {job}
  /\ \A j \in Jobs : Caught(j)
  /\ clock' = job
  /\ IF job \notin looping
     THEN /\ run' = IF up /\ Idle(job) THEN Start(job) ELSE run
          /\ failed' = IF up /\ Idle(job) THEN failed ELSE failed \cup {<<job, Due(job)>>}
          /\ looping' = IF up /\ job \in {Month, Year} THEN looping \cup {job} ELSE looping
     ELSE UNCHANGED <<run, failed, looping>>
  /\ begun' = IF job \in looping /\ Idle(job) THEN begun \cup {<<job, Due(job)>>} ELSE begun
  /\ UNCHANGED <<today, rows, up, window, late, failures>>

\* Midnight: the day's checks are all in.  Bound: the day's runs are over, though
\* they may last beyond each other's moments.
Midnight ==
  /\ ToCome(Year) = {} /\ today < window[2]
  /\ \A j \in Jobs : Caught(j) /\ Idle(j)
  /\ today' = today + 1 /\ clock' = 0
  /\ rows' = rows \cup {Row(0, m, <<today>>, {today}) : m \in IF today \in CheckDays THEN Monitors ELSE {}}
  /\ UNCHANGED <<run, up, looping, window, begun, late, failed, failures>>

\* The interval of a job whose timer overflows.
FireAgain(job) ==
  /\ up /\ job \in looping /\ Idle(job)
  /\ Selected(job, Due(job)) # {}
  /\ run' = Start(job)
  /\ UNCHANGED <<today, clock, rows, up, looping, window, begun, late, failed, failures>>

-----------------------------------------------------------------------------
(* A run *)

\* groupBy: the monitors that have rows in the period.  Nothing is deleted
\* when there are none.
List(job) ==
  LET monitors == {row.monitor : row \in Selected(job, run[job].key)} IN
  /\ run[job].pc = "list"
  /\ run' = [run EXCEPT ![job] = IF monitors = {} THEN IdleRun
                                 ELSE [@ EXCEPT !.pc = "read", !.todo = monitors]]
  /\ begun' = begun \cup {<<job, run[job].key>>}
  /\ UNCHANGED <<today, clock, rows, up, looping, window, late, failed, failures>>

\* Mutants of AfterLoop: the rows are deleted whatever failed; the week keeps its days.
DeleteWhateverFailed(r) == IF r.todo # {} THEN "read" ELSE "delete"
NeverDelete(r) == IF r.todo # {} THEN "read" ELSE "idle"

\* After a monitor: the next one; after the last, the deletion if all went well.
AfterLoop(r) ==
  IF r.todo # {} THEN "read"
  ELSE IF r.errors = 0 /\ r.processed > 0 THEN "delete" ELSE "idle"

Continue(job, r) ==
  LET pc == AfterLoop(r) IN
  run' = [run EXCEPT ![job] = IF pc = "idle" THEN IdleRun ELSE [r EXCEPT !.pc = pc]]

\* The statistics of a row, made from those of the rows it counts: which days
\* went into them.
Counted(read) == UNION {row.days : row \in read}

\* findMany: the rows of the next monitor.
ReadMonitor(job) ==
  /\ run[job].pc = "read"
  /\ \E m \in run[job].todo :
       LET mine == {row \in Selected(job, run[job].key) : row.monitor = m}
           rest == [run[job] EXCEPT !.todo = @ \ {m}]
       IN IF mine = {} THEN Continue(job, [rest EXCEPT !.processed = @ + 1])
          ELSE run' = [run EXCEPT ![job] = [rest EXCEPT !.pc = "write", !.monitor = {m},
                                            !.read = Counted(mine)]]
  /\ UNCHANGED <<today, clock, rows, up, looping, window, begun, late, failed, failures>>

\* Mutant of OtherRows: create, never update.
AllRows(job) == rows

\* The rows an upsert leaves alone.
OtherRows(job) ==
  {row \in rows : ~(row.level = job /\ row.key = run[job].key /\ row.monitor \in run[job].monitor)}

\* upsert: the row of the period counts what was read, whatever it counted before.
\* It comes late when the period above was listed before it was there.
Upsert(job) ==
  LET r == run[job]
      new == {Row(job, m, r.key, r.read) : m \in r.monitor}
  IN
  /\ r.pc = "write"
  /\ rows' = OtherRows(job) \cup new
  /\ late' = late \cup {p \in begun : \E row \in new : Selects(p[1], p[2], row)}
  /\ Continue(job, [r EXCEPT !.monitor = {}, !.read = {}, !.processed = @ + 1])
  /\ UNCHANGED <<today, clock, up, looping, window, begun, failed, failures>>

\* deleteMany: every row of the period, the ones the run did not see included.
Delete(job) ==
  /\ run[job].pc = "delete"
  /\ rows' = rows \ Selected(job, run[job].key)
  /\ run' = [run EXCEPT ![job] = IdleRun]
  /\ UNCHANGED <<today, clock, up, looping, window, begun, late, failed, failures>>

\* A query fails: of a monitor, the next one is taken; of the list or the
\* deletion, the run ends.
QueryFails(job) ==
  LET r == run[job] IN
  /\ r.pc # "idle" /\ failures < MaxFailures
  /\ failures' = failures + 1
  /\ failed' = failed \cup {<<job, r.key>>}
  /\ CASE r.pc = "read" -> \E m \in r.todo :
                             Continue(job, [r EXCEPT !.todo = @ \ {m}, !.errors = @ + 1])
       [] r.pc = "write" -> Continue(job, [r EXCEPT !.monitor = {}, !.read = {}, !.errors = @ + 1])
       [] r.pc \in {"list", "delete"} -> run' = [run EXCEPT ![job] = IdleRun]
  /\ UNCHANGED <<today, clock, rows, up, looping, window, begun, late>>

-----------------------------------------------------------------------------
(* The process and the retention *)

Crash ==
  /\ up /\ failures < MaxFailures
  /\ failures' = failures + 1
  /\ up' = FALSE /\ looping' = {}
  /\ run' = [job \in Jobs |-> IdleRun]
  /\ failed' = failed \cup {<<job, run[job].key>> : job \in {j \in Jobs : ~Idle(j)}}
  /\ UNCHANGED <<today, clock, rows, window, begun, late>>

Restart ==
  /\ ~up /\ up' = TRUE
  /\ looping' \in BootLoops
  /\ UNCHANGED <<today, clock, rows, run, window, begun, late, failed, failures>>

\* The cleanup deletes results older than the cutoff, oldest first, at the start
\* and at every interval.
Cleanup ==
  /\ up
  /\ \E row \in rows :
       /\ row.level = 0 /\ row.key[1] < today - RetentionDays
       /\ \A older \in rows : older.level = 0 => row.key[1] <= older.key[1]
       /\ rows' = rows \ {row}
  /\ UNCHANGED <<today, clock, run, up, looping, window, begun, late, failed, failures>>

Next ==
  \/ Midnight \/ Crash \/ Restart \/ Cleanup
  \/ \E job \in Jobs :
       \/ Moment(job) \/ FireAgain(job)
       \/ List(job) \/ ReadMonitor(job) \/ Upsert(job) \/ Delete(job)
       \/ QueryFails(job)

Spec == Init /\ [][Next]_vars

-----------------------------------------------------------------------------
(* Properties *)

\* Every row has its level's form, holds days of the window, and a table has
\* one row for a monitor and a period (its unique index).
TypeOK ==
  /\ today \in window[1]..window[2] /\ clock \in 0..Year
  /\ \A row \in rows :
       /\ row.level \in 0..Year /\ row.monitor \in Monitors
       /\ row.days # {} /\ row.days \subseteq window[1]..today
       /\ \A other \in rows :
            other.level = row.level /\ other.monitor = row.monitor /\ other.key = row.key => other = row
  /\ \A job \in Jobs :
       /\ run[job].pc \in {"idle", "list", "read", "write", "delete"}
       /\ run[job].todo \subseteq Monitors /\ Cardinality(run[job].monitor) <= 1
       /\ run[job].errors + run[job].processed + Cardinality(run[job].todo) <= Cardinality(Monitors)
  /\ up \in BOOLEAN /\ looping \subseteq {Month, Year}
  /\ failures \in 0..MaxFailures

\* The period of each level that a day's checks belong to.  A week belongs to
\* the month and the year of its Monday.
Monday(day) == day - ((DayOfWeek(day) + 6) % 7)
Touches(period, day) ==
  CASE period[1] = Day -> period[2] = <<day>>
    [] period[1] = Week -> WeekStart(period[2][1], period[2][2]) = Monday(day)
    [] period[1] = Month -> period[2] = <<YearOf[Monday(day)], MonthOf[Monday(day)]>>
    [] period[1] = Year -> period[2] = <<YearOf[Monday(day)]>>

Running == {<<job, run[job].key>> : job \in {j \in Jobs : ~Idle(j)}}
Touched(periods, day) == \E p \in periods : Touches(p, day)

Counts(row, m, day) == row.monitor = m /\ day \in row.days

\* Days whose checks were recorded and that the retention may not take.
Kept == {day \in CheckDays : window[1] <= day /\ day < today /\ day >= today - RetentionDays}

\* Failing queries and crashes lose no check: a recorded check that no table
\* counts was deleted or overwritten because a row came late, after the run
\* that should have read it had listed its period.
LossOnlyThroughLateRows ==
  \A m \in Monitors, day \in Kept :
    \/ \E row \in rows : Counts(row, m, day)
    \/ Touched(late, day)

\* A check counts in two tables only while a run is moving it, or after one
\* was cut short, failed, or met a late row: readers that add the tables up
\* count it twice then.
CountedOnceUnlessFailed ==
  \A r1, r2 \in rows : \A day \in r1.days :
    r1 # r2 /\ Counts(r2, r1.monitor, day) => Touched(failed \cup late \cup Running, day)

\* The periods no weekly run aggregates (a Monday on 29, 30 or 31 December takes
\* the week to be the first of the year before last), and those no monthly run
\* does (the first week of a year that starts in December is of neither).
SkippedAtNewYear(level, day) ==
  LET next == Monday(day) + 7 IN
  \/ level = Day /\ MonthOf[next] = 12 /\ DayOfMonth(next) >= 29
  \/ level = Week /\ YearOf[Monday(day)] # YearOf[Monday(day) + 6] /\ DayOfMonth(Monday(day)) >= 29

\* When the run that reads a row of a level is due, as <<date, clock>>.
DueAt(level, day) ==
  LET monday == Monday(day) IN
  CASE level = 0 -> <<day + 1, Day>>
    [] level = Day -> <<monday + 7, Week>>
    [] level = Week -> <<MonthEnd(YearOf[monday], MonthOf[monday]) + 1, Month>>
    [] level = Month -> <<YearStart[YearOf[monday] + 1], Year>>
    [] level = Year -> <<window[2] + 1, 0>>
\* Has a moment passed since the process first started?
Passed(moment) ==
  /\ window[1] <= moment[1]
  /\ today > moment[1] \/ (today = moment[1] /\ clock >= moment[2])

\* A row is left behind by the run that should have rolled it up only when that
\* run failed or was missed, when the row came late, or at the turn of a year.
LeftBehindHasACause ==
  \A row \in rows : \A day \in row.days :
    Passed(DueAt(row.level, day)) =>
      \/ Touched(failed \cup late \cup Running, day)
      \/ SkippedAtNewYear(row.level, day)

\* A month and a year are aggregated once, when they are over: "After first
\* run, schedule monthly", "schedule yearly", as the jobs' comments say.
MonthsAndYearsAreAggregatedOnce ==
  [][\A job \in {Month, Year} :
       run[job].pc = "list" /\ run'[job].pc = "read" =>
         \A row \in rows : ~(row.level = job /\ row.key = run[job].key)]_vars
=============================================================================
