---------------------------- MODULE MCSummaries ----------------------------
(* What is kept of a monitor's past, and what a page is told of it.  A behaviour *)
(* is about summaries across the turn of a month or of two years (Summaries), or *)
(* about a page that asks for the past (History).                                *)
EXTENDS Summaries, History, StatusViews, TLC

\* The end of 2025, whose last full week is skipped and whose next week belongs
\* to no month; the end of January 2026, in the middle of a week; a month that
\* begins on a Monday, as seen by a process whose monthly timer overflowed at its
\* start; the end of 2026, when the four jobs run one after the other.
MCWindows == {<<DateOf(2025, 12, 27), DateOf(2026, 1, 5)>>,
              <<DateOf(2026, 1, 25), DateOf(2026, 2, 2)>>,
              <<DateOf(2026, 5, 6), DateOf(2026, 6, 1)>>,
              <<DateOf(2026, 12, 27), DateOf(2027, 1, 1)>>}
MCCheckDays == {DateOf(2025, 12, 27), DateOf(2025, 12, 30), DateOf(2026, 1, 25),
                DateOf(2026, 1, 27), DateOf(2026, 5, 30), DateOf(2026, 12, 27)}

MonitorPermutations == Permutations(Monitors)

\* The windows of the claim: a month whose last week ends after it.
MonthWindow == {<<DateOf(2026, 1, 25), DateOf(2026, 2, 2)>>}

\* Weeks are ISO weeks: week 1 has 4 January in it, and Monday is the first day.
IsoMonday(date) == date - (date % 7)
IsoYear(date) == CHOOSE y \in Years : IsoMonday(DateOf(y, 1, 4)) <= date /\ date < IsoMonday(DateOf(y + 1, 1, 4))
IsoWeek(date) == (IsoMonday(date) - IsoMonday(DateOf(IsoYear(date), 1, 4))) \div 7 + 1
Checked == DateOf(2020, 1, 1)..DateOf(2027, 12, 31)
ASSUME WeekNumbersAreIso == \A date \in Checked : WeekNumber(date) = IsoWeek(date)
ASSUME WeekStartsAreMondays ==
  \A date \in Checked : WeekStart(IsoYear(date), WeekNumber(date)) = IsoMonday(date)
\* The week before a Monday is found, except on the last three days of December.
ASSUME PreviousWeekIsIso ==
  \A date \in {d \in Checked : DayOfWeek(d) = 1} :
    (PreviousWeek(date) = <<IsoYear(date - 7), IsoWeek(date - 7)>>)
      <=> ~(MonthOf[date] = 12 /\ DayOfMonth(date) >= 29)
-----------------------------------------------------------------------------
(* A monitor's past *)

\* Every other check succeeded; bound: 3 rows of the range and one before it.
Past ==
  /\ now = 5 /\ changes = 0
  /\ \E source \in Sources, times \in {{1, 2, 4, 5}, {2, 3, 4, 5}} :
       recorded = [s \in Sources |-> IF s = source THEN times ELSE {}]
  /\ upAt = {2, 4} \cap recorded["checks"]
  /\ \/ reading = NoReading /\ counting = Off /\ toCome = ("record" :> 2 @@ "delete" :> 1)
     \/ reading = Off /\ counting = NoCounting /\ toCome = ("record" :> 1 @@ "delete" :> 1)

NoPast ==
  /\ now = 0 /\ changes = 0 /\ upAt = {} /\ recorded = [s \in Sources |-> {}]
  /\ reading = Off /\ counting = Off /\ toCome = ("record" :> 0 @@ "delete" :> 0)

Nothing ==
  /\ window = <<0, 0>> /\ today = 0 /\ clock = 0 /\ rows = {} /\ run = [job \in Jobs |-> IdleRun]
  /\ up = FALSE /\ looping = {} /\ begun = {} /\ late = {} /\ failed = {} /\ failures = MaxFailures

MCInit == ((Init /\ NoPast) \/ (Nothing /\ Past)) /\ HistoryInit

MCNext ==
  \/ window # <<0, 0>> /\ Next /\ UNCHANGED historyVars
  \/ window = <<0, 0>> /\ HistoryNext /\ UNCHANGED vars

MCSpec == MCInit /\ [][MCNext]_<<vars, historyVars>>

\* The rows, the runs and what is read of them are of their types.
TypesOK == (window # <<0, 0>> => TypeOK) /\ HistoryTypeOK

\* Summaries alone.
MonthSpec == Init /\ NoPast /\ [][Next /\ UNCHANGED historyVars]_<<vars, historyVars>>

-----------------------------------------------------------------------------
(* Statistics, of small days: two or three parts with one check or two each.   *)

SmallChecks == UNION {[1..n -> [isUp : BOOLEAN, latencyMs : {Null, 1, 4}]] : n \in 1..2}
DayOf(checks) ==
  aggregateMonitorForDate(checks, [i \in DOMAIN checks |-> [startedAt |-> 30 * (checks[i].latencyMs + 1),
                                                            resolvedAt |-> IF checks[i].isUp THEN 200 ELSE Null]],
                          86399)
ASSUME RollUpsSummarise ==
  \A a, b \in SmallChecks :
    LET week == RollUp(<<DayOf(a), DayOf(b)>>)
        day == DayOf(a \o b)
    IN IsSummaryOf(week, day) /\ MeanIsOfChecks(week, day, a \o b)
ASSUME RollUpsCompose ==
  \A a \in SmallChecks, b, c \in {s \in SmallChecks : Len(s) = 1} :
    LET month == RollUp(<<RollUp(<<DayOf(a), DayOf(b)>>), RollUp(<<DayOf(c)>>)>>)
        day == DayOf(a \o b \o c)
    IN IsSummaryOf(month, day) /\ MeanIsOfChecks(month, day, a \o b \o c)
ASSUME PercentilesAreNearestRank ==
  \A n \in 1..120, every \in 1..3, percent \in {95, 99} :
    LET s == [i \in 1..n |-> i \div every] IN IsPercentile(calculatePercentile(s, percent), s, percent)
-----------------------------------------------------------------------------
(* What the pages make of it *)

\* A status page is operational if something is up and nothing down, out if all is
\* down, and degraded if something is; what is not known is taken for well.
ASSUME OverallStatusIsOfItsMonitors ==
  \A s \in UNION {[1..n -> {"UP", "DOWN", "UNKNOWN"}] : n \in 0..5} :
    LET overall == calculateOverallStatus(s)
        some(status) == \E i \in DOMAIN s : s[i] = status
    IN /\ overall = "OPERATIONAL" <=> some("UP") /\ ~some("DOWN")
       /\ overall = "OUTAGE" <=> s # <<>> /\ \A i \in DOMAIN s : s[i] = "DOWN"
       /\ overall = "DEGRADED" <=> some("DOWN") /\ overall # "OUTAGE"
       /\ Availability(s).sum > 0 <=> overall = "OPERATIONAL" \/ (overall = "DEGRADED" /\ some("UP"))

MCIncidents == [startedAt : {0, 60}, resolvedAt : {Null, 90, 150}, cause : 1..2]
IncidentLists == {s \in UNION {[1..n -> MCIncidents] : n \in 0..3} :
                    \A i, j \in DOMAIN s : i < j => s[i].startedAt >= s[j].startedAt}

\* A status page and the dashboard, asked of the same rows, differ only while an
\* incident is open and the latest check does not say so.
ASSUME ViewsAgree ==
  \A checks \in {<<>>} \cup SmallChecks, incidents \in {s \in IncidentLists : Len(s) < 2} :
    LET latest == IF checks = <<>> THEN "UNKNOWN" ELSE StatusOf(checks[1])
        row == dashboardRow([id |-> 1, isActive |-> TRUE, lastCheckedAt |-> Null], <<>>,
                            <<[currentStatus |-> latest, uptimePercentage |-> 100, latestCheckAt |-> Null]>>)
    IN row.status = toDashboardMonitorStatus(toMonitorSummary(checks, incidents))
         <=> (OpenIncident(incidents) = <<>> \/ latest = "DOWN")

\* The chart's figures of a day are those of its summary, the mean to half a millisecond.
ASSUME ChartsAgreeWithSummaries ==
  \A checks \in SmallChecks :
    LET chart == buildHistoryStats(checks)
        day == DayOf(checks)
        twice == 2 * day.avgLatencyMs.sum - 2 * chart.averageLatencyMs * day.avgLatencyMs.of
    IN /\ chart.uptimePercentage = day.uptimePercentage
       /\ <<chart.minimumLatencyMs, chart.maximumLatencyMs>> = <<day.minLatencyMs, day.maxLatencyMs>>
       /\ day.avgLatencyMs = NoMean <=> chart.averageLatencyMs = Null
       /\ day.avgLatencyMs # NoMean => -day.avgLatencyMs.of <= twice /\ twice < day.avgLatencyMs.of

\* Sorting loses and adds nothing, and has every two in order; a second click on a
\* heading reverses all but equals, which keep their order; by their end, those that
\* are not resolved are first or last.
ASSUME SortedIsInOrder ==
  \A s \in IncidentLists, field \in SortFields :
    LET sort == handleSort([field |-> "none", direction |-> "desc"], field)
        sorted(o) == filteredAndSortedItems(s, {i \in MCIncidents : i.cause = 1}, o.field, o.direction, 200)
        rising == sorted(sort)
        falling == sorted(handleSort(sort, field))
        key(i) == SortKey(i, field, 200)
    IN /\ \A incident \in MCIncidents :
            LET times(t) == Cardinality({i \in DOMAIN t : t[i] = incident}) IN
            times(rising) = times(falling) /\ times(rising) = IF incident.cause = 1 THEN times(s) ELSE 0
       /\ \A i, j \in DOMAIN rising : i < j => key(rising[i]) <= key(rising[j]) /\ key(falling[i]) >= key(falling[j])
       /\ field = "cause" => rising = SelectSeq(s, LAMBDA i : i.cause = 1) /\ falling = rising
       /\ field = "resolvedAt" =>
            \A i, j \in DOMAIN rising : rising[i].resolvedAt # Null /\ rising[j].resolvedAt = Null => j < i

\* A day of the filter is a whole day, and the next begins where it ends; an incident
\* is found on the day it began only, by its status or by ALL.
ASSUME FiltersPartition ==
  /\ \A day \in 0..3, ahead \in -12..14 :
       toEndOfDayIso(day, ahead) + 1 = toStartOfDayIso(day + 1, ahead)
  /\ \A s \in IncidentLists :
       LET found(status, from, until) == Len(listIncidents(s, status, from, until)) IN
       /\ found("OPEN", Null, Null) + found("RESOLVED", Null, Null) = Len(s)
       /\ found("ALL", Null, 59) + found("ALL", 60, Null) = Len(s)
       /\ ~ValidRange(60, 59) /\ found("ALL", 60, 59) = 0

\* A monitor is selected as long as there is one, and it is one of the rows; it is
\* among those found unless the user selected it or nothing is found.
ASSUME SelectionIsOfARow ==
  \A ids \in SUBSET (1..3), hidden \in SUBSET (1..3), selected \in {Null} \cup 1..4 :
    LET table == SetToSeq([id : ids])
        found == SelectSeq(table, LAMBDA r : r.id \notin hidden)
        id == effectiveSelectedMonitorId(table, found, selected)
    IN /\ id \in ids \/ (ids = {} /\ id = Null)
       /\ found # <<>> /\ id # selected => id \notin hidden

\* The checks shown beside an incident are of the page that was read, and some are
\* shown if there are any; they are of its time as soon as one on that page is.
ASSUME ContextIsOfThePage ==
  \A n \in {0, 1, 13, 100, 130}, startedAt \in {0, 8 * Hour, 40 * Hour}, lasted \in {Null, Hour} :
    LET checks == [i \in 1..n |-> [at |-> (131 - i) * 1200]]
        incident == [startedAt |-> startedAt, resolvedAt |-> IF lasted = Null THEN Null ELSE startedAt + lasted]
        near(c) == c.at >= startedAt - 6 * Hour /\ (lasted # Null => c.at <= startedAt + lasted + 6 * Hour)
        shown == contextualChecks(incident, checks)
    IN /\ shown = <<>> <=> checks = <<>>
       /\ \A i \in DOMAIN shown : \E j \in DOMAIN checks : j <= 100 /\ checks[j] = shown[i]
       /\ (\E j \in 1..100 : j <= n /\ near(checks[j])) => \A i \in DOMAIN shown : near(shown[i])
       /\ Len(shown) < 13 \/ near(shown[1])

\* Above the rows: the mean of the uptimes is among them; every row has one status,
\* but one that is CHECKING is told of as UP in the recent activity.
FewRows == UNION {[1..n -> [id : {1}, status : {"UP", "DOWN", "CHECKING"}, uptime : {Null, 50, 100},
                            isActive : {TRUE}, lastCheckedAt : {Null, 1}]] : n \in 0..2}
ASSUME FiguresAreOfTheRows ==
  \A table \in FewRows :
    LET o == overview(table)
        mean == globalUptime(table)
        activity == recentActivity(<<>>, table)
        checked == {i \in DOMAIN table : table[i].lastCheckedAt # Null}
    IN /\ o.up + o.down + o.checking = o.total /\ o.active = o.total
       /\ Between(o.portfolioHealth, 0, 1) /\ Between(mean, 0, 100)
       /\ (\A i \in DOMAIN table : table[i].uptime = 50) /\ table # <<>> => SameMean(mean, [sum |-> 50, of |-> 1])
       /\ Len(activity) = Cardinality(checked)
       /\ (\E i \in DOMAIN activity : activity[i].status = "DOWN")
            <=> \E i \in checked : table[i].status = "DOWN"

\* A duration is told as no less than a minute, to half a minute and half a tenth
\* of the hour or day it is told in.
ASSUME DurationsAreRounded ==
  \A duration \in {0, 29, 30, 90, 119, 3569, 3570, 3780, 86369, 86370, 90000, 864000} :
    LET label == getIncidentDurationLabel([startedAt |-> 5, resolvedAt |-> Null], 5 + duration)
        unit == ("min" :> 60 @@ "h" :> Hour @@ "d" :> 24 * Hour)[label[2]]
        error == 10 * duration - label[1] * unit
        most == 300 + IF label[2] = "min" THEN 0 ELSE unit \div 2
    IN IF duration < 30 THEN label = <<10, "min">> ELSE label[1] >= 10 /\ -most <= error /\ error <= most
=============================================================================
