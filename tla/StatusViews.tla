---------------------------- MODULE StatusViews ----------------------------
(***************************************************************************)
(* What the pages make of the rows they were given: the status of a        *)
(* monitor on a status page and on the dashboard, the figures above them,  *)
(* the monitor that is selected, and the incidents of a page in the order  *)
(* it was clicked into.                                                    *)
(*                                                                         *)
(* A monitor has checks, newest first, and incidents, newest first.  Times *)
(* are seconds.  Names, causes and types are numbers, in the order         *)
(* localeCompare has them.                                                 *)
(***************************************************************************)
EXTENDS Statistics, FiniteSets

Hour == 3600

\* a ?? b, where Null is what there may be none of; option?.field, of a sequence of
\* one record or none.
Or(a, b) == IF a = Null THEN b ELSE a
Field(option, field, none) == IF option = <<>> THEN none ELSE option[1][field]
Share(flags) == [sum |-> Len(SelectSeq(flags, LAMBDA f : f)), of |-> Len(flags)]
FirstFew(s, n) == SubSeq(s, 1, IF Len(s) < n THEN Len(s) ELSE n)

-----------------------------------------------------------------------------
(* Status pages *)

\* A page is found by its slug only while it is public.
findPublicBySlug(pages, slug) == {p \in pages : p.slug = slug /\ p.isPublic}

\* The rows that are read with a page: the latest check, the latest open incident.
LatestCheck(checks) == FirstFew(checks, 1)
OpenIncident(incidents) == FirstFew(SelectSeq(incidents, LAMBDA i : i.resolvedAt = Null), 1)

StatusOf(check) == IF check.isUp THEN "UP" ELSE "DOWN"

\* The status of the summary.
toMonitorSummary(checks, incidents) ==
  IF OpenIncident(incidents) # <<>> THEN "DOWN"
  ELSE IF LatestCheck(checks) = <<>> THEN "UNKNOWN" ELSE StatusOf(checks[1])

calculateOverallStatus(statuses) ==
  LET count(status) == Len(SelectSeq(statuses, LAMBDA s : s = status)) IN
  IF statuses = <<>> THEN "UNKNOWN"
  ELSE IF count("DOWN") = 0 /\ count("UP") > 0 THEN "OPERATIONAL"
  ELSE IF count("DOWN") = Len(statuses) THEN "OUTAGE"
  ELSE IF count("DOWN") > 0 THEN "DEGRADED"
  ELSE "UNKNOWN"

\* "Current uptime", a share of the monitors.
Availability(statuses) == Share([i \in DOMAIN statuses |-> statuses[i] = "UP"])

-----------------------------------------------------------------------------
(* The dashboard *)

toDashboardMonitorStatus(status) == IF status \in {"UP", "DOWN"} THEN status ELSE "CHECKING"

\* The event stream, if it has told of the monitor, before the statistics; those
\* have the status of the latest check, whatever incident is open.
dashboardRow(monitor, live, stats) ==
  [id |-> monitor.id,
   status |-> toDashboardMonitorStatus(Field(live, "status", Field(stats, "currentStatus", "UNKNOWN"))),
   uptime |-> Field(stats, "uptimePercentage", Null),
   lastCheckedAt |-> Or(Field(live, "lastCheckedAt", Null),
                        Or(Field(stats, "latestCheckAt", Null), monitor.lastCheckedAt)),
   isActive |-> Field(live, "isActive", monitor.isActive)]

\* The row itself if it is still there, else the first that is found, else the first.
effectiveSelectedMonitorId(rows, found, selected) ==
  IF \E i \in DOMAIN rows : rows[i].id = selected THEN selected
  ELSE IF found # <<>> THEN found[1].id
  ELSE IF rows # <<>> THEN rows[1].id ELSE Null

overview(rows) ==
  LET count(status) == Len(SelectSeq(rows, LAMBDA r : r.status = status)) IN
  [total |-> Len(rows), up |-> count("UP"), down |-> count("DOWN"), checking |-> count("CHECKING"),
   active |-> Len(SelectSeq(rows, LAMBDA r : r.isActive)),
   portfolioHealth |-> IF rows = <<>> THEN [sum |-> 0, of |-> 1] ELSE Share([i \in DOMAIN rows |-> rows[i].status = "UP"])]

\* The mean of the monitors' uptimes, in percent: however often each was checked.
globalUptime(rows) ==
  LET known == NotNull(Column(rows, "uptime")) IN
  IF known = <<>> THEN [sum |-> 0, of |-> 1] ELSE [sum |-> Total(known), of |-> Len(known)]

\* What is shown before an event has arrived: a monitor that is CHECKING as UP.
recentActivity(activities, rows) ==
  IF activities # <<>> THEN activities
  ELSE LET shown == FirstFew(SelectSeq(rows, LAMBDA r : r.lastCheckedAt # Null), 8) IN
       [i \in DOMAIN shown |->
          [monitorId |-> shown[i].id, changedAt |-> shown[i].lastCheckedAt,
           status |-> IF shown[i].status = "CHECKING" THEN "UP" ELSE shown[i].status]]

buildHistorySeries(checks) ==
  [i \in DOMAIN checks |-> [timestamp |-> checks[i].at, latency |-> checks[i].latencyMs,
                            status |-> StatusOf(checks[i]), uptime |-> IF checks[i].isUp THEN 100 ELSE 0]]

buildHistoryStats(checks) ==
  LET latencies == NotNull(Column(checks, "latencyMs")) IN
  [averageLatencyMs |-> RoundedMean(latencies),
   minimumLatencyMs |-> Least(latencies), maximumLatencyMs |-> Greatest(latencies),
   uptimePercentage |-> IF checks = <<>> THEN [sum |-> 0, of |-> 1] ELSE Share(Column(checks, "isUp"))]

-----------------------------------------------------------------------------
(* Incidents *)

SortFields == {"cause", "status", "resolvedAt", "duration", "startedAt"}

\* The days of the filter are the browser's, which is so many hours ahead of UTC
\* (bound: on every day).
toStartOfDayIso(day, ahead) == (24 * day - ahead) * Hour
toEndOfDayIso(day, ahead) == toStartOfDayIso(day + 1, ahead) - 1

StatusOfIncident(incident) == IF incident.resolvedAt = Null THEN "OPEN" ELSE "RESOLVED"

\* A range that ends before it begins is refused.
ValidRange(from, until) == Null \in {from, until} \/ from <= until

\* The list the API answers with otherwise; Null leaves a bound out.
listIncidents(incidents, status, from, until) ==
  SelectSeq(incidents, LAMBDA i : /\ status \in {"ALL", StatusOfIncident(i)}
                                  /\ from # Null => from <= i.startedAt
                                  /\ until # Null => i.startedAt <= until)

durationOf(incident, now) == Or(incident.resolvedAt, now) - incident.startedAt

\* compareNullableDates has those without a date first, as Null is before any time;
\* "OPEN" is before "RESOLVED".
SortKey(incident, field, now) ==
  CASE field = "cause" -> incident.cause
    [] field = "status" -> IF StatusOfIncident(incident) = "OPEN" THEN 0 ELSE 1
    [] field = "resolvedAt" -> incident.resolvedAt
    [] field = "duration" -> durationOf(incident, now)
    [] field = "startedAt" -> incident.startedAt

\* Only what is on the page is searched and sorted; equals keep their order.  The
\* search matches a set of incidents.
filteredAndSortedItems(items, matching, field, direction, now) ==
  LET found == SelectSeq(items, LAMBDA i : i \in matching)
      key(i) == (IF direction = "asc" THEN 1 ELSE -1) * SortKey(found[i], field, now)
      order == SortSeq([i \in DOMAIN found |-> i],
                       LAMBDA i, j : key(i) < key(j) \/ (key(i) = key(j) /\ i < j))
  IN [i \in DOMAIN found |-> found[order[i]]]

\* A click on the heading of a column.
handleSort(sort, field) ==
  IF sort.field = field THEN [sort EXCEPT !.direction = IF @ = "asc" THEN "desc" ELSE "asc"]
  ELSE [field |-> field, direction |-> "asc"]

\* Tens of the unit that are shown, and the unit.
getIncidentDurationLabel(incident, now) ==
  LET minutes == (durationOf(incident, now) + 30) \div 60
      tenths(unit) == (20 * minutes + unit) \div (2 * unit)
  IN IF minutes < 60 THEN <<IF minutes < 1 THEN 10 ELSE 10 * minutes, "min">>
     ELSE IF minutes < 24 * 60 THEN <<tenths(60), "h">> ELSE <<tenths(24 * 60), "d">>

\* Of the newest checks of the monitor, those around the incident, or else the newest.
contextualChecks(incident, checks) ==
  LET items == FirstFew(checks, 100)
      around == SelectSeq(items, LAMBDA c :
                  /\ c.at >= incident.startedAt - 6 * Hour
                  /\ incident.resolvedAt = Null \/ c.at <= incident.resolvedAt + 6 * Hour)
  IN IF around # <<>> THEN around ELSE FirstFew(items, 12)
=============================================================================
