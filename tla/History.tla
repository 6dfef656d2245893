------------------------------- MODULE History -------------------------------
(***************************************************************************)
(* What a page asks of one monitor's past while it goes on being checked:  *)
(* the history of a range, collected page by page, newest first, and the   *)
(* statistics, six queries sent together.  Neither is read in a            *)
(* transaction: rows are recorded and deleted between the queries, the     *)
(* oldest by the retention, those of a day after they were summarised.     *)
(*                                                                         *)
(* Rows are known by their time, and the order of a list by its ranks.     *)
(* The history of incidents is read as that of checks, but the API applies *)
(* the range.                                                              *)
(***************************************************************************)
EXTENDS Integers, FiniteSets

CONSTANTS
  HISTORY_PAGE_SIZE, HISTORY_MAX_PAGES,
  RangeLength,   \* the range reaches back so far
  DayLength,     \* the times of a day
  Moments        \* bound: the times rows are recorded at

ASSUME HistoryAssumption ==
  /\ HISTORY_PAGE_SIZE \in Nat \ {0} /\ HISTORY_MAX_PAGES \in Nat \ {0}
  /\ RangeLength \in Nat /\ DayLength \in Nat \ {0} /\ Moments \subseteq Nat

Sources == {"checks", "incidents"}

VARIABLES
  now,       \* the time
  recorded,  \* the rows, as times, of either kind
  upAt,      \* the checks among them that found the monitor up
  reading,   \* collectPaginatedWindow, for the source it reads
  counting,  \* aggregateCheckStats: what has been counted so far
  changes,   \* ghost: rows recorded or deleted since the statistics were asked for
  toCome     \* bound: rows that may still be recorded, and deletions

historyVars == <<now, recorded, upAt, reading, counting, changes, toCome>>

-----------------------------------------------------------------------------
(* The API *)

\* The place of a row, newest first.  Bound: the rows are those of the user's own monitor.
Rank(rows, t) == Cardinality({x \in rows : x > t})

\* The where clauses: incidents of the range, checks of any time.
Visible(source, start, end) ==
  IF source = "checks" THEN recorded["checks"]
  ELSE {t \in recorded["incidents"] : start <= t /\ t <= end}

\* findMany, with skip and take.
Slice(rows, page) ==
  {t \in rows : (page - 1) * HISTORY_PAGE_SIZE <= Rank(rows, t) /\ Rank(rows, t) < page * HISTORY_PAGE_SIZE}

\* Mutant of PagesOf: a last page that is not full does not count.
FullPagesOf(rows) == Cardinality(rows) \div HISTORY_PAGE_SIZE

\* Math.ceil(total / limit).
PagesOf(rows) == (Cardinality(rows) + HISTORY_PAGE_SIZE - 1) \div HISTORY_PAGE_SIZE

-----------------------------------------------------------------------------
(* A history is collected *)

NoReading == [pc |-> "idle"]
getRangeStartDate == now - RangeLength

\* A row is kept with the page it was read on: it may be read on two.
\* Ghosts: the rows of the range that have been there all the time, the number
\* recorded meanwhile, the number by which deleted rows may have lowered those not
\* yet read, and whether a total was taken of fewer rows than its page.
StartReading(source) ==
  /\ reading.pc = "idle"
  /\ reading' = [pc |-> "page", source |-> source, start |-> getRangeStartDate, end |-> now,
                 page |-> 1, totalPages |-> 1, items |-> {}, pending |-> {"items", "total"},
                 last |-> {}, seen |-> 0,
                 there |-> {t \in recorded[source] : t >= getRangeStartDate},
                 added |-> 0, lowered |-> 0, behind |-> FALSE, cut |-> FALSE]
  /\ UNCHANGED <<now, recorded, upAt, counting, changes, toCome>>

\* The two queries of a page are sent together and answered in any order.
ReadItems ==
  LET rows == Visible(reading.source, reading.start, reading.end)
      last == Slice(rows, reading.page)
  IN
  /\ reading.pc = "page" /\ "items" \in reading.pending
  /\ reading' = [reading EXCEPT !.pending = @ \ {"items"}, !.last = last,
                                !.items = @ \cup [page : {reading.page}, row : last],
                                !.behind = @ \/ ("total" \notin reading.pending /\ Cardinality(rows) > reading.seen)]
  /\ UNCHANGED <<now, recorded, upAt, counting, changes, toCome>>

ReadTotal ==
  LET rows == Visible(reading.source, reading.start, reading.end) IN
  /\ reading.pc = "page" /\ "total" \in reading.pending
  /\ reading' = [reading EXCEPT !.pending = @ \ {"total"}, !.totalPages = PagesOf(rows),
                                !.seen = Cardinality(rows)]
  /\ UNCHANGED <<now, recorded, upAt, counting, changes, toCome>>

\* The page was empty, or reached back beyond the range.
ReachedStart == reading.last = {} \/ \E t \in reading.last : t < reading.start

\* What the page shows: of the checks, those of the range.
Collected == {item \in reading.items : reading.source = "incidents" \/ item.row >= reading.start}

\* The next page, as long as there is one and the limit allows it.
NextPage ==
  LET more == ~ReachedStart /\ reading.page < reading.totalPages IN
  /\ reading.pc = "page" /\ reading.pending = {}
  /\ reading' = IF more /\ reading.page < HISTORY_MAX_PAGES
                THEN [reading EXCEPT !.page = @ + 1, !.pending = {"items", "total"}]
                ELSE [reading EXCEPT !.pc = "shown", !.items = Collected, !.cut = more]
  /\ UNCHANGED <<now, recorded, upAt, counting, changes, toCome>>

-----------------------------------------------------------------------------
(* Statistics *)

Figures == {"totalChecks", "upChecks", "downChecks", "latestCheck", "totalIncidents"}
NoCounting == [pc |-> "idle"]

\* Mutant of Figure: the failed checks are counted without "isUp: false".
FigureOfAnyCheck(name) ==
  CASE name \in {"totalChecks", "downChecks"} -> Cardinality(recorded["checks"])
    [] name = "upChecks" -> Cardinality(recorded["checks"] \cap upAt)
    [] name = "latestCheck" -> IF recorded["checks"] = {} THEN "UNKNOWN" ELSE "UP"
    [] name = "totalIncidents" -> Cardinality(recorded["incidents"])

\* Latencies are left out: their mean is a query of its own.
Figure(name) ==
  CASE name = "totalChecks" -> Cardinality(recorded["checks"])
    [] name = "upChecks" -> Cardinality(recorded["checks"] \cap upAt)
    [] name = "downChecks" -> Cardinality(recorded["checks"] \ upAt)
    [] name = "latestCheck" -> IF recorded["checks"] = {} THEN "UNKNOWN"
                               ELSE IF \E t \in upAt : Rank(recorded["checks"], t) = 0 THEN "UP" ELSE "DOWN"
    [] name = "totalIncidents" -> Cardinality(recorded["incidents"])

StartCounting ==
  /\ counting.pc = "idle"
  /\ counting' = [pc |-> "count", stats |-> <<>>]
  /\ changes' = 0
  /\ UNCHANGED <<now, recorded, upAt, reading, toCome>>

Count(name) ==
  /\ counting.pc = "count" /\ name \notin DOMAIN counting.stats
  /\ LET stats == [x \in DOMAIN counting.stats \cup {name} |->
                     IF x = name THEN Figure(name) ELSE counting.stats[x]] IN
     counting' = [pc |-> IF DOMAIN stats = Figures THEN "answered" ELSE "count", stats |-> stats]
  /\ UNCHANGED <<now, recorded, upAt, reading, changes, toCome>>

-----------------------------------------------------------------------------
(* Meanwhile *)

\* Bound: only while something is read.
Meanwhile(event) ==
  /\ reading.pc = "page" \/ counting.pc = "count"
  /\ toCome[event] > 0 /\ toCome' = [toCome EXCEPT ![event] = @ - 1]

\* A row of an earlier time may be recorded after one of a later time: its check
\* took longer.
Record(source, t, isUp) ==
  /\ Meanwhile("record")
  /\ t \in Moments /\ t <= now + 1 /\ t \notin recorded[source]
  /\ now' = IF t > now THEN t ELSE now
  /\ recorded' = [recorded EXCEPT ![source] = @ \cup {t}]
  /\ upAt' = IF source = "checks" /\ isUp THEN upAt \cup {t} ELSE upAt
  /\ reading' = IF reading.pc = "page" /\ reading.source = source THEN [reading EXCEPT !.added = @ + 1] ELSE reading
  /\ changes' = changes + 1
  /\ UNCHANGED counting

\* The ranks before the line were asked for.
Line(r) == IF "items" \in r.pending THEN (r.page - 1) * HISTORY_PAGE_SIZE ELSE r.page * HISTORY_PAGE_SIZE

\* Those that go of the pages asked for, and leave an older row, which moves up.
Lowering(gone) ==
  {x \in gone : Rank(recorded["checks"], x) < Line(reading) /\ \E y \in recorded["checks"] \ gone : y < x}

Forget(gone) ==
  /\ Meanwhile("delete") /\ gone # {}
  /\ recorded' = [recorded EXCEPT !["checks"] = @ \ gone]
  /\ upAt' = upAt \ gone
  /\ reading' = IF reading.pc = "page" /\ reading.source = "checks"
                THEN [reading EXCEPT !.there = @ \ gone, !.lowered = @ + Cardinality(Lowering(gone))]
                ELSE reading
  /\ changes' = changes + Cardinality(gone)
  /\ UNCHANGED <<now, counting>>

\* The retention deletes the oldest checks, up to some time.
ForgetOldest(t) == Forget({x \in recorded["checks"] : x <= t})

\* deleteChecksForDate: the checks of a day that has passed.  Those of an older day
\* stay, if its summary failed or was never made.
ForgetDay(day) ==
  /\ day < now \div DayLength
  /\ Forget({x \in recorded["checks"] : x \div DayLength = day})

\* Bound: a behaviour may have no history, or no statistics.
Off == [pc |-> "off"]

\* Nothing is read yet.
HistoryInit ==
  /\ now \in Nat /\ upAt \subseteq recorded["checks"]
  /\ recorded \in [Sources -> {times \in SUBSET Moments : IsFiniteSet(times) /\ \A t \in times : t <= now}]
  /\ reading \in {NoReading, Off} /\ counting \in {NoCounting, Off} /\ changes = 0
  /\ toCome \in [{"record", "delete"} -> Nat]

HistoryNext ==
  \/ \E source \in Sources : StartReading(source)
  \/ ReadItems \/ ReadTotal \/ NextPage
  \/ StartCounting \/ \E name \in Figures : Count(name)
  \/ \E source \in Sources, t \in Moments, isUp \in BOOLEAN : Record(source, t, isUp)
  \/ \E t \in Moments : ForgetOldest(t) \/ ForgetDay(t \div DayLength)

HistorySpec == HistoryInit /\ [][HistoryNext]_historyVars

-----------------------------------------------------------------------------
(* Properties *)

\* Types.
HistoryTypeOK ==
  /\ now \in Nat /\ recorded \in [Sources -> SUBSET Moments] /\ upAt \subseteq recorded["checks"]
  /\ reading.pc \in {"idle", "page", "shown", "off"}
  /\ reading.pc = "page" => reading.page \in 1..HISTORY_MAX_PAGES
  /\ counting.pc \in {"idle", "count", "answered", "off"}

\* A collected history has every row of its range that was there throughout,
\* unless it was cut at the last page it may read, or the total of a page was
\* taken before a row was recorded and the page after; of the others it misses no
\* more than were deleted of the pages already read while older ones stayed.  It has
\* nothing older than the range, and a row twice only if one was recorded meanwhile.
HistoryShowsItsRange ==
  reading.pc = "shown" =>
    LET shown == {item.row : item \in reading.items} IN
    /\ Cardinality(reading.there \ shown) <= reading.lowered \/ reading.cut \/ reading.behind
    /\ \A t \in shown : t >= reading.start
    /\ Cardinality(reading.items) - Cardinality(shown) <= reading.added

\* The counts of the statistics are as far apart as rows were recorded or deleted
\* while they were taken: only then the uptime they give can exceed 100 %.
StatisticsAddUp ==
  counting.pc = "answered" =>
    LET s == counting.stats IN
    /\ s.totalChecks <= s.upChecks + s.downChecks + changes
    /\ s.upChecks + s.downChecks <= s.totalChecks + changes
    /\ changes = 0 => (s.latestCheck = "UNKNOWN" <=> s.totalChecks = 0)
=============================================================================
