# A verification project for the uptime monitor

TLA+ models of the backend (`src/backend/src`) and of the state a browser keeps
(`src/frontend/src`), TLC configurations that check them, and proofs that TLAPS
checks. Backend paths below are relative to `src/backend/src`.

## 1. The system

Three kinds of process share one PostgreSQL database and one Redis; browsers talk
to the API.

| Process | Started by | What it does |
|---|---|---|
| API | `main.ts` | REST handlers, heartbeat pings, server-sent events, webhooks of the payment provider |
| scheduler | `scheduler.ts` | every 30 s makes the queues follow the monitors table |
| worker | `worker.ts` | runs the BullMQ queues: checks, heartbeat timeouts, alerts |
| summaries | `summary-worker.ts` | daily to yearly aggregation, retention (docker-compose does not start it) |
| browser | `src/frontend/src/main.tsx` | one page application per tab, a cache of queries, an event stream |

Nothing is held in memory across requests except the SSE subject and the
`isRunning` flags. Everything is `async`: between two awaits of one handler
any other handler of any process may run. BullMQ retries a failed job from its
start (`attempts: 3`); a process that dies is restarted by docker
(`restart: unless-stopped`) and its jobs are found stalled and retried.

### Components

| Component | State | Operations | Talks to | What makes it correct |
|---|---|---|---|---|
| Check processing (`modules/worker/monitor-check-processor.service.ts`) | `check_results`, `lastCheckedAt`; two Redis keys per monitor: failure count, first failure | `process` | executor, incidents, Redis | an incident stands on a threshold of consecutive failures of its own |
| Executor (`monitor-check-executor.service.ts`) | none | HTTP, TCP, SSL, keyword check | network | one verdict, whichever event comes first |
| Incidents (`incidents/`) | `incidents` | open, resolve, list | alerts, SSE | at most one open per monitor; each change announced once, in order |
| Heartbeat (`heartbeat/`) | `heartbeat_logs`, `lastCheckedAt`; one delayed job per monitor | ping, sync, remove, timeout | incidents, queue | silence is reported, a heartbeat silences the timer |
| Scheduler (`modules/scheduler/`) | lock key, job schedulers, timeout jobs | poll, synchronise | monitors table, queues | one synchroniser at a time; queues converge to the table |
| Alerts (`alerts/`, `alerts-processor.service.ts`) | `alert_contacts`, `alerts` queue | contacts CRUD, enqueue, dispatch | webhook targets | every contact served, despite retries |
| Server-sent events (`sse/`) | in-process subject | stream, publish | incidents | what a page misses has a cause |
| Monitors API (`monitors/`) | `monitors` | create, update, restart, delete, statistics, histories | heartbeat, queues | rows stay well formed, plan limits hold, pages of a history join up |
| Status pages (`status-pages/`) | `status_pages`, their monitors | CRUD, public page | monitors | a page shows its owner's monitors |
| Retention, summaries (`modules/summaries/`, `check-results-retention.service.ts`) | daily, weekly, monthly, yearly tables | aggregate, delete sources | database | nothing deleted before it is counted, nothing counted twice |
| Billing (`billing/`) | processed webhooks, `User.plan` | checkout, webhook | payment provider, users | a payment takes effect, once, for its payer |
| Users, authentication (`users/`, `auth/`) | `users`, cookie | register, login, logout, `/auth/me`, update, delete | | a tab's session is that of the cookie |
| Frontend (`src/frontend/src`) | query cache, forms, session, toasts | pages and their mutations | API, SSE | what is saved goes where the form came from |
| Health, config, queue wrappers, load testing | none | plumbing | | see "Not modelled" |

### Hard behaviours

* *Interleaving.* Two jobs of one monitor run at once (a restart or a retry
  beside the scheduled check; concurrency defaults to 5). A ping, an edit, a sync and
  the timeout worker work on one job id with separate `getJob`, `remove`, `add`.
* *Count, then create.* Plan limits, ownership of a page's monitors and "is there
  an open incident" are read in one await and used in a later one.
* *Crashes between awaits.* No handler wraps its writes, Redis commands and
  queue additions together; a retry starts over with what the first attempt left.
* *Retries.* Counters are incremented again, contacts are served again, webhooks
  are delivered again, runs of a summary overwrite.
* *Timers.* Redis keys and the scheduler's lock expire; a timeout job races the ping
  that replaces it; four summary jobs are kept apart by the clock alone.
* *Stale snapshots.* The scheduler and the summaries act on rows read earlier;
  the browser acts on what it cached, and its answers land late.

PROJECT.json lists each hazard at its line with the properties that cover it.

## 2. The modules

| Module | Models | With |
|---|---|---|
| `Incidents` | the incidents table: each operator is one atomic statement of `IncidentsRepository` | |
| `IncidentLifecycle` | abstract specification: what opening and resolving promise to a receiver of alerts | |
| `CheckWorker` | check jobs: `process`, open/resolve, enqueueing of alerts, retries | `Incidents`; implements `IncidentLifecycle` |
| `Heartbeat` | pings, edits, timer synchronisation and the timeout job | `Incidents` |
| `SchedulerSync` | the distributed lock and the job schedulers of checks | |
| `Notifications` | incident to alert jobs, contacts, event streams and toasts | |
| `Calendar` | dates, ISO weeks, when the summary jobs run | |
| `Summaries` | the four aggregation jobs and the retention | `Calendar` |
| `Statistics` | the figures of a day and their roll-up | |
| `History` | a monitor's history and statistics, read in several queries | |
| `StatusViews` | what status pages, the dashboard and the incidents page derive from rows | `Statistics` |
| `Billing` | users, checkout, webhook deliveries | |
| `MonitorInput` | `normalizeMonitorInput`: the rules for a monitor's columns | |
| `Account` | monitors, contacts and status pages under the plan's limits | `Billing`, `MonitorInput` |
| `MonitorForm` | the monitor form, its schema and its payload | `MonitorInput` |
| `CheckExecutor` | verdict of a check from what the network answers | `MonitorInput` |
| `Console` | a tab on the dashboard and monitor pages | `MonitorForm`, `CheckExecutor` |
| `ListPages` | the alerts page and the status pages page | |
| `Sessions` | accounts, the cookie, and the session of each tab | |
| `CheckWorkerProofs`, `HeartbeatProofs`, `SchedulerSyncProofs`, `BillingProofs`, `NotificationsProofs` | theorems | the module named |
| `SummariesProofs` | theorems | `Summaries`, `History`, `Statistics`, `MCSummaries` |
| `AccountProofs` | theorems | `BillingProofs`, on which it builds |
| `BrowserProofs` | theorems | `Sessions`, `ListPages`, `Console`, `MCConsole` |
| `MC...` | finite instances and initial states | |

**CheckWorker.** A *slot* is one unit of worker concurrency; its record holds the
step it is at (`pc`) and what the code keeps in local variables. Each await is an
action:

| Code | Actions |
|---|---|
| worker takes, ends, retries a job | `Claim`, `Acknowledge`, `Fail`, `FailMissing` |
| `process` | `Load`, `RecordCheckResult` |
| `handleSuccessfulCheck` | `ClearFailures`, then the resolution |
| `resolveOpenIncidentForMonitor` | `FindIncidentToResolve`, `ResolveIncident`, `EnqueueRecovered` |
| `handleFailedCheck` | `IncrementFailures`, `MarkFirstFailure`, `ReadFirstFailure` |
| `openIncidentForMonitor` | `FindIncidentToOpen`, `CreateIncident`, `EnqueueDown` |
| API, schedulers, Redis | `Enqueue`, `SetActive`, `DeleteMonitor`, `ExpireFailureCount`, `ExpireFirstFailureAt` |

`Fail` may strike at any step: what was written stays, the locals go, and the job
waits for its next attempt or is given up. It stands for a throwing call and for
a dying process alike. Time is the number of checks started. A Redis TTL is not
counted: a key may expire at any time, except that INCR and its PEXPIRE are one
step. Monitors share no state, so one is enough for TLC; the proofs hold for any
set of them.

**Heartbeat.** One monitor, since the job id is derived from its id. Requests and
the scheduler carry a kind (`ping`, `rearm`, `disarm`, `sync`, `clean`) and a step;
they share `GetJob`, `RemoveJob`, `ArmJob`. The queue is external, modelled as the
source relies on it: one job per id, an ended job keeps its id until a hundred
others end, `add` of a known id does nothing, `remove` of a running job throws.
Time is a clock in ticks; `Delay` stands for `intervalSeconds * 1000 + timeoutMs`.
Not in the model: deletion of the monitor (deactivation takes the same path), a
change of the interval, and a stalled run that goes on after its job was given to
another worker.

**SchedulerSync.** A *run* is one `syncWithDistributedLock`, from the acquisition of
the lock to its release: `Acquire`, `RunStep` (read the table, read each queue,
upsert, remove, release if the token is still ours), `RunFails`; `Elapse` lets the
lock expire; `Crash` ends a process and `SkipBootstrap` has it poll although the
first synchronisation found the lock taken. Upserts come in any order (the code's is
by `createdAt`). Entries of `getJobSchedulers` are taken to carry their id. A failing
poll is an unhandled rejection: the process exits and docker restarts it.

**Notifications.** An *event* is one opening or resolution on its way: `ReadContacts`,
`Enqueue`, `Publish`, then the job: `StartJob`, `Dispatch` contact by contact,
`BackoffEnds`; `CrashWorker` leaves it stalled. A page connects (`Connect`,
`ReadSnapshot`, `Subscribe`), reconnects and keeps what it toasted. Changes are
published to the streams of the publishing process only, so what a worker opens
never reaches a page live. The page is given one `EventSource`; the code has two, on
the same endpoint. Checks are serial here, each await its own step: `Record`, then for a
failure `CountFailure` and `MarkFailure`, for a success `ClearFailures`, then
`OpenIncident` or `ResolveIncident`. A check may break off before any of them
(`CheckFails`, `CrashWorker`, `CrashApi` for a ping) and leaves what it wrote; its retry
is one more check. INCR and its PEXPIRE are one step, and so are a look-up of the
incident and the write that depends on it, there being one check at a time.
`ExpireFailures` takes either Redis key away, or both.

**Calendar, Summaries, Statistics.** A raw row is the checks of a monitor and a day; a
summary is the set of days it counts, so that "counted" can be asked. A job lists its
monitors, reads and upserts one by one, and deletes its sources when none failed. The
jobs are due five minutes apart; `Moment` and `Midnight` move the clock and a run ends
by midnight. A period that failed is never retried. A job whose interval overflows
lists its period again and again: `Moment` has it listed by the time its moment passes, and
`FireAgain` starts a run only when there is something to read. The processes run in UTC,
as their containers do. `Statistics` has the arithmetic: an incident's downtime counts
whole on the day it began; a mean is weighted by checks although a check may have no
latency; the p95 of a week is the mean of its days' p95.

**History.** The rows of one monitor are times, and a row's place in a list is its rank,
the number of newer ones; a page is the rows of some ranks. `collectPaginatedWindow` asks for
pages until it passes the start of the range or the page limit; items and total of a
page are two queries in any order, and the six queries of the statistics too. Rows
are recorded (out of order) and deleted in between: the oldest by the retention
(`ForgetOldest`), and those of a past day by `deleteChecksForDate` (`ForgetDay`), which
leaves an older day whose summary failed or was missed, so that what is read next may
have moved up past the pages that were asked for.

**StatusViews.** Pure operators over rows: the status of a page's monitors and of
the page, the dashboard's rows and figures, the selected monitor, the order and
filters of the incidents page, the checks beside an incident.

**Billing, MonitorInput, Account.** A webhook has *deliveries* at the same time, each
a step machine: `Look` (processed already?), `Resolve` (whose payment), `Upgrade`,
`Record`. A request of `Account` loads its user, reads (a count, or the row it
changes), then writes the row that `normalizeMonitorInput` makes. `updatePlanForBilling`
to FREE is unreachable and left out. E-mail and slug look-ups can only refuse earlier
what the unique index refuses; they are folded into it.

**Console, MonitorForm, CheckExecutor, ListPages, Sessions.** A query in flight
holds what the API read when it was sent and lands later; a mutation is handled in one
step (`Account` has its steps) and its outcome lands later. `Console` keeps React's
state where the router keeps it: the page component of `/monitors/$id` is not
unmounted between two monitors. `ListPages` has both list pages, with TanStack
Query's pausing of mutations while offline. `Sessions` has tabs with copies of a
session over one cookie.

## 3. The runs

| Run | Question | Result | States |
|---|---|---|---|
| `check_serial` | With one job of a monitor at a time: are incidents unique, rested on failures of their own, announced in order? | passes | 201k |
| `check_concurrent` | With two: what is left? | passes | 1.6M |
| `check_race` | With two: is the open incident unique? | violated | 44k |
| `heartbeat` | Two requests, scheduler, worker, a crash: do incidents agree with results and alerts, do timers come back, go, and are they heard? | passes | 553k |
| `heartbeat_stale` | Does a recorded ping silence its timer? | violated | 773 |
| `heartbeat_rearm` | Is silence reported when the job's attempts are used up? | violated | 4k |
| `scheduler` | Who may reconcile at once, and do queues converge? | passes | 234k |
| `summaries` | Which rows can be lost, counted twice, left behind, or missed by a reader? | passes | 349k |
| `summaries_month` | Is a month aggregated once? | violated | 135 |
| `notifications` | Are contacts served, and what may a page not know? | passes | 187k |
| `account` | Payments, limits and overlapping updates | passes | 276k |
| `console` | What forms save and where, whose rows are shown, who is signed in | passes | 692k |

`check_serial`: `AtMostOneOpenIncident`; `EachIncidentHasItsOwnFailures` (the counter
is cleared before the resolution, so no failure counts twice);
`FaultFreeOutagesAreContinuous` (no success inside an outage - true only while nothing
crashes between the result and the counter); `LastCheckedAtNeverGoesBack`;
`ImplementsLifecycle`, the refinement of `IncidentLifecycle`; `EveryIncidentIsAnnounced`
(liveness). They are claims about jobs run one at a time, which the code does not
guarantee; with two slots `check_race` shows the first fail, and the others fail with it.
`check_concurrent` checks what survives: `IncidentsRestOnChecks` (each instant of an
incident is that of a recorded result of the right kind, and a threshold of failures
was recorded) and `AlertsMatchIncidents`.

`heartbeat`: `IncidentsMatchResults` (one open incident; each begins with a failed
result and ends with a successful one, although the two are written in transactions of
their own; DOWN once, RECOVERED of resolved ones - all of it rests on `remove` refusing a
running job, whose payload each step reads again); `LostTimerIsRearmed` (a crash between `remove` and `add`),
`StaleTimersAreRemoved` (a sync that read the monitor before its deactivation),
`SilentMonitorIsReportedOrStuck`: the only way a silent, active monitor goes
unreported is an ended job whose deadline a sync would give again.
`heartbeat_rearm` shows that way taken. `TimerDueLater` excuses a timer that is
due after the clock's bound: the bound is ours, not the code's.

`scheduler`: `OverlapOnlyAfterExpiry`; `SettledMonitorsAreScheduled` (a monitor that was
seen, served and not edited keeps exactly its scheduler, whatever older
reconciliation still runs); `SchedulersConverge`.

`summaries`: `LossOnlyThroughLateRows` (failing queries and crashes lose no check: what
no table counts came after the run that should have read it had listed its period),
`CountedOnceUnlessFailed`, `LeftBehindHasACause` (a row outlives the moment of the run that
should have rolled it up only if that run failed, was missed or goes on, if the row came
late, or at the turn of a year; moments before the process first ran count for nothing);
for readers, `HistoryShowsItsRange`
(a history may miss a row only when its total was read before a row was recorded and
its items after, at the page limit, or because newer rows were deleted of the pages
already asked for: then at most as many as those) and `StatisticsAddUp` (totals are off by at most
the rows that changed while they were counted).
The module's ASSUMEs check pure functions over bounded inputs against other
definitions: week numbers are ISO's on 2020-2027; the percentile is the nearest rank;
a roll-up of parts has the counts and extremes of the whole, and roll-ups compose; a
page's overall status is that of its monitors; a status page and the dashboard differ
only while an incident is open and the latest check does not say DOWN; the chart's
figures are the summary's; sorting orders and loses nothing; filters partition; the
selected monitor is a row; a duration is rounded to its unit.

`notifications`: `JobsServeTheirContacts`, `EveryChangeIsAnnounced` (liveness: unless a
query or a process failed before the job was queued), `StaleViewHasACause`,
`OutageToastedOnce` (a toast per failure until the incident is written: as many as
confirm it, and one more for each that was recorded and not counted, or that was to open
the incident and did not, because its check broke off, or whose count expired).

`account`: `RecordedPaymentsTookEffect`, `PaymentsUpgradeOneUser`, `PaymentsAreSettled`
(liveness); `OverrunBoundedByConcurrency` (a limit is exceeded by at most the
overlapping requests, and never without); `MonitorsAreWellFormed` (whatever overlaps, a
row is one a single request could have made); `PagesShowOwnMonitors`; `SettingsStick`.
A behaviour starts from one profile of `MCAccount`: `Payments`, `Limits`, `Creation`,
`MonitorUpdates`, `StatusPages`.

`console`: `SavesHaveTheirMonitor`, `OthersMonitorsAreOnlySeen`,
`CertificateLabelHasItsCheck`, `SavesReachTheirRow`, `SessionsAreOfTheirTime`. Each names
the causes for which what a page shows or saves may be out of date, and says that
there is no other. One of them is an empty error text: `error.message` of the
AggregateError that Node 22 raises when every address of a host fails is `''`, which the
page takes for no error (`messageOf`). Profiles: `Editing`, `Creating`, `Switching`, `Certificates`;
`Contacts`, `StatusPages`; `SignedIn`, `SignedOut`, `Paying`.

Each property of a passing run has a *mutant* in PROJECT.json: an operator beside
the original, marked "Mutant of", that changes it as a plausible bug would and
makes TLC find the property violated. Mutants are in no next-state relation.

### Bounds

| Module | Value | Why it is enough |
|---|---|---|
| `CheckWorker` | `Threshold` 2; `MaxChecks` 4 | first failure and confirmation are different jobs; failure, failure, success, failure: an incident, its end, a fresh count |
| | `MaxAttempts` 2 serial, 1 concurrent; `MaxFailures` 2 and 1; `MaxWaiting` 1; `Slots` 1 or 2 | a retry and a job given up, a failure twice in one job; with two slots a retry is as good as the next job, since it starts over with nothing of its own; a second job beside the running one; a race needs two |
| `Heartbeat` | `Delay` 2, `MaxTime` 2 (3, 5); two requests; one failure | a ping inside the interval and at its end, one deadline after another; 3 attempts and 5 ticks for the job given up |
| `SchedulerSync` | one process, two runs, `LockTtl` 2, two queues, two edits, one failure | docker-compose runs one process and `setInterval` waits for nobody; the proofs hold for any processes |
| `Summaries` | two monitors, four windows of 5 to 27 days, six check days, one failure, 4 days of retention | the turn of a week, a month in mid-week, a month from its second week to its aggregation, the two turns of a year at which weeks are skipped or jobs coincide |
| `History` | pages of 2, at most 2 pages, days of 2, four rows, two more, one deletion | a row is pushed over a page, a page is lost, the limit cuts, a day is deleted with an older row left |
| `Notifications` | two contacts of any type, threshold 2, 3 checks, 3 connections, one failure | a failing contact before another, an outage toasted by one snapshot after another, one more than the threshold; behaviours have contacts or pages, not both |
| `Account` | 2 users, 2 requests and deliveries at once, limits 1 and 2, 4 operations, one failure | one above the limit needs two requests; limits differ only in number |
| `Console` | 2 monitors, 2 users of both plans, one mutation in flight | a form of one on the page of another; a second user; the page disables a form while it is sent |
| `ListPages` | 3 rows, pages of 1, a limit of 2 | more than a page, and a full plan |
| `Sessions` | 2 tabs and one client, 3 accounts, one call per tab | another tab and another user; an id that is used up |

Bounds that are definitions or conjuncts are marked "bound" in the modules. Symmetry is
used in runs without temporal properties only. Deadlock is not checked: at the bounds
the models stop.

### Fairness

* `CheckWorker`: a worker takes waiting jobs and its promises settle; schedulers,
  users, key expiry and failures are not forced.
* `Heartbeat`: the clock advances, the scheduler polls, started requests, syncs and
  the timeout job go on; nobody has to ping, nothing has to fail.
* `SchedulerSync`: runs go on, time passes (the lock's TTL is Redis's), the interval
  fires, a restarted process polls; edits and failures end by their bound.
* `Notifications`: promises settle, workers take jobs, backoffs end.
* `Account`: deliveries are handled, and the provider delivers until it is answered
  with success. Requests need no fairness: no liveness is claimed of them.

## 4. The proofs

| Theorem | Says |
|---|---|
| `CheckWorkerProofs!TypeCorrect` | the type invariant |
| `CheckWorkerProofs!OneOpenIncident` | with one slot, at most one open incident per monitor |
| `CheckWorkerProofs!AlertsSound` | with any number of slots, DOWN once per incident and RECOVERED only of resolved ones |
| `CheckWorkerProofs!IncidentRowsRest` | with any number of slots, an incident's instants are those of results, and a threshold of failures was recorded by its confirmation |
| `CheckWorkerProofs!LastCheckOnlyAdvances` | with one slot, `lastCheckedAt` never goes back |
| `CheckWorkerProofs!IncidentsHaveTheirOwnFailures` | with one slot, no failure stands behind two incidents |
| `CheckWorkerProofs!OutagesAreContinuous` | with one slot and no failure of the program, no success inside an outage |
| `CheckWorkerProofs!ChecksImplementLifecycle` | with one slot, every step is one of `IncidentLifecycle` or a stutter |
| `HeartbeatProofs!TypeCorrect` | the type invariant, with: job marked active exactly while the worker runs it |
| `HeartbeatProofs!OneOpenIncident` | at most one open incident, whatever interleaves |
| `HeartbeatProofs!OutagesAreWhatHappened` | incidents agree with the results and with the alerts |
| `SchedulerSyncProofs!TypeCorrect` | the type invariant |
| `SchedulerSyncProofs!MutualExclusionWithinTheLease` | two runs overlap only when one outlived its lock |
| `SchedulerSyncProofs!SettledMonitorsStayScheduled` | no stale or broken run takes a settled monitor's scheduler away |
| `NotificationsProofs!NotificationsTypes` | the type invariant |
| `NotificationsProofs!AlertsServeTheirContacts` | which webhooks an ended job has called, and how often at most |
| `NotificationsProofs!OutagesAreToastedOnce` | a page toasts an outage at most once per failure that had to confirm it or was lost to the count |
| `NotificationsProofs!StaleViewsHaveACause` | a page differs from the API for one of the named causes only |
| `SummariesProofs!TypesHold` | the type invariant, unique indexes included |
| `SummariesProofs!ChecksAreNotLost` | only late rows lose a check |
| `SummariesProofs!ChecksCountOnce` | only moving, failing and late rows count twice |
| `SummariesProofs!RowsAreNotLeftBehind` | a row left behind has a named cause |
| `SummariesProofs!RowsAndReadingsHaveTypes` | the types of rows, runs, clock and readings, from each initial state of the runs |
| `SummariesProofs!HistoriesShowTheirRange` | a finished history misses a row of its range for one of the named causes only, deletions among them |
| `SummariesProofs!PercentileIsNearestRank`, `PercentilesRise` | of any ordered latencies, `calculatePercentile` is the nearest rank, and p95 is at most p99 |
| `SummariesProofs!StatisticsOfDifferentMoments` | the counts of the statistics are apart by as many as the rows that came and went |
| `BillingProofs!RecordedPaymentsKeepTheirPromise` | a recorded payment has had its effect |
| `BillingProofs!PaymentsUpgradeOneUserOnly` | and for one user, with the exception the property names |
| `AccountProofs!AccountTypes` | the type invariant |
| `AccountProofs!LimitsAreOverrunByConcurrencyOnly` | a plan limit is exceeded by fewer than the requests there are |
| `AccountProofs!UpdatesKeepMonitorsWellFormed` | overlapping updates leave rows that one request could have made |
| `AccountProofs!PagesKeepToTheirOwner` | a status page shows its owner's monitors |
| `AccountProofs!SettingsAreKept` | paused stays paused, private stays private, without overlap |
| `BrowserProofs!SessionsHaveTypes` | the types of users, sessions, reads and calls |
| `BrowserProofs!SessionsOfTheirTime` | a session differs from the cookie's user for one of the named causes only |
| `BrowserProofs!SavesAreOfTheirRow` | an update is granted for the row that filled the form, unless it waited offline |
| `BrowserProofs!OthersAreOnlySeen` | a monitor is changed by its owner only, and what a tab shows of another user's it was told before the sign-in |
| `BrowserProofs!SavesAreAccepted` | a save is refused, or changes a type, only if it finds a monitor of another type than the editor was filled with |
| `BrowserProofs!LabelsHaveTheirCheck` | what is said of a certificate is what the latest check the page has says, but for an error without a text |
| `BrowserProofs!PagesHaveTypes` | the types of the monitors, forms, lists, requests and sessions of a browser, from each initial state of the runs |

They hold for all values of the constants that satisfy the named assumptions,
which TLC evaluates on each run. `Contacts`, `Requests` and the summaries' `Monitors` are
finite because rows of tables are counted (`ContactsAssumption`, `RequestsAssumption`,
`MonitorsAssumption`); the ids of monitors and pages are distinct (`IdsAssumption`), as
are the values that stand for nobody or no row (`NobodyAssumption`, `NoRunAssumption`,
`SessionsAssumption`, `ListPagesAssumption`, `UsersAssumption`, `PagesAssumption`); bounds,
thresholds and delays are numbers. The calendar has the years 2018 to 2030, and
`WindowsAssumption` keeps a window's dates inside them; check days are dates. In the
console, answers to checks have a code and a number of days (`AnswersAssumption`), what is
written from elsewhere is what the API lets through (`BoundsAssumption`) and the default
interval is one of the intervals (`DefaultAssumption`). The type invariants of `CheckWorker`,
`Heartbeat` and `SchedulerSync` are proved and not run, as is that of `Summaries` alone: its
run has it as a part of `TypesOK`. `HeartbeatProofs!OneOpenIncident` is a part of what
`heartbeat` checks.

*Uniqueness of incidents.* `AtMostOneOpenIncident` is not inductive: a job about to
create would break it. The strengthening (`SerialInv`, `IncidentInv`) adds
`CreateStillNeeded`: whoever is at the create has no open incident beside it.
The read establishes it; no other step opens one, because there is one
slot (an explicit assumption, `OneSlot`) or, for heartbeats, one job under one id.

*Outages of heartbeats.* `OutageInv` says what each actor has behind it. The run of the
timeout job, once past the failed result, has it in the table under the deadline of the job
(`RunRecorded`), and the job is the same until the run ends: `remove` refuses a running job
and `add` ignores a known id, so no request can change the payload under the run. A
ping that resolves has recorded its result, and the row it found or resolved is
still there, resolved if it was (`PingRun`); a second ping may resolve the row again, with its
own instant. Ids increase, so the incident about to be announced is in no alert
(`KnownAlerts`).

*Alerts.* `AlertInv` adds that ids in use were handed out, that an incident waiting
for DOWN waits in one slot and has none queued, and that a slot about to announce a
recovery has resolved its row. It needs no serialisation: the id is new when the row
is created, and only its creator announces it.

*Failures behind incidents.* `RestInv` says that checks have instants of their own
(`Fresh`), that what a slot and a Redis key hold is the instant of a recorded result, and
that a failure is counted once: the key and the slots about to increment it never exceed
the failures recorded. With `OneSlot`, `OwnFailures` adds the failures behind resolved
incidents to that sum - the counter is cleared before the resolution - and `Continuous`,
for behaviours without failures, that no success lies after the first failure that the
keys or a slot remember. `Latest` makes the job under way that of the last check.

*Refinement.* `ChecksImplementLifecycle` maps known monitors, the open incident and the
alert owed to the variables of `IncidentLifecycle`. `RefInv` joins the invariants above,
and `ResolvesOpen`: the row about to be resolved is the open one. Each step is then
opening, resolving, announcing, the loss of an announcement, a deletion, or a stutter.

*The lock.* `YoungRunsHoldTheLock`: a run younger than the TTL owns the lock, with at
least the time it has left. Then two young runs would be one; a late release compares
its token and frees nothing.

*Settled monitors.* `Reconciled` says, per run and monitor in `quiet` (unedited since
the run read the table), how far the run has brought its schedulers (`Served`), and
`StaleIsStale`, that what it is about to remove is not what the monitor calls for.
Upserts and removals by a run with the monitor's row up to date advance it; those for
other monitors touch other schedulers.

*Notifications.* `NInv` relates each actor to the past of the others. `JobInv`: where a job
stands tells which webhooks it has called, and how often given its attempts and stalls.
`InOutage`: a DOWN that a page shows or a change carries has the time of a failure of its
outage. A failure that was recorded is in the count, about to be, or lost, and the incident
opens when the count is at the threshold, so the times are as few as the failures needed and
those lost. `ViewInv`: a page shows what it read or heard last, and the API would still
answer that but for the changes since.

*Summaries.* The calendar comes first, as arithmetic: `YearStart` in closed form, the
Mondays of ISO weeks, and that a row's days belong to the period that selects the row
(`SourcesTouch`). Years are few, so the calendar needs no induction.
`BaseInv`: rows hold past days of their period, a run is about the period its job is due
for today, and what it has read belongs there. Three invariants stand on it:

* `LossInv`: a run that goes on has read all that its rows still stand on, unless late, so
  what it deletes is counted above; a row's days are among its sources as long as there
  are any, so an upsert that overwrites it loses nothing.
* `CountInv`: of two rows that count a check, the lower one is a source that a run of its
  period is moving.
* `LeftInv`: a period that was listed has no rows left unless a run is at it, it failed or
  a row came late (`AllMoved`), and every moment since the process first ran was kept or
  missed (`MomentsKept`). Then the four previous-period helpers and the four where clauses
  have to agree (`DayIsDue` to `YearIsDue`), which they do except at the turn of a year.

Both proofs about moments found the property wrong before it was right: a looping
job's idle listing makes a later row of its period late, which the history now records;
and a week that began before the process first ran is a row whose month may have been
due earlier, which is nobody's failure (`Passed`).

*Payments.* `PInv` joins the rows' types, that users named anywhere are known, and
per webhook `Paid` (a delivery past its upgrade, or a record, implies the effect) and
`Once` (who has been upgraded, by deliveries begun before the record).

*Requests.* `AInv` adds to `PInv` what stays true of what a request has read while others
write (`Sound`): owners never change, an id is used once, a plan only rises. `WithinReach`
counts the rows of a user and the requests past their count; a row is created by one
of those, so the limit is passed by the others only. `Settings` says that the row a request
is about to write has the setting last asked for, unless two updates overlap.

*Sessions.* What a tab knows, its `/auth/me` under way and the answer to its sign-in are
three copies of one fact, made at different times and turned into one another
in any order. `TimesInv` says of each copy without causes that the API would still answer
it: the read for the cookie, the answer for the user it signs in. A read lands with
the answer of then or of now, and the two are the same because the token is of an id
that was given (`Given`): a registration names no cause, but it gives an id that nobody
held. The property itself is not inductive, since it does not
say what is about to land.

*Forms.* The row a form is for is the row that filled it (`FormInv`), through every
edit, cancellation and answer; a request under way is for that row or has waited
(`UpdateInv`). The other requests and the lists do not enter.

*The console.* `ConsoleInv` looks at everything a tab has been told as one set, `SaidOf`:
the cached answers and those under way, each with its query and its sign-in. `Told` says what
an answer may still claim of the table after any later change: its monitors are of the
user of its sign-in, since an owner stays, and it counts no more checks than there
are, with the outcome of the latest if it counts them all. `Agree` says that two answers that
count as many checks of a monitor agree on the last; it is not implied by the
table once a further check was recorded, and is what `CertificateLabelHasItsCheck` needs,
the label being made of two queries. A tab's step only adds what is said now
(`SaidGrows`); a change of the table keeps what was said (`SaidOnTable`); signing in
makes all of it older (`SaidToAnother`). For saves, `EditorInv` and `RequestIs` carry the
type of the row that filled the editor to the payload, and `PayloadWritten` is about the
code on both sides: what `createMonitorSchema` takes for valid, `normalizeMonitorInput`
accepts for any row of that type.

*Types of a browser.* `TypesOK` of `MCConsole` is not inductive: what a form holds comes
from rows the tab was told of, and what the table holds comes from requests.
`ConsoleInv` carries that an update leaves a row its editor can be filled from again
(`EditedRows`), never a heartbeat monitor, and that whatever a check gets is a result
(`ResultTypes`). `LTypes` does so for the lists: answers under way and shown hold rows
that are or were in the table (`ItemsAre`), and a request that waits or is sent holds what
its form held (`AskIs`). A behaviour of `MCSpec` is one of each of the three
specifications (`BrowserParts`), so the theorem is put together from theirs.

*Histories.* `RangeInv` looks at the rank up to which a reading has asked (`Line`).
`Covered`: a row that was there from the start has been read, or has a rank at or beyond the
line, or was missed, and those are no more than `lowered` counts. A row recorded since only
raises ranks. Rows deleted lower the ranks of the older ones, and take at most as many over
the line as were deleted before it (`MovedUp`: the rows before the line are as many as there
are ranks, so each row that comes over needs one that went). So a page that comes back empty
or reaches past the range's start leaves nothing, and a total read after the items says so
too; one read before them may be too low (`behind`). `Repeats`: rows read twice, and rows
read that lie beyond the line and will be read again, are together as many as were recorded
meanwhile; a recorded row pushes one row over the line.

*Percentiles.* What is asked of the value at a position of an ordered sequence is how many
positions have a value at most it; these are counted as subsets of the
positions (`FiniteSetTheorems`), with no induction over the sequence.

*Statistics.* `StatisticsAddUp` says something only once the six figures are there;
`Balanced` says it from the start, of each figure taken or, while it is not, of what it
would be now. Recording a check raises the count of all and the count of one outcome by one,
deleting some lowers the count of all by the sum of what it takes from the two, and
a figure already taken stays, so the three are apart by as many rows as changed
(`ChangesAreBalanced`), however many go at once. Checks are finite sets of
times; the rest of `History` does not enter.

Only model-checked: liveness and fairness, which are out of the prover's reach;
`LostTimerIsRearmed`, `StaleTimersAreRemoved` and the other properties of timers, for
the same reason; what folds and sorting compute (`Statistics` but for its percentile,
`StatusViews`, the ASSUMEs of `MCSummaries`), which would need induction over data.
The theorems of `BrowserProofs` are about any initial states (`SessionsSpec`, `ListSpec` and
`Spec` of `Console`), as those of `SummariesProofs` are of `HistorySpec`; the runs `console`
and `summaries` take those that `MCConsole` and `MCSummaries` name, each conjoined with the
general ones, and so do the two theorems on types that are about `MCSpec`. Every
invariant and every action property that a passing run checks is stated by a theorem.

## 5. Findings

1. `check_race`: `openIncidentForMonitor` can open two incidents; only one is
   resolved by a recovery.
2. `heartbeat_stale`: a ping shortly before the deadline does not silence a timer
   that fires before the ping replaced it.
3. `heartbeat_rearm`: a timeout job that failed for good is taken for an armed one.
4. `summaries_month`: the monthly (and yearly) interval is longer than a timer
   holds, fires after 1 ms, and the job runs over and over; the month is counted again
   from the straddling week's row alone, over its summary.

Seen while modelling, and stated as conditions of the passing properties or in the
modules' comments:

* Incidents: a crash before the counter is cleared continues an outage across a
  success; a crash between the incident and its alert loses the alert; a slow ping may
  resolve, with an earlier instant, an incident that began after it; a sync from an
  older snapshot can win against a ping and leave the older deadline.
* Notifications: contacts of type EMAIL and SMS are queued and nothing is sent to
  them; DOWN is never published in the API's process, so pages learn of it from the next
  snapshot; RECOVERED may precede DOWN when jobs overlap.
* Summaries: the last full week of a year that ends on 28 to 30 December is never
  aggregated, and the first week of a year that starts in December is in no month; a
  failed period is never retried; the weekly job of a Monday may list before the daily
  job has written.
* Billing: a duplicate delivery is answered 500 by the unique index and delivered
  again; a payment whose named user is gone does not fall back to its address; an
  address that changes hands between two deliveries may upgrade two users.
* Requests: overlapping updates lose one another's columns; limits can be exceeded by
  the requests that overlap; a KEYWORD monitor keeps its type.
* Browser: the editor opened on one monitor may be saved onto another although
  `monitor-detail-page.tsx:419` calls the type fixed, since the form outlives the route;
  saving resumes a paused monitor; a save paused offline goes to the row the form is
  for when it is sent; after logout another user's rows stay until read again;
  an emptied description is not sent; page numbers may exceed the pages; a
  history of a day at one check a minute is cut by the limit of ten pages; search and
  sort of incidents see one page; the checks beside an older incident are the newest
  twelve; a monitor that is CHECKING is told of as UP in the recent activity.

## 6. Not modelled

Rendering: JSX, charts, styles, formatting of dates and numbers, the landing page, the
theme and navigation chrome. The generated Prisma client. Controllers and DTO classes
beyond what they refuse, module wiring, configuration and start-up validation, health
checks, logging and the worker's counters. The queue and Redis wrappers, of which the
modules use what the code relies on. The load test, which measures the running system.
`SummariesRepository.getSummaryStats`, which nothing calls. Password hashing, token
signing, TLS and sockets are library calls with their outcomes as inputs.
Of modelled parts: the deletion of a heartbeat monitor and a change of its interval,
what the API enqueues for a monitor together with the row it writes, more than one
mutation of a form at a time.

## 7. Plan

What a next step would add, in this order:

1. `Summaries`: an abstract ledger in which every check is counted once or still
   present, refined by runs that meet no late row; the invariants of `SummariesProofs`
   are what the refinement needs.
2. `Heartbeat`: deletion and change of the interval; two workers on a stalled job.
3. The composition of `SchedulerSync` and `CheckWorker` through the queue.
