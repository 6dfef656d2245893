----------------------------- MODULE Heartbeat -----------------------------
(***************************************************************************)
(* Heartbeat monitoring of one monitor: HeartbeatService (pings, edits and *)
(* the expiry of the timeout job) and the part of SchedulerService that    *)
(* keeps the timeout job armed.  Monitors share nothing here, the job id   *)
(* is derived from the monitor's.                                          *)
(*                                                                         *)
(* Three kinds of actors meet: API requests, the scheduler, and the worker *)
(* of the heartbeat-timeout queue.  Every await is an action.              *)
(*                                                                         *)
(* The queue is BullMQ, known from how the code uses it: at most one job   *)
(* has a given id, add() of an id that exists (finished jobs included,     *)
(* they are kept) does nothing, and remove() throws while a worker runs it.*)
(***************************************************************************)
EXTENDS Incidents, Sequences, FiniteSets

CONSTANTS
  Monitor,        \* the monitor
  Requests,       \* API requests in flight at the same time
  Scheduler,      \* the scheduler process holding the sync lock
  Delay,          \* intervalSeconds * 1000 + timeoutMs, in ticks
  MaxAttempts,    \* attempts of the timeout job (3 in the code)
  RequestsUntil,  \* bound: no request starts after this instant
  MaxTime,        \* bound: the clock stops here
  MaxRequests,    \* bound: requests in a behaviour
  MaxFailures     \* bound: crashes and infrastructure errors in a behaviour

ASSUME ActorsAssumption == Scheduler \notin Requests
ASSUME DelayAssumption == Delay \in Nat \ {0}
ASSUME AttemptsAssumption == MaxAttempts \in Nat \ {0}
ASSUME BoundsAssumption == /\ RequestsUntil \in Nat /\ MaxTime \in Nat
                           /\ MaxRequests \in Nat /\ MaxFailures \in Nat

VARIABLES
  status,         \* the monitor's row is active or not (Monitor.isActive)
  lastCheckedAt,  \* Monitor.lastCheckedAt
  updatedAt,      \* Monitor.updatedAt, as the last edit left it
  results,        \* check_results, heartbeat_logs being its successful rows
  incidents,      \* the incidents table
  lastIncident,   \* the last incident id handed out
  job,            \* the timeout job, under the only id it can have
  actor,          \* per request and the scheduler: where it stands
  worker,         \* the run of the timeout job, and its local variables
  alerts,         \* the jobs added to the alerts queue, in order
  now,            \* the clock, in ticks
  requests,       \* requests so far, for the bound
  failures        \* failures so far, for the bound

vars == <<status, lastCheckedAt, updatedAt, results, incidents, lastIncident, job, actor,
          worker, alerts, now, requests, failures>>

monitorRow == <<status, lastCheckedAt, updatedAt>>
history    == <<incidents, lastIncident, alerts>>
counters   == <<now, requests, failures>>

Actors == Requests \cup {Scheduler}

NoJob == [state |-> "none", expectedBy |-> 0, attempt |-> 0]
IdleActor == [kind |-> "none", pc |-> "idle", at |-> 0, incident |-> 0]
IdleWorker == [pc |-> "idle", incident |-> 0]

\* buildHeartbeatTimeoutPayload: the deadline that follows a reference instant.
ExpectedBy(reference) == reference + Delay

\* lastCheckedAt ?? updatedAt
ReferenceTime(checked, updated) == IF checked # NoTime THEN checked ELSE updated

\* queue.add under the monitor's job id.
AddJob(expectedBy) ==
  job' = IF job.state = "none"
         THEN [state |-> "delayed", expectedBy |-> expectedBy, attempt |-> 1]
         ELSE job

\* A monitor just created, its timeout armed by createMonitor.
Init ==
  /\ status = "active"
  /\ lastCheckedAt = NoTime
  /\ updatedAt = 0
  /\ results = {}
  /\ incidents = {}
  /\ lastIncident = 0
  /\ job = [state |-> "delayed", expectedBy |-> ExpectedBy(0), attempt |-> 1]
  /\ actor = [a \in Actors |-> IdleActor]
  /\ worker = IdleWorker
  /\ alerts = <<>>
  /\ now = 0 /\ requests = 0 /\ failures = 0

Tick ==
  /\ now < MaxTime
  /\ now' = now + 1
  /\ UNCHANGED <<monitorRow, results, history, job, actor, worker, requests, failures>>

-----------------------------------------------------------------------------
(* What requests and the scheduler begin with *)

\* ping(): the token belongs to an active monitor, and receivedAt is now.
BeginPing(r) ==
  /\ actor[r].pc = "idle" /\ status = "active"
  /\ now <= RequestsUntil /\ requests < MaxRequests
  /\ requests' = requests + 1
  /\ actor' = [actor EXCEPT ![r] = [IdleActor EXCEPT !.kind = "ping", !.pc = "recordPing",
                                                     !.at = now]]
  /\ UNCHANGED <<monitorRow, results, history, job, worker, now, failures>>

\* One transaction writes the log, the result and lastCheckedAt.
RecordPing(r) ==
  /\ actor[r].pc = "recordPing"
  /\ results' = results \cup {[at |-> actor[r].at, isUp |-> TRUE]}
  /\ lastCheckedAt' = actor[r].at
  /\ actor' = [actor EXCEPT ![r].pc = "getJob"]
  /\ UNCHANGED <<status, updatedAt, history, job, worker, counters>>

\* updateMonitor leaves the monitor active or not (a change of type counts as
\* not); syncMonitorTimeout then re-arms or removes the job, from the row as the
\* update returned it.
BeginEdit(r) ==
  /\ actor[r].pc = "idle"
  /\ now <= RequestsUntil /\ requests < MaxRequests
  /\ requests' = requests + 1
  /\ status' \in {"active", "inactive"}
  /\ updatedAt' = now
  /\ actor' = [actor EXCEPT ![r] = [IdleActor EXCEPT
                 !.kind = IF status' = "active" THEN "rearm" ELSE "disarm", !.pc = "getJob",
                 !.at = ReferenceTime(lastCheckedAt, now)]]
  /\ UNCHANGED <<lastCheckedAt, results, history, job, worker, now, failures>>

\* synchronizeMonitors reads the active monitors; the rest of the sync works on
\* what was read.
BeginSync ==
  /\ actor[Scheduler].pc = "idle"
  /\ actor' = [actor EXCEPT ![Scheduler] =
                 IF status = "active"
                 THEN [IdleActor EXCEPT !.kind = "sync", !.pc = "getJob",
                                        !.at = ReferenceTime(lastCheckedAt, updatedAt)]
                 ELSE [IdleActor EXCEPT !.kind = "clean", !.pc = "getJob"]]
  /\ UNCHANGED <<monitorRow, results, history, job, worker, counters>>

-----------------------------------------------------------------------------
(* Replacing or removing the timeout job *)

\* Mutant of LeavesJob: a sync only looks after jobs that exist.
LeavesMissingJob(a) ==
  \/ job.state = "none" /\ actor[a].kind \in {"disarm", "sync"}
  \/ actor[a].kind = "clean" /\ job.state # "delayed"
  \/ /\ actor[a].kind = "sync" /\ job.state # "none"
     /\ job.expectedBy = ExpectedBy(actor[a].at)

\* Mutant of LeavesJob: jobs of monitors no longer active are not removed.
LeavesStaleJob(a) ==
  \/ job.state = "none" /\ actor[a].kind = "disarm"
  \/ actor[a].kind = "clean"
  \/ /\ actor[a].kind = "sync" /\ job.state # "none"
     /\ job.expectedBy = ExpectedBy(actor[a].at)

\* Mutant of LeavesJob: a sync leaves a job whatever its deadline.
LeavesAnyDeadline(a) ==
  \/ job.state = "none" /\ actor[a].kind = "disarm"
  \/ actor[a].kind = "clean" /\ job.state # "delayed"
  \/ actor[a].kind = "sync" /\ job.state # "none"

\* The job is left as it is: there is none to remove, or it has started and is
\* not among the stale ones, or it has the deadline a sync would give it - in
\* which case its state is not looked at.
LeavesJob(a) ==
  \/ job.state = "none" /\ actor[a].kind = "disarm"
  \/ actor[a].kind = "clean" /\ job.state # "delayed"
  \/ /\ actor[a].kind = "sync" /\ job.state # "none"
     /\ job.expectedBy = ExpectedBy(actor[a].at)

\* getJob, or for the removal of stale jobs the list of the jobs not started.
GetJob(a) ==
  /\ actor[a].pc = "getJob"
  /\ actor' = [actor EXCEPT ![a] =
                 IF LeavesJob(a) THEN IdleActor
                 ELSE [@ EXCEPT !.pc = IF job.state = "none" THEN "add" ELSE "remove"]]
  /\ UNCHANGED <<monitorRow, results, history, job, worker, counters>>

\* Mutant of RemoveJob: a running job is removed like any other.
RemovesRunningJob(a) ==
  /\ actor[a].pc = "remove"
  /\ job' = NoJob
  /\ actor' = [actor EXCEPT ![a] = IF @.kind \in {"disarm", "clean"} THEN IdleActor
                                   ELSE [@ EXCEPT !.pc = "add"]]
  /\ UNCHANGED <<monitorRow, results, history, worker, counters>>

\* job.remove(): of a job that is running it throws, which ends the request (or
\* the scheduler process, restarted at once); of one already gone it succeeds.
RemoveJob(a) ==
  /\ actor[a].pc = "remove"
  /\ IF job.state = "active"
     THEN job' = job /\ actor' = [actor EXCEPT ![a] = IdleActor]
     ELSE /\ job' = NoJob
          /\ actor' = [actor EXCEPT ![a] = IF @.kind \in {"disarm", "clean"} THEN IdleActor
                                           ELSE [@ EXCEPT !.pc = "add"]]
  /\ UNCHANGED <<monitorRow, results, history, worker, counters>>

\* queue.add, after which a ping goes on to resolve the open incident.
ArmJob(a) ==
  /\ actor[a].pc = "add"
  /\ AddJob(ExpectedBy(actor[a].at))
  /\ actor' = [actor EXCEPT ![a] = IF @.kind = "ping" THEN [@ EXCEPT !.pc = "findToResolve"]
                                   ELSE IdleActor]
  /\ UNCHANGED <<monitorRow, results, history, worker, counters>>

-----------------------------------------------------------------------------
(* The end of a ping: resolveOpenIncidentForMonitor *)

FindIncidentToResolve(r) ==
  LET open == FindOpen(incidents, Monitor)
  IN /\ actor[r].pc = "findToResolve"
     /\ \/ open = {} /\ actor' = [actor EXCEPT ![r] = IdleActor]
        \/ \E i \in open : actor' = [actor EXCEPT ![r].pc = "resolve", ![r].incident = i.id]
     /\ UNCHANGED <<monitorRow, results, history, job, worker, counters>>

ResolveIncident(r) ==
  /\ actor[r].pc = "resolve"
  /\ incidents' = WithResolved(incidents, actor[r].incident, actor[r].at)
  /\ actor' = [actor EXCEPT ![r].pc = "enqueueRecovered"]
  /\ UNCHANGED <<monitorRow, results, lastIncident, alerts, job, worker, counters>>

EnqueueRecovered(r) ==
  /\ actor[r].pc = "enqueueRecovered"
  /\ alerts' = Append(alerts, [event |-> "MONITOR_RECOVERED", incident |-> actor[r].incident])
  /\ actor' = [actor EXCEPT ![r] = IdleActor]
  /\ UNCHANGED <<monitorRow, results, incidents, lastIncident, job, worker, counters>>

\* A request or the scheduler dies between two awaits: what it did stays.
ActorFails(a) ==
  /\ actor[a].pc # "idle"
  /\ failures < MaxFailures
  /\ failures' = failures + 1
  /\ actor' = [actor EXCEPT ![a] = IdleActor]
  /\ UNCHANGED <<monitorRow, results, history, job, worker, now, requests>>

-----------------------------------------------------------------------------
(* The timeout job: processTimeoutJob and openIncidentForMonitor *)

\* The delay is over and the worker starts the job, as late as it may be.
TakeJob ==
  /\ worker.pc = "idle"
  /\ job.state = "delayed" /\ now >= job.expectedBy
  /\ job' = [job EXCEPT !.state = "active"]
  /\ worker' = [worker EXCEPT !.pc = "load"]
  /\ UNCHANGED <<monitorRow, results, history, actor, counters>>

\* The job ends here for an inactive monitor, and for one checked at or after
\* the deadline; otherwise the timeout will be recorded.
LoadMonitor ==
  /\ worker.pc = "load"
  /\ worker' = [worker EXCEPT !.pc =
                  IF status = "inactive" \/ (lastCheckedAt # NoTime /\ lastCheckedAt >= job.expectedBy)
                  THEN "finish" ELSE "record"]
  /\ UNCHANGED <<monitorRow, results, history, job, actor, counters>>

\* recordTimeoutFailure: one transaction writes a failed result at the deadline
\* and sets lastCheckedAt to it.
RecordTimeoutFailure ==
  /\ worker.pc = "record"
  /\ results' = results \cup {[at |-> job.expectedBy, isUp |-> FALSE]}
  /\ lastCheckedAt' = job.expectedBy
  /\ worker' = [worker EXCEPT !.pc = "findToOpen"]
  /\ UNCHANGED <<status, updatedAt, history, job, actor, counters>>

FindIncidentToOpen ==
  /\ worker.pc = "findToOpen"
  /\ worker' = [worker EXCEPT !.pc = IF FindOpen(incidents, Monitor) # {} THEN "finish"
                                     ELSE "create"]
  /\ UNCHANGED <<monitorRow, results, history, job, actor, counters>>

CreateIncident ==
  /\ worker.pc = "create"
  /\ lastIncident' = lastIncident + 1
  /\ incidents' = WithIncident(incidents, lastIncident + 1, Monitor, job.expectedBy,
                               job.expectedBy)
  /\ worker' = [pc |-> "enqueueDown", incident |-> lastIncident + 1]
  /\ UNCHANGED <<monitorRow, results, alerts, job, actor, counters>>

EnqueueDown ==
  /\ worker.pc = "enqueueDown"
  /\ alerts' = Append(alerts, [event |-> "MONITOR_DOWN", incident |-> worker.incident])
  /\ worker' = [IdleWorker EXCEPT !.pc = "finish"]
  /\ UNCHANGED <<monitorRow, results, incidents, lastIncident, job, actor, counters>>

\* The job is marked completed and kept (removeOnComplete: 100).
FinishJob ==
  /\ worker.pc = "finish"
  /\ job' = [job EXCEPT !.state = "completed"]
  /\ worker' = IdleWorker
  /\ UNCHANGED <<monitorRow, results, history, actor, counters>>

\* The run throws or its process dies: the job is retried from its payload, or
\* kept as failed when its attempts are used up (removeOnFail: 100).
WorkerFails ==
  /\ worker.pc # "idle"
  /\ failures < MaxFailures
  /\ failures' = failures + 1
  /\ job' = IF job.attempt < MaxAttempts
            THEN [job EXCEPT !.state = "delayed", !.attempt = @ + 1]
            ELSE [job EXCEPT !.state = "failed"]
  /\ worker' = IdleWorker
  /\ UNCHANGED <<monitorRow, results, history, actor, now, requests>>

\* A finished job makes room when a hundred others have finished after it.
EvictFinishedJob ==
  /\ job.state \in {"completed", "failed"}
  /\ job' = NoJob
  /\ UNCHANGED <<monitorRow, results, history, actor, worker, counters>>

-----------------------------------------------------------------------------
\* The next step of the replacement or of the resolution an actor is in.
ActorStep(a) ==
  \/ RecordPing(a) \/ GetJob(a) \/ RemoveJob(a) \/ ArmJob(a)
  \/ FindIncidentToResolve(a) \/ ResolveIncident(a) \/ EnqueueRecovered(a)

\* The next step of the run of the timeout job.
WorkerStep ==
  \/ TakeJob \/ LoadMonitor \/ RecordTimeoutFailure \/ FindIncidentToOpen \/ CreateIncident
  \/ EnqueueDown \/ FinishJob

Next ==
  \/ Tick
  \/ \E r \in Requests : BeginPing(r) \/ BeginEdit(r)
  \/ BeginSync
  \/ \E a \in Actors : ActorStep(a) \/ ActorFails(a)
  \/ WorkerStep \/ WorkerFails \/ EvictFinishedJob

Spec == Init /\ [][Next]_vars

\* Time passes, the scheduler polls for ever and what has begun goes on; nobody
\* has to ping or to edit, nothing has to fail and no job has to be evicted.
Fairness ==
  /\ WF_vars(Tick) /\ WF_vars(BeginSync) /\ WF_vars(WorkerStep)
  /\ \A a \in Actors : WF_vars(ActorStep(a))

FairSpec == Spec /\ Fairness

-----------------------------------------------------------------------------
(* Properties *)

JobRecords == [state : {"none", "delayed", "active", "completed", "failed"},
               expectedBy : Nat, attempt : 0..MaxAttempts]

ActorRecords == [kind : {"none", "ping", "rearm", "disarm", "sync", "clean"},
                 pc : {"idle", "recordPing", "getJob", "remove", "add", "findToResolve",
                       "resolve", "enqueueRecovered"},
                 at : Nat, incident : Nat]

WorkerRecords == [pc : {"idle", "load", "record", "findToOpen", "create", "enqueueDown",
                        "finish"}, incident : Nat]

ResultRows == [at : Nat, isUp : BOOLEAN]

AlertJobs == [event : {"MONITOR_DOWN", "MONITOR_RECOVERED"}, incident : Nat]

RowsTypeOK ==
  /\ status \in {"active", "inactive"} /\ lastCheckedAt \in TimeOrNull /\ updatedAt \in Nat
  /\ results \subseteq ResultRows
  /\ incidents \subseteq IncidentRows({Monitor}) /\ lastIncident \in Nat

CountersTypeOK == now \in Nat /\ requests \in Nat /\ failures \in Nat

\* The shape of the state; the job is active exactly while a worker runs it.
TypeOK ==
  /\ RowsTypeOK
  /\ job \in JobRecords /\ worker \in WorkerRecords
  /\ job.state = "active" <=> worker.pc # "idle"
  /\ actor \in [Actors -> ActorRecords]
  /\ alerts \in Seq(AlertJobs)
  /\ CountersTypeOK

\* One run of the timeout job at a time, so at most one open incident: it rests
\* on the job id, on add() ignoring a known id and on remove() refusing a
\* running job, nothing in the database prevents a second one.
AtMostOneOpenIncident ==
  \A i, j \in OpenIncidents(incidents, Monitor) : i = j

\* The worker about to create an incident has no other one to find.
CreateStillNeeded ==
  worker.pc = "create" => OpenIncidents(incidents, Monitor) = {}

IncidentInv == AtMostOneOpenIncident /\ CreateStillNeeded

\* The failed result of a timeout, written in a transaction before the incident
\* it opens, and the successful one of a ping, written before what it resolves.
TimeoutRecorded(t) == [at |-> t, isUp |-> FALSE] \in results
PingRecorded(t) == [at |-> t, isUp |-> TRUE] \in results

IncidentsRecorded ==
  \A i \in incidents : /\ TimeoutRecorded(i.startedAt)
                       /\ i.resolvedAt # NoTime => PingRecorded(i.resolvedAt)

\* The alerts of a kind in the queue.
AlertsOf(event) == {k \in 1..Len(alerts) : alerts[k].event = event}

\* An incident is reported down once at most, and up only when it is resolved.
AlertsMatchIncidents ==
  /\ \A k, l \in AlertsOf("MONITOR_DOWN") : alerts[k].incident = alerts[l].incident => k = l
  /\ \A k \in AlertsOf("MONITOR_RECOVERED") : \E i \in incidents :
        i.id = alerts[k].incident /\ i.resolvedAt # NoTime

\* The incidents agree with the results and with the alerts, whatever fails or is
\* retried between the transactions that write them: one outage at a time, which
\* begins with a timeout and ends with a ping that are both among the results.
IncidentsMatchResults ==
  AtMostOneOpenIncident /\ IncidentsRecorded /\ AlertsMatchIncidents

\* A timer lost between remove() and add() comes back: an active monitor is not
\* left without a job.
LostTimerIsRearmed == (status = "active" /\ job.state = "none") ~> (job.state # "none" \/ status = "inactive")

\* The timer of a monitor that stays inactive goes, even when a sync that read the
\* monitor before its deactivation armed it once more.
StaleTimersAreRemoved == <>[](status = "inactive") => <>[](job.state # "delayed")

\* The timer has ended, and a sync would not arm another: it finds the deadline
\* it wants on the job that is kept.
EndedTimerIsKept ==
  /\ job.state \in {"completed", "failed"}
  /\ job.expectedBy = ExpectedBy(ReferenceTime(lastCheckedAt, updatedAt))

\* The timer runs beyond the end of the modelled time.
TimerDueLater == job.state = "delayed" /\ job.expectedBy > MaxTime

\* An active monitor that falls silent is reported down.
SilentMonitorIsReported ==
  <>[](status = "active") => <>[](OpenIncidents(incidents, Monitor) # {}) \/ <>[]TimerDueLater

\* The same, whatever crashed on the way, unless a sync takes the ended timer for
\* a current one.
SilentMonitorIsReportedOrStuck == SilentMonitorIsReported \/ <>[]EndedTimerIsKept

\* A timeout is not raised when a heartbeat that moves its deadline has already
\* been recorded: the job being processed is stale.
NoFalseAlarm ==
  [][\A r \in results :
       lastIncident' # lastIncident /\ r.isUp => ExpectedBy(r.at) <= job.expectedBy]_vars
=============================================================================
