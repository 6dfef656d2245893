---------------------------- MODULE CheckWorker ----------------------------
(***************************************************************************)
(* The processing of monitor-check jobs: MonitorCheckProcessorService with *)
(* the WorkerRepository, IncidentsService and AlertsService calls it makes *)
(* and the Redis failure counter it keeps.                                 *)
(*                                                                         *)
(* A slot is one unit of a queue's worker concurrency.  It runs one job at *)
(* a time, and every await of the code (a query, a Redis command, a        *)
(* queue.add) is an action of its own, so the other slots, the API and the *)
(* expiry of Redis keys interleave between any two of them.  What a slot   *)
(* holds across an await is in its record; what it holds is what the code  *)
(* keeps in local variables.                                               *)
(*                                                                         *)
(* Time is the order in which checks start: checkedAt is the number of the *)
(* check, so two checks never share an instant.                            *)
(***************************************************************************)
EXTENDS Incidents, Sequences, FiniteSets

CONSTANTS
  Monitors,       \* monitors that are checked (not HEARTBEAT ones)
  Contacted,      \* those whose owner has at least one alert contact
  Slots,          \* concurrent executions of the check queue's workers
  NoMonitor,      \* the monitor of an idle slot
  Threshold,      \* consecutiveFailuresThreshold of the monitors
  MaxAttempts,    \* attempts of a job (3 in the code)
  MaxWaiting,     \* bound: jobs of one monitor waiting for a given attempt
  MaxChecks,      \* bound: checks executed in a behaviour
  MaxFailures     \* bound: crashes and infrastructure errors in a behaviour

ASSUME MonitorsAssumption == Contacted \subseteq Monitors /\ NoMonitor \notin Monitors
ASSUME ThresholdAssumption == Threshold \in Int
ASSUME AttemptsAssumption == MaxAttempts \in Nat \ {0}
ASSUME BoundsAssumption == MaxWaiting \in Nat /\ MaxChecks \in Nat /\ MaxFailures \in Nat

VARIABLES
  status,         \* per monitor: its row is active, paused (skipped) or deleted
  lastCheckedAt,  \* per monitor: Monitor.lastCheckedAt
  results,        \* the check_results table
  incidents,      \* the incidents table
  lastIncident,   \* the last incident id handed out
  failureCount,   \* Redis: the failure counter, 0 when the key is absent
  firstFailureAt, \* Redis: the first-failure key, NoTime when it is absent
  alerts,         \* per monitor: the jobs added to the alerts queue, in order
  waiting,        \* per monitor and attempt: jobs in the check queue
  slot,           \* per slot: where its job stands and its local variables
  clock,          \* checks started so far
  failures        \* failures so far, for the bound

vars == <<status, lastCheckedAt, results, incidents, lastIncident, failureCount,
          firstFailureAt, alerts, waiting, slot, clock, failures>>

redis    == <<failureCount, firstFailureAt>>
database == <<status, lastCheckedAt, results, incidents, lastIncident>>

\* Math.max(threshold, 1)
NormalizedThreshold == IF Threshold < 1 THEN 1 ELSE Threshold

IdleSlot == [pc |-> "idle", monitor |-> NoMonitor, attempt |-> 0, at |-> 0,
             count |-> 0, startedAt |-> 0, incident |-> 0]

Attempts == 1..MaxAttempts

Init ==
  /\ status = [m \in Monitors |-> "active"]
  /\ lastCheckedAt = [m \in Monitors |-> NoTime]
  /\ results = {}
  /\ incidents = {}
  /\ lastIncident = 0
  /\ failureCount = [m \in Monitors |-> 0]
  /\ firstFailureAt = [m \in Monitors |-> NoTime]
  /\ alerts = [m \in Monitors |-> <<>>]
  /\ waiting = [m \in Monitors |-> [a \in Attempts |-> 0]]
  /\ slot = [s \in Slots |-> IdleSlot]
  /\ clock = 0
  /\ failures = 0

-----------------------------------------------------------------------------
(* The environment: schedulers and the API *)

\* A job for m enters the queue: the monitor's job scheduler produced it, or
\* the API enqueued an immediate check.  The monitor may have been paused or
\* deleted since, the schedulers follow the table only at the next poll.
Enqueue(m) ==
  /\ waiting[m][1] < MaxWaiting
  /\ waiting' = [waiting EXCEPT ![m][1] = @ + 1]
  /\ UNCHANGED <<database, redis, alerts, slot, clock, failures>>

\* Mutant of SetActive: the update also resets the last check.
SetActiveResetting(m) ==
  /\ status[m] # "deleted"
  /\ status' = [status EXCEPT ![m] = IF @ = "active" THEN "paused" ELSE "active"]
  /\ lastCheckedAt' = [lastCheckedAt EXCEPT ![m] = NoTime]
  /\ UNCHANGED <<results, incidents, lastIncident, redis, alerts, waiting, slot, clock, failures>>

\* updateMonitor turns m inactive (or into a HEARTBEAT monitor, which the
\* processor skips the same way) or active again.  Neither the open incident
\* nor the Redis keys are touched.
SetActive(m) ==
  /\ status[m] # "deleted"
  /\ status' = [status EXCEPT ![m] = IF @ = "active" THEN "paused" ELSE "active"]
  /\ UNCHANGED <<lastCheckedAt, results, incidents, lastIncident, redis, alerts,
                 waiting, slot, clock, failures>>

\* deleteMonitor: the row goes and its results and incidents cascade; the
\* Redis keys and the waiting jobs stay.
DeleteMonitor(m) ==
  /\ status[m] # "deleted"
  /\ status' = [status EXCEPT ![m] = "deleted"]
  /\ lastCheckedAt' = [lastCheckedAt EXCEPT ![m] = NoTime]
  /\ results' = {r \in results : r.monitor # m}
  /\ incidents' = WithoutMonitor(incidents, m)
  /\ UNCHANGED <<lastIncident, redis, alerts, waiting, slot, clock, failures>>

\* Redis drops a key whose TTL ran out.  The TTLs of the two keys are set by
\* different commands, so they end at different times.
ExpireFailureCount(m) ==
  /\ failureCount[m] > 0
  /\ failureCount' = [failureCount EXCEPT ![m] = 0]
  /\ UNCHANGED <<database, firstFailureAt, alerts, waiting, slot, clock, failures>>

ExpireFirstFailureAt(m) ==
  /\ firstFailureAt[m] # NoTime
  /\ firstFailureAt' = [firstFailureAt EXCEPT ![m] = NoTime]
  /\ UNCHANGED <<database, failureCount, alerts, waiting, slot, clock, failures>>

-----------------------------------------------------------------------------
(* A slot: taking a job, ending it, failing *)

\* The slot with its locals discarded, about to report the job completed.
Returned(s) == [IdleSlot EXCEPT !.pc = "ack", !.monitor = slot[s].monitor,
                                !.attempt = slot[s].attempt]

\* The worker takes a waiting job.
Claim(s) ==
  /\ slot[s].pc = "idle"
  /\ \E m \in Monitors, a \in Attempts :
       /\ waiting[m][a] > 0
       /\ waiting' = [waiting EXCEPT ![m][a] = @ - 1]
       /\ slot' = [slot EXCEPT ![s] = [IdleSlot EXCEPT !.pc = "load", !.monitor = m,
                                                       !.attempt = a]]
  /\ UNCHANGED <<database, redis, alerts, clock, failures>>

\* process() returned and the job is marked completed.
Acknowledge(s) ==
  /\ slot[s].pc = "ack"
  /\ slot' = [slot EXCEPT ![s] = IdleSlot]
  /\ UNCHANGED <<database, redis, alerts, waiting, clock, failures>>

\* An awaited call throws, or the process dies and the job is found stalled:
\* what was written stays, the locals are lost, and the job waits for its next
\* attempt unless it has none left.
Fail(s) ==
  LET m == slot[s].monitor
      a == slot[s].attempt
  IN /\ slot[s].pc # "idle"
     /\ failures < MaxFailures
     /\ failures' = failures + 1
     /\ waiting' = IF a < MaxAttempts THEN [waiting EXCEPT ![m][a + 1] = @ + 1] ELSE waiting
     /\ slot' = [slot EXCEPT ![s] = IdleSlot]
     /\ UNCHANGED <<database, redis, alerts, clock>>

\* The awaited call throws because the row it needs is gone: the same ending,
\* not counted as an infrastructure failure.
FailMissing(s) ==
  LET m == slot[s].monitor
      a == slot[s].attempt
  IN /\ slot[s].pc \in {"record", "resolve", "enqueueRecovered", "findToOpen", "create",
                        "enqueueDown"}
     /\ status[m] = "deleted"
     /\ waiting' = IF a < MaxAttempts THEN [waiting EXCEPT ![m][a + 1] = @ + 1] ELSE waiting
     /\ slot' = [slot EXCEPT ![s] = IdleSlot]
     /\ UNCHANGED <<database, redis, alerts, clock, failures>>

-----------------------------------------------------------------------------
(* process(): load the monitor, run the check, record the result *)

\* findMonitorForExecution, and the skip of missing, inactive and HEARTBEAT
\* monitors; otherwise the check starts, and checkedAt is that instant.
Load(s) ==
  /\ slot[s].pc = "load"
  /\ IF status[slot[s].monitor] # "active"
     THEN slot' = [slot EXCEPT ![s] = Returned(s)] /\ UNCHANGED clock
     ELSE /\ clock < MaxChecks
          /\ clock' = clock + 1
          /\ slot' = [slot EXCEPT ![s].pc = "record", ![s].at = clock + 1]
  /\ UNCHANGED <<database, redis, alerts, waiting, failures>>

\* The outcomes of a check, every kind of target and error folded into isUp.
CheckOutcomes == BOOLEAN

\* recordCheckResult: one transaction writes the result and lastCheckedAt.
RecordCheckResult(s) ==
  LET m == slot[s].monitor
  IN /\ slot[s].pc = "record"
     /\ status[m] # "deleted"
     /\ lastCheckedAt' = [lastCheckedAt EXCEPT ![m] = slot[s].at]
     /\ \E isUp \in CheckOutcomes :
          /\ results' = results \cup {[monitor |-> m, at |-> slot[s].at, isUp |-> isUp]}
          /\ slot' = [slot EXCEPT ![s].pc = IF isUp THEN "clear" ELSE "increment"]
     /\ UNCHANGED <<status, incidents, lastIncident, redis, alerts, waiting, clock, failures>>

-----------------------------------------------------------------------------
(* handleSuccessfulCheck() and resolveOpenIncidentForMonitor() *)

\* Mutant of ClearFailures: a success leaves the keys to their TTL.
ClearNothing(s) ==
  /\ slot[s].pc = "clear"
  /\ slot' = [slot EXCEPT ![s].pc = "findToResolve"]
  /\ UNCHANGED <<database, redis, alerts, waiting, clock, failures>>

\* DEL of both keys in one command.
ClearFailures(s) ==
  LET m == slot[s].monitor
  IN /\ slot[s].pc = "clear"
     /\ failureCount' = [failureCount EXCEPT ![m] = 0]
     /\ firstFailureAt' = [firstFailureAt EXCEPT ![m] = NoTime]
     /\ slot' = [slot EXCEPT ![s].pc = "findToResolve"]
     /\ UNCHANGED <<database, alerts, waiting, clock, failures>>

\* Mutant of FindIncidentToResolve: the alert is enqueued and the row left as it is.
FindIncidentToAnnounce(s) ==
  LET open == FindOpen(incidents, slot[s].monitor)
  IN /\ slot[s].pc = "findToResolve"
     /\ \/ open = {} /\ slot' = [slot EXCEPT ![s] = Returned(s)]
        \/ \E i \in open :
             slot' = [slot EXCEPT ![s].pc = "enqueueRecovered", ![s].incident = i.id]
     /\ UNCHANGED <<database, redis, alerts, waiting, clock, failures>>

\* findFirst of the open incident, which ends the job when there is none.
FindIncidentToResolve(s) ==
  LET open == FindOpen(incidents, slot[s].monitor)
  IN /\ slot[s].pc = "findToResolve"
     /\ \/ open = {} /\ slot' = [slot EXCEPT ![s] = Returned(s)]
        \/ \E i \in open :
             slot' = [slot EXCEPT ![s].pc = "resolve", ![s].incident = i.id]
     /\ UNCHANGED <<database, redis, alerts, waiting, clock, failures>>

\* Mutant of ResolveIncident: no alert follows.
ResolveSilently(s) ==
  /\ slot[s].pc = "resolve"
  /\ status[slot[s].monitor] # "deleted"
  /\ incidents' = WithResolved(incidents, slot[s].incident, slot[s].at)
  /\ slot' = [slot EXCEPT ![s] = Returned(s)]
  /\ UNCHANGED <<status, lastCheckedAt, results, lastIncident, redis, alerts, waiting,
                 clock, failures>>

\* The update is by id: it does not look at resolvedAt again.
ResolveIncident(s) ==
  /\ slot[s].pc = "resolve"
  /\ status[slot[s].monitor] # "deleted"
  /\ incidents' = WithResolved(incidents, slot[s].incident, slot[s].at)
  /\ slot' = [slot EXCEPT ![s].pc = "enqueueRecovered"]
  /\ UNCHANGED <<status, lastCheckedAt, results, lastIncident, redis, alerts, waiting,
                 clock, failures>>

\* enqueueAlertJobs: nothing is added for an owner without contacts.
AddAlert(m, event, id) ==
  alerts' = IF m \in Contacted
            THEN [alerts EXCEPT ![m] = Append(@, [event |-> event, incident |-> id])]
            ELSE alerts

EnqueueRecovered(s) ==
  /\ slot[s].pc = "enqueueRecovered"
  /\ status[slot[s].monitor] # "deleted"
  /\ AddAlert(slot[s].monitor, "MONITOR_RECOVERED", slot[s].incident)
  /\ slot' = [slot EXCEPT ![s] = Returned(s)]
  /\ UNCHANGED <<database, redis, waiting, clock, failures>>

-----------------------------------------------------------------------------
(* handleFailedCheck() and openIncidentForMonitor() *)

\* INCR, with the PEXPIRE that follows it: a TTL is not tracked, a key may
\* expire at any time.
IncrementFailures(s) ==
  LET m == slot[s].monitor
  IN /\ slot[s].pc = "increment"
     /\ failureCount' = [failureCount EXCEPT ![m] = @ + 1]
     /\ slot' = [slot EXCEPT ![s].pc = "mark", ![s].count = failureCount[m] + 1]
     /\ UNCHANGED <<database, firstFailureAt, alerts, waiting, clock, failures>>

\* The first failure of an outage stores its instant, a later one only
\* refreshes the key; below the threshold the job ends as UNCONFIRMED_DOWN.
MarkFirstFailure(s) ==
  /\ slot[s].pc = "mark"
  /\ firstFailureAt' = IF slot[s].count = 1
                       THEN [firstFailureAt EXCEPT ![slot[s].monitor] = slot[s].at]
                       ELSE firstFailureAt
  /\ slot' = [slot EXCEPT ![s] = IF slot[s].count < NormalizedThreshold
                                 THEN Returned(s)
                                 ELSE [@ EXCEPT !.pc = "readFirst"]]
  /\ UNCHANGED <<database, failureCount, alerts, waiting, clock, failures>>

\* GET of the first failure, or this check's instant when the key is absent.
ReadFirstFailure(s) ==
  LET first == firstFailureAt[slot[s].monitor]
  IN /\ slot[s].pc = "readFirst"
     /\ slot' = [slot EXCEPT ![s].pc = "findToOpen",
                             ![s].startedAt = IF first # NoTime THEN first ELSE slot[s].at]
     /\ UNCHANGED <<database, redis, alerts, waiting, clock, failures>>

\* Mutant of FindIncidentToOpen: the open incident is not looked for.
OpenWithoutFinding(s) ==
  /\ slot[s].pc = "findToOpen"
  /\ status[slot[s].monitor] # "deleted"
  /\ slot' = [slot EXCEPT ![s].pc = "create"]
  /\ UNCHANGED <<database, redis, alerts, waiting, clock, failures>>

\* The two reads of openIncidentForMonitor: the monitor must exist, and an open
\* incident is returned as it is.
FindIncidentToOpen(s) ==
  /\ slot[s].pc = "findToOpen"
  /\ status[slot[s].monitor] # "deleted"
  /\ slot' = [slot EXCEPT ![s] = IF FindOpen(incidents, slot[s].monitor) # {}
                                 THEN Returned(s)
                                 ELSE [@ EXCEPT !.pc = "create"]]
  /\ UNCHANGED <<database, redis, alerts, waiting, clock, failures>>

\* Mutant of CreateIncident: confirmed at the latest instant, not at the check.
CreateIncidentNow(s) ==
  LET m == slot[s].monitor
  IN /\ slot[s].pc = "create"
     /\ status[m] # "deleted"
     /\ lastIncident' = lastIncident + 1
     /\ incidents' = WithIncident(incidents, lastIncident + 1, m, slot[s].startedAt, clock)
     /\ slot' = [slot EXCEPT ![s].pc = "enqueueDown", ![s].incident = lastIncident + 1]
     /\ UNCHANGED <<status, lastCheckedAt, results, redis, alerts, waiting, clock, failures>>

\* Mutant of CreateIncident: no alert follows.
CreateSilently(s) ==
  LET m == slot[s].monitor
  IN /\ slot[s].pc = "create"
     /\ status[m] # "deleted"
     /\ lastIncident' = lastIncident + 1
     /\ incidents' = WithIncident(incidents, lastIncident + 1, m, slot[s].startedAt, slot[s].at)
     /\ slot' = [slot EXCEPT ![s] = Returned(s)]
     /\ UNCHANGED <<status, lastCheckedAt, results, redis, alerts, waiting, clock, failures>>

\* INSERT of the incident, which does not look for an open one again.
CreateIncident(s) ==
  LET m == slot[s].monitor
  IN /\ slot[s].pc = "create"
     /\ status[m] # "deleted"
     /\ lastIncident' = lastIncident + 1
     /\ incidents' = WithIncident(incidents, lastIncident + 1, m, slot[s].startedAt, slot[s].at)
     /\ slot' = [slot EXCEPT ![s].pc = "enqueueDown", ![s].incident = lastIncident + 1]
     /\ UNCHANGED <<status, lastCheckedAt, results, redis, alerts, waiting, clock, failures>>

EnqueueDown(s) ==
  /\ slot[s].pc = "enqueueDown"
  /\ status[slot[s].monitor] # "deleted"
  /\ AddAlert(slot[s].monitor, "MONITOR_DOWN", slot[s].incident)
  /\ slot' = [slot EXCEPT ![s] = Returned(s)]
  /\ UNCHANGED <<database, redis, waiting, clock, failures>>

-----------------------------------------------------------------------------
\* The next step of the job a slot is running.
Advance(s) ==
  \/ Load(s) \/ RecordCheckResult(s)
  \/ ClearFailures(s) \/ FindIncidentToResolve(s) \/ ResolveIncident(s) \/ EnqueueRecovered(s)
  \/ IncrementFailures(s) \/ MarkFirstFailure(s) \/ ReadFirstFailure(s)
  \/ FindIncidentToOpen(s) \/ CreateIncident(s) \/ EnqueueDown(s)
  \/ Acknowledge(s) \/ FailMissing(s)

Environment(m) ==
  \/ Enqueue(m) \/ SetActive(m) \/ DeleteMonitor(m)
  \/ ExpireFailureCount(m) \/ ExpireFirstFailureAt(m)

Next ==
  \/ \E m \in Monitors : Environment(m)
  \/ \E s \in Slots : Claim(s) \/ Advance(s) \/ Fail(s)

Spec == Init /\ [][Next]_vars

\* A worker process takes jobs and its promises settle; nothing forces the
\* scheduler, the users, Redis expiry or failures to act.
Fairness == \A s \in Slots : WF_vars(Claim(s)) /\ WF_vars(Advance(s))

FairSpec == Spec /\ Fairness

-----------------------------------------------------------------------------
(* Properties *)

PCs == {"idle", "load", "record", "clear", "findToResolve", "resolve", "enqueueRecovered",
        "increment", "mark", "readFirst", "findToOpen", "create", "enqueueDown", "ack"}

AlertJobs == [event : {"MONITOR_DOWN", "MONITOR_RECOVERED"}, incident : Nat]

DatabaseTypeOK ==
  /\ status \in [Monitors -> {"active", "paused", "deleted"}]
  /\ lastCheckedAt \in [Monitors -> TimeOrNull]
  /\ results \subseteq [monitor : Monitors, at : Nat, isUp : BOOLEAN]
  /\ incidents \subseteq IncidentRows(Monitors)
  /\ lastIncident \in Nat

RedisTypeOK ==
  /\ failureCount \in [Monitors -> Nat]
  /\ firstFailureAt \in [Monitors -> TimeOrNull]

QueuesTypeOK ==
  /\ alerts \in [Monitors -> Seq(AlertJobs)]
  /\ waiting \in [Monitors -> [Attempts -> Nat]]

SlotRecords == [pc : PCs, monitor : Monitors \cup {NoMonitor}, attempt : Attempts \cup {0},
                at : Nat, count : Nat, startedAt : Nat, incident : Nat]

\* A slot that is not idle has a job: a monitor and the number of the attempt.
HasJob(r) == r.pc # "idle" => r.monitor \in Monitors /\ r.attempt \in Attempts

SlotsTypeOK ==
  /\ slot \in [Slots -> SlotRecords]
  /\ \A s \in Slots : HasJob(slot[s])

\* The shape of the state: tables, Redis keys, queues and the slots' locals.
TypeOK ==
  /\ DatabaseTypeOK /\ RedisTypeOK /\ QueuesTypeOK /\ SlotsTypeOK
  /\ clock \in Nat /\ failures \in Nat

\* A monitor has at most one unresolved incident: the early return of
\* openIncidentForMonitor against its later create.
AtMostOneOpenIncident ==
  \A i, j \in incidents :
    i.monitor = j.monitor /\ i.resolvedAt = NoTime /\ j.resolvedAt = NoTime => i = j

\* The failed results recorded for monitor m.
FailedResults(m) == {r \in results : r.monitor = m /\ ~r.isUp}

\* Threshold failed checks stand behind EACH incident: the counter is cleared
\* before an incident is resolved, so no failure counts for two of them.
EachIncidentHasItsOwnFailures ==
  \A m \in Monitors :
    NormalizedThreshold * Cardinality({i \in incidents : i.monitor = m})
      <= Cardinality(FailedResults(m))

\* An incident rests on recorded checks of its monitor, even when jobs are retried
\* after a crash or two slots count at once: there are Threshold failures, its
\* startedAt and confirmedAt are those of failures, its resolvedAt of a success.
IncidentsRestOnChecks ==
  \A i \in incidents :
    /\ Cardinality(FailedResults(i.monitor)) >= NormalizedThreshold
    /\ \E r \in FailedResults(i.monitor) : r.at = i.startedAt
    /\ \E r \in FailedResults(i.monitor) : r.at = i.confirmedAt
    /\ i.resolvedAt # NoTime =>
         \E r \in results : r.monitor = i.monitor /\ r.isUp /\ r.at = i.resolvedAt

\* An incident is announced DOWN at most once, whoever retries or races.
DownAlertOncePerIncident ==
  \A m \in Monitors : \A j, k \in DOMAIN alerts[m] :
    alerts[m][j] = alerts[m][k] /\ alerts[m][j].event = "MONITOR_DOWN" => j = k

\* RECOVERED is announced only of an incident that is resolved in the table,
\* or gone with its monitor.
RecoveredAlertNeedsResolution ==
  \A m \in Monitors : \A k \in DOMAIN alerts[m] :
    alerts[m][k].event = "MONITOR_RECOVERED" =>
      \A i \in incidents : i.id = alerts[m][k].incident => i.resolvedAt # NoTime

\* What alerts say of incidents, with retries, crashes and jobs of a monitor at
\* once: no incident is announced DOWN twice, none RECOVERED that is still open.
AlertsMatchIncidents == DownAlertOncePerIncident /\ RecoveredAlertNeedsResolution

\* An incident spans consecutive failures: no successful check of the monitor
\* lies between the first failure and the confirmation.
OutageHasNoSuccess ==
  \A i \in incidents : \A r \in results :
    r.monitor = i.monitor /\ r.isUp => ~(i.startedAt < r.at /\ r.at < i.confirmedAt)

\* The same, as long as nothing has crashed between a record and its counter.
FaultFreeOutagesAreContinuous == failures = 0 => OutageHasNoSuccess

\* lastCheckedAt moves forward only (until the monitor is deleted).
LastCheckedAtNeverGoesBack ==
  [][\A m \in Monitors : status'[m] # "deleted" => lastCheckedAt[m] <= lastCheckedAt'[m]]_vars

\* Unless something fails or the monitor goes, the owner hears of every incident.
EveryIncidentIsAnnounced ==
  \A m \in Contacted : \A id \in 1..MaxChecks :
    (\E i \in incidents : i.monitor = m /\ i.id = id) ~>
      (\/ \E k \in DOMAIN alerts[m] : alerts[m][k] = [event |-> "MONITOR_DOWN", incident |-> id]
       \/ failures > 0 \/ status[m] = "deleted")

-----------------------------------------------------------------------------
(* The strengthenings that make the invariants inductive *)

\* A job about to create an incident has no other one to find: what the read in
\* openIncidentForMonitor established still holds when the write is issued.
CreateStillNeeded ==
  \A s \in Slots : slot[s].pc = "create" => OpenIncidents(incidents, slot[s].monitor) = {}

SerialInv == AtMostOneOpenIncident /\ CreateStillNeeded

\* Ids in use were handed out, so the next one is new everywhere.
IdsHandedOut ==
  /\ \A i \in incidents : i.id <= lastIncident
  /\ \A m \in Monitors : \A k \in DOMAIN alerts[m] : alerts[m][k].incident <= lastIncident
  /\ \A s \in Slots : slot[s].incident <= lastIncident

\* An incident awaiting its DOWN alert waits in one slot and has none queued.
DownAlertPending ==
  \A s \in Slots : slot[s].pc = "enqueueDown" =>
    /\ \A t \in Slots : slot[t].pc = "enqueueDown" /\ slot[t].incident = slot[s].incident
                          => t = s
    /\ \A m \in Monitors : \A k \in DOMAIN alerts[m] :
         alerts[m][k].incident = slot[s].incident => alerts[m][k].event # "MONITOR_DOWN"

\* A slot about to announce a recovery has resolved its incident.
RecoveredAlertPending ==
  \A s \in Slots : slot[s].pc = "enqueueRecovered" =>
    \A i \in incidents : i.id = slot[s].incident => i.resolvedAt # NoTime

AlertInv ==
  /\ IdsHandedOut /\ DownAlertPending /\ RecoveredAlertPending
  /\ DownAlertOncePerIncident /\ RecoveredAlertNeedsResolution

-----------------------------------------------------------------------------
(* Refinement: incident handling as IncidentLifecycle describes it *)

\* The id of the open incident of m, 0 when there is none.
CurrentIncident(m) ==
  IF OpenIncidents(incidents, m) = {} THEN 0
  ELSE (CHOOSE i \in OpenIncidents(incidents, m) : TRUE).id

\* The alert that some slot is about to enqueue for m.
OwedAlert(m) ==
  LET at(pc) == {s \in Slots : slot[s].pc = pc /\ slot[s].monitor = m}
      owing(pc) == slot[CHOOSE s \in at(pc) : TRUE].incident
  IN IF at("enqueueDown") # {}
     THEN [event |-> "MONITOR_DOWN", incident |-> owing("enqueueDown")]
     ELSE IF at("enqueueRecovered") # {}
     THEN [event |-> "MONITOR_RECOVERED", incident |-> owing("enqueueRecovered")]
     ELSE [event |-> "NONE", incident |-> 0]

Lifecycle == INSTANCE IncidentLifecycle
  WITH known   <- {m \in Monitors : status[m] # "deleted"},
       current <- [m \in Monitors |-> CurrentIncident(m)],
       opened  <- lastIncident,
       owed    <- [m \in Monitors |-> OwedAlert(m)],
       told    <- alerts

\* With one slot, the job's steps implement the lifecycle of incidents.
ImplementsLifecycle == Lifecycle!Spec
=============================================================================
