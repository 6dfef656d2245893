-------------------------- MODULE HeartbeatProofs --------------------------
(***************************************************************************)
(* Theorems about Heartbeat, for any number of concurrent requests and any *)
(* interval, number of attempts and bound.                                 *)
(***************************************************************************)
EXTENDS Heartbeat, TLAPS

-----------------------------------------------------------------------------
(* Types *)

\* A deadline computed from a reference instant is an instant.
LEMMA DeadlineType ==
  ASSUME NEW t \in Nat
  PROVE  ExpectedBy(t) \in Nat
  BY DelayAssumption DEF ExpectedBy

\* The reference instant is one: NULL is replaced by the instant of the edit.
LEMMA ReferenceType ==
  ASSUME NEW c \in TimeOrNull, NEW u \in Nat
  PROVE  ReferenceTime(c, u) \in Nat
  BY DEF ReferenceTime, TimeOrNull, NoTime

\* The records that stand for nothing running have the shape of the others.
LEMMA IdleTypes ==
  NoJob \in JobRecords /\ IdleActor \in ActorRecords /\ IdleWorker \in WorkerRecords
  BY AttemptsAssumption DEF NoJob, JobRecords, IdleActor, ActorRecords, IdleWorker, WorkerRecords

\* A row whose resolvedAt is set is still a row.
LEMMA ResolvedType ==
  ASSUME RowsTypeOK, NEW id \in Nat, NEW at \in Nat
  PROVE  WithResolved(incidents, id, at) \subseteq IncidentRows({Monitor})
  BY DEF RowsTypeOK, WithResolved, IncidentRows, TimeOrNull

\* What begins: the clock, a request, a sync.
LEMMA BeginTypes ==
  ASSUME TypeOK, \/ Tick \/ BeginSync
                 \/ \E r \in Requests : BeginPing(r) \/ BeginEdit(r)
  PROVE  TypeOK'
  <1> USE DEF TypeOK, monitorRow, history, counters
  <1>1. ASSUME Tick
        PROVE  TypeOK'
    <2>1. RowsTypeOK'
      BY <1>1 DEF Tick, RowsTypeOK
    <2>2. CountersTypeOK'
      BY <1>1 DEF Tick, CountersTypeOK
    <2> QED
      BY <1>1, <2>1, <2>2 DEF Tick
  <1>2. ASSUME BeginSync
        PROVE  TypeOK'
    <2>1. actor' \in [Actors -> ActorRecords]
      <3>1. ReferenceTime(lastCheckedAt, updatedAt) \in Nat
        BY ReferenceType DEF RowsTypeOK
      <3>2. [IdleActor EXCEPT !.kind = "sync", !.pc = "getJob",
                              !.at = ReferenceTime(lastCheckedAt, updatedAt)] \in ActorRecords
        BY <3>1 DEF IdleActor, ActorRecords
      <3>3. [IdleActor EXCEPT !.kind = "clean", !.pc = "getJob"] \in ActorRecords
        BY DEF IdleActor, ActorRecords
      <3> QED
        BY <1>2, <3>2, <3>3 DEF BeginSync
    <2>r. RowsTypeOK'
      BY <1>2 DEF BeginSync, RowsTypeOK
    <2>c. CountersTypeOK'
      BY <1>2 DEF BeginSync, CountersTypeOK
    <2> QED
      BY <1>2, <2>1, <2>r, <2>c DEF BeginSync
  <1>3. ASSUME NEW r \in Requests, BeginPing(r)
        PROVE  TypeOK'
    <2>1. [IdleActor EXCEPT !.kind = "ping", !.pc = "recordPing", !.at = now] \in ActorRecords
      BY DEF CountersTypeOK, IdleActor, ActorRecords
    <2>2. actor' \in [Actors -> ActorRecords]
      BY <1>3, <2>1 DEF BeginPing
    <2>r. RowsTypeOK'
      BY <1>3 DEF BeginPing, RowsTypeOK
    <2>c. CountersTypeOK'
      BY <1>3 DEF BeginPing, CountersTypeOK
    <2> QED
      BY <1>3, <2>2, <2>r, <2>c DEF BeginPing
  <1>4. ASSUME NEW r \in Requests, BeginEdit(r)
        PROVE  TypeOK'
    <2>1. ReferenceTime(lastCheckedAt, now) \in Nat
      BY ReferenceType DEF RowsTypeOK, CountersTypeOK
    <2>2. \A k \in {"rearm", "disarm"} :
            [IdleActor EXCEPT !.kind = k, !.pc = "getJob",
                              !.at = ReferenceTime(lastCheckedAt, now)] \in ActorRecords
      BY <2>1 DEF IdleActor, ActorRecords
    <2>3. actor' \in [Actors -> ActorRecords]
      BY <1>4, <2>2 DEF BeginEdit
    <2>r. RowsTypeOK'
      BY <1>4 DEF BeginEdit, RowsTypeOK, CountersTypeOK
    <2>c. CountersTypeOK'
      BY <1>4 DEF BeginEdit, CountersTypeOK
    <2> QED
      BY <1>4, <2>3, <2>r, <2>c DEF BeginEdit
  <1> QED
    BY <1>1, <1>2, <1>3, <1>4

\* An actor that gets a record of the right shape leaves all of them so.
LEMMA ActorType ==
  ASSUME TypeOK, NEW a \in Actors, NEW r \in ActorRecords, actor' = [actor EXCEPT ![a] = r]
  PROVE  actor' \in [Actors -> ActorRecords]
  BY DEF TypeOK

\* The steps of a request or of the scheduler.
LEMMA ActorTypes ==
  ASSUME TypeOK, NEW a \in Actors, ActorStep(a) \/ ActorFails(a)
  PROVE  TypeOK'
  <1> USE DEF TypeOK, monitorRow, history, counters
  <1>0. actor[a] \in ActorRecords /\ IdleActor \in ActorRecords /\ NoJob \in JobRecords
    BY IdleTypes
  <1>a. actor[a].at \in Nat /\ actor[a].incident \in Nat
    BY <1>0 DEF ActorRecords
  <1>b. \A pc \in {"getJob", "remove", "add", "findToResolve", "enqueueRecovered"} :
          [actor[a] EXCEPT !.pc = pc] \in ActorRecords
    BY <1>0 DEF ActorRecords
  <1>1. ASSUME RecordPing(a)
        PROVE  TypeOK'
    <2>1. actor' \in [Actors -> ActorRecords]
      BY <1>1, <1>b DEF RecordPing
    <2>2. [at |-> actor[a].at, isUp |-> TRUE] \in ResultRows
      BY <1>a DEF ResultRows
    <2>r. RowsTypeOK'
      BY <1>1, <1>a, <2>2 DEF RecordPing, RowsTypeOK, TimeOrNull
    <2>c. CountersTypeOK'
      BY <1>1 DEF RecordPing, CountersTypeOK
    <2> QED
      BY <1>1, <2>1, <2>r, <2>c DEF RecordPing
  <1>2. ASSUME GetJob(a)
        PROVE  TypeOK'
    <2>1. actor' \in [Actors -> ActorRecords]
      BY <1>0, <1>2, <1>b DEF GetJob
    <2>r. RowsTypeOK'
      BY <1>2 DEF GetJob, RowsTypeOK
    <2>c. CountersTypeOK'
      BY <1>2 DEF GetJob, CountersTypeOK
    <2> QED
      BY <1>2, <2>1, <2>r, <2>c DEF GetJob
  <1>3. ASSUME RemoveJob(a)
        PROVE  TypeOK'
    <2>1. actor' \in [Actors -> ActorRecords]
      BY <1>0, <1>3, <1>b DEF RemoveJob
    <2>2. job' \in JobRecords /\ (job'.state = "active" <=> job.state = "active")
      BY <1>0, <1>3 DEF RemoveJob, NoJob
    <2>r. RowsTypeOK'
      BY <1>3 DEF RemoveJob, RowsTypeOK
    <2>c. CountersTypeOK'
      BY <1>3 DEF RemoveJob, CountersTypeOK
    <2> QED
      BY <1>3, <2>1, <2>2, <2>r, <2>c DEF RemoveJob
  <1>4. ASSUME ArmJob(a)
        PROVE  TypeOK'
    <2>1. ExpectedBy(actor[a].at) \in Nat
      BY <1>a, DeadlineType
    <2>2. job' \in JobRecords /\ (job'.state = "active" <=> job.state = "active")
      BY <1>4, <2>1, AttemptsAssumption DEF ArmJob, AddJob, JobRecords
    <2>3. actor' \in [Actors -> ActorRecords]
      BY <1>0, <1>4, <1>b DEF ArmJob
    <2>r. RowsTypeOK'
      BY <1>4 DEF ArmJob, RowsTypeOK
    <2>c. CountersTypeOK'
      BY <1>4 DEF ArmJob, CountersTypeOK
    <2> QED
      BY <1>4, <2>2, <2>3, <2>r, <2>c DEF ArmJob
  <1>5. ASSUME FindIncidentToResolve(a)
        PROVE  TypeOK'
    <2>1. \A i \in FindOpen(incidents, Monitor) : i.id \in Nat
      BY DEF FindOpen, OpenIncidents, RowsTypeOK, IncidentRows
    <2>2. \A i \in FindOpen(incidents, Monitor) :
            [actor[a] EXCEPT !.pc = "resolve", !.incident = i.id] \in ActorRecords
      BY <1>0, <2>1 DEF ActorRecords
    <2>3. actor' \in [Actors -> ActorRecords]
      BY <1>0, <1>5, <2>2 DEF FindIncidentToResolve
    <2>r. RowsTypeOK'
      BY <1>5 DEF FindIncidentToResolve, RowsTypeOK
    <2>c. CountersTypeOK'
      BY <1>5 DEF FindIncidentToResolve, CountersTypeOK
    <2> QED
      BY <1>5, <2>3, <2>r, <2>c DEF FindIncidentToResolve
  <1>6. ASSUME ResolveIncident(a)
        PROVE  TypeOK'
    <2>1. incidents' \subseteq IncidentRows({Monitor})
      BY <1>6, <1>a, ResolvedType DEF ResolveIncident
    <2>2. actor' \in [Actors -> ActorRecords]
      BY <1>6, <1>b DEF ResolveIncident
    <2>r. RowsTypeOK'
      BY <1>6, <2>1 DEF ResolveIncident, RowsTypeOK
    <2>c. CountersTypeOK'
      BY <1>6 DEF ResolveIncident, CountersTypeOK
    <2> QED
      BY <1>6, <2>2, <2>r, <2>c DEF ResolveIncident
  <1>7. ASSUME EnqueueRecovered(a)
        PROVE  TypeOK'
    <2>1. [event |-> "MONITOR_RECOVERED", incident |-> actor[a].incident] \in AlertJobs
      BY <1>a DEF AlertJobs
    <2>2. alerts' \in Seq(AlertJobs)
      BY <1>7, <2>1 DEF EnqueueRecovered
    <2>3. actor' \in [Actors -> ActorRecords]
      BY <1>0, <1>7 DEF EnqueueRecovered
    <2>r. RowsTypeOK'
      BY <1>7 DEF EnqueueRecovered, RowsTypeOK
    <2>c. CountersTypeOK'
      BY <1>7 DEF EnqueueRecovered, CountersTypeOK
    <2> QED
      BY <1>7, <2>2, <2>3, <2>r, <2>c DEF EnqueueRecovered
  <1>8. ASSUME ActorFails(a)
        PROVE  TypeOK'
    <2>1. actor' \in [Actors -> ActorRecords]
      BY <1>0, <1>8 DEF ActorFails
    <2>r. RowsTypeOK'
      BY <1>8 DEF ActorFails, RowsTypeOK
    <2>c. CountersTypeOK'
      BY <1>8 DEF ActorFails, CountersTypeOK
    <2> QED
      BY <1>8, <2>1, <2>r, <2>c DEF ActorFails
  <1> QED
    BY <1>1, <1>2, <1>3, <1>4, <1>5, <1>6, <1>7, <1>8 DEF ActorStep

\* The steps of the worker, and the eviction of a job that has ended.
LEMMA WorkerTypes ==
  ASSUME TypeOK, WorkerStep \/ WorkerFails \/ EvictFinishedJob
  PROVE  TypeOK'
  <1> USE DEF TypeOK, monitorRow, history, counters
  <1>0. NoJob \in JobRecords /\ IdleWorker \in WorkerRecords
    BY IdleTypes
  <1>a. job.expectedBy \in Nat /\ worker.incident \in Nat
    BY DEF JobRecords, WorkerRecords
  <1>b. \A pc \in {"load", "record", "findToOpen", "create", "finish"} :
          /\ [worker EXCEPT !.pc = pc] \in WorkerRecords
          /\ [worker EXCEPT !.pc = pc].pc # "idle"
    BY DEF WorkerRecords
  <1>c. \A st \in {"active", "completed"} : /\ [job EXCEPT !.state = st] \in JobRecords
                                           /\ [job EXCEPT !.state = st].state = st
    BY DEF JobRecords
  <1>1. ASSUME TakeJob
        PROVE  TypeOK'
    <2>r. RowsTypeOK'
      BY <1>1 DEF TakeJob, RowsTypeOK
    <2>c. CountersTypeOK'
      BY <1>1 DEF TakeJob, CountersTypeOK
    <2> QED
      BY <1>1, <1>b, <1>c, <2>r, <2>c DEF TakeJob
  <1>2. ASSUME LoadMonitor
        PROVE  TypeOK'
    <2>r. RowsTypeOK'
      BY <1>2 DEF LoadMonitor, RowsTypeOK
    <2>c. CountersTypeOK'
      BY <1>2 DEF LoadMonitor, CountersTypeOK
    <2> QED
      BY <1>2, <1>b, <2>r, <2>c DEF LoadMonitor
  <1>3. ASSUME RecordTimeoutFailure
        PROVE  TypeOK'
    <2>1. [at |-> job.expectedBy, isUp |-> FALSE] \in ResultRows
      BY <1>a DEF ResultRows
    <2>r. RowsTypeOK'
      BY <1>3, <1>a, <2>1 DEF RecordTimeoutFailure, RowsTypeOK, TimeOrNull
    <2>c. CountersTypeOK'
      BY <1>3 DEF RecordTimeoutFailure, CountersTypeOK
    <2> QED
      BY <1>3, <1>b, <2>r, <2>c DEF RecordTimeoutFailure
  <1>4. ASSUME FindIncidentToOpen
        PROVE  TypeOK'
    <2>r. RowsTypeOK'
      BY <1>4 DEF FindIncidentToOpen, RowsTypeOK
    <2>c. CountersTypeOK'
      BY <1>4 DEF FindIncidentToOpen, CountersTypeOK
    <2> QED
      BY <1>4, <1>b, <2>r, <2>c DEF FindIncidentToOpen
  <1>5. ASSUME CreateIncident
        PROVE  TypeOK'
    <2>1. incidents' \subseteq IncidentRows({Monitor})
      BY <1>5, <1>a DEF CreateIncident, RowsTypeOK, WithIncident, IncidentRows, TimeOrNull
    <2>2. worker' \in WorkerRecords /\ worker'.pc # "idle"
      BY <1>5 DEF CreateIncident, RowsTypeOK, WorkerRecords
    <2>3. lastIncident' \in Nat
      BY <1>5 DEF CreateIncident, RowsTypeOK
    <2>r. RowsTypeOK'
      BY <1>5, <2>1, <2>3 DEF CreateIncident, RowsTypeOK
    <2>c. CountersTypeOK'
      BY <1>5 DEF CreateIncident, CountersTypeOK
    <2> QED
      BY <1>5, <2>2, <2>r, <2>c DEF CreateIncident
  <1>6. ASSUME EnqueueDown
        PROVE  TypeOK'
    <2>1. [event |-> "MONITOR_DOWN", incident |-> worker.incident] \in AlertJobs
      BY <1>a DEF AlertJobs
    <2>2. alerts' \in Seq(AlertJobs)
      BY <1>6, <2>1 DEF EnqueueDown
    <2>3. worker' \in WorkerRecords /\ worker'.pc # "idle"
      BY <1>6 DEF EnqueueDown, IdleWorker, WorkerRecords
    <2>r. RowsTypeOK'
      BY <1>6 DEF EnqueueDown, RowsTypeOK
    <2>c. CountersTypeOK'
      BY <1>6 DEF EnqueueDown, CountersTypeOK
    <2> QED
      BY <1>6, <2>2, <2>3, <2>r, <2>c DEF EnqueueDown
  <1>7. ASSUME FinishJob
        PROVE  TypeOK'
    <2>1. worker'.pc = "idle"
      BY <1>7 DEF FinishJob, IdleWorker
    <2>r. RowsTypeOK'
      BY <1>7 DEF FinishJob, RowsTypeOK
    <2>c. CountersTypeOK'
      BY <1>7 DEF FinishJob, CountersTypeOK
    <2> QED
      BY <1>7, <1>0, <1>c, <2>1, <2>r, <2>c DEF FinishJob
  <1>8. ASSUME WorkerFails
        PROVE  TypeOK'
    <2>a. job.attempt < MaxAttempts => job.attempt + 1 \in 0..MaxAttempts
      BY AttemptsAssumption DEF JobRecords
    <2>0. /\ [job EXCEPT !.state = "failed"] \in JobRecords
          /\ \A n \in 0..MaxAttempts :
               [job EXCEPT !.state = "delayed", !.attempt = n] \in JobRecords
      BY DEF JobRecords
    <2>1. job' \in JobRecords /\ job'.state # "active"
      BY <1>8, <2>0, <2>a DEF WorkerFails, JobRecords
    <2>2. worker'.pc = "idle"
      BY <1>8 DEF WorkerFails, IdleWorker
    <2>r. RowsTypeOK'
      BY <1>8 DEF WorkerFails, RowsTypeOK
    <2>c. CountersTypeOK'
      BY <1>8 DEF WorkerFails, CountersTypeOK
    <2> QED
      BY <1>8, <1>0, <2>1, <2>2, <2>r, <2>c DEF WorkerFails
  <1>9. ASSUME EvictFinishedJob
        PROVE  TypeOK'
    <2>1. NoJob.state # "active"
      BY DEF NoJob
    <2>r. RowsTypeOK'
      BY <1>9 DEF EvictFinishedJob, RowsTypeOK
    <2>c. CountersTypeOK'
      BY <1>9 DEF EvictFinishedJob, CountersTypeOK
    <2> QED
      BY <1>9, <1>0, <2>1, <2>r, <2>c DEF EvictFinishedJob
  <1> QED
    BY <1>1, <1>2, <1>3, <1>4, <1>5, <1>6, <1>7, <1>8, <1>9 DEF WorkerStep

\* No step disturbs the shape of the state.
LEMMA TypeStep == TypeOK /\ [Next]_vars => TypeOK'
  <1> SUFFICES ASSUME TypeOK, [Next]_vars
               PROVE  TypeOK'
    OBVIOUS
  <1>1. CASE UNCHANGED vars
    BY <1>1 DEF vars, TypeOK, RowsTypeOK, CountersTypeOK
  <1> QED
    BY <1>1, BeginTypes, ActorTypes, WorkerTypes DEF Next

\* The tables, the job, the actors and the worker keep their shape, and the job
\* is marked active exactly while the worker runs it: what remove() refuses.
THEOREM TypeCorrect == Spec => []TypeOK
  <1>1. Init => TypeOK
    <2>1. ExpectedBy(0) \in Nat
      BY DeadlineType
    <2> QED
      BY <2>1, AttemptsAssumption
      DEF Init, TypeOK, RowsTypeOK, CountersTypeOK, JobRecords, WorkerRecords, ActorRecords, IdleActor,
          IdleWorker, TimeOrNull, NoTime
  <1> QED
    BY <1>1, TypeStep, PTL DEF Spec

-----------------------------------------------------------------------------
(* One open incident *)

\* While at most one incident is open, the query for the newest finds any.
LEMMA FindOpenComplete ==
  ASSUME TypeOK, AtMostOneOpenIncident, FindOpen(incidents, Monitor) = {}
  PROVE  OpenIncidents(incidents, Monitor) = {}
  <1> SUFFICES ASSUME NEW i \in OpenIncidents(incidents, Monitor)
               PROVE  FALSE
    OBVIOUS
  <1>1. \A j \in OpenIncidents(incidents, Monitor) : j = i
    BY DEF AtMostOneOpenIncident
  <1>2. i.startedAt \in Nat
    BY DEF OpenIncidents, TypeOK, RowsTypeOK, IncidentRows
  <1> QED
    BY <1>1, <1>2 DEF FindOpen

\* A resolution opens nothing.
LEMMA ResolutionCloses ==
  ASSUME TypeOK, NEW id \in Nat, NEW at \in Nat
  PROVE  OpenIncidents(WithResolved(incidents, id, at), Monitor)
           \subseteq OpenIncidents(incidents, Monitor)
  <1> SUFFICES ASSUME NEW i \in incidents,
                      NEW j,
                      j = IF i.id = id THEN [i EXCEPT !.resolvedAt = at] ELSE i,
                      j.monitor = Monitor, j.resolvedAt = NoTime
               PROVE  j \in OpenIncidents(incidents, Monitor)
    BY DEF OpenIncidents, WithResolved
  <1>1. i \in IncidentRows({Monitor})
    BY DEF TypeOK, RowsTypeOK
  <1>2. i.id = id => [i EXCEPT !.resolvedAt = at].resolvedAt = at
    BY <1>1 DEF IncidentRows
  <1>3. i.id # id
    BY <1>2 DEF NoTime
  <1> QED
    BY <1>3 DEF OpenIncidents

\* Only the worker opens incidents, and only after it has found none open.
LEMMA IncidentStep == TypeOK /\ IncidentInv /\ [Next]_vars => IncidentInv'
  <1> SUFFICES ASSUME TypeOK, IncidentInv, [Next]_vars
               PROVE  IncidentInv'
    OBVIOUS
  <1> USE DEF IncidentInv, monitorRow, history, counters
  <1>1. ASSUME UNCHANGED incidents, worker'.pc = "create" => worker.pc = "create"
        PROVE  IncidentInv'
    BY <1>1 DEF AtMostOneOpenIncident, CreateStillNeeded
  <1>2. ASSUME NEW a \in Actors, ResolveIncident(a)
        PROVE  IncidentInv'
    <2>1. actor[a] \in ActorRecords
      BY DEF TypeOK
    <2>2. OpenIncidents(incidents', Monitor) \subseteq OpenIncidents(incidents, Monitor)
      BY <1>2, <2>1, ResolutionCloses DEF ResolveIncident, ActorRecords
    <2> QED
      BY <1>2, <2>2 DEF ResolveIncident, AtMostOneOpenIncident, CreateStillNeeded
  <1>3. CASE FindIncidentToOpen
    BY <1>3, FindOpenComplete
    DEF FindIncidentToOpen, AtMostOneOpenIncident, CreateStillNeeded, TypeOK, WorkerRecords
  <1>4. CASE CreateIncident
    <2>1. OpenIncidents(incidents, Monitor) = {}
      BY <1>4 DEF CreateIncident, CreateStillNeeded
    <2>2. \A i, j \in OpenIncidents(incidents', Monitor) : i = j
      BY <1>4, <2>1 DEF CreateIncident, WithIncident, OpenIncidents
    <2> QED
      BY <1>4, <2>2 DEF CreateIncident, AtMostOneOpenIncident, CreateStillNeeded
  <1>5. CASE Tick \/ BeginSync
    BY <1>1, <1>5 DEF Tick, BeginSync
  <1>6. ASSUME NEW r \in Requests, BeginPing(r) \/ BeginEdit(r)
        PROVE  IncidentInv'
    BY <1>1, <1>6 DEF BeginPing, BeginEdit
  <1>7. ASSUME NEW a \in Actors, ActorStep(a) \/ ActorFails(a)
        PROVE  IncidentInv'
    BY <1>1, <1>2, <1>7
    DEF ActorStep, RecordPing, GetJob, RemoveJob, ArmJob, FindIncidentToResolve,
        EnqueueRecovered, ActorFails
  <1>8. CASE WorkerStep \/ WorkerFails \/ EvictFinishedJob
    <2>1. worker \in WorkerRecords
      BY DEF TypeOK
    <2> QED
      BY <1>1, <1>3, <1>4, <1>8, <2>1
      DEF WorkerStep, TakeJob, LoadMonitor, RecordTimeoutFailure, EnqueueDown, FinishJob,
          WorkerFails, EvictFinishedJob, IdleWorker, WorkerRecords
  <1>9. CASE UNCHANGED vars
    BY <1>1, <1>9 DEF vars
  <1> QED
    BY <1>5, <1>6, <1>7, <1>8, <1>9 DEF Next

\* However pings, edits, syncs, retries and crashes interleave with the timeout
\* job, the monitor has at most one unresolved incident: that one job has the
\* monitor's id, and that a running job is not removed, serialise the creation.
THEOREM OneOpenIncident == Spec => []AtMostOneOpenIncident
  <1>1. Init => IncidentInv
    BY DEF Init, IncidentInv, AtMostOneOpenIncident, CreateStillNeeded, OpenIncidents, IdleWorker
  <1>2. TypeOK /\ IncidentInv /\ [Next]_vars => IncidentInv'
    BY IncidentStep
  <1>3. IncidentInv => AtMostOneOpenIncident
    BY DEF IncidentInv
  <1> QED
    BY <1>1, <1>2, <1>3, TypeCorrect, PTL DEF Spec

-----------------------------------------------------------------------------
(* Incidents, results and alerts *)

\* What the run of the timeout job has behind it: its failed result, before it
\* looks for an open incident; an incident nobody was told about, before the alert.
RunRecorded ==
  /\ worker.pc \in {"findToOpen", "create"} => TimeoutRecorded(job.expectedBy)
  /\ worker.pc = "enqueueDown" =>
       /\ worker.incident <= lastIncident
       /\ \A k \in AlertsOf("MONITOR_DOWN") : alerts[k].incident # worker.incident

\* What a ping has behind it: its result, the incident it found, its resolution.
PingRun(r) ==
  /\ r.pc \in {"findToResolve", "resolve", "enqueueRecovered"} => r.kind = "ping"
  /\ r.kind = "ping" /\ r.pc # "recordPing" => PingRecorded(r.at)
  /\ r.pc = "resolve" => \E i \in incidents : i.id = r.incident
  /\ r.pc = "enqueueRecovered" =>
       \E i \in incidents : i.id = r.incident /\ i.resolvedAt # NoTime

PingsRecorded == \A a \in Actors : PingRun(actor[a])

\* Incidents get increasing ids, so that no alert is about a later one.
KnownAlerts == \A k \in AlertsOf("MONITOR_DOWN") : alerts[k].incident <= lastIncident

OutageInv ==
  IncidentsRecorded /\ AlertsMatchIncidents /\ KnownAlerts /\ RunRecorded /\ PingsRecorded

\* A step that touches neither incidents nor alerts has only to keep what runs.
LEMMA QuietStep ==
  ASSUME OutageInv, results \subseteq results', UNCHANGED history, RunRecorded',
         \A a \in Actors : actor'[a] = actor[a] \/ PingRun(actor[a])'
  PROVE  OutageInv'
  <1> USE DEF history
  <1>1. IncidentsRecorded'
    BY DEF OutageInv, IncidentsRecorded, TimeoutRecorded, PingRecorded
  <1>2. AlertsMatchIncidents' /\ KnownAlerts'
    BY DEF OutageInv, AlertsMatchIncidents, KnownAlerts, AlertsOf
  <1>3. ASSUME NEW a \in Actors
        PROVE  PingRun(actor[a])'
    <2>1. actor'[a] = actor[a] => PingRun(actor[a])'
      BY DEF OutageInv, PingsRecorded, PingRun, PingRecorded
    <2> QED
      BY <2>1
  <1> QED
    BY <1>1, <1>2, <1>3 DEF OutageInv, PingsRecorded

\* Requests and the scheduler begin with nothing behind them.
LEMMA BeginOutage ==
  ASSUME TypeOK, OutageInv, \/ Tick \/ BeginSync
                            \/ \E r \in Requests : BeginPing(r) \/ BeginEdit(r)
  PROVE  OutageInv'
  <1> USE DEF monitorRow, counters
  <1>1. RunRecorded' /\ results \subseteq results' /\ UNCHANGED history
    BY DEF Tick, BeginSync, BeginPing, BeginEdit, RunRecorded, TimeoutRecorded, AlertsOf,
           OutageInv, history
  <1>2. ASSUME NEW b \in Actors, actor' = [actor EXCEPT ![b] = actor'[b]],
               actor'[b].pc \in {"recordPing", "getJob"},
               actor'[b].kind = "ping" => actor'[b].pc = "recordPing"
        PROVE  \A a \in Actors : actor'[a] = actor[a] \/ PingRun(actor[a])'
    BY <1>2 DEF PingRun, TypeOK
  <1>3. \A a \in Actors : actor'[a] = actor[a] \/ PingRun(actor[a])'
    <2>1. CASE Tick
      BY <2>1 DEF Tick
    <2>2. CASE BeginSync
      <3>1. Scheduler \in Actors /\ actor'[Scheduler].pc = "getJob"
              /\ actor'[Scheduler].kind # "ping"
              /\ actor' = [actor EXCEPT ![Scheduler] = actor'[Scheduler]]
        BY <2>2 DEF BeginSync, TypeOK, Actors, IdleActor
      <3> QED
        BY <1>2, <3>1
    <2>3. ASSUME NEW r \in Requests, BeginPing(r) \/ BeginEdit(r)
          PROVE  \A a \in Actors : actor'[a] = actor[a] \/ PingRun(actor[a])'
      <3>0. r \in Actors
        BY DEF Actors
      <3>1. CASE BeginPing(r)
        <4>1. actor' = [actor EXCEPT ![r] = actor'[r]] /\ actor'[r].pc = "recordPing"
          BY <3>0, <3>1 DEF BeginPing, TypeOK, IdleActor
        <4> QED
          BY <1>2, <3>0, <4>1
      <3>2. CASE BeginEdit(r)
        <4>1. /\ actor' = [actor EXCEPT ![r] = actor'[r]] /\ actor'[r].pc = "getJob"
              /\ actor'[r].kind # "ping"
          BY <3>0, <3>2 DEF BeginEdit, TypeOK, IdleActor
        <4> QED
          BY <1>2, <3>0, <4>1
      <3> QED
        BY <2>3, <3>1, <3>2
    <2> QED
      BY <2>1, <2>2, <2>3
  <1> QED
    BY <1>1, <1>3, QuietStep

\* A step of one actor that writes no incident, while the worker's job stays.
LEMMA QuietActor ==
  ASSUME TypeOK, OutageInv, NEW b \in Actors, UNCHANGED <<history, worker>>,
         results \subseteq results', worker.pc # "idle" => job' = job,
         actor' = [actor EXCEPT ![b] = actor'[b]], PingRun(actor[b])'
  PROVE  OutageInv'
  <1>1. RunRecorded'
    BY DEF RunRecorded, TimeoutRecorded, AlertsOf, OutageInv, history
  <1>2. \A a \in Actors : actor'[a] = actor[a] \/ PingRun(actor[a])'
    BY DEF TypeOK
  <1> QED
    BY <1>1, <1>2, QuietStep

\* The steps of a request or of the scheduler that replace the job or look for the
\* open incident: a running job stays, so do the tables but for a new result.
LEMMA QuietActorSteps ==
  ASSUME TypeOK, OutageInv, NEW a \in Actors,
         \/ RecordPing(a) \/ GetJob(a) \/ RemoveJob(a) \/ ArmJob(a)
         \/ FindIncidentToResolve(a) \/ ActorFails(a)
  PROVE  OutageInv'
  <1> USE DEF monitorRow, counters
  <1>1. UNCHANGED <<history, worker>> /\ results \subseteq results'
    BY DEF RecordPing, GetJob, RemoveJob, ArmJob, FindIncidentToResolve, ActorFails, history
  <1>2. worker.pc # "idle" => job' = job
    BY DEF RecordPing, GetJob, RemoveJob, ArmJob, AddJob, FindIncidentToResolve, ActorFails,
           TypeOK
  <1>3. actor[a] \in ActorRecords /\ PingRun(actor[a])
    BY DEF TypeOK, OutageInv, PingsRecorded
  <1>4. actor' = [actor EXCEPT ![a] = actor'[a]] /\ actor'[a] \in ActorRecords
    BY ActorTypes DEF TypeOK, ActorStep, RecordPing, GetJob, RemoveJob, ArmJob,
                      FindIncidentToResolve, ActorFails
  <1>5. PingRun(actor[a])'
    <2>1. CASE RecordPing(a)
      BY <1>3, <2>1 DEF RecordPing, PingRun, PingRecorded, TypeOK, ActorRecords
    <2>a. CASE actor'[a] = IdleActor
      BY <2>a DEF PingRun, IdleActor
    <2>b. ASSUME NEW pc \in {"remove", "add", "findToResolve"},
                 actor'[a] = [actor[a] EXCEPT !.pc = pc],
                 actor[a].pc # "recordPing", pc = "findToResolve" => actor[a].kind = "ping"
          PROVE  PingRun(actor[a])'
      <3>1. /\ actor'[a].pc = pc /\ actor'[a].kind = actor[a].kind
            /\ actor'[a].at = actor[a].at
        BY <1>3, <2>b DEF ActorRecords
      <3> QED
        BY <1>1, <1>3, <2>b, <3>1 DEF PingRun, PingRecorded
    <2>2. CASE GetJob(a)
      <3>1. \/ actor'[a] = IdleActor
            \/ \E pc \in {"remove", "add"} : actor'[a] = [actor[a] EXCEPT !.pc = pc]
        BY <2>2 DEF GetJob, TypeOK
      <3> QED
        BY <2>2, <2>a, <2>b, <3>1 DEF GetJob
    <2>3. CASE RemoveJob(a)
      <3>1. actor'[a] = IdleActor \/ actor'[a] = [actor[a] EXCEPT !.pc = "add"]
        BY <2>3 DEF RemoveJob, TypeOK
      <3> QED
        BY <2>3, <2>a, <2>b, <3>1 DEF RemoveJob
    <2>4. CASE ArmJob(a)
      <3>1. \/ actor'[a] = IdleActor
            \/ actor[a].kind = "ping" /\ actor'[a] = [actor[a] EXCEPT !.pc = "findToResolve"]
        BY <2>4 DEF ArmJob, TypeOK
      <3> QED
        BY <2>4, <2>a, <2>b, <3>1 DEF ArmJob
    <2>5. CASE FindIncidentToResolve(a)
      <3>1. ASSUME NEW i \in FindOpen(incidents, Monitor),
                   actor' = [actor EXCEPT ![a].pc = "resolve", ![a].incident = i.id]
            PROVE  PingRun(actor[a])'
        <4>1. /\ actor'[a].pc = "resolve" /\ actor'[a].kind = actor[a].kind
              /\ actor'[a].at = actor[a].at /\ actor'[a].incident = i.id
          BY <1>3, <3>1 DEF ActorRecords, TypeOK
        <4>2. i \in incidents'
          BY <1>1 DEF FindOpen, OpenIncidents, history
        <4> QED
          BY <1>1, <1>3, <2>5, <4>1, <4>2 DEF FindIncidentToResolve, PingRun, PingRecorded
      <3>2. CASE actor' = [actor EXCEPT ![a] = IdleActor]
        BY <2>a, <3>2 DEF TypeOK
      <3> QED
        BY <2>5, <3>1, <3>2 DEF FindIncidentToResolve
    <2>6. CASE ActorFails(a)
      BY <2>6 DEF ActorFails, PingRun, PingRecorded, TypeOK, IdleActor
    <2> QED
      BY <2>1, <2>2, <2>3, <2>4, <2>5, <2>6
  <1> QED
    BY <1>1, <1>2, <1>4, <1>5, QuietActor

\* ResolveIncident: every row of the id the ping found gets the instant of a ping
\* whose result is there, and what others have found is still there.
LEMMA ResolveStep ==
  ASSUME TypeOK, OutageInv, NEW a \in Actors, ResolveIncident(a)
  PROVE  OutageInv'
  <1> DEFINE Resolved(i) == [i EXCEPT !.resolvedAt = actor[a].at]
             After(i) == IF i.id = actor[a].incident THEN Resolved(i) ELSE i
  <1> USE DEF monitorRow, counters, ResolveIncident
  <1>1. actor[a] \in ActorRecords /\ PingRun(actor[a])
    BY DEF TypeOK, OutageInv, PingsRecorded
  <1>2. actor[a].at \in Nat /\ PingRecorded(actor[a].at)
    BY <1>1 DEF PingRun, ActorRecords
  <1>3. \A i \in incidents : /\ Resolved(i).id = i.id /\ Resolved(i).startedAt = i.startedAt
                             /\ Resolved(i).resolvedAt = actor[a].at
    BY DEF TypeOK, RowsTypeOK, IncidentRows
  <1>4. /\ \A i \in incidents : After(i) \in incidents'
        /\ \A j \in incidents' : \E i \in incidents : j = After(i)
    BY DEF WithResolved
  <1> HIDE DEF Resolved
  <1>r. results' = results
    OBVIOUS
  <1>e. \A i \in incidents : /\ After(i).startedAt = i.startedAt
                             /\ \/ After(i).resolvedAt = i.resolvedAt
                                \/ After(i).resolvedAt = actor[a].at
    BY <1>3
  <1>5. IncidentsRecorded'
    <2> HIDE DEF ResolveIncident, After
    <2> SUFFICES ASSUME NEW j \in incidents'
                 PROVE  /\ TimeoutRecorded(j.startedAt)'
                        /\ j.resolvedAt # NoTime => PingRecorded(j.resolvedAt)'
      BY DEF IncidentsRecorded
    <2>1. PICK i \in incidents : j = After(i)
      BY <1>4
    <2>2. /\ TimeoutRecorded(i.startedAt)
          /\ i.resolvedAt # NoTime => PingRecorded(i.resolvedAt)
      BY DEF OutageInv, IncidentsRecorded
    <2>3. /\ TimeoutRecorded(j.startedAt)
          /\ j.resolvedAt # NoTime => PingRecorded(j.resolvedAt)
      BY <1>2, <1>e, <2>1, <2>2
    <2> QED
      BY <1>r, <2>3 DEF TimeoutRecorded, PingRecorded
  <1>6. \A i \in incidents : /\ After(i).id = i.id
                             /\ i.resolvedAt # NoTime => After(i).resolvedAt # NoTime
    BY <1>2, <1>3 DEF NoTime
  <1>7. AlertsMatchIncidents'
    BY <1>4, <1>6 DEF OutageInv, AlertsMatchIncidents, AlertsOf
  <1>8. KnownAlerts' /\ RunRecorded'
    BY DEF OutageInv, KnownAlerts, RunRecorded, TimeoutRecorded, AlertsOf
  <1>9. ASSUME NEW b \in Actors, b # a
        PROVE  PingRun(actor[b])'
    <2>1. actor'[b] = actor[b] /\ PingRun(actor[b])
      BY <1>9 DEF TypeOK, OutageInv, PingsRecorded
    <2>2. \A id : (\E i \in incidents : i.id = id) => (\E i \in incidents' : i.id = id)
      BY <1>4, <1>6
    <2>3. \A id : (\E i \in incidents : i.id = id /\ i.resolvedAt # NoTime)
                     => (\E i \in incidents' : i.id = id /\ i.resolvedAt # NoTime)
      BY <1>4, <1>6
    <2>r. results' = results
      OBVIOUS
    <2> HIDE DEF ResolveIncident
    <2>4. PingRecorded(actor[b].at) => PingRecorded(actor[b].at)'
      BY <2>1, <2>r DEF PingRecorded
    <2> QED
      BY <2>1, <2>2, <2>3, <2>4 DEF PingRun
  <1>10. PingRun(actor[a])'
    <2>1. /\ actor'[a].pc = "enqueueRecovered" /\ actor'[a].kind = actor[a].kind
          /\ actor'[a].at = actor[a].at /\ actor'[a].incident = actor[a].incident
      BY <1>1 DEF TypeOK, ActorRecords
    <2>2. PICK i \in incidents : i.id = actor[a].incident
      BY <1>1 DEF PingRun
    <2>3. /\ After(i) \in incidents' /\ After(i).id = actor[a].incident
          /\ After(i).resolvedAt # NoTime
      BY <1>2, <1>3, <1>4, <2>2 DEF NoTime
    <2> QED
      BY <1>1, <1>2, <2>1, <2>3 DEF PingRun, PingRecorded
  <1> QED
    BY <1>5, <1>7, <1>8, <1>9, <1>10 DEF OutageInv, PingsRecorded

\* What Append makes of the alerts: a new last one, the others in their places.
LEMMA AlertAdded ==
  ASSUME TypeOK, NEW al \in AlertJobs, alerts' = Append(alerts, al)
  PROVE  /\ Len(alerts) \in Nat /\ Len(alerts') = Len(alerts) + 1
         /\ alerts'[Len(alerts) + 1] = al
         /\ \A k \in 1..Len(alerts) : alerts'[k] = alerts[k]
         /\ \A event : \A k \in AlertsOf(event)' :
               \/ k \in AlertsOf(event)
               \/ k = Len(alerts) + 1 /\ al.event = event
  BY DEF TypeOK, AlertsOf

\* EnqueueRecovered: the alert is about an incident that has been resolved.
LEMMA RecoveredStep ==
  ASSUME TypeOK, OutageInv, NEW a \in Actors, EnqueueRecovered(a)
  PROVE  OutageInv'
  <1> DEFINE al == [event |-> "MONITOR_RECOVERED", incident |-> actor[a].incident]
  <1> USE DEF monitorRow, counters, EnqueueRecovered
  <1>1. actor[a] \in ActorRecords /\ PingRun(actor[a])
    BY DEF TypeOK, OutageInv, PingsRecorded
  <1>2. al \in AlertJobs /\ alerts' = Append(alerts, al)
    BY <1>1 DEF ActorRecords, AlertJobs
  <1>3. al.event = "MONITOR_RECOVERED" /\ al.incident = actor[a].incident
    OBVIOUS
  <1> HIDE DEF al
  <1>4. /\ \A k \in 1..Len(alerts) : alerts'[k] = alerts[k]
        /\ alerts'[Len(alerts) + 1] = al
        /\ \A k \in AlertsOf("MONITOR_DOWN")' : k \in AlertsOf("MONITOR_DOWN")
        /\ \A k \in AlertsOf("MONITOR_RECOVERED")' :
              k \in AlertsOf("MONITOR_RECOVERED") \/ k = Len(alerts) + 1
    BY <1>2, <1>3, AlertAdded
  <1>5. AlertsMatchIncidents' /\ KnownAlerts' /\ RunRecorded'
    BY <1>1, <1>3, <1>4
    DEF OutageInv, AlertsMatchIncidents, KnownAlerts, RunRecorded, TimeoutRecorded, AlertsOf,
        PingRun
  <1>6. IncidentsRecorded'
    BY DEF OutageInv, IncidentsRecorded, TimeoutRecorded, PingRecorded
  <1>7. ASSUME NEW b \in Actors
        PROVE  PingRun(actor[b])'
    <2>1. actor'[b] = IdleActor \/ actor'[b] = actor[b]
      BY DEF TypeOK
    <2> QED
      BY <2>1 DEF OutageInv, PingsRecorded, PingRun, PingRecorded, IdleActor
  <1> QED
    BY <1>5, <1>6, <1>7 DEF OutageInv, PingsRecorded

\* CreateIncident: the new incident begins at the deadline whose failed result the
\* run has written, and its id is one that no alert is about.
LEMMA CreateStep ==
  ASSUME TypeOK, OutageInv, CreateIncident
  PROVE  OutageInv'
  <1> DEFINE new == [id |-> lastIncident + 1, monitor |-> Monitor, startedAt |-> job.expectedBy,
                     confirmedAt |-> job.expectedBy, resolvedAt |-> NoTime]
  <1>1. /\ incidents' = incidents \cup {new} /\ lastIncident' = lastIncident + 1
        /\ worker' = [pc |-> "enqueueDown", incident |-> lastIncident + 1]
        /\ results' = results /\ alerts' = alerts /\ actor' = actor
    BY DEF CreateIncident, WithIncident
  <1>2. TimeoutRecorded(job.expectedBy)
    BY DEF CreateIncident, OutageInv, RunRecorded
  <1>n. new.startedAt = job.expectedBy /\ new.resolvedAt = NoTime
    OBVIOUS
  <1> HIDE DEF new
  <1>3. IncidentsRecorded'
    BY <1>1, <1>2, <1>n DEF OutageInv, IncidentsRecorded, TimeoutRecorded, PingRecorded
  <1>4. AlertsMatchIncidents'
    BY <1>1 DEF OutageInv, AlertsMatchIncidents, AlertsOf
  <1>5. lastIncident \in Nat /\ \A k \in 1..Len(alerts) : alerts[k].incident \in Nat
    <2>1. lastIncident \in Nat /\ alerts \in Seq(AlertJobs)
      BY DEF TypeOK, RowsTypeOK
    <2>2. \A al \in AlertJobs : al.incident \in Nat
      BY DEF AlertJobs
    <2> QED
      BY <2>1, <2>2
  <1>6. \A k \in AlertsOf("MONITOR_DOWN") : /\ alerts[k].incident <= lastIncident + 1
                                            /\ alerts[k].incident # lastIncident + 1
    BY <1>5 DEF OutageInv, KnownAlerts, AlertsOf
  <1>7. KnownAlerts' /\ RunRecorded'
    BY <1>1, <1>5, <1>6 DEF KnownAlerts, RunRecorded, AlertsOf
  <1>8. PingsRecorded'
    BY <1>1 DEF OutageInv, PingsRecorded, PingRun, PingRecorded
  <1> QED
    BY <1>3, <1>4, <1>7, <1>8 DEF OutageInv

\* EnqueueDown: nobody had been told of the incident.
LEMMA DownStep ==
  ASSUME TypeOK, OutageInv, EnqueueDown
  PROVE  OutageInv'
  <1> DEFINE al == [event |-> "MONITOR_DOWN", incident |-> worker.incident]
  <1> USE DEF monitorRow, counters, EnqueueDown
  <1>2. al \in AlertJobs /\ alerts' = Append(alerts, al)
    BY DEF TypeOK, WorkerRecords, AlertJobs
  <1>3. al.event = "MONITOR_DOWN" /\ al.incident = worker.incident
    OBVIOUS
  <1> HIDE DEF al
  <1>4. /\ \A k \in 1..Len(alerts) : alerts'[k] = alerts[k]
        /\ alerts'[Len(alerts) + 1] = al
        /\ \A k \in AlertsOf("MONITOR_DOWN")' :
              k \in AlertsOf("MONITOR_DOWN") \/ k = Len(alerts) + 1
        /\ \A k \in AlertsOf("MONITOR_RECOVERED")' : k \in AlertsOf("MONITOR_RECOVERED")
    BY <1>2, <1>3, AlertAdded
  <1>5. AlertsMatchIncidents' /\ KnownAlerts'
    BY <1>3, <1>4
    DEF OutageInv, AlertsMatchIncidents, KnownAlerts, RunRecorded, AlertsOf
  <1>6. IncidentsRecorded' /\ RunRecorded'
    BY DEF OutageInv, IncidentsRecorded, RunRecorded, TimeoutRecorded, PingRecorded, IdleWorker
  <1>7. PingsRecorded'
    BY DEF OutageInv, PingsRecorded, PingRun, PingRecorded
  <1> QED
    BY <1>5, <1>6, <1>7 DEF OutageInv

\* The other steps of the timeout job, and its eviction, write no incident.
LEMMA QuietWorkerSteps ==
  ASSUME TypeOK, OutageInv,
         \/ TakeJob \/ LoadMonitor \/ RecordTimeoutFailure \/ FindIncidentToOpen \/ FinishJob
         \/ WorkerFails \/ EvictFinishedJob
  PROVE  OutageInv'
  <1> USE DEF monitorRow, counters
  <1>0. worker \in WorkerRecords
    BY DEF TypeOK
  <1>1. UNCHANGED history /\ results \subseteq results' /\ actor' = actor
    BY DEF TakeJob, LoadMonitor, RecordTimeoutFailure, FindIncidentToOpen, FinishJob,
           WorkerFails, EvictFinishedJob, history
  <1>2. worker'.pc # "enqueueDown"
    BY <1>0 DEF TakeJob, LoadMonitor, RecordTimeoutFailure, FindIncidentToOpen, FinishJob,
                WorkerFails, EvictFinishedJob, WorkerRecords, IdleWorker, TypeOK
  <1>3. ASSUME worker'.pc \in {"findToOpen", "create"}
        PROVE  TimeoutRecorded(job.expectedBy)'
    <2>1. \/ RecordTimeoutFailure
          \/ worker.pc \in {"findToOpen", "create"} /\ job' = job
      BY <1>0, <1>3 DEF TakeJob, LoadMonitor, FindIncidentToOpen, FinishJob, WorkerFails,
                        EvictFinishedJob, WorkerRecords, IdleWorker, TypeOK
    <2> QED
      BY <1>1, <2>1 DEF OutageInv, RunRecorded, TimeoutRecorded, RecordTimeoutFailure
  <1>4. RunRecorded'
    BY <1>2, <1>3 DEF RunRecorded
  <1> QED
    BY <1>1, <1>4, QuietStep

\* No step separates the incidents from the results and the alerts.
LEMMA OutageStep == TypeOK /\ OutageInv /\ [Next]_vars => OutageInv'
  <1> SUFFICES ASSUME TypeOK, OutageInv, [Next]_vars
               PROVE  OutageInv'
    OBVIOUS
  <1>1. CASE UNCHANGED vars
    BY <1>1, QuietStep DEF vars, history, OutageInv, RunRecorded, TimeoutRecorded, AlertsOf
  <1> QED
    BY <1>1, BeginOutage, QuietActorSteps, ResolveStep, RecoveredStep, QuietWorkerSteps,
       CreateStep, DownStep
    DEF Next, ActorStep, WorkerStep

\* Whatever fails, is retried or overlaps between the transactions, every incident
\* begins with a failed result and ends with a successful one, is reported down at
\* most once and up only when resolved, and the monitor has one at a time.
THEOREM OutagesAreWhatHappened == Spec => []IncidentsMatchResults
  <1>1. Init => OutageInv
    BY DEF Init, OutageInv, IncidentsRecorded, AlertsMatchIncidents, KnownAlerts, RunRecorded,
           PingsRecorded, PingRun, AlertsOf, IdleActor, IdleWorker
  <1>2. TypeOK /\ OutageInv /\ [Next]_vars => OutageInv'
    BY OutageStep
  <1>3. AtMostOneOpenIncident /\ OutageInv => IncidentsMatchResults
    BY DEF OutageInv, IncidentsMatchResults
  <1> QED
    BY <1>1, <1>2, <1>3, TypeCorrect, OneOpenIncident, PTL DEF Spec
=============================================================================
