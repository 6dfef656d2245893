------------------------ MODULE CheckWorkerProofs ------------------------
(***************************************************************************)
(* Theorems about CheckWorker, for every set of monitors and slots, every  *)
(* threshold, number of attempts and bound.  An invariant that needs jobs  *)
(* of a monitor to be serialised says so in its statement, as OneSlot.     *)
(***************************************************************************)
EXTENDS CheckWorker, FiniteSetTheorems, TLAPS

\* The worker's queue runs one job at a time: a single process, concurrency 1.
OneSlot == \A s, t \in Slots : s = t

-----------------------------------------------------------------------------
(* Types *)

\* A retry puts the job back with an attempt number that exists.
LEMMA RequeueType ==
  ASSUME NEW s \in Slots, TypeOK, slot[s].pc # "idle",
         waiting' = IF slot[s].attempt < MaxAttempts
                    THEN [waiting EXCEPT ![slot[s].monitor][slot[s].attempt + 1] = @ + 1]
                    ELSE waiting
  PROVE  waiting' \in [Monitors -> [Attempts -> Nat]]
  <1> DEFINE m == slot[s].monitor
             a == slot[s].attempt
  <1>1. m \in Monitors /\ a \in Attempts /\ waiting \in [Monitors -> [Attempts -> Nat]]
    BY DEF TypeOK, SlotsTypeOK, QueuesTypeOK, HasJob
  <1>2. a < MaxAttempts => a + 1 \in Attempts
    BY <1>1, AttemptsAssumption DEF Attempts
  <1>3. ASSUME a + 1 \in Attempts
        PROVE  [waiting[m] EXCEPT ![a + 1] = @ + 1] \in [Attempts -> Nat]
    BY <1>1, <1>3
  <1> QED
    BY <1>1, <1>2, <1>3

\* An alert job added for a monitor keeps the queue a sequence of alert jobs.
LEMMA AddAlertType ==
  ASSUME NEW m \in Monitors, NEW id \in Nat,
         NEW e \in {"MONITOR_DOWN", "MONITOR_RECOVERED"},
         QueuesTypeOK, AddAlert(m, e, id)
  PROVE  alerts' \in [Monitors -> Seq(AlertJobs)]
  <1>1. [event |-> e, incident |-> id] \in AlertJobs
    BY DEF AlertJobs
  <1>2. Append(alerts[m], [event |-> e, incident |-> id]) \in Seq(AlertJobs)
    BY <1>1 DEF QueuesTypeOK
  <1> QED
    BY <1>2 DEF QueuesTypeOK, AddAlert

\* A step that gives one slot a well-formed record keeps all of them so.
LEMMA SlotType ==
  ASSUME NEW s \in Slots, NEW r \in SlotRecords, SlotsTypeOK, HasJob(r),
         slot' = [slot EXCEPT ![s] = r]
  PROVE  SlotsTypeOK'
  BY DEF SlotsTypeOK, HasJob

\* The records a slot gets when it becomes idle or its job has returned.
LEMMA ResetType ==
  ASSUME NEW s \in Slots, SlotsTypeOK
  PROVE  /\ IdleSlot \in SlotRecords /\ HasJob(IdleSlot)
         /\ Returned(s) \in SlotRecords
         /\ slot[s].pc # "idle" => HasJob(Returned(s))
  BY DEF IdleSlot, Returned, SlotRecords, HasJob, PCs, SlotsTypeOK

\* The slots keep their shape: a job keeps its monitor and attempt until it ends.
LEMMA SlotsStep ==
  ASSUME TypeOK, NEW s \in Slots, Claim(s) \/ Advance(s) \/ Fail(s)
  PROVE  SlotsTypeOK'
  <1> USE DEF SlotRecords, HasJob
  <1>0. SlotsTypeOK /\ IdleSlot \in SlotRecords /\ Returned(s) \in SlotRecords
    BY ResetType DEF TypeOK
  <1>1. ASSUME NEW r \in SlotRecords, slot' = [slot EXCEPT ![s] = r],
               \/ r.pc = "idle"
               \/ r.monitor \in Monitors /\ r.attempt \in Attempts
        PROVE  SlotsTypeOK'
    BY <1>0, <1>1, SlotType
  <1>2. CASE slot[s].pc = "idle"
    <2>1. PICK m \in Monitors, a \in Attempts :
            slot' = [slot EXCEPT ![s] = [IdleSlot EXCEPT !.pc = "load", !.monitor = m,
                                                         !.attempt = a]]
      BY <1>2 DEF Claim, Advance, Fail, Load, RecordCheckResult, ClearFailures,
         FindIncidentToResolve, ResolveIncident, EnqueueRecovered, IncrementFailures,
         MarkFirstFailure, ReadFirstFailure, FindIncidentToOpen, CreateIncident, EnqueueDown,
         Acknowledge, FailMissing
    <2> QED
      BY <1>1, <2>1 DEF IdleSlot, PCs
  <1>3. CASE slot[s].pc # "idle"
    <2>1. slot[s] \in SlotRecords /\ slot[s].monitor \in Monitors /\ slot[s].attempt \in Attempts
      BY <1>0, <1>3 DEF SlotsTypeOK
    <2>2. ASSUME NEW pc \in PCs, NEW at \in Nat, NEW count \in Nat, NEW started \in Nat,
                 NEW id \in Nat,
                 slot' = [slot EXCEPT ![s] = [slot[s] EXCEPT !.pc = pc, !.at = at,
                            !.count = count, !.startedAt = started, !.incident = id]]
          PROVE  SlotsTypeOK'
      BY <1>1, <2>1, <2>2
    <2>3. slot' = [slot EXCEPT ![s] = Returned(s)] => SlotsTypeOK'
      BY <1>0, <1>1, <2>1 DEF Returned
    <2>4. slot' = [slot EXCEPT ![s] = IdleSlot] => SlotsTypeOK'
      BY <1>0, <1>1 DEF IdleSlot
    <2>5. ASSUME Load(s)
          PROVE  SlotsTypeOK'
      <3>0. clock + 1 \in Nat /\ "record" \in PCs
        BY DEF TypeOK, PCs
      <3>1. [slot[s] EXCEPT !.pc = "record", !.at = clock + 1] \in SlotRecords
        BY <2>1, <3>0
      <3> QED
        BY <1>1, <2>1, <2>3, <2>5, <3>1 DEF Load
    <2>6. ASSUME RecordCheckResult(s)
          PROVE  SlotsTypeOK'
      <3>1. PICK isUp \in BOOLEAN :
              slot' = [slot EXCEPT ![s].pc = IF isUp THEN "clear" ELSE "increment"]
        BY <2>6 DEF RecordCheckResult, CheckOutcomes
      <3>2. [slot[s] EXCEPT !.pc = IF isUp THEN "clear" ELSE "increment"] \in SlotRecords
        BY <2>1 DEF PCs
      <3> QED
        BY <1>1, <2>1, <3>1, <3>2
    <2>7. ASSUME ClearFailures(s)
          PROVE  SlotsTypeOK'
      <3>2. [slot[s] EXCEPT !.pc = "findToResolve"] \in SlotRecords
        BY <2>1 DEF PCs
      <3> QED
        BY <1>1, <2>1, <2>7, <3>2 DEF ClearFailures
    <2>8. ASSUME FindIncidentToResolve(s)
          PROVE  SlotsTypeOK'
      <3>1. CASE slot' = [slot EXCEPT ![s] = Returned(s)]
        BY <2>3, <3>1
      <3>2. CASE \E i \in FindOpen(incidents, slot[s].monitor) :
                   slot' = [slot EXCEPT ![s].pc = "resolve", ![s].incident = i.id]
        <4>1. PICK i \in incidents :
                slot' = [slot EXCEPT ![s].pc = "resolve", ![s].incident = i.id]
          BY <3>2 DEF FindOpen, OpenIncidents
        <4>2. i.id \in Nat /\ "resolve" \in PCs
          BY DEF TypeOK, DatabaseTypeOK, IncidentRows, PCs
        <4>3. [slot[s] EXCEPT !.pc = "resolve", !.incident = i.id] \in SlotRecords
          BY <2>1, <4>2
        <4> QED
          BY <1>1, <2>1, <4>1, <4>3
      <3> QED
        BY <2>8, <3>1, <3>2 DEF FindIncidentToResolve
    <2>9. ASSUME ResolveIncident(s)
          PROVE  SlotsTypeOK'
      <3>1. [slot[s] EXCEPT !.pc = "enqueueRecovered"] \in SlotRecords
        BY <2>1 DEF PCs
      <3> QED
        BY <1>1, <2>1, <2>9, <3>1 DEF ResolveIncident
    <2>10. ASSUME IncrementFailures(s)
           PROVE  SlotsTypeOK'
      <3>1. failureCount[slot[s].monitor] + 1 \in Nat /\ "mark" \in PCs
        BY <2>1 DEF TypeOK, RedisTypeOK, PCs
      <3>2. [slot[s] EXCEPT !.pc = "mark", !.count = failureCount[slot[s].monitor] + 1]
              \in SlotRecords
        BY <2>1, <3>1
      <3> QED
        BY <1>1, <2>1, <2>10, <3>2 DEF IncrementFailures
    <2>11. ASSUME MarkFirstFailure(s)
           PROVE  SlotsTypeOK'
      <3>1. [slot[s] EXCEPT !.pc = "readFirst"] \in SlotRecords
        BY <2>1 DEF PCs
      <3>2. CASE slot[s].count < NormalizedThreshold
        BY <2>3, <2>11, <3>2 DEF MarkFirstFailure
      <3>3. CASE ~(slot[s].count < NormalizedThreshold)
        BY <1>1, <2>1, <2>11, <3>1, <3>3 DEF MarkFirstFailure
      <3> QED
        BY <3>2, <3>3
    <2>12. ASSUME ReadFirstFailure(s)
           PROVE  SlotsTypeOK'
      <3> DEFINE first == firstFailureAt[slot[s].monitor]
                 started == IF first # NoTime THEN first ELSE slot[s].at
      <3>1. started \in Nat /\ "findToOpen" \in PCs
        BY <2>1 DEF TypeOK, RedisTypeOK, TimeOrNull, NoTime, PCs
      <3>2. [slot[s] EXCEPT !.pc = "findToOpen", !.startedAt = started] \in SlotRecords
        BY <2>1, <3>1
      <3>3. slot' = [slot EXCEPT ![s].pc = "findToOpen", ![s].startedAt = started]
        BY <2>12 DEF ReadFirstFailure
      <3> QED
        BY <1>1, <2>1, <3>2, <3>3
    <2>13. ASSUME FindIncidentToOpen(s)
           PROVE  SlotsTypeOK'
      <3>1. [slot[s] EXCEPT !.pc = "create"] \in SlotRecords
        BY <2>1 DEF PCs
      <3>2. CASE FindOpen(incidents, slot[s].monitor) # {}
        BY <2>3, <2>13, <3>2 DEF FindIncidentToOpen
      <3>3. CASE ~(FindOpen(incidents, slot[s].monitor) # {})
        BY <1>1, <2>1, <2>13, <3>1, <3>3 DEF FindIncidentToOpen
      <3> QED
        BY <3>2, <3>3
    <2>14. ASSUME CreateIncident(s)
           PROVE  SlotsTypeOK'
      <3>1. lastIncident + 1 \in Nat /\ "enqueueDown" \in PCs
        BY DEF TypeOK, DatabaseTypeOK, PCs
      <3>2. [slot[s] EXCEPT !.pc = "enqueueDown", !.incident = lastIncident + 1]
              \in SlotRecords
        BY <2>1, <3>1
      <3> QED
        BY <1>1, <2>1, <2>14, <3>2 DEF CreateIncident
    <2>15. CASE EnqueueRecovered(s) \/ EnqueueDown(s)
      BY <2>3, <2>15 DEF EnqueueRecovered, EnqueueDown
    <2>16. CASE Acknowledge(s) \/ FailMissing(s) \/ Fail(s)
      BY <2>4, <2>16 DEF Acknowledge, FailMissing, Fail
    <2> QED
      BY <1>3, <2>5, <2>6, <2>7, <2>8, <2>9, <2>10, <2>11, <2>12, <2>13, <2>14, <2>15, <2>16
         DEF Advance, Claim
  <1> QED
    BY <1>2, <1>3

\* The environment does not touch the slots.
LEMMA EnvironmentSlots ==
  ASSUME NEW m \in Monitors, Environment(m)
  PROVE  UNCHANGED slot
  BY DEF Environment, Enqueue, SetActive, DeleteMonitor, ExpireFailureCount,
         ExpireFirstFailureAt

\* The tables, the Redis keys and the queues keep their shape.
LEMMA StoresStep ==
  ASSUME TypeOK,
         \/ \E m \in Monitors : Environment(m)
         \/ \E s \in Slots : Claim(s) \/ Advance(s) \/ Fail(s)
  PROVE  /\ DatabaseTypeOK' /\ RedisTypeOK' /\ QueuesTypeOK'
         /\ clock' \in Nat /\ failures' \in Nat
  <1> USE DEF database, redis
  <1>0. DatabaseTypeOK /\ RedisTypeOK /\ QueuesTypeOK /\ clock \in Nat /\ failures \in Nat
    BY DEF TypeOK
  <1> DEFINE Goal == /\ DatabaseTypeOK' /\ RedisTypeOK' /\ QueuesTypeOK'
                     /\ clock' \in Nat /\ failures' \in Nat
  <1>1. ASSUME NEW m \in Monitors, Environment(m)
        PROVE  Goal
    <2>1. CASE Enqueue(m)
      <3>1. [waiting[m] EXCEPT ![1] = @ + 1] \in [Attempts -> Nat]
        BY <1>0, AttemptsAssumption DEF QueuesTypeOK, Attempts
      <3> QED
        BY <1>0, <2>1, <3>1 DEF Enqueue, DatabaseTypeOK, RedisTypeOK, QueuesTypeOK
    <2>2. CASE SetActive(m)
      BY <1>0, <2>2 DEF SetActive, DatabaseTypeOK, RedisTypeOK, QueuesTypeOK
    <2>3. CASE DeleteMonitor(m)
      BY <1>0, <2>3 DEF DeleteMonitor, WithoutMonitor, TimeOrNull, DatabaseTypeOK, RedisTypeOK,
                        QueuesTypeOK
    <2>4. CASE ExpireFailureCount(m)
      BY <1>0, <2>4 DEF ExpireFailureCount, DatabaseTypeOK, RedisTypeOK, QueuesTypeOK
    <2>5. CASE ExpireFirstFailureAt(m)
      BY <1>0, <2>5 DEF ExpireFirstFailureAt, TimeOrNull, DatabaseTypeOK, RedisTypeOK,
                        QueuesTypeOK
    <2> QED
      BY <1>1, <2>1, <2>2, <2>3, <2>4, <2>5 DEF Environment
  <1>2. ASSUME NEW s \in Slots, Claim(s) \/ Advance(s) \/ Fail(s)
        PROVE  Goal
    <2>0. slot[s] \in SlotRecords /\ HasJob(slot[s])
      BY DEF TypeOK, SlotsTypeOK
    <2>1. CASE Claim(s)
      <3>1. PICK m \in Monitors, a \in Attempts :
              waiting' = [waiting EXCEPT ![m][a] = @ - 1] /\ waiting[m][a] > 0
        BY <2>1 DEF Claim
      <3>2. [waiting[m] EXCEPT ![a] = @ - 1] \in [Attempts -> Nat]
        BY <1>0, <3>1 DEF QueuesTypeOK
      <3> QED
        BY <1>0, <2>1, <3>1, <3>2 DEF Claim, DatabaseTypeOK, RedisTypeOK, QueuesTypeOK
    <2>2. CASE RecordCheckResult(s)
      <3>0. slot[s].monitor \in Monitors /\ slot[s].at \in Nat
        BY <2>0, <2>2 DEF RecordCheckResult, HasJob, SlotRecords
      <3>1. PICK isUp \in BOOLEAN :
              results' = results \cup {[monitor |-> slot[s].monitor, at |-> slot[s].at,
                                        isUp |-> isUp]}
        BY <2>2 DEF RecordCheckResult, CheckOutcomes
      <3>2. results' \subseteq [monitor : Monitors, at : Nat, isUp : BOOLEAN]
        BY <1>0, <3>0, <3>1 DEF DatabaseTypeOK
      <3>3. lastCheckedAt' \in [Monitors -> TimeOrNull]
        BY <1>0, <2>2, <3>0 DEF RecordCheckResult, DatabaseTypeOK, TimeOrNull
      <3> QED
        BY <1>0, <2>2, <3>2, <3>3 DEF RecordCheckResult, DatabaseTypeOK, RedisTypeOK,
                                      QueuesTypeOK
    <2>3. CASE ClearFailures(s)
      BY <1>0, <2>0, <2>3 DEF ClearFailures, DatabaseTypeOK, RedisTypeOK, QueuesTypeOK,
                              TimeOrNull
    <2>4. CASE ResolveIncident(s)
      <3>1. incidents' \subseteq IncidentRows(Monitors)
        BY <1>0, <2>0, <2>4 DEF ResolveIncident, WithResolved, IncidentRows, DatabaseTypeOK,
                                SlotRecords, TimeOrNull
      <3> QED
        BY <1>0, <2>4, <3>1 DEF ResolveIncident, DatabaseTypeOK, RedisTypeOK, QueuesTypeOK
    <2>5. CASE IncrementFailures(s)
      <3>1. failureCount' \in [Monitors -> Nat]
        BY <1>0, <2>0, <2>5 DEF IncrementFailures, RedisTypeOK, HasJob
      <3> QED
        BY <1>0, <2>5, <3>1 DEF IncrementFailures, DatabaseTypeOK, RedisTypeOK, QueuesTypeOK
    <2>6. CASE MarkFirstFailure(s)
      BY <1>0, <2>0, <2>6 DEF MarkFirstFailure, DatabaseTypeOK, RedisTypeOK, QueuesTypeOK,
                              SlotRecords, TimeOrNull
    <2>7. CASE CreateIncident(s)
      <3> DEFINE row == [id |-> lastIncident + 1, monitor |-> slot[s].monitor,
                         startedAt |-> slot[s].startedAt, confirmedAt |-> slot[s].at,
                         resolvedAt |-> NoTime]
      <3>0. row \in IncidentRows(Monitors) /\ lastIncident + 1 \in Nat
        BY <1>0, <2>0, <2>7 DEF CreateIncident, IncidentRows, DatabaseTypeOK, SlotRecords,
                                TimeOrNull, HasJob
      <3>1. incidents' \subseteq IncidentRows(Monitors) /\ lastIncident' \in Nat
        BY <1>0, <2>7, <3>0 DEF CreateIncident, WithIncident, DatabaseTypeOK
      <3> QED
        BY <1>0, <2>7, <3>1 DEF CreateIncident, DatabaseTypeOK, RedisTypeOK, QueuesTypeOK
    <2>8. CASE EnqueueRecovered(s)
      BY <1>0, <2>0, <2>8, AddAlertType DEF EnqueueRecovered, DatabaseTypeOK, RedisTypeOK,
                                            QueuesTypeOK, HasJob, SlotRecords
    <2>9. CASE EnqueueDown(s)
      BY <1>0, <2>0, <2>9, AddAlertType DEF EnqueueDown, DatabaseTypeOK, RedisTypeOK,
                                            QueuesTypeOK, HasJob, SlotRecords
    <2>10. CASE FailMissing(s)
      <3>1. waiting' \in [Monitors -> [Attempts -> Nat]]
        <4>1. slot[s].pc # "idle"
          BY <2>10 DEF FailMissing
        <4> QED
          BY <2>10, <4>1, RequeueType DEF FailMissing
      <3> QED
        BY <1>0, <2>10, <3>1 DEF FailMissing, DatabaseTypeOK, RedisTypeOK, QueuesTypeOK
    <2>11. CASE Fail(s)
      <3>1. waiting' \in [Monitors -> [Attempts -> Nat]]
        BY <2>11, RequeueType DEF Fail
      <3>2. failures' \in Nat
        BY <1>0, <2>11 DEF Fail
      <3> QED
        BY <1>0, <2>11, <3>1, <3>2 DEF Fail, DatabaseTypeOK, RedisTypeOK, QueuesTypeOK
    <2>12. CASE \/ Load(s) \/ FindIncidentToResolve(s) \/ ReadFirstFailure(s)
                \/ FindIncidentToOpen(s) \/ Acknowledge(s)
      BY <1>0, <2>12 DEF Load, FindIncidentToResolve, ReadFirstFailure, FindIncidentToOpen,
                         Acknowledge, DatabaseTypeOK, RedisTypeOK, QueuesTypeOK
    <2> QED
      BY <1>2, <2>1, <2>2, <2>3, <2>4, <2>5, <2>6, <2>7, <2>8, <2>9, <2>10, <2>11, <2>12
         DEF Advance
  <1> QED
    BY <1>1, <1>2

\* Every step keeps the shape of the whole state.
LEMMA TypeStep == TypeOK /\ [Next]_vars => TypeOK'
  <1> SUFFICES ASSUME TypeOK, [Next]_vars
               PROVE  TypeOK'
    OBVIOUS
  <1>1. CASE \E m \in Monitors : Environment(m)
    BY <1>1, StoresStep, EnvironmentSlots DEF TypeOK, SlotsTypeOK, HasJob
  <1>2. CASE \E s \in Slots : Claim(s) \/ Advance(s) \/ Fail(s)
    BY <1>2, StoresStep, SlotsStep DEF TypeOK
  <1>3. CASE UNCHANGED vars
    BY <1>3 DEF vars, TypeOK, DatabaseTypeOK, RedisTypeOK, QueuesTypeOK, SlotsTypeOK, HasJob
  <1> QED
    BY <1>1, <1>2, <1>3 DEF Next

LEMMA TypeInit == Init => TypeOK
  BY DEF Init, TypeOK, DatabaseTypeOK, RedisTypeOK, QueuesTypeOK, SlotsTypeOK, HasJob,
         SlotRecords, IdleSlot, PCs, Attempts, TimeOrNull, NoTime

\* The tables, the Redis keys, the queues and the slots keep their shape.
THEOREM TypeCorrect == Spec => []TypeOK
  BY TypeInit, TypeStep, PTL DEF Spec
-----------------------------------------------------------------------------
(* One open incident, when the jobs of a monitor are serialised *)

\* Who may change the incidents, or reach the create with a slot.
LEMMA IncidentSteps ==
  ASSUME TypeOK, [Next]_vars
  PROVE  \/ \E m \in Monitors : DeleteMonitor(m)
         \/ \E s \in Slots : ResolveIncident(s) \/ CreateIncident(s) \/ FindIncidentToOpen(s)
         \/ /\ UNCHANGED incidents
            /\ \A s \in Slots : slot'[s].pc = "create" =>
                 slot[s].pc = "create" /\ slot'[s].monitor = slot[s].monitor
  <1> USE DEF database
  <1> DEFINE Quiet == /\ UNCHANGED incidents
                      /\ \A s \in Slots : slot'[s].pc = "create" =>
                           slot[s].pc = "create" /\ slot'[s].monitor = slot[s].monitor
  <1>0. SlotsTypeOK
    BY DEF TypeOK
  <1>1. ASSUME NEW m \in Monitors, Environment(m), ~DeleteMonitor(m)
        PROVE  Quiet
    BY <1>1, EnvironmentSlots DEF Environment, Enqueue, SetActive, ExpireFailureCount,
       ExpireFirstFailureAt
  <1>2. ASSUME NEW s \in Slots, Claim(s) \/ Advance(s) \/ Fail(s),
               ~ResolveIncident(s), ~CreateIncident(s), ~FindIncidentToOpen(s)
        PROVE  Quiet
    <2>1. UNCHANGED incidents
      BY <1>2 DEF Claim, Fail, Advance, Load, RecordCheckResult, ClearFailures,
         FindIncidentToResolve, EnqueueRecovered, IncrementFailures, MarkFirstFailure,
         ReadFirstFailure, EnqueueDown, Acknowledge, FailMissing
    <2>2. \A t \in Slots \ {s} : slot'[t] = slot[t]
      BY <1>0, <1>2 DEF SlotsTypeOK, Claim, Fail, Advance, Load, RecordCheckResult,
         ClearFailures, FindIncidentToResolve, EnqueueRecovered, IncrementFailures,
         MarkFirstFailure, ReadFirstFailure, EnqueueDown, Acknowledge, FailMissing
    <2>3. slot'[s].pc # "create"
      <3>1. Returned(s).pc = "ack" /\ IdleSlot.pc = "idle"
        BY DEF Returned, IdleSlot
      <3>2. CASE Claim(s) \/ Fail(s) \/ Load(s) \/ RecordCheckResult(s) \/ ClearFailures(s)
        BY <1>0, <3>1, <3>2 DEF SlotsTypeOK, SlotRecords, IdleSlot, Claim, Fail, Load,
           RecordCheckResult, ClearFailures
      <3>3. CASE \/ FindIncidentToResolve(s) \/ EnqueueRecovered(s) \/ IncrementFailures(s)
                 \/ EnqueueDown(s) \/ Acknowledge(s) \/ FailMissing(s)
        BY <1>0, <3>1, <3>3 DEF SlotsTypeOK, SlotRecords, FindIncidentToResolve,
           EnqueueRecovered, IncrementFailures, EnqueueDown, Acknowledge, FailMissing
      <3>4. CASE MarkFirstFailure(s) \/ ReadFirstFailure(s)
        BY <1>0, <3>1, <3>4 DEF SlotsTypeOK, SlotRecords, MarkFirstFailure, ReadFirstFailure
      <3> QED
        BY <1>2, <3>2, <3>3, <3>4 DEF Advance
    <2> QED
      BY <2>1, <2>2, <2>3
  <1>3. CASE UNCHANGED vars
    BY <1>3 DEF vars
  <1> QED
    BY <1>1, <1>2, <1>3 DEF Next, Environment, Advance

\* With at most one row open, the query that finds none means none is open.
LEMMA FindOpenComplete ==
  ASSUME TypeOK, AtMostOneOpenIncident, NEW m \in Monitors, FindOpen(incidents, m) = {}
  PROVE  OpenIncidents(incidents, m) = {}
  <1> SUFFICES ASSUME NEW i \in OpenIncidents(incidents, m)
               PROVE  FALSE
    OBVIOUS
  <1>1. \A j \in OpenIncidents(incidents, m) : j = i
    BY DEF AtMostOneOpenIncident, OpenIncidents
  <1>2. i.startedAt <= i.startedAt
    BY DEF TypeOK, DatabaseTypeOK, IncidentRows, OpenIncidents
  <1> QED
    BY <1>1, <1>2 DEF FindOpen

\* One open incident, and no create that the last read does not justify.
LEMMA SerialStep ==
  ASSUME OneSlot, TypeOK, SerialInv, [Next]_vars
  PROVE  SerialInv'
  <1> USE DEF SerialInv
  <1>1. ASSUME NEW m \in Monitors, DeleteMonitor(m)
        PROVE  SerialInv'
    BY <1>1 DEF DeleteMonitor, WithoutMonitor, AtMostOneOpenIncident, CreateStillNeeded,
                OpenIncidents
  <1>2. ASSUME NEW s \in Slots, ResolveIncident(s)
        PROVE  SerialInv'
    <2>1. slot[s].at \in Nat /\ slot[s].at # NoTime
      BY DEF TypeOK, SlotsTypeOK, SlotRecords, NoTime
    <2>2. \A i \in incidents' : i.resolvedAt = NoTime => i \in incidents
      BY <1>2, <2>1 DEF ResolveIncident, WithResolved, TypeOK, DatabaseTypeOK, IncidentRows
    <2>3. \A t \in Slots : slot'[t].pc # "create"
      BY <1>2 DEF ResolveIncident, OneSlot, TypeOK, SlotsTypeOK, SlotRecords
    <2> QED
      BY <2>2, <2>3 DEF AtMostOneOpenIncident, CreateStillNeeded
  <1>3. ASSUME NEW s \in Slots, CreateIncident(s)
        PROVE  SerialInv'
    <2>1. OpenIncidents(incidents, slot[s].monitor) = {}
      BY <1>3 DEF CreateIncident, CreateStillNeeded
    <2>2. AtMostOneOpenIncident'
      BY <1>3, <2>1 DEF CreateIncident, WithIncident, AtMostOneOpenIncident, OpenIncidents
    <2>3. \A t \in Slots : slot'[t].pc # "create"
      BY <1>3 DEF CreateIncident, OneSlot, TypeOK, SlotsTypeOK, SlotRecords
    <2> QED
      BY <2>2, <2>3 DEF CreateStillNeeded
  <1>4. ASSUME NEW s \in Slots, FindIncidentToOpen(s)
        PROVE  SerialInv'
    <2>1. UNCHANGED incidents
      BY <1>4 DEF FindIncidentToOpen, database
    <2>2. ASSUME slot'[s].pc = "create"
          PROVE  OpenIncidents(incidents', slot'[s].monitor) = {}
      <3>1. slot[s].monitor \in Monitors /\ slot[s] \in SlotRecords
        BY <1>4 DEF FindIncidentToOpen, TypeOK, SlotsTypeOK, HasJob
      <3>2. slot' = [slot EXCEPT ![s] = [slot[s] EXCEPT !.pc = "create"]]
               /\ FindOpen(incidents, slot[s].monitor) = {}
        BY <1>4, <2>2 DEF FindIncidentToOpen, Returned, IdleSlot, TypeOK, SlotsTypeOK
      <3>3. slot'[s].monitor = slot[s].monitor
        BY <3>1, <3>2 DEF TypeOK, SlotsTypeOK, SlotRecords
      <3> QED
        BY <2>1, <3>1, <3>2, <3>3, FindOpenComplete
    <2> QED
      BY <2>1, <2>2 DEF AtMostOneOpenIncident, CreateStillNeeded, OneSlot
  <1>5. ASSUME UNCHANGED incidents,
               \A s \in Slots : slot'[s].pc = "create" =>
                 slot[s].pc = "create" /\ slot'[s].monitor = slot[s].monitor
        PROVE  SerialInv'
    BY <1>5 DEF AtMostOneOpenIncident, CreateStillNeeded
  <1> QED
    BY <1>1, <1>2, <1>3, <1>4, <1>5, IncidentSteps

\* Two jobs of one queue never leave a monitor with two open incidents, when
\* the queue is worked one job at a time.
THEOREM OneOpenIncident ==
  ASSUME OneSlot
  PROVE  Spec => []AtMostOneOpenIncident
  <1>1. Init => SerialInv
    BY DEF Init, SerialInv, AtMostOneOpenIncident, CreateStillNeeded, IdleSlot
  <1>2. TypeOK /\ SerialInv /\ [Next]_vars => SerialInv'
    BY SerialStep
  <1>3. SerialInv => AtMostOneOpenIncident
    BY DEF SerialInv
  <1> QED
    BY <1>1, <1>2, <1>3, TypeCorrect, PTL DEF Spec
-----------------------------------------------------------------------------
(* Alerts, whatever the number of slots *)

\* The part of the state the alerts depend on is left alone.
AlertsUntouched ==
  /\ UNCHANGED <<incidents, alerts, lastIncident>>
  /\ \A s \in Slots : /\ slot'[s].incident <= lastIncident
                      /\ slot'[s].pc \in {"enqueueDown", "enqueueRecovered"} =>
                           slot'[s] = slot[s]

\* Steps of a slot that neither write an incident nor add an alert.
LEMMA QuietSlotStep ==
  ASSUME TypeOK, IdsHandedOut, NEW s \in Slots, Claim(s) \/ Advance(s) \/ Fail(s),
         ~ResolveIncident(s), ~CreateIncident(s), ~EnqueueDown(s), ~EnqueueRecovered(s)
  PROVE  AlertsUntouched
  <1> USE DEF database
  <1>0. SlotsTypeOK /\ lastIncident \in Nat /\ slot[s] \in SlotRecords
        /\ slot[s].incident <= lastIncident
    BY DEF TypeOK, DatabaseTypeOK, SlotsTypeOK, IdsHandedOut
  <1>1. UNCHANGED <<incidents, alerts, lastIncident>>
    BY DEF Claim, Fail, Advance, Load, RecordCheckResult, ClearFailures,
       FindIncidentToResolve, IncrementFailures, MarkFirstFailure, ReadFirstFailure,
       FindIncidentToOpen, Acknowledge, FailMissing
  <1>2. \A t \in Slots \ {s} : slot'[t] = slot[t]
    BY <1>0 DEF SlotsTypeOK, Claim, Fail, Advance, Load, RecordCheckResult, ClearFailures,
       FindIncidentToResolve, IncrementFailures, MarkFirstFailure, ReadFirstFailure,
       FindIncidentToOpen, Acknowledge, FailMissing
  <1>3. /\ slot'[s].pc \notin {"enqueueDown", "enqueueRecovered"}
        /\ slot'[s].incident <= lastIncident
    <2>1. /\ Returned(s).pc = "ack" /\ Returned(s).incident = 0
          /\ IdleSlot.pc = "idle" /\ IdleSlot.incident = 0
      BY DEF Returned, IdleSlot
    <2>2. CASE Claim(s)
      <3>1. PICK m \in Monitors, a \in Attempts :
              slot' = [slot EXCEPT ![s] = [IdleSlot EXCEPT !.pc = "load", !.monitor = m,
                                                           !.attempt = a]]
        BY <2>2 DEF Claim
      <3>2. slot'[s] = [IdleSlot EXCEPT !.pc = "load", !.monitor = m, !.attempt = a]
        BY <1>0, <3>1 DEF SlotsTypeOK
      <3>3. slot'[s].pc = "load" /\ slot'[s].incident = 0
        BY <3>2 DEF IdleSlot
      <3>4. 0 <= lastIncident
        BY <1>0
      <3> QED
        BY <3>3, <3>4
    <2>3. CASE Fail(s) \/ Acknowledge(s) \/ FailMissing(s)
      BY <1>0, <2>1, <2>3 DEF SlotsTypeOK, Fail, Acknowledge, FailMissing
    <2>4. CASE Load(s) \/ RecordCheckResult(s) \/ ClearFailures(s)
      BY <1>0, <2>1, <2>4 DEF SlotsTypeOK, SlotRecords, Load, RecordCheckResult, ClearFailures
    <2>5. CASE FindIncidentToResolve(s)
      BY <1>0, <2>1, <2>5 DEF SlotsTypeOK, SlotRecords, FindIncidentToResolve, FindOpen,
                              OpenIncidents, IdsHandedOut
    <2>6. CASE IncrementFailures(s)
      BY <1>0, <2>6 DEF SlotsTypeOK, SlotRecords, IncrementFailures
    <2>7. CASE MarkFirstFailure(s)
      BY <1>0, <2>1, <2>7 DEF SlotsTypeOK, SlotRecords, MarkFirstFailure
    <2>8. CASE ReadFirstFailure(s)
      BY <1>0, <2>8 DEF SlotsTypeOK, SlotRecords, ReadFirstFailure
    <2>9. CASE FindIncidentToOpen(s)
      BY <1>0, <2>1, <2>9 DEF SlotsTypeOK, SlotRecords, FindIncidentToOpen
    <2> QED
      BY <2>2, <2>3, <2>4, <2>5, <2>6, <2>7, <2>8, <2>9 DEF Advance
  <1> QED
    BY <1>1, <1>2, <1>3 DEF AlertsUntouched, IdsHandedOut

\* The queues hold what they held, and possibly the job a at the end of that of m.
GrownBy(m, a) ==
  \A n \in Monitors : \A k \in DOMAIN alerts'[n] :
    \/ k \in DOMAIN alerts[n] /\ alerts'[n][k] = alerts[n][k]
    \/ n = m /\ k = Len(alerts[m]) + 1 /\ alerts'[n][k] = a

\* What one more alert does to the queue of its monitor.
LEMMA AddedAlert ==
  ASSUME TypeOK, NEW m \in Monitors, NEW id \in Nat,
         NEW e \in {"MONITOR_DOWN", "MONITOR_RECOVERED"}, AddAlert(m, e, id)
  PROVE  GrownBy(m, [event |-> e, incident |-> id])
  <1> USE DEF GrownBy
  <1>1. \A n \in Monitors : alerts[n] \in Seq(AlertJobs)
    BY DEF TypeOK, QueuesTypeOK
  <1>2. CASE m \notin Contacted
    BY <1>2 DEF AddAlert
  <1>3. CASE m \in Contacted
    <2>1. /\ alerts'[m] = Append(alerts[m], [event |-> e, incident |-> id])
          /\ \A n \in Monitors \ {m} : alerts'[n] = alerts[n]
      BY <1>3 DEF AddAlert, TypeOK, QueuesTypeOK
    <2>2. \A k \in DOMAIN alerts'[m] :
            \/ k \in DOMAIN alerts[m] /\ alerts'[m][k] = alerts[m][k]
            \/ k = Len(alerts[m]) + 1 /\ alerts'[m][k] = [event |-> e, incident |-> id]
      BY <1>1, <2>1
    <2> QED
      BY <2>1, <2>2
  <1> QED
    BY <1>2, <1>3

\* The invariant on alerts is inductive.
LEMMA AlertStep ==
  ASSUME TypeOK, AlertInv, [Next]_vars
  PROVE  AlertInv'
  <1> USE DEF AlertInv, database
  <1>0. /\ SlotsTypeOK /\ lastIncident \in Nat /\ incidents \subseteq IncidentRows(Monitors)
        /\ \A s \in Slots : slot[s] \in SlotRecords
    BY DEF TypeOK, DatabaseTypeOK, SlotsTypeOK
  <1>1. ASSUME AlertsUntouched
        PROVE  AlertInv'
    <2>1. IdsHandedOut'
      BY <1>1 DEF AlertsUntouched, IdsHandedOut
    <2>2. DownAlertPending'
      BY <1>1 DEF AlertsUntouched, DownAlertPending
    <2>3. RecoveredAlertPending'
      BY <1>1 DEF AlertsUntouched, RecoveredAlertPending
    <2>4. DownAlertOncePerIncident' /\ RecoveredAlertNeedsResolution'
      BY <1>1 DEF AlertsUntouched, DownAlertOncePerIncident, RecoveredAlertNeedsResolution
    <2> QED
      BY <2>1, <2>2, <2>3, <2>4
  <1>2. ASSUME NEW m \in Monitors, Environment(m)
        PROVE  AlertInv'
    <2>1. UNCHANGED <<slot, alerts, lastIncident>> /\ incidents' \subseteq incidents
      BY <1>2, EnvironmentSlots DEF Environment, Enqueue, SetActive, DeleteMonitor,
         WithoutMonitor, ExpireFailureCount, ExpireFirstFailureAt
    <2> QED
      BY <2>1 DEF IdsHandedOut, DownAlertPending, RecoveredAlertPending,
                  DownAlertOncePerIncident, RecoveredAlertNeedsResolution
  <1>3. ASSUME NEW s \in Slots, ResolveIncident(s)
        PROVE  AlertInv'
    <2>1. /\ UNCHANGED <<alerts, lastIncident>>
          /\ slot' = [slot EXCEPT ![s] = [slot[s] EXCEPT !.pc = "enqueueRecovered"]]
          /\ incidents' = WithResolved(incidents, slot[s].incident, slot[s].at)
      BY <1>3 DEF ResolveIncident
    <2>2. /\ slot'[s].pc = "enqueueRecovered" /\ slot'[s].incident = slot[s].incident
          /\ \A t \in Slots \ {s} : slot'[t] = slot[t]
      BY <1>0, <2>1 DEF SlotsTypeOK, SlotRecords
    <2>3. \A i \in incidents' : \E j \in incidents :
            /\ i.id = j.id
            /\ j.resolvedAt # NoTime => i.resolvedAt # NoTime
            /\ j.id = slot[s].incident => i.resolvedAt # NoTime
      BY <1>0, <2>1 DEF WithResolved, IncidentRows, SlotRecords, NoTime
    <2>4. IdsHandedOut'
      BY <2>1, <2>2, <2>3 DEF IdsHandedOut
    <2>5. DownAlertPending' /\ DownAlertOncePerIncident'
      BY <2>1, <2>2 DEF DownAlertPending, DownAlertOncePerIncident
    <2>6. RecoveredAlertPending' /\ RecoveredAlertNeedsResolution'
      BY <2>1, <2>2, <2>3 DEF RecoveredAlertPending, RecoveredAlertNeedsResolution
    <2> QED
      BY <2>4, <2>5, <2>6
  <1>4. ASSUME NEW s \in Slots, CreateIncident(s)
        PROVE  AlertInv'
    <2> DEFINE id == lastIncident + 1
    <2>1. /\ UNCHANGED alerts /\ lastIncident' = id
          /\ \A i \in incidents' : i \in incidents \/ i.id = id
      BY <1>4 DEF CreateIncident, WithIncident
    <2>2. /\ slot'[s].pc = "enqueueDown" /\ slot'[s].incident = id
          /\ \A t \in Slots \ {s} : slot'[t] = slot[t]
      BY <1>0, <1>4 DEF CreateIncident, SlotsTypeOK, SlotRecords
    <2>3. /\ \A i \in incidents : i.id \in Nat /\ i.id < id
          /\ \A t \in Slots : slot[t].incident \in Nat /\ slot[t].incident < id
          /\ \A m \in Monitors : \A k \in DOMAIN alerts[m] :
               alerts[m][k].incident \in Nat /\ alerts[m][k].incident < id
      <3>1. \A i \in incidents : i.id \in Nat /\ i.id < id
        BY <1>0 DEF IdsHandedOut, IncidentRows
      <3>2. \A t \in Slots : slot[t].incident \in Nat /\ slot[t].incident < id
        BY <1>0 DEF IdsHandedOut, SlotRecords
      <3>3. ASSUME NEW m \in Monitors, NEW k \in DOMAIN alerts[m]
            PROVE  alerts[m][k].incident \in Nat /\ alerts[m][k].incident < id
        <4>1. alerts[m] \in Seq(AlertJobs)
          BY DEF TypeOK, QueuesTypeOK
        <4>2. alerts[m][k] \in AlertJobs
          BY <4>1
        <4>3. alerts[m][k].incident \in Nat
          BY <4>2 DEF AlertJobs
        <4> QED
          BY <1>0, <4>3 DEF IdsHandedOut
      <3> QED
        BY <3>1, <3>2, <3>3
    <2>4. IdsHandedOut'
      BY <1>0, <2>1, <2>2, <2>3 DEF IdsHandedOut
    <2>5. DownAlertPending' /\ DownAlertOncePerIncident'
      BY <2>1, <2>2, <2>3 DEF DownAlertPending, DownAlertOncePerIncident
    <2>6. RecoveredAlertPending' /\ RecoveredAlertNeedsResolution'
      BY <2>1, <2>2, <2>3 DEF RecoveredAlertPending, RecoveredAlertNeedsResolution
    <2> QED
      BY <2>4, <2>5, <2>6
  <1>5. ASSUME NEW s \in Slots, NEW e \in {"MONITOR_DOWN", "MONITOR_RECOVERED"},
               slot[s].monitor \in Monitors, AddAlert(slot[s].monitor, e, slot[s].incident),
               UNCHANGED <<incidents, lastIncident>>, slot' = [slot EXCEPT ![s] = Returned(s)],
               e = "MONITOR_DOWN" => slot[s].pc = "enqueueDown",
               e = "MONITOR_RECOVERED" => slot[s].pc = "enqueueRecovered"
        PROVE  AlertInv'
    <2> DEFINE m == slot[s].monitor
               new == [event |-> e, incident |-> slot[s].incident]
    <2>1. slot[s].incident \in Nat /\ slot[s].incident <= lastIncident
      BY <1>0 DEF SlotRecords, IdsHandedOut
    <2>2. /\ slot'[s].pc = "ack" /\ slot'[s].incident = 0
          /\ \A t \in Slots \ {s} : slot'[t] = slot[t]
      BY <1>0, <1>5 DEF SlotsTypeOK, Returned, IdleSlot
    <2>3. \A n \in Monitors : \A k \in DOMAIN alerts'[n] :
            \/ k \in DOMAIN alerts[n] /\ alerts'[n][k] = alerts[n][k]
            \/ n = m /\ k = Len(alerts[m]) + 1 /\ alerts'[n][k] = new
      <3>1. GrownBy(m, new)
        BY <1>5, <2>1, AddedAlert
      <3> QED
        BY <3>1 DEF GrownBy
    <2>4. IdsHandedOut'
      BY <1>0, <1>5, <2>1, <2>2, <2>3 DEF IdsHandedOut
    <2>5. DownAlertPending'
      BY <1>5, <2>2, <2>3 DEF DownAlertPending
    <2>6. DownAlertOncePerIncident'
      BY <1>5, <2>3 DEF DownAlertPending, DownAlertOncePerIncident
    <2>7. RecoveredAlertPending' /\ RecoveredAlertNeedsResolution'
      BY <1>5, <2>2, <2>3 DEF RecoveredAlertPending, RecoveredAlertNeedsResolution
    <2> QED
      BY <2>4, <2>5, <2>6, <2>7
  <1>6. ASSUME NEW s \in Slots, EnqueueDown(s)
        PROVE  AlertInv'
    BY <1>0, <1>5, <1>6 DEF EnqueueDown, SlotsTypeOK, HasJob
  <1>7. ASSUME NEW s \in Slots, EnqueueRecovered(s)
        PROVE  AlertInv'
    BY <1>0, <1>5, <1>7 DEF EnqueueRecovered, SlotsTypeOK, HasJob
  <1>8. ASSUME NEW s \in Slots, Claim(s) \/ Advance(s) \/ Fail(s)
        PROVE  AlertInv'
    BY <1>1, <1>3, <1>4, <1>6, <1>7, <1>8, QuietSlotStep
  <1>9. CASE UNCHANGED vars
    BY <1>1, <1>9 DEF vars, AlertsUntouched, IdsHandedOut
  <1> QED
    BY <1>2, <1>8, <1>9 DEF Next

LEMMA AlertInit == Init => AlertInv
  BY DEF Init, AlertInv, IdsHandedOut, DownAlertPending, RecoveredAlertPending,
         DownAlertOncePerIncident, RecoveredAlertNeedsResolution, IdleSlot

\* Retries, crashes and concurrent jobs never announce an incident DOWN twice,
\* and never announce a recovery of an incident that is still open.
THEOREM AlertsSound ==
  Spec => []AlertsMatchIncidents
  <1>1. TypeOK /\ AlertInv /\ [Next]_vars => AlertInv'
    BY AlertStep
  <1>2. AlertInv => AlertsMatchIncidents
    BY DEF AlertInv, AlertsMatchIncidents
  <1> QED
    BY <1>1, <1>2, AlertInit, TypeCorrect, PTL DEF Spec

-----------------------------------------------------------------------------
(* How a slot moves *)

\* The job ends, or is only taken.
Ends(s) ==
  /\ slot'[s].pc \in {"idle", "load", "ack"}
  /\ slot'[s].at = 0 /\ slot'[s].incident = 0

\* The job goes on to pc with the instant of its check.
Goes(s, pc) ==
  /\ slot'[s].pc = pc
  /\ slot'[s].monitor = slot[s].monitor /\ slot'[s].at = slot[s].at

Ending(s) ==
  Claim(s) \/ Acknowledge(s) \/ FailMissing(s) \/ Fail(s) \/ EnqueueRecovered(s) \/ EnqueueDown(s)

LEMMA SlotMoves ==
  ASSUME TypeOK, NEW s \in Slots
  PROVE  /\ Claim(s) \/ Advance(s) \/ Fail(s) => \A t \in Slots \ {s} : slot'[t] = slot[t]
         /\ Ending(s) => Ends(s)
         /\ Load(s) => \/ Ends(s) /\ UNCHANGED clock
                       \/ /\ slot'[s].pc = "record" /\ slot'[s].monitor = slot[s].monitor
                          /\ slot'[s].at = clock + 1 /\ clock' = clock + 1
         /\ ClearFailures(s) => Goes(s, "findToResolve")
         /\ FindIncidentToResolve(s) =>
              \/ Ends(s) /\ FindOpen(incidents, slot[s].monitor) = {}
              \/ Goes(s, "resolve") /\ \E i \in FindOpen(incidents, slot[s].monitor) : slot'[s].incident = i.id
         /\ ResolveIncident(s) => Goes(s, "enqueueRecovered") /\ slot'[s].incident = slot[s].incident
         /\ IncrementFailures(s) => Goes(s, "mark") /\ slot'[s].count = failureCount[slot[s].monitor] + 1
         /\ MarkFirstFailure(s) =>
              \/ Ends(s)
              \/ Goes(s, "readFirst") /\ slot'[s].count = slot[s].count /\ slot[s].count >= NormalizedThreshold
         /\ ReadFirstFailure(s) =>
              /\ Goes(s, "findToOpen") /\ slot'[s].count = slot[s].count
              /\ LET first == firstFailureAt[slot[s].monitor]
                 IN slot'[s].startedAt = IF first # NoTime THEN first ELSE slot[s].at
         /\ FindIncidentToOpen(s) =>
              \/ Ends(s)
              \/ /\ Goes(s, "create") /\ slot'[s].count = slot[s].count /\ slot'[s].startedAt = slot[s].startedAt
                 /\ FindOpen(incidents, slot[s].monitor) = {}
         /\ CreateIncident(s) => Goes(s, "enqueueDown") /\ slot'[s].incident = lastIncident + 1
  <1>0. SlotsTypeOK /\ slot[s] \in SlotRecords /\ clock \in Nat /\ slot[s].count \in Nat
    BY DEF TypeOK, SlotsTypeOK, SlotRecords
  <1>r. Returned(s).pc = "ack" /\ Returned(s).at = 0 /\ Returned(s).incident = 0
        /\ IdleSlot.pc = "idle" /\ IdleSlot.at = 0 /\ IdleSlot.incident = 0
    BY DEF Returned, IdleSlot
  <1>1. Claim(s) \/ Advance(s) \/ Fail(s) => \A t \in Slots \ {s} : slot'[t] = slot[t]
    BY <1>0 DEF SlotsTypeOK, Claim, Advance, Fail, Load, RecordCheckResult, ClearFailures,
       FindIncidentToResolve, ResolveIncident, EnqueueRecovered, IncrementFailures, MarkFirstFailure,
       ReadFirstFailure, FindIncidentToOpen, CreateIncident, EnqueueDown, Acknowledge, FailMissing
  <1>2. Ending(s) => Ends(s)
    <2>1. Claim(s) => Ends(s)
      <3> SUFFICES ASSUME Claim(s) PROVE Ends(s)
        OBVIOUS
      <3>1. PICK m \in Monitors, a \in Attempts :
              slot' = [slot EXCEPT ![s] = [IdleSlot EXCEPT !.pc = "load", !.monitor = m, !.attempt = a]]
        BY DEF Claim
      <3>2. slot'[s] = [IdleSlot EXCEPT !.pc = "load", !.monitor = m, !.attempt = a]
        BY <1>0, <3>1 DEF SlotsTypeOK
      <3> QED
        BY <3>2 DEF IdleSlot, Ends
    <2>2. Acknowledge(s) \/ FailMissing(s) \/ Fail(s) \/ EnqueueRecovered(s) \/ EnqueueDown(s) => Ends(s)
      BY <1>0, <1>r DEF SlotsTypeOK, Acknowledge, FailMissing, Fail, EnqueueRecovered, EnqueueDown, Ends
    <2> QED
      BY <2>1, <2>2 DEF Ending
  <1>3. Load(s) => \/ Ends(s) /\ UNCHANGED clock
                   \/ /\ slot'[s].pc = "record" /\ slot'[s].monitor = slot[s].monitor
                      /\ slot'[s].at = clock + 1 /\ clock' = clock + 1
    BY <1>0, <1>r DEF SlotsTypeOK, SlotRecords, Load, Ends
  <1>4. ClearFailures(s) => Goes(s, "findToResolve")
    BY <1>0 DEF SlotsTypeOK, SlotRecords, ClearFailures, Goes
  <1>5. FindIncidentToResolve(s) =>
          \/ Ends(s) /\ FindOpen(incidents, slot[s].monitor) = {}
          \/ Goes(s, "resolve") /\ \E i \in FindOpen(incidents, slot[s].monitor) : slot'[s].incident = i.id
    BY <1>0, <1>r DEF SlotsTypeOK, SlotRecords, FindIncidentToResolve, Goes, Ends
  <1>6. ResolveIncident(s) => Goes(s, "enqueueRecovered") /\ slot'[s].incident = slot[s].incident
    BY <1>0 DEF SlotsTypeOK, SlotRecords, ResolveIncident, Goes
  <1>7. IncrementFailures(s) => Goes(s, "mark") /\ slot'[s].count = failureCount[slot[s].monitor] + 1
    BY <1>0 DEF SlotsTypeOK, SlotRecords, IncrementFailures, Goes
  <1>8. MarkFirstFailure(s) =>
          \/ Ends(s)
          \/ Goes(s, "readFirst") /\ slot'[s].count = slot[s].count /\ slot[s].count >= NormalizedThreshold
    <2>1. NormalizedThreshold \in Int
      BY ThresholdAssumption DEF NormalizedThreshold
    <2> QED
      BY <1>0, <1>r, <2>1 DEF SlotsTypeOK, SlotRecords, MarkFirstFailure, Goes, Ends
  <1>9. ReadFirstFailure(s) =>
          /\ Goes(s, "findToOpen") /\ slot'[s].count = slot[s].count
          /\ slot'[s].startedAt = IF firstFailureAt[slot[s].monitor] # NoTime THEN firstFailureAt[slot[s].monitor]
                                  ELSE slot[s].at
    BY <1>0 DEF SlotsTypeOK, SlotRecords, ReadFirstFailure, Goes
  <1>10. FindIncidentToOpen(s) =>
          \/ Ends(s)
          \/ /\ Goes(s, "create") /\ slot'[s].count = slot[s].count /\ slot'[s].startedAt = slot[s].startedAt
             /\ FindOpen(incidents, slot[s].monitor) = {}
    BY <1>0, <1>r DEF SlotsTypeOK, SlotRecords, FindIncidentToOpen, Goes, Ends
  <1>11. CreateIncident(s) => Goes(s, "enqueueDown") /\ slot'[s].incident = lastIncident + 1
    BY <1>0 DEF SlotsTypeOK, SlotRecords, CreateIncident, Goes
  <1> QED
    BY <1>1, <1>2, <1>3, <1>4, <1>5, <1>6, <1>7, <1>8, <1>9, <1>10, <1>11


SlotStep(s) == Claim(s) \/ Advance(s) \/ Fail(s)

\* What a slot's step writes, by the action that writes it.
LEMMA SlotWrites ==
  ASSUME NEW s \in Slots, SlotStep(s)
  PROVE  /\ UNCHANGED status
         /\ RecordCheckResult(s) \/ UNCHANGED <<results, lastCheckedAt>>
         /\ ResolveIncident(s) \/ CreateIncident(s) \/ UNCHANGED <<incidents, lastIncident>>
         /\ IncrementFailures(s) \/ ClearFailures(s) \/ UNCHANGED failureCount
         /\ MarkFirstFailure(s) \/ ClearFailures(s) \/ UNCHANGED firstFailureAt
         /\ Load(s) \/ UNCHANGED clock
         /\ EnqueueRecovered(s) \/ EnqueueDown(s) \/ UNCHANGED alerts
         /\ Fail(s) \/ UNCHANGED failures
  <1> USE DEF database, redis
  <1>1. CASE Claim(s) \/ Acknowledge(s) \/ FailMissing(s) \/ FindIncidentToResolve(s)
             \/ ReadFirstFailure(s) \/ FindIncidentToOpen(s)
    BY <1>1 DEF Claim, Acknowledge, FailMissing, FindIncidentToResolve, ReadFirstFailure, FindIncidentToOpen
  <1>2. CASE Load(s)
    BY <1>2 DEF Load
  <1>3. CASE RecordCheckResult(s)
    BY <1>3 DEF RecordCheckResult
  <1>4. CASE ResolveIncident(s)
    BY <1>4 DEF ResolveIncident
  <1>5. CASE CreateIncident(s)
    BY <1>5 DEF CreateIncident
  <1>6. CASE IncrementFailures(s)
    BY <1>6 DEF IncrementFailures
  <1>7. CASE ClearFailures(s)
    BY <1>7 DEF ClearFailures
  <1>8. CASE MarkFirstFailure(s)
    BY <1>8 DEF MarkFirstFailure
  <1>9. CASE EnqueueRecovered(s)
    BY <1>9 DEF EnqueueRecovered
  <1>10. CASE EnqueueDown(s)
    BY <1>10 DEF EnqueueDown
  <1>11. CASE Fail(s)
    BY <1>11 DEF Fail
  <1> QED
    BY <1>1, <1>2, <1>3, <1>4, <1>5, <1>6, <1>7, <1>8, <1>9, <1>10, <1>11 DEF SlotStep, Advance

\* What the environment writes.
LEMMA EnvironmentWrites ==
  ASSUME TypeOK, NEW m \in Monitors, Environment(m)
  PROVE  /\ UNCHANGED <<slot, clock, lastIncident, alerts, failures>>
         /\ \A n \in Monitors : failureCount'[n] = failureCount[n] \/ failureCount'[n] = 0
         /\ \A n \in Monitors : firstFailureAt'[n] = firstFailureAt[n] \/ firstFailureAt'[n] = NoTime
         /\ \/ DeleteMonitor(m) /\ UNCHANGED redis /\ status'[m] = "deleted"
               /\ \A n \in Monitors \ {m} : status'[n] = status[n] /\ lastCheckedAt'[n] = lastCheckedAt[n]
            \/ /\ UNCHANGED <<results, incidents, lastCheckedAt>>
               /\ \A n \in Monitors : status'[n] = "deleted" <=> status[n] = "deleted"
  <1> USE DEF database, redis, TypeOK, DatabaseTypeOK, RedisTypeOK
  <1>1. CASE Enqueue(m)
    BY <1>1 DEF Enqueue
  <1>2. CASE SetActive(m)
    BY <1>2 DEF SetActive
  <1>3. CASE DeleteMonitor(m)
    BY <1>3 DEF DeleteMonitor
  <1>4. CASE ExpireFailureCount(m)
    BY <1>4 DEF ExpireFailureCount
  <1>5. CASE ExpireFirstFailureAt(m)
    BY <1>5 DEF ExpireFirstFailureAt
  <1> QED
    BY <1>1, <1>2, <1>3, <1>4, <1>5 DEF Environment

\* The result a check writes is one more, and the slot goes on with its instant.
LEMMA RecordWrites ==
  ASSUME TypeOK, NEW s \in Slots, RecordCheckResult(s)
  PROVE  \E isUp \in BOOLEAN :
           /\ results' = results \cup {[monitor |-> slot[s].monitor, at |-> slot[s].at, isUp |-> isUp]}
           /\ Goes(s, IF isUp THEN "clear" ELSE "increment")
  <1>1. SlotsTypeOK
    BY DEF TypeOK
  <1> QED
    BY <1>1 DEF RecordCheckResult, CheckOutcomes, Goes, SlotsTypeOK, SlotRecords

-----------------------------------------------------------------------------
(* Results stay as long as their monitor *)

LEMMA StepKinds ==
  ASSUME [Next]_vars
  PROVE  \/ \E m \in Monitors : Environment(m)
         \/ \E s \in Slots : SlotStep(s)
         \/ UNCHANGED vars
  BY DEF Next, SlotStep

LEMMA ResultsKept ==
  ASSUME TypeOK, [Next]_vars, NEW n \in Monitors, ~DeleteMonitor(n)
  PROVE  \A r \in results : r.monitor = n => r \in results'
  <1>1. ASSUME NEW m \in Monitors, Environment(m)
        PROVE  \A r \in results : r.monitor = n => r \in results'
    <2>1. DeleteMonitor(m) \/ UNCHANGED results
      BY <1>1, EnvironmentWrites
    <2> QED
      BY <2>1 DEF DeleteMonitor
  <1>2. ASSUME NEW s \in Slots, SlotStep(s)
        PROVE  \A r \in results : r.monitor = n => r \in results'
    <2>1. RecordCheckResult(s) \/ UNCHANGED results
      BY <1>2, SlotWrites
    <2> QED
      BY <2>1, RecordWrites
  <1> QED
    BY <1>1, <1>2, StepKinds DEF vars

LEMMA ResultsFinite ==
  ASSUME TypeOK, [Next]_vars, IsFiniteSet(results)
  PROVE  IsFiniteSet(results')
  <1>1. ASSUME NEW m \in Monitors, Environment(m)
        PROVE  results' \subseteq results
    BY <1>1, EnvironmentWrites DEF DeleteMonitor
  <1>2. ASSUME NEW s \in Slots, SlotStep(s)
        PROVE  \/ results' = results
               \/ \E r : results' = results \cup {r}
    BY <1>2, SlotWrites, RecordWrites
  <1>3. \/ results' \subseteq results
        \/ \E r : results' = results \cup {r}
    BY <1>1, <1>2, StepKinds DEF vars
  <1> QED
    BY <1>3, FS_Subset, FS_AddElement

Failed(m, t) == \E r \in FailedResults(m) : r.at = t
Succeeded(m, t) == \E r \in results : r.monitor = m /\ r.isUp /\ r.at = t

LEMMA FailedFinite ==
  ASSUME IsFiniteSet(results), NEW m
  PROVE  IsFiniteSet(FailedResults(m)) /\ Cardinality(FailedResults(m)) \in Nat
  <1>1. FailedResults(m) \subseteq results
    BY DEF FailedResults
  <1> QED
    BY <1>1, FS_Subset, FS_CardinalityType

LEMMA Grows ==
  ASSUME TypeOK, [Next]_vars, IsFiniteSet(results), NEW n \in Monitors, ~DeleteMonitor(n)
  PROVE  /\ \A t : Failed(n, t) => Failed(n, t)'
         /\ \A t : Succeeded(n, t) => Succeeded(n, t)'
         /\ Cardinality(FailedResults(n)) \in Nat
         /\ Cardinality(FailedResults(n)') \in Nat
         /\ Cardinality(FailedResults(n)) <= Cardinality(FailedResults(n)')
  <1>1. \A r \in results : r.monitor = n => r \in results'
    BY ResultsKept
  <1>2. FailedResults(n) \subseteq FailedResults(n)'
    BY <1>1 DEF FailedResults
  <1>3. IsFiniteSet(results')
    BY ResultsFinite
  <1>4. IsFiniteSet(FailedResults(n)')
    <2>1. FailedResults(n)' \subseteq results'
      BY DEF FailedResults
    <2> QED
      BY <1>3, <2>1, FS_Subset
  <1>5. Cardinality(FailedResults(n)) <= Cardinality(FailedResults(n)')
    BY <1>2, <1>4, FS_Subset
  <1>6. \A t : Failed(n, t) => Failed(n, t)'
    BY <1>2 DEF Failed
  <1>7. \A t : Succeeded(n, t) => Succeeded(n, t)'
    BY <1>1 DEF Succeeded
  <1> QED
    BY <1>4, <1>5, <1>6, <1>7, FailedFinite, FS_CardinalityType

\* A monitor that is there after a step was there before it, with its results.
LEMMA StaysKnown ==
  ASSUME TypeOK, [Next]_vars, NEW n \in Monitors, status'[n] # "deleted"
  PROVE  status[n] # "deleted" /\ ~DeleteMonitor(n)
  <1>1. ASSUME NEW m \in Monitors, Environment(m)
        PROVE  status[n] # "deleted"
    BY <1>1, EnvironmentWrites
  <1>2. ASSUME NEW s \in Slots, SlotStep(s)
        PROVE  status[n] # "deleted"
    BY <1>2, SlotWrites
  <1>3. ~DeleteMonitor(n)
    BY DEF DeleteMonitor, TypeOK, DatabaseTypeOK
  <1> QED
    BY <1>1, <1>2, <1>3, StepKinds DEF vars

FailurePCs == {"increment", "mark", "readFirst", "findToOpen", "create"}
SuccessPCs == {"clear", "findToResolve", "resolve"}
CountedPCs == {"mark", "readFirst", "findToOpen", "create"}

\* No two checks share an instant.
Fresh ==
  /\ \A r \in results : r.at <= clock
  /\ \A s \in Slots : slot[s].at <= clock
  /\ \A s \in Slots : slot[s].pc = "record" => \A r \in results : r.at # slot[s].at
  /\ \A s, t \in Slots :
       slot[s].pc = "record" /\ slot[t].pc = "record" /\ slot[s].at = slot[t].at => s = t

\* Where a slot's step leaves the instant of its check.
LEMMA InstantKept ==
  ASSUME TypeOK, NEW s \in Slots, SlotStep(s)
  PROVE  \/ Load(s)
         \/ RecordCheckResult(s) /\ slot[s].pc = "record" /\ slot'[s].pc # "record" /\ slot'[s].at = slot[s].at
         \/ ~RecordCheckResult(s) /\ slot'[s].pc # "record" /\ slot'[s].at = 0
         \/ ~RecordCheckResult(s) /\ slot'[s].pc # "record" /\ slot'[s].at = slot[s].at
  <1>1. CASE RecordCheckResult(s)
    BY <1>1, RecordWrites DEF RecordCheckResult, Goes
  <1>2. CASE ~RecordCheckResult(s)
    BY <1>2, SlotMoves DEF SlotStep, Advance, Ending, Ends, Goes
  <1> QED
    BY <1>1, <1>2

LEMMA FreshStep ==
  ASSUME TypeOK, Fresh, [Next]_vars
  PROVE  Fresh'
  <1>0. clock \in Nat /\ (\A r \in results : r.at \in Nat) /\ \A s \in Slots : slot[s].at \in Nat
    BY DEF TypeOK, DatabaseTypeOK, SlotsTypeOK, SlotRecords
  <1>1. ASSUME NEW m \in Monitors, Environment(m)
        PROVE  Fresh'
    <2>1. UNCHANGED <<slot, clock>> /\ results' \subseteq results
      BY <1>1, EnvironmentWrites DEF DeleteMonitor
    <2> QED
      BY <2>1 DEF Fresh
  <1>2. ASSUME NEW s \in Slots, SlotStep(s)
        PROVE  Fresh'
    <2>0. \A t \in Slots \ {s} : slot'[t] = slot[t]
      BY <1>2, SlotMoves DEF SlotStep
    <2>1. CASE Load(s)
      <3>1. UNCHANGED results
        BY <2>1 DEF Load, database
      <3>2. \/ slot'[s].pc # "record" /\ slot'[s].at = 0 /\ UNCHANGED clock
            \/ slot'[s].at = clock + 1 /\ clock' = clock + 1
        BY <2>1, SlotMoves DEF Ends
      <3> QED
        BY <1>0, <2>0, <3>1, <3>2 DEF Fresh
    <2>2. CASE RecordCheckResult(s)
      <3>1. UNCHANGED clock /\ slot[s].pc = "record" /\ slot'[s].pc # "record" /\ slot'[s].at = slot[s].at
        BY <2>2, RecordWrites DEF Goes, RecordCheckResult
      <3>2. \A r \in results' : r \in results \/ r.at = slot[s].at
        BY <2>2, RecordWrites
      <3> QED
        BY <1>0, <2>0, <3>1, <3>2 DEF Fresh
    <2>3. CASE ~Load(s) /\ ~RecordCheckResult(s)
      <3>1. UNCHANGED <<clock, results>>
        BY <1>2, <2>3, SlotWrites
      <3>2. slot'[s].pc # "record" /\ (slot'[s].at = 0 \/ slot'[s].at = slot[s].at)
        BY <1>2, <2>3, InstantKept
      <3> QED
        BY <1>0, <2>0, <3>1, <3>2 DEF Fresh
    <2> QED
      BY <2>1, <2>2, <2>3
  <1>3. CASE UNCHANGED vars
    BY <1>3 DEF vars, Fresh
  <1> QED
    BY <1>1, <1>2, <1>3, StepKinds

-----------------------------------------------------------------------------
(* What incidents rest on, whatever the number of slots *)

\* What a slot and a key hold was recorded, as long as the monitor is there.
SlotRests(s) ==
  slot[s].pc # "idle" /\ status[slot[s].monitor] # "deleted" =>
    /\ slot[s].pc \in FailurePCs => Failed(slot[s].monitor, slot[s].at)
    /\ slot[s].pc \in SuccessPCs => Succeeded(slot[s].monitor, slot[s].at)
    /\ slot[s].pc \in {"findToOpen", "create"} => Failed(slot[s].monitor, slot[s].startedAt)
    /\ slot[s].pc \in CountedPCs => slot[s].count <= Cardinality(FailedResults(slot[s].monitor))
    /\ slot[s].pc \in {"readFirst", "findToOpen", "create"} => slot[s].count >= NormalizedThreshold

KeysRest ==
  \A m \in Monitors :
    status[m] # "deleted" /\ firstFailureAt[m] # NoTime => Failed(m, firstFailureAt[m])

\* A failure is counted once: by the key, or by the slot that is about to.
Incrementing(m) == {s \in Slots : slot[s].pc = "increment" /\ slot[s].monitor = m}

FailuresCountOnce ==
  /\ IsFiniteSet(results)
  /\ \A m \in Monitors : IsFiniteSet(Incrementing(m))
  /\ \A m \in Monitors : status[m] # "deleted" =>
       failureCount[m] + Cardinality(Incrementing(m)) <= Cardinality(FailedResults(m))

\* An id is that of one row, of the monitor whose job found it.
IdsOfRows ==
  /\ \A i, j \in incidents : i.id = j.id => i = j
  /\ \A i \in incidents, s \in Slots :
       slot[s].pc = "resolve" /\ i.id = slot[s].incident => i.monitor = slot[s].monitor

RestInv ==
  /\ Fresh /\ (\A s \in Slots : SlotRests(s)) /\ KeysRest /\ FailuresCountOnce
  /\ IdsOfRows /\ IncidentsRestOnChecks

LEMMA KeysRestStep ==
  ASSUME TypeOK, RestInv, [Next]_vars
  PROVE  KeysRest'
  <1>0. IsFiniteSet(results)
    BY DEF RestInv, FailuresCountOnce
  <1> SUFFICES ASSUME NEW n \in Monitors, status'[n] # "deleted", firstFailureAt'[n] # NoTime
               PROVE  Failed(n, firstFailureAt[n])'
    BY DEF KeysRest
  <1>1. status[n] # "deleted" /\ \A t : Failed(n, t) => Failed(n, t)'
    BY <1>0, StaysKnown, Grows
  <1>2. ASSUME firstFailureAt'[n] = firstFailureAt[n]
        PROVE  Failed(n, firstFailureAt[n])'
    <2>1. PICK t : t = firstFailureAt[n]
      OBVIOUS
    <2>2. Failed(n, t)
      BY <1>1, <1>2, <2>1 DEF RestInv, KeysRest
    <2>3. Failed(n, t)'
      BY <1>1, <2>2
    <2>4. firstFailureAt'[n] = t
      BY <1>2, <2>1
    <2> QED
      BY <2>3, <2>4 DEF Failed
  <1>3. ASSUME NEW m \in Monitors, Environment(m)
        PROVE  Failed(n, firstFailureAt[n])'
    BY <1>2, <1>3, EnvironmentWrites
  <1>4. ASSUME NEW s \in Slots, SlotStep(s)
        PROVE  Failed(n, firstFailureAt[n])'
    <2>1. CASE UNCHANGED firstFailureAt
      BY <1>2, <2>1
    <2>2. CASE ClearFailures(s)
      <3>1. firstFailureAt'[n] = firstFailureAt[n] \/ firstFailureAt'[n] = NoTime
        BY <2>2 DEF ClearFailures, TypeOK, RedisTypeOK
      <3> QED
        BY <1>2, <3>1
    <2>3. CASE MarkFirstFailure(s) /\ slot[s].monitor = n
      <3>1. PICK t : t = slot[s].at
        OBVIOUS
      <3>2. Failed(n, t)
        BY <1>1, <2>3, <3>1 DEF MarkFirstFailure, RestInv, SlotRests, FailurePCs
      <3>3. firstFailureAt'[n] = firstFailureAt[n] \/ firstFailureAt'[n] = t
        BY <2>3, <3>1 DEF MarkFirstFailure, TypeOK, RedisTypeOK
      <3>4. Failed(n, t)'
        BY <1>1, <3>2
      <3> QED
        BY <1>2, <3>3, <3>4 DEF Failed
    <2>4. CASE MarkFirstFailure(s) /\ slot[s].monitor # n
      <3>1. firstFailureAt'[n] = firstFailureAt[n]
        BY <2>4 DEF MarkFirstFailure, TypeOK, RedisTypeOK
      <3> QED
        BY <1>2, <3>1
    <2> QED
      BY <1>4, <2>1, <2>2, <2>3, <2>4, SlotWrites
  <1>5. CASE UNCHANGED vars
    BY <1>2, <1>5 DEF vars
  <1> QED
    BY <1>3, <1>4, <1>5, StepKinds

\* The slots about to count a failure, after a step.
LEMMA IncrementingStep ==
  ASSUME TypeOK, [Next]_vars, NEW n \in Monitors
  PROVE  \/ Incrementing(n)' \subseteq Incrementing(n)
         \/ \E s \in Slots : /\ RecordCheckResult(s) /\ slot[s].monitor = n
                             /\ Incrementing(n)' = Incrementing(n) \cup {s}
                             /\ results' = results \cup {[monitor |-> n, at |-> slot[s].at, isUp |-> FALSE]}
  <1>1. ASSUME NEW m \in Monitors, Environment(m)
        PROVE  Incrementing(n)' \subseteq Incrementing(n)
    BY <1>1, EnvironmentWrites DEF Incrementing
  <1>2. ASSUME NEW s \in Slots, SlotStep(s), ~RecordCheckResult(s)
        PROVE  Incrementing(n)' \subseteq Incrementing(n)
    <2>1. \A t \in Slots \ {s} : slot'[t] = slot[t]
      BY <1>2, SlotMoves DEF SlotStep
    <2>2. slot'[s].pc # "increment"
      BY <1>2, SlotMoves DEF SlotStep, Advance, Ending, Ends, Goes
    <2> QED
      BY <2>1, <2>2 DEF Incrementing
  <1>3. ASSUME NEW s \in Slots, RecordCheckResult(s)
        PROVE  \/ Incrementing(n)' \subseteq Incrementing(n)
               \/ /\ slot[s].monitor = n
                  /\ Incrementing(n)' = Incrementing(n) \cup {s}
                  /\ results' = results \cup {[monitor |-> n, at |-> slot[s].at, isUp |-> FALSE]}
    <2>1. \A t \in Slots \ {s} : slot'[t] = slot[t]
      BY <1>3, SlotMoves DEF SlotStep, Advance
    <2>2. PICK isUp \in BOOLEAN :
           /\ results' = results \cup {[monitor |-> slot[s].monitor, at |-> slot[s].at, isUp |-> isUp]}
           /\ Goes(s, IF isUp THEN "clear" ELSE "increment")
      BY <1>3, RecordWrites
    <2>3. CASE isUp
      BY <2>1, <2>2, <2>3 DEF Incrementing, Goes
    <2>4. CASE ~isUp /\ slot[s].monitor # n
      BY <2>1, <2>2, <2>4 DEF Incrementing, Goes
    <2>5. CASE ~isUp /\ slot[s].monitor = n
      <3>1. slot'[s].pc = "increment" /\ slot'[s].monitor = n
        BY <2>2, <2>5 DEF Goes
      <3>2. Incrementing(n)' = Incrementing(n) \cup {s}
        BY <2>1, <3>1 DEF Incrementing
      <3> QED
        BY <2>2, <2>5, <3>2
    <2> QED
      BY <2>3, <2>4, <2>5
  <1>4. CASE UNCHANGED vars
    BY <1>4 DEF vars, Incrementing
  <1> QED
    BY <1>1, <1>2, <1>3, <1>4, StepKinds

LEMMA IncrementingFinite ==
  ASSUME TypeOK, RestInv, [Next]_vars, NEW n \in Monitors
  PROVE  /\ IsFiniteSet(Incrementing(n)')
         /\ Cardinality(Incrementing(n)) \in Nat /\ Cardinality(Incrementing(n)') \in Nat
  <1>1. IsFiniteSet(Incrementing(n))
    BY DEF RestInv, FailuresCountOnce
  <1>2. \/ Incrementing(n)' \subseteq Incrementing(n)
        \/ \E s : Incrementing(n)' = Incrementing(n) \cup {s}
    BY IncrementingStep
  <1>3. IsFiniteSet(Incrementing(n)')
    BY <1>1, <1>2, FS_Subset, FS_AddElement
  <1> QED
    BY <1>1, <1>3, FS_CardinalityType

\* The counter of a monitor is cleared, kept or incremented by a job that was to.
LEMMA CounterStep ==
  ASSUME TypeOK, [Next]_vars, NEW n \in Monitors
  PROVE  \/ failureCount'[n] <= failureCount[n]
         \/ \E s \in Incrementing(n) :
              /\ failureCount'[n] = failureCount[n] + 1
              /\ Incrementing(n)' = Incrementing(n) \ {s}
              /\ UNCHANGED results
  <1>0. failureCount \in [Monitors -> Nat]
    BY DEF TypeOK, RedisTypeOK
  <1>1. ASSUME NEW m \in Monitors, Environment(m)
        PROVE  failureCount'[n] <= failureCount[n]
    BY <1>0, <1>1, EnvironmentWrites
  <1>2. ASSUME NEW s \in Slots, SlotStep(s), ~IncrementFailures(s)
        PROVE  failureCount'[n] <= failureCount[n]
    <2>1. UNCHANGED failureCount \/ ClearFailures(s)
      BY <1>2, SlotWrites
    <2> QED
      BY <1>0, <2>1 DEF ClearFailures
  <1>3. ASSUME NEW s \in Slots, IncrementFailures(s), slot[s].monitor # n
        PROVE  failureCount'[n] <= failureCount[n]
    BY <1>0, <1>3 DEF IncrementFailures
  <1>4. ASSUME NEW s \in Slots, IncrementFailures(s), slot[s].monitor = n
        PROVE  /\ failureCount'[n] = failureCount[n] + 1
               /\ s \in Incrementing(n) /\ Incrementing(n)' = Incrementing(n) \ {s}
               /\ UNCHANGED results
    <2>1. /\ \A t \in Slots \ {s} : slot'[t] = slot[t]
          /\ slot'[s].pc = "mark" /\ slot[s].pc = "increment"
      BY <1>4, SlotMoves DEF SlotStep, Advance, Goes, IncrementFailures
    <2> QED
      BY <1>0, <1>4, <2>1 DEF Incrementing, IncrementFailures, database
  <1>5. CASE UNCHANGED vars
    BY <1>0, <1>5 DEF vars
  <1> QED
    BY <1>1, <1>2, <1>3, <1>4, <1>5, StepKinds

\* What is counted and about to be counted grows by no more than the failures do.
LEMMA CountsStep ==
  ASSUME TypeOK, RestInv, [Next]_vars, NEW n \in Monitors, status'[n] # "deleted"
  PROVE  /\ failureCount[n] \in Nat /\ failureCount'[n] \in Nat
         /\ IsFiniteSet(Incrementing(n)) /\ IsFiniteSet(Incrementing(n)')
         /\ Cardinality(Incrementing(n)) \in Nat /\ Cardinality(Incrementing(n)') \in Nat
         /\ Cardinality(FailedResults(n)) \in Nat /\ Cardinality(FailedResults(n)') \in Nat
         /\ Cardinality(FailedResults(n)) <= Cardinality(FailedResults(n)')
         /\ failureCount'[n] + Cardinality(Incrementing(n)') + Cardinality(FailedResults(n))
              <= failureCount[n] + Cardinality(Incrementing(n)) + Cardinality(FailedResults(n)')
  <1>f. IsFiniteSet(results) /\ IsFiniteSet(results')
    BY ResultsFinite DEF RestInv, FailuresCountOnce
  <1>0. /\ failureCount[n] \in Nat /\ failureCount'[n] \in Nat
        /\ IsFiniteSet(Incrementing(n)) /\ IsFiniteSet(Incrementing(n)')
        /\ Cardinality(Incrementing(n)) \in Nat /\ Cardinality(Incrementing(n)') \in Nat
    <2>1. TypeOK'
      BY TypeStep
    <2> QED
      BY <2>1, IncrementingFinite DEF TypeOK, RedisTypeOK, RestInv, FailuresCountOnce
  <1>1. /\ Cardinality(FailedResults(n)) \in Nat /\ Cardinality(FailedResults(n)') \in Nat
        /\ Cardinality(FailedResults(n)) <= Cardinality(FailedResults(n)')
    BY <1>f, StaysKnown, Grows
  <1>3. CASE \E s \in Incrementing(n) :
            /\ failureCount'[n] = failureCount[n] + 1
            /\ Incrementing(n)' = Incrementing(n) \ {s}
            /\ UNCHANGED results
    <2>1. Cardinality(Incrementing(n)') = Cardinality(Incrementing(n)) - 1
      BY <1>0, <1>3, FS_RemoveElement
    <2> QED
      BY <1>0, <1>1, <1>3, <2>1
  <1>4. CASE failureCount'[n] <= failureCount[n] /\ Incrementing(n)' \subseteq Incrementing(n)
    <2>1. Cardinality(Incrementing(n)') <= Cardinality(Incrementing(n))
      BY <1>0, <1>4, FS_Subset
    <2> QED
      BY <1>0, <1>1, <1>4, <2>1
  <1>5. CASE failureCount'[n] <= failureCount[n] /\ ~(Incrementing(n)' \subseteq Incrementing(n))
    <2>1. PICK s \in Slots :
            /\ RecordCheckResult(s) /\ slot[s].monitor = n
            /\ Incrementing(n)' = Incrementing(n) \cup {s}
            /\ results' = results \cup {[monitor |-> n, at |-> slot[s].at, isUp |-> FALSE]}
      BY <1>5, IncrementingStep
    <2> DEFINE r == [monitor |-> n, at |-> slot[s].at, isUp |-> FALSE]
    <2>2. r \notin results
      <3>1. \A q \in results : q.at # slot[s].at
        BY <2>1 DEF RecordCheckResult, RestInv, Fresh
      <3> QED
        BY <3>1
    <2>3. FailedResults(n)' = FailedResults(n) \cup {r} /\ r \notin FailedResults(n)
      BY <2>1, <2>2 DEF FailedResults
    <2>4. Cardinality(FailedResults(n)') = Cardinality(FailedResults(n)) + 1
      <3> HIDE DEF r
      <3>1. IsFiniteSet(FailedResults(n))
        BY <1>f, FailedFinite
      <3> QED
        BY <2>3, <3>1, FS_AddElement
    <2>5. Cardinality(Incrementing(n)') <= Cardinality(Incrementing(n)) + 1
      BY <1>0, <2>1, FS_AddElement
    <2> QED
      BY <1>0, <1>1, <1>5, <2>4, <2>5
  <1> QED
    BY <1>3, <1>4, <1>5, CounterStep

LEMMA FailuresCountOnceStep ==
  ASSUME TypeOK, RestInv, [Next]_vars
  PROVE  FailuresCountOnce'
  <1>0. IsFiniteSet(results')
    BY ResultsFinite DEF RestInv, FailuresCountOnce
  <1>1. \A n \in Monitors : IsFiniteSet(Incrementing(n)')
    BY IncrementingFinite
  <1>2. ASSUME NEW n \in Monitors, status'[n] # "deleted"
        PROVE  failureCount'[n] + Cardinality(Incrementing(n)') <= Cardinality(FailedResults(n)')
    <2>1. failureCount[n] + Cardinality(Incrementing(n)) <= Cardinality(FailedResults(n))
      BY <1>2, StaysKnown DEF RestInv, FailuresCountOnce
    <2> QED
      BY <1>2, <2>1, CountsStep
  <1> QED
    BY <1>0, <1>1, <1>2 DEF FailuresCountOnce

\* What a slot that moves holds was recorded.
LEMMA SlotRestsMove ==
  ASSUME TypeOK, RestInv, [Next]_vars, NEW s \in Slots, SlotStep(s)
  PROVE  SlotRests(s)'
  <1> SUFFICES ASSUME slot'[s].pc # "idle", status'[slot'[s].monitor] # "deleted",
                      slot'[s].pc \notin {"load", "record", "ack", "enqueueDown", "enqueueRecovered"}
               PROVE  SlotRests(s)'
    BY DEF SlotRests, FailurePCs, SuccessPCs, CountedPCs
  <1>0. slot[s].monitor \in Monitors /\ slot'[s].monitor = slot[s].monitor
    <2>1. slot[s].pc # "idle" /\ slot'[s].monitor = slot[s].monitor
      <3>1. CASE RecordCheckResult(s)
        BY <3>1, RecordWrites DEF RecordCheckResult, Goes
      <3>2. CASE Ending(s) \/ Load(s)
        BY <3>2, SlotMoves DEF Ends
      <3>3. CASE ~(RecordCheckResult(s) \/ Ending(s) \/ Load(s))
        <4>1. slot'[s].monitor = slot[s].monitor
          BY <3>3, SlotMoves DEF SlotStep, Advance, Ending, Ends, Goes
        <4>2. slot[s].pc # "idle"
          BY <3>3 DEF SlotStep, Advance, Ending, ClearFailures, FindIncidentToResolve, ResolveIncident,
             IncrementFailures, MarkFirstFailure, ReadFirstFailure, FindIncidentToOpen, CreateIncident
        <4> QED
          BY <4>1, <4>2
      <3> QED
        BY <3>1, <3>2, <3>3
    <2> QED
      BY <2>1 DEF TypeOK, SlotsTypeOK, HasJob
  <1>1. PICK n \in Monitors : n = slot[s].monitor
    BY <1>0
  <1>2. PICK at : at = slot[s].at
    OBVIOUS
  <1>3. IsFiniteSet(results)
    BY DEF RestInv, FailuresCountOnce
  <1>4. status'[n] # "deleted" /\ status[n] # "deleted" /\ ~DeleteMonitor(n)
    BY <1>0, <1>1, StaysKnown
  <1>5. /\ \A t : Failed(n, t) => Failed(n, t)'
        /\ \A t : Succeeded(n, t) => Succeeded(n, t)'
        /\ Cardinality(FailedResults(n)) \in Nat /\ Cardinality(FailedResults(n)') \in Nat
        /\ Cardinality(FailedResults(n)) <= Cardinality(FailedResults(n)')
    BY <1>3, <1>4, Grows
  <1>6. slot[s].pc # "idle" =>
          /\ slot[s].pc \in FailurePCs => Failed(n, at)
          /\ slot[s].pc \in SuccessPCs => Succeeded(n, at)
          /\ slot[s].pc \in {"findToOpen", "create"} => Failed(n, slot[s].startedAt)
          /\ slot[s].pc \in CountedPCs => slot[s].count <= Cardinality(FailedResults(n))
          /\ slot[s].pc \in {"readFirst", "findToOpen", "create"} => slot[s].count >= NormalizedThreshold
    BY <1>1, <1>2, <1>4 DEF RestInv, SlotRests
  <1>7. ASSUME slot'[s].at = at,
               slot'[s].pc \in FailurePCs => Failed(n, at)',
               slot'[s].pc \in SuccessPCs => Succeeded(n, at)',
               slot'[s].pc \in {"findToOpen", "create"} => Failed(n, slot[s].startedAt)',
               slot'[s].pc \in CountedPCs => slot'[s].count <= Cardinality(FailedResults(n)'),
               slot'[s].pc \in {"readFirst", "findToOpen", "create"} => slot'[s].count >= NormalizedThreshold
        PROVE  SlotRests(s)'
    BY <1>0, <1>1, <1>7 DEF SlotRests, Failed, Succeeded, FailedResults
  <1>c. slot[s].count \in Nat /\ failureCount[n] \in Nat
    BY DEF TypeOK, SlotsTypeOK, SlotRecords, RedisTypeOK
  <1> HIDE DEF SlotRests
  <1>8. CASE RecordCheckResult(s)
    <2>1. PICK isUp \in BOOLEAN :
           /\ results' = results \cup {[monitor |-> n, at |-> at, isUp |-> isUp]}
           /\ slot'[s].pc = (IF isUp THEN "clear" ELSE "increment") /\ slot'[s].at = at
      BY <1>1, <1>2, <1>8, RecordWrites DEF Goes
    <2> DEFINE r == [monitor |-> n, at |-> at, isUp |-> isUp]
    <2>r. r \in results' /\ r.monitor = n /\ r.at = at /\ r.isUp = isUp
      BY <2>1
    <2> HIDE DEF r
    <2>2. isUp => Succeeded(n, at)'
      BY <2>r DEF Succeeded
    <2>3. ~isUp => Failed(n, at)'
      BY <2>r DEF Failed, FailedResults
    <2> QED
      BY <1>7, <2>1, <2>2, <2>3 DEF FailurePCs, SuccessPCs, CountedPCs
  <1>9. CASE ClearFailures(s)
    BY <1>2, <1>5, <1>6, <1>7, <1>9, SlotMoves DEF ClearFailures, Goes, FailurePCs, SuccessPCs, CountedPCs
  <1>10. CASE FindIncidentToResolve(s)
    BY <1>2, <1>5, <1>6, <1>7, <1>10, SlotMoves
       DEF FindIncidentToResolve, Goes, Ends, FailurePCs, SuccessPCs, CountedPCs
  <1>11. CASE IncrementFailures(s)
    <2>1. slot[s].pc = "increment" /\ slot'[s].pc = "mark" /\ slot'[s].at = at
          /\ slot'[s].count = failureCount[n] + 1
      BY <1>1, <1>2, <1>11, SlotMoves DEF IncrementFailures, Goes
    <2>2. Cardinality(Incrementing(n)) \in Nat \ {0}
      <3>1. s \in Incrementing(n) /\ IsFiniteSet(Incrementing(n))
        BY <1>1, <2>1 DEF Incrementing, RestInv, FailuresCountOnce
      <3> QED
        BY <3>1, FS_EmptySet, FS_CardinalityType
    <2>3. failureCount[n] + Cardinality(Incrementing(n)) <= Cardinality(FailedResults(n))
      BY <1>4 DEF RestInv, FailuresCountOnce
    <2>4. slot'[s].count <= Cardinality(FailedResults(n)')
      BY <1>5, <1>c, <2>1, <2>2, <2>3
    <2>5. Failed(n, at)'
      BY <1>5, <1>6, <2>1 DEF FailurePCs
    <2> QED
      BY <1>7, <2>1, <2>4, <2>5 DEF FailurePCs, SuccessPCs, CountedPCs
  <1>12. CASE MarkFirstFailure(s)
    <2>1. slot[s].pc = "mark" /\ slot'[s].pc = "readFirst" /\ slot'[s].at = at
          /\ slot'[s].count = slot[s].count /\ slot[s].count >= NormalizedThreshold
      BY <1>2, <1>12, SlotMoves DEF MarkFirstFailure, Goes, Ends
    <2>2. slot[s].count <= Cardinality(FailedResults(n)')
      BY <1>5, <1>6, <1>c, <2>1 DEF CountedPCs
    <2>3. Failed(n, at)'
      BY <1>5, <1>6, <2>1 DEF FailurePCs
    <2> QED
      BY <1>7, <2>1, <2>2, <2>3 DEF FailurePCs, SuccessPCs, CountedPCs
  <1>20. ASSUME slot[s].pc \in CountedPCs, slot[s].count >= NormalizedThreshold, slot'[s].count = slot[s].count,
                slot'[s].pc \in {"findToOpen", "create"}, slot'[s].at = at, Failed(n, slot'[s].startedAt)
         PROVE  SlotRests(s)'
    <2>1. slot[s].count <= Cardinality(FailedResults(n)')
      BY <1>5, <1>6, <1>c, <1>20 DEF CountedPCs
    <2>2. Failed(n, at)'
      BY <1>5, <1>6, <1>20 DEF FailurePCs, CountedPCs
    <2>3. PICK t : t = slot'[s].startedAt
      OBVIOUS
    <2>4. Failed(n, t)'
      BY <1>5, <1>20, <2>3
    <2> QED
      BY <1>0, <1>1, <1>20, <2>1, <2>2, <2>3, <2>4
         DEF SlotRests, Failed, FailedResults, FailurePCs, SuccessPCs, CountedPCs
  <1>13. CASE ReadFirstFailure(s)
    <2>1. slot[s].pc = "readFirst" /\ slot'[s].pc = "findToOpen" /\ slot'[s].at = at
          /\ slot'[s].count = slot[s].count
          /\ slot'[s].startedAt = IF firstFailureAt[n] # NoTime THEN firstFailureAt[n] ELSE at
      BY <1>1, <1>2, <1>13, SlotMoves DEF ReadFirstFailure, Goes
    <2>2. Failed(n, slot'[s].startedAt)
      BY <1>4, <1>6, <2>1 DEF FailurePCs, RestInv, KeysRest
    <2> QED
      BY <1>6, <1>20, <2>1, <2>2 DEF CountedPCs
  <1>14. CASE FindIncidentToOpen(s)
    <2>1. slot[s].pc = "findToOpen" /\ slot'[s].pc = "create" /\ slot'[s].at = at
          /\ slot'[s].count = slot[s].count /\ slot'[s].startedAt = slot[s].startedAt
      BY <1>2, <1>14, SlotMoves DEF FindIncidentToOpen, Goes, Ends
    <2> QED
      BY <1>6, <1>20, <2>1 DEF CountedPCs
  <1>15. CASE Ending(s) \/ Load(s) \/ ResolveIncident(s) \/ CreateIncident(s)
    BY <1>15, SlotMoves DEF Ends, Goes
  <1> QED
    BY <1>8, <1>9, <1>10, <1>11, <1>12, <1>13, <1>14, <1>15 DEF SlotStep, Advance, Ending

\* The rows after a step: those that were there, one resolved or one more.
LEMMA RowsStep ==
  ASSUME TypeOK, [Next]_vars
  PROVE  \/ incidents' \subseteq incidents /\ \A i \in incidents' : ~DeleteMonitor(i.monitor)
         \/ \E s \in Slots : ResolveIncident(s) /\ incidents' = WithResolved(incidents, slot[s].incident, slot[s].at)
         \/ \E s \in Slots :
              /\ CreateIncident(s) /\ lastIncident' = lastIncident + 1
              /\ incidents' = WithIncident(incidents, lastIncident + 1, slot[s].monitor, slot[s].startedAt, slot[s].at)
  <1>1. ASSUME NEW m \in Monitors, Environment(m)
        PROVE  incidents' \subseteq incidents /\ \A i \in incidents' : ~DeleteMonitor(i.monitor)
    <2>1. CASE DeleteMonitor(m)
      <3>1. /\ \A n \in Monitors \ {m} : status'[n] = status[n]
            /\ status[m] # "deleted"
        BY <2>1 DEF DeleteMonitor, TypeOK, DatabaseTypeOK
      <3>2. \A i \in incidents' : i \in incidents /\ i.monitor \in Monitors \ {m}
        BY <2>1 DEF DeleteMonitor, WithoutMonitor, TypeOK, DatabaseTypeOK, IncidentRows
      <3>3. \A n \in Monitors \ {m} : ~DeleteMonitor(n)
        BY <3>1 DEF DeleteMonitor, TypeOK, DatabaseTypeOK
      <3> QED
        BY <3>2, <3>3
    <2>2. CASE /\ UNCHANGED <<results, incidents, lastCheckedAt>>
               /\ \A n \in Monitors : status'[n] = "deleted" <=> status[n] = "deleted"
      <3>1. \A n \in Monitors : ~DeleteMonitor(n)
        BY <2>2 DEF DeleteMonitor, TypeOK, DatabaseTypeOK
      <3>2. \A i \in incidents : i.monitor \in Monitors
        BY DEF TypeOK, DatabaseTypeOK, IncidentRows
      <3> QED
        BY <2>2, <3>1, <3>2
    <2> QED
      BY <1>1, <2>1, <2>2, EnvironmentWrites
  <1>2. ASSUME UNCHANGED <<status, incidents>>
        PROVE  incidents' \subseteq incidents /\ \A i \in incidents' : ~DeleteMonitor(i.monitor)
    <2>1. \A n \in Monitors : ~DeleteMonitor(n)
      BY <1>2 DEF DeleteMonitor, TypeOK, DatabaseTypeOK
    <2>2. \A i \in incidents : i.monitor \in Monitors
      BY DEF TypeOK, DatabaseTypeOK, IncidentRows
    <2> QED
      BY <1>2, <2>1, <2>2
  <1>3. ASSUME NEW s \in Slots, SlotStep(s)
        PROVE  \/ ResolveIncident(s) /\ incidents' = WithResolved(incidents, slot[s].incident, slot[s].at)
               \/ /\ CreateIncident(s) /\ lastIncident' = lastIncident + 1
                  /\ incidents' = WithIncident(incidents, lastIncident + 1, slot[s].monitor, slot[s].startedAt, slot[s].at)
               \/ UNCHANGED <<status, incidents>>
    BY <1>3, SlotWrites DEF ResolveIncident, CreateIncident
  <1> QED
    BY <1>1, <1>2, <1>3, StepKinds DEF vars

LEMMA IdsOfRowsStep ==
  ASSUME TypeOK, AlertInv, IdsOfRows, [Next]_vars
  PROVE  IdsOfRows'
  <1>0. /\ lastIncident \in Nat
        /\ \A i \in incidents : i.id \in Nat /\ i.id <= lastIncident
        /\ \A s \in Slots : slot[s].incident \in Nat /\ slot[s].incident <= lastIncident
    BY DEF TypeOK, DatabaseTypeOK, IncidentRows, SlotsTypeOK, SlotRecords, AlertInv, IdsHandedOut
  <1>1. ASSUME NEW s \in Slots, slot'[s].pc = "resolve", slot'[s] # slot[s]
        PROVE  /\ slot'[s].monitor = slot[s].monitor /\ UNCHANGED incidents
               /\ \E i \in incidents : i.id = slot'[s].incident /\ i.monitor = slot[s].monitor
    <2>1. ~(\E m \in Monitors : Environment(m)) /\ ~UNCHANGED vars
      BY <1>1, EnvironmentWrites DEF vars
    <2>2. PICK t \in Slots : SlotStep(t)
      BY <2>1, StepKinds
    <2>3. t = s
      BY <1>1, <2>2, SlotMoves DEF SlotStep
    <2>4. ~RecordCheckResult(s)
      BY <1>1, RecordWrites DEF Goes
    <2>5. FindIncidentToResolve(s)
      BY <1>1, <2>2, <2>3, <2>4, SlotMoves DEF SlotStep, Advance, Ending, Ends, Goes
    <2> QED
      BY <1>1, <2>5, SlotMoves DEF Goes, Ends, FindIncidentToResolve, database, FindOpen, OpenIncidents
  <1>2. CASE incidents' \subseteq incidents
    <2>1. \A i, j \in incidents' : i.id = j.id => i = j
      BY <1>2 DEF IdsOfRows
    <2>2. ASSUME NEW s \in Slots, NEW i \in incidents', slot'[s].pc = "resolve", i.id = slot'[s].incident
          PROVE  i.monitor = slot'[s].monitor
      BY <1>1, <1>2, <2>2 DEF IdsOfRows
    <2> QED
      BY <2>1, <2>2 DEF IdsOfRows
  <1>3. ASSUME NEW s \in Slots, ResolveIncident(s), incidents' = WithResolved(incidents, slot[s].incident, slot[s].at)
        PROVE  IdsOfRows'
    <2>1. \A i \in incidents' : \E j \in incidents :
            /\ i.id = j.id /\ i.monitor = j.monitor
            /\ i = IF j.id = slot[s].incident THEN [j EXCEPT !.resolvedAt = slot[s].at] ELSE j
      BY <1>3 DEF WithResolved, TypeOK, DatabaseTypeOK, IncidentRows
    <2>2. \A t \in Slots : slot'[t].pc = "resolve" => slot'[t] = slot[t]
      <3>1. slot'[s].pc # "resolve" /\ \A t \in Slots \ {s} : slot'[t] = slot[t]
        BY <1>3, SlotMoves DEF Goes, Advance
      <3> QED
        BY <3>1
    <2>3. \A i, j \in incidents' : i.id = j.id => i = j
      BY <2>1 DEF IdsOfRows
    <2> QED
      BY <2>1, <2>2, <2>3 DEF IdsOfRows
  <1>4. ASSUME NEW s \in Slots, CreateIncident(s),
               incidents' = WithIncident(incidents, lastIncident + 1, slot[s].monitor, slot[s].startedAt, slot[s].at)
        PROVE  IdsOfRows'
    <2> DEFINE row == [id |-> lastIncident + 1, monitor |-> slot[s].monitor,
                       startedAt |-> slot[s].startedAt, confirmedAt |-> slot[s].at, resolvedAt |-> NoTime]
    <2>1. incidents' = incidents \cup {row} /\ row.id = lastIncident + 1
      BY <1>4 DEF WithIncident
    <2>2. \A t \in Slots : slot'[t].pc = "resolve" => slot'[t] = slot[t]
      <3>1. slot'[s].pc # "resolve" /\ \A t \in Slots \ {s} : slot'[t] = slot[t]
        BY <1>4, SlotMoves DEF Goes, Advance
      <3> QED
        BY <3>1
    <2> HIDE DEF row
    <2>3. \A i, j \in incidents' : i.id = j.id => i = j
      BY <1>0, <2>1 DEF IdsOfRows
    <2> QED
      BY <1>0, <2>1, <2>2, <2>3 DEF IdsOfRows
  <1> QED
    BY <1>2, <1>3, <1>4, RowsStep

\* What IncidentsRestOnChecks says of one row.
RowRests(i) ==
  /\ Cardinality(FailedResults(i.monitor)) >= NormalizedThreshold
  /\ Failed(i.monitor, i.startedAt)
  /\ Failed(i.monitor, i.confirmedAt)
  /\ i.resolvedAt # NoTime => Succeeded(i.monitor, i.resolvedAt)

LEMMA RowsRest == IncidentsRestOnChecks <=> \A i \in incidents : RowRests(i)
  BY DEF IncidentsRestOnChecks, RowRests, Failed, Succeeded

LEMMA IncidentsRestStep ==
  ASSUME TypeOK, RestInv, [Next]_vars
  PROVE  IncidentsRestOnChecks'
  <1>0. /\ IsFiniteSet(results) /\ NormalizedThreshold \in Int
        /\ \A i \in incidents : RowRests(i) /\ i.monitor \in Monitors
    BY RowsRest, ThresholdAssumption DEF RestInv, FailuresCountOnce, NormalizedThreshold, TypeOK, DatabaseTypeOK,
       IncidentRows
  <1>1. ASSUME NEW n \in Monitors, ~DeleteMonitor(n),
               NEW a, NEW b, NEW c,
               Cardinality(FailedResults(n)) >= NormalizedThreshold,
               Failed(n, a), Failed(n, b), c # NoTime => Succeeded(n, c)
        PROVE  /\ (Cardinality(FailedResults(n)) >= NormalizedThreshold)'
               /\ Failed(n, a)' /\ Failed(n, b)' /\ (c # NoTime => Succeeded(n, c)')
    BY <1>0, <1>1, Grows DEF NormalizedThreshold
  <1>2. ASSUME NEW i, NEW n \in Monitors, ~DeleteMonitor(n), i.monitor = n,
               Cardinality(FailedResults(n)) >= NormalizedThreshold,
               Failed(n, i.startedAt), Failed(n, i.confirmedAt),
               i.resolvedAt # NoTime => Succeeded(n, i.resolvedAt)
        PROVE  RowRests(i)'
    BY <1>1, <1>2 DEF RowRests
  <1>3. ASSUME incidents' \subseteq incidents, \A i \in incidents' : ~DeleteMonitor(i.monitor)
        PROVE  IncidentsRestOnChecks'
    <2>1. \A i \in incidents' : RowRests(i)'
      BY <1>0, <1>2, <1>3 DEF RowRests
    <2> QED
      BY <2>1 DEF IncidentsRestOnChecks, RowRests, Failed, Succeeded
  <1>4. ASSUME NEW s \in Slots, ResolveIncident(s), incidents' = WithResolved(incidents, slot[s].incident, slot[s].at)
        PROVE  IncidentsRestOnChecks'
    <2>1. \A m \in Monitors : ~DeleteMonitor(m)
      BY <1>4 DEF ResolveIncident, DeleteMonitor, TypeOK, DatabaseTypeOK
    <2>2. ASSUME NEW j \in incidents
          PROVE  RowRests(IF j.id = slot[s].incident THEN [j EXCEPT !.resolvedAt = slot[s].at] ELSE j)
      <3>1. CASE j.id # slot[s].incident
        BY <1>0, <3>1
      <3>2. CASE j.id = slot[s].incident
        <4>1. j.monitor = slot[s].monitor /\ slot[s].monitor \in Monitors
          BY <1>0, <1>4, <3>2 DEF ResolveIncident, RestInv, IdsOfRows
        <4>2. Succeeded(j.monitor, slot[s].at)
          BY <1>4, <4>1 DEF ResolveIncident, RestInv, SlotRests, SuccessPCs
        <4>3. PICK i : i = [j EXCEPT !.resolvedAt = slot[s].at]
          OBVIOUS
        <4>4. i.monitor = j.monitor /\ i.startedAt = j.startedAt /\ i.confirmedAt = j.confirmedAt
              /\ i.resolvedAt = slot[s].at
          BY <4>3 DEF TypeOK, DatabaseTypeOK, IncidentRows
        <4>5. RowRests(i)
          BY <1>0, <4>2, <4>4 DEF RowRests
        <4> QED
          BY <3>2, <4>3, <4>5
      <3> QED
        BY <3>1, <3>2
    <2>3. \A i \in incidents' : RowRests(i) /\ i.monitor \in Monitors
      <3>1. \A i \in incidents' : RowRests(i)
        BY <1>4, <2>2 DEF WithResolved
      <3>2. \A i \in incidents' : i.monitor \in Monitors
        BY <1>4 DEF WithResolved, TypeOK, DatabaseTypeOK, IncidentRows
      <3> QED
        BY <3>1, <3>2
    <2>4. \A i \in incidents' : RowRests(i)'
      BY <1>2, <2>1, <2>3 DEF RowRests
    <2> QED
      BY <2>4 DEF IncidentsRestOnChecks, RowRests, Failed, Succeeded
  <1>5. ASSUME NEW s \in Slots, CreateIncident(s),
               incidents' = WithIncident(incidents, lastIncident + 1, slot[s].monitor, slot[s].startedAt, slot[s].at)
        PROVE  IncidentsRestOnChecks'
    <2> DEFINE row == [id |-> lastIncident + 1, monitor |-> slot[s].monitor,
                       startedAt |-> slot[s].startedAt, confirmedAt |-> slot[s].at, resolvedAt |-> NoTime]
    <2>1. \A m \in Monitors : ~DeleteMonitor(m)
      BY <1>5 DEF CreateIncident, DeleteMonitor, TypeOK, DatabaseTypeOK
    <2>2. slot[s].monitor \in Monitors /\ slot[s].count \in Nat
      BY <1>5 DEF CreateIncident, TypeOK, SlotsTypeOK, HasJob, SlotRecords
    <2>3. PICK n \in Monitors : n = slot[s].monitor
      BY <2>2
    <2>4. /\ Failed(n, slot[s].startedAt) /\ Failed(n, slot[s].at)
          /\ slot[s].count <= Cardinality(FailedResults(n)) /\ slot[s].count >= NormalizedThreshold
      BY <1>5, <2>3 DEF CreateIncident, RestInv, SlotRests, FailurePCs, CountedPCs
    <2>5. Cardinality(FailedResults(n)) >= NormalizedThreshold
      BY <1>0, <2>2, <2>4, FailedFinite
    <2>6. row.monitor = n /\ RowRests(row)
      BY <2>3, <2>4, <2>5 DEF RowRests
    <2>7. incidents' = incidents \cup {row}
      BY <1>5 DEF WithIncident
    <2> HIDE DEF row
    <2>8. \A i \in incidents' : RowRests(i)'
      BY <1>0, <1>2, <2>1, <2>6, <2>7 DEF RowRests
    <2> QED
      BY <2>8 DEF IncidentsRestOnChecks, RowRests, Failed, Succeeded
  <1> QED
    BY <1>3, <1>4, <1>5, RowsStep

LEMMA RestStep ==
  ASSUME TypeOK, AlertInv, RestInv, [Next]_vars
  PROVE  RestInv'
  <1>1. ASSUME NEW t \in Slots
        PROVE  SlotRests(t)'
    <2>1. CASE slot'[t] = slot[t]
      <3> SUFFICES ASSUME slot[t].pc # "idle", status'[slot[t].monitor] # "deleted"
                   PROVE  SlotRests(t)'
        BY <2>1 DEF SlotRests
      <3>1. PICK n \in Monitors : n = slot[t].monitor
        BY DEF TypeOK, SlotsTypeOK, HasJob
      <3>2. IsFiniteSet(results)
        BY DEF RestInv, FailuresCountOnce
      <3>3. status[n] # "deleted" /\ ~DeleteMonitor(n)
        BY <3>1, StaysKnown
      <3>4. /\ \A i : Failed(n, i) => Failed(n, i)'
            /\ \A i : Succeeded(n, i) => Succeeded(n, i)'
            /\ Cardinality(FailedResults(n)) \in Nat /\ Cardinality(FailedResults(n)') \in Nat
            /\ Cardinality(FailedResults(n)) <= Cardinality(FailedResults(n)')
        BY <3>2, <3>3, Grows
      <3>5. PICK at, started : at = slot[t].at /\ started = slot[t].startedAt
        OBVIOUS
      <3>6. /\ slot[t].pc \in FailurePCs => Failed(n, at)
            /\ slot[t].pc \in SuccessPCs => Succeeded(n, at)
            /\ slot[t].pc \in {"findToOpen", "create"} => Failed(n, started)
            /\ slot[t].pc \in CountedPCs => slot[t].count <= Cardinality(FailedResults(n))
            /\ slot[t].pc \in {"readFirst", "findToOpen", "create"} => slot[t].count >= NormalizedThreshold
        BY <3>1, <3>3, <3>5 DEF RestInv, SlotRests
      <3>7. slot[t].count \in Nat
        BY DEF TypeOK, SlotsTypeOK, SlotRecords
      <3>8. /\ slot[t].pc \in FailurePCs => Failed(n, at)'
            /\ slot[t].pc \in SuccessPCs => Succeeded(n, at)'
            /\ slot[t].pc \in {"findToOpen", "create"} => Failed(n, started)'
            /\ slot[t].pc \in CountedPCs => slot[t].count <= Cardinality(FailedResults(n)')
        BY <3>4, <3>6, <3>7
      <3> QED
        BY <2>1, <3>1, <3>5, <3>6, <3>8 DEF SlotRests, Failed, Succeeded, FailedResults
    <2>2. CASE SlotStep(t)
      BY <2>2, SlotRestsMove
    <2> QED
      <3>1. ASSUME NEW m \in Monitors, Environment(m) PROVE slot'[t] = slot[t]
        BY <3>1, EnvironmentWrites
      <3>2. ASSUME NEW s \in Slots, SlotStep(s) PROVE slot'[t] = slot[t] \/ SlotStep(t)
        BY <3>2, SlotMoves DEF SlotStep
      <3> QED
        BY <2>1, <2>2, <3>1, <3>2, StepKinds DEF vars
  <1>2. KeysRest' /\ FailuresCountOnce' /\ IncidentsRestOnChecks'
    BY KeysRestStep, FailuresCountOnceStep, IncidentsRestStep
  <1>3. Fresh' /\ IdsOfRows'
    BY FreshStep, IdsOfRowsStep DEF RestInv
  <1> QED
    BY <1>1, <1>2, <1>3 DEF RestInv

LEMMA RestInit == Init => RestInv
  <1> SUFFICES ASSUME Init PROVE RestInv
    OBVIOUS
  <1>1. results = {} /\ incidents = {} /\ \A s \in Slots : slot[s].pc = "idle" /\ slot[s].at = 0
    BY DEF Init, IdleSlot
  <1>2. clock = 0 /\ \A m \in Monitors : failureCount[m] = 0 /\ firstFailureAt[m] = NoTime
    BY DEF Init
  <1>3. \A m \in Monitors : Incrementing(m) = {} /\ FailedResults(m) = {}
    BY <1>1 DEF Incrementing, FailedResults
  <1>4. IsFiniteSet({}) /\ Cardinality({}) = 0
    BY FS_EmptySet
  <1>5. FailuresCountOnce
    <2>1. \A m \in Monitors : /\ IsFiniteSet(Incrementing(m)) /\ failureCount[m] = 0
                              /\ Cardinality(Incrementing(m)) = 0 /\ Cardinality(FailedResults(m)) = 0
      BY <1>2, <1>3, <1>4
    <2> QED
      BY <1>1, <1>4, <2>1 DEF FailuresCountOnce
  <1>6. Fresh
    BY <1>1, <1>2 DEF Fresh
  <1>7. (\A s \in Slots : SlotRests(s)) /\ KeysRest /\ IdsOfRows
    BY <1>1, <1>2 DEF SlotRests, KeysRest, IdsOfRows
  <1>8. IncidentsRestOnChecks
    BY <1>1 DEF IncidentsRestOnChecks
  <1> QED
    BY <1>5, <1>6, <1>7, <1>8 DEF RestInv

\* Every incident has its threshold of recorded failures behind it, begins and is
\* confirmed at the instant of one, and ends at that of a recorded success: for any
\* number of slots, with crashes, retries, expiring keys and deletions.
THEOREM IncidentRowsRest == Spec => []IncidentsRestOnChecks
  <1>1. TypeOK /\ AlertInv /\ [Next]_vars => AlertInv'
    BY AlertStep
  <1>2. TypeOK /\ AlertInv /\ RestInv /\ [Next]_vars => RestInv'
    BY RestStep
  <1>3. RestInv => IncidentsRestOnChecks
    BY DEF RestInv
  <1> QED
    BY <1>1, <1>2, <1>3, AlertInit, RestInit, TypeCorrect, PTL DEF Spec

-----------------------------------------------------------------------------
(* One job at a time *)

\* The job under way is that of the last check.
Latest ==
  /\ \A s \in Slots : slot[s].pc \notin {"idle", "load", "ack"} => slot[s].at = clock
  /\ \A m \in Monitors : lastCheckedAt[m] <= clock
  /\ \A i \in incidents : i.confirmedAt <= clock

LEMMA LatestStep ==
  ASSUME OneSlot, TypeOK, Latest, [Next]_vars
  PROVE  Latest'
  <1>0. /\ clock \in Nat /\ (\A m \in Monitors : lastCheckedAt[m] \in TimeOrNull)
        /\ (\A s \in Slots : slot[s].at \in Nat) /\ \A i \in incidents : i.confirmedAt \in Nat
    BY DEF TypeOK, DatabaseTypeOK, SlotsTypeOK, SlotRecords, IncidentRows
  <1>1. ASSUME NEW m \in Monitors, Environment(m)
        PROVE  Latest'
    <2>1. UNCHANGED <<slot, clock>> /\ incidents' \subseteq incidents
      BY <1>1, EnvironmentWrites DEF DeleteMonitor, WithoutMonitor
    <2>2. \A n \in Monitors : lastCheckedAt'[n] = lastCheckedAt[n] \/ lastCheckedAt'[n] = NoTime
      BY <1>1, EnvironmentWrites DEF DeleteMonitor, TypeOK, DatabaseTypeOK
    <2> QED
      BY <1>0, <2>1, <2>2 DEF Latest, NoTime
  <1>2. ASSUME NEW s \in Slots, SlotStep(s)
        PROVE  Latest'
    <2>0. \A t \in Slots : t = s
      BY DEF OneSlot
    <2>1. CASE Load(s)
      <3>1. UNCHANGED <<incidents, lastCheckedAt>>
        BY <2>1 DEF Load, database
      <3>2. \/ slot'[s].pc \in {"idle", "load", "ack"} /\ UNCHANGED clock
            \/ slot'[s].at = clock + 1 /\ clock' = clock + 1
        BY <2>1, SlotMoves DEF Ends
      <3>3. clock' >= clock
        BY <1>0, <3>2
      <3>4. \A m \in Monitors : lastCheckedAt'[m] <= clock'
        BY <1>0, <3>1, <3>2 DEF Latest, TimeOrNull, NoTime
      <3> QED
        BY <1>0, <2>0, <3>1, <3>2, <3>4 DEF Latest
    <2>2. CASE ~Load(s)
      <3>1. UNCHANGED clock
        BY <1>2, <2>2, SlotWrites
      <3>2. slot'[s].pc \notin {"idle", "load", "ack"} =>
              slot'[s].at = slot[s].at /\ slot[s].pc \notin {"idle", "load", "ack"}
        <4>1. CASE RecordCheckResult(s)
          BY <4>1, RecordWrites DEF RecordCheckResult, Goes
        <4>2. CASE Ending(s)
          BY <4>2, SlotMoves DEF Ends
        <4>3. CASE ~RecordCheckResult(s) /\ ~Ending(s)
          <5>1. slot[s].pc \notin {"idle", "load", "ack"}
            BY <1>2, <2>2, <4>3 DEF SlotStep, Advance, Ending, ClearFailures, FindIncidentToResolve, ResolveIncident,
               IncrementFailures, MarkFirstFailure, ReadFirstFailure, FindIncidentToOpen, CreateIncident
          <5> QED
            BY <1>2, <2>2, <4>3, <5>1, SlotMoves DEF SlotStep, Advance, Ending, Ends, Goes
        <4> QED
          BY <4>1, <4>2, <4>3
      <3>3. \A m \in Monitors : lastCheckedAt'[m] <= clock
        <4>1. CASE UNCHANGED lastCheckedAt
          BY <4>1 DEF Latest
        <4>2. CASE RecordCheckResult(s)
          <5>1. slot[s].at = clock
            BY <4>2 DEF RecordCheckResult, Latest
          <5>2. \A m \in Monitors : lastCheckedAt'[m] = lastCheckedAt[m] \/ lastCheckedAt'[m] = clock
            BY <4>2, <5>1 DEF RecordCheckResult, TypeOK, DatabaseTypeOK
          <5> QED
            BY <1>0, <5>2 DEF Latest
        <4> QED
          BY <1>2, <4>1, <4>2, SlotWrites
      <3>4. \A i \in incidents' : i.confirmedAt <= clock
        <4>1. CASE UNCHANGED incidents
          BY <4>1 DEF Latest
        <4>2. CASE ResolveIncident(s)
          <5>1. \A i \in incidents' : \E j \in incidents : i.confirmedAt = j.confirmedAt
            BY <4>2 DEF ResolveIncident, WithResolved, TypeOK, DatabaseTypeOK, IncidentRows
          <5> QED
            BY <5>1 DEF Latest
        <4>3. CASE CreateIncident(s)
          <5>1. slot[s].at = clock
            BY <4>3 DEF CreateIncident, Latest
          <5>2. \A i \in incidents' : i \in incidents \/ i.confirmedAt = clock
            BY <4>3, <5>1 DEF CreateIncident, WithIncident
          <5> QED
            BY <1>0, <5>2 DEF Latest
        <4> QED
          BY <1>2, <4>1, <4>2, <4>3, SlotWrites
      <3> QED
        BY <2>0, <3>1, <3>2, <3>3, <3>4 DEF Latest
    <2> QED
      BY <2>1, <2>2
  <1>3. CASE UNCHANGED vars
    BY <1>3 DEF vars, Latest
  <1> QED
    BY <1>1, <1>2, <1>3, StepKinds

LEMMA LatestInit == Init => Latest
  BY DEF Init, Latest, IdleSlot, NoTime

\* With one job at a time the time of the last check never goes back, while the
\* monitor is not deleted: a retried or delayed job cannot overwrite a later one.
THEOREM LastCheckOnlyAdvances ==
  ASSUME OneSlot
  PROVE  Spec => LastCheckedAtNeverGoesBack
  <1>1. TypeOK /\ Latest /\ [Next]_vars => Latest'
    BY LatestStep
  <1>2. TypeOK /\ Latest /\ [Next]_vars =>
          [\A m \in Monitors : status'[m] # "deleted" => lastCheckedAt[m] <= lastCheckedAt'[m]]_vars
    <2> SUFFICES ASSUME TypeOK, Latest, [Next]_vars, NEW m \in Monitors, status'[m] # "deleted"
                 PROVE  lastCheckedAt[m] <= lastCheckedAt'[m]
      OBVIOUS
    <2>0. lastCheckedAt[m] \in Int /\ lastCheckedAt[m] <= clock
      BY DEF TypeOK, DatabaseTypeOK, TimeOrNull, NoTime, Latest
    <2>1. ASSUME NEW n \in Monitors, Environment(n)
          PROVE  lastCheckedAt'[m] = lastCheckedAt[m]
      <3>1. n # m \/ ~DeleteMonitor(n)
        BY StaysKnown
      <3> QED
        BY <2>1, <3>1, EnvironmentWrites
    <2>2. ASSUME NEW s \in Slots, SlotStep(s)
          PROVE  lastCheckedAt'[m] = lastCheckedAt[m] \/ lastCheckedAt'[m] = clock
      <3>1. RecordCheckResult(s) => slot[s].at = clock
        BY DEF RecordCheckResult, Latest
      <3> QED
        BY <2>2, <3>1, SlotWrites DEF RecordCheckResult, TypeOK, DatabaseTypeOK
    <2> QED
      BY <2>0, <2>1, <2>2, StepKinds DEF vars
  <1> QED
    BY <1>1, <1>2, LatestInit, TypeCorrect, PTL DEF Spec, LastCheckedAtNeverGoesBack

-----------------------------------------------------------------------------
(* Each incident has its own failures *)

IncidentsOf(m) == {i \in incidents : i.monitor = m}
Resolved(m) == {i \in incidents : i.monitor = m /\ i.resolvedAt # NoTime}

\* Failures that stand behind a resolved incident are not counted any more.
OwnFailures ==
  /\ IsFiniteSet(incidents)
  /\ \A m \in Monitors : status[m] = "deleted" => IncidentsOf(m) = {}
  /\ \A m \in Monitors : status[m] # "deleted" =>
       /\ NormalizedThreshold * Cardinality(IncidentsOf(m)) <= Cardinality(FailedResults(m))
       /\ NormalizedThreshold * Cardinality(Resolved(m)) + failureCount[m] + Cardinality(Incrementing(m))
            <= Cardinality(FailedResults(m))
  /\ \A s \in Slots : slot[s].pc \in CountedPCs /\ status[slot[s].monitor] # "deleted" =>
       NormalizedThreshold * Cardinality(Resolved(slot[s].monitor)) + slot[s].count
         <= Cardinality(FailedResults(slot[s].monitor))
  /\ \A s \in Slots : slot[s].pc \in {"findToResolve", "resolve"} => failureCount[slot[s].monitor] = 0

LEMMA ThresholdType == NormalizedThreshold \in Nat \ {0}
  BY ThresholdAssumption DEF NormalizedThreshold

LEMMA TimesMonotone ==
  ASSUME NEW t \in Nat, NEW a \in Nat, NEW b \in Nat, a <= b
  PROVE  t * a \in Nat /\ t * b \in Nat /\ t * a <= t * b
  OBVIOUS

LEMMA TimesNext ==
  ASSUME NEW t \in Nat, NEW a \in Nat
  PROVE  t * (a + 1) = t * a + t
  OBVIOUS

LEMMA RowCounts ==
  ASSUME IsFiniteSet(incidents), NEW n
  PROVE  /\ IsFiniteSet(IncidentsOf(n)) /\ IsFiniteSet(Resolved(n)) /\ Resolved(n) \subseteq IncidentsOf(n)
         /\ Cardinality(IncidentsOf(n)) \in Nat /\ Cardinality(Resolved(n)) \in Nat
         /\ Cardinality(Resolved(n)) <= Cardinality(IncidentsOf(n))
  <1>1. IncidentsOf(n) \subseteq incidents /\ Resolved(n) \subseteq IncidentsOf(n)
    BY DEF IncidentsOf, Resolved
  <1> QED
    BY <1>1, FS_Subset, FS_CardinalityType

\* The rows of a monitor, in number, after a step.
LEMMA RowCountsStep ==
  ASSUME TypeOK, RestInv, [Next]_vars, IsFiniteSet(incidents), NEW n \in Monitors
  PROVE  /\ IsFiniteSet(incidents')
         /\ \/ Cardinality(IncidentsOf(n)') <= Cardinality(IncidentsOf(n))
            \/ \E s \in Slots : /\ CreateIncident(s) /\ slot[s].monitor = n
                                /\ Cardinality(IncidentsOf(n)') <= Cardinality(IncidentsOf(n)) + 1
         /\ \/ Cardinality(Resolved(n)') <= Cardinality(Resolved(n))
            \/ \E s \in Slots : ResolveIncident(s) /\ slot[s].monitor = n
         /\ Cardinality(IncidentsOf(n)') \in Nat /\ Cardinality(Resolved(n)') \in Nat
         /\ Cardinality(Resolved(n)') <= Cardinality(IncidentsOf(n)')
  <1>0. IsFiniteSet(IncidentsOf(n)) /\ IsFiniteSet(Resolved(n)) /\ Resolved(n) \subseteq IncidentsOf(n)
    BY RowCounts
  <1> DEFINE Counted ==
         /\ IsFiniteSet(incidents')
         /\ \/ Cardinality(IncidentsOf(n)') <= Cardinality(IncidentsOf(n))
            \/ \E s \in Slots : /\ CreateIncident(s) /\ slot[s].monitor = n
                                /\ Cardinality(IncidentsOf(n)') <= Cardinality(IncidentsOf(n)) + 1
         /\ \/ Cardinality(Resolved(n)') <= Cardinality(Resolved(n))
            \/ \E s \in Slots : ResolveIncident(s) /\ slot[s].monitor = n
  <1>1. ASSUME incidents' \subseteq incidents
        PROVE  Counted
    <2>1. IncidentsOf(n)' \subseteq IncidentsOf(n) /\ Resolved(n)' \subseteq Resolved(n)
      BY <1>1 DEF IncidentsOf, Resolved
    <2>2. IsFiniteSet(incidents')
      BY <1>1, FS_Subset
    <2>3. Cardinality(IncidentsOf(n)') <= Cardinality(IncidentsOf(n))
          /\ Cardinality(Resolved(n)') <= Cardinality(Resolved(n))
      BY <1>0, <2>1, FS_Subset
    <2> QED
      BY <2>2, <2>3
  <1>2. ASSUME NEW s \in Slots, ResolveIncident(s), incidents' = WithResolved(incidents, slot[s].incident, slot[s].at)
        PROVE  Counted
    <2>0. PICK id, at : id = slot[s].incident /\ at = slot[s].at
      OBVIOUS
    <2> DEFINE f == [j \in incidents |-> IF j.id = id THEN [j EXCEPT !.resolvedAt = at] ELSE j]
               g == [j \in IncidentsOf(n) |-> IF j.id = id THEN [j EXCEPT !.resolvedAt = at] ELSE j]
    <2>1. \A j \in incidents : [j EXCEPT !.resolvedAt = at].monitor = j.monitor
      BY DEF TypeOK, DatabaseTypeOK, IncidentRows
    <2>2. f \in Surjection(incidents, incidents')
      BY <1>2, <2>0 DEF WithResolved, Surjection
    <2>3. IsFiniteSet(incidents')
      BY <2>2, FS_Surjection
    <2>4. g \in Surjection(IncidentsOf(n), IncidentsOf(n)')
      BY <1>2, <2>0, <2>1 DEF WithResolved, IncidentsOf, Surjection
    <2>5. Cardinality(IncidentsOf(n)') <= Cardinality(IncidentsOf(n))
      BY <1>0, <2>4, FS_Surjection
    <2>6. slot[s].monitor = n \/ Cardinality(Resolved(n)') <= Cardinality(Resolved(n))
      <3> SUFFICES ASSUME slot[s].monitor # n
                   PROVE  Cardinality(Resolved(n)') <= Cardinality(Resolved(n))
        OBVIOUS
      <3>1. \A j \in incidents : j.id = id => j.monitor # n
        BY <1>2, <2>0 DEF ResolveIncident, RestInv, IdsOfRows
      <3>2. Resolved(n)' \subseteq Resolved(n)
        <4> SUFFICES ASSUME NEW i \in incidents', i.monitor = n, i.resolvedAt # NoTime
                     PROVE  i \in Resolved(n)
          BY DEF Resolved
        <4>1. PICK j \in incidents : i = IF j.id = id THEN [j EXCEPT !.resolvedAt = at] ELSE j
          BY <1>2, <2>0 DEF WithResolved
        <4>2. i = j
          BY <2>1, <3>1, <4>1
        <4> QED
          BY <4>2 DEF Resolved
      <3> QED
        BY <1>0, <3>2, FS_Subset
    <2> QED
      BY <1>2, <2>3, <2>5, <2>6
  <1>3. ASSUME NEW s \in Slots, CreateIncident(s),
               incidents' = WithIncident(incidents, lastIncident + 1, slot[s].monitor, slot[s].startedAt, slot[s].at)
        PROVE  Counted
    <2> DEFINE row == [id |-> lastIncident + 1, monitor |-> slot[s].monitor,
                       startedAt |-> slot[s].startedAt, confirmedAt |-> slot[s].at, resolvedAt |-> NoTime]
    <2>1. incidents' = incidents \cup {row} /\ row.resolvedAt = NoTime /\ row.monitor = slot[s].monitor
      BY <1>3 DEF WithIncident
    <2> HIDE DEF row
    <2>2. IsFiniteSet(incidents')
      BY <2>1, FS_AddElement
    <2>3. Resolved(n)' = Resolved(n)
      BY <2>1 DEF Resolved
    <2>4. CASE slot[s].monitor = n
      <3>1. IncidentsOf(n)' = IncidentsOf(n) \cup {row}
        BY <2>1, <2>4 DEF IncidentsOf
      <3>2. Cardinality(IncidentsOf(n)') <= Cardinality(IncidentsOf(n)) + 1
        <4>1. Cardinality(IncidentsOf(n)) \in Nat
          BY <1>0, FS_CardinalityType
        <4>2. \/ Cardinality(IncidentsOf(n) \cup {row}) = Cardinality(IncidentsOf(n))
              \/ Cardinality(IncidentsOf(n) \cup {row}) = Cardinality(IncidentsOf(n)) + 1
          BY <1>0, FS_AddElement
        <4>3. Cardinality(IncidentsOf(n)') = Cardinality(IncidentsOf(n) \cup {row})
          BY <3>1
        <4> QED
          BY <4>1, <4>2, <4>3
      <3> QED
        BY <1>0, <1>3, <2>2, <2>3, <2>4, <3>2, FS_CardinalityType
    <2>5. CASE slot[s].monitor # n
      <3>1. IncidentsOf(n)' = IncidentsOf(n)
        BY <2>1, <2>5 DEF IncidentsOf
      <3> QED
        BY <1>0, <2>2, <2>3, <3>1, FS_CardinalityType
    <2> QED
      BY <2>4, <2>5
  <1>4. Counted
    BY <1>1, <1>2, <1>3, RowsStep
  <1>5. IncidentsOf(n)' \subseteq incidents' /\ Resolved(n)' \subseteq IncidentsOf(n)'
    BY DEF IncidentsOf, Resolved
  <1>6. IsFiniteSet(IncidentsOf(n)') /\ IsFiniteSet(Resolved(n)')
    BY <1>4, <1>5, FS_Subset
  <1> QED
    BY <1>4, <1>5, <1>6, FS_Subset, FS_CardinalityType

\* One step of the accounts of a monitor that stays.
LEMMA OwnCountsStep ==
  ASSUME OneSlot, TypeOK, RestInv, SerialInv, OwnFailures, [Next]_vars, NEW n \in Monitors, status'[n] # "deleted"
  PROVE  /\ NormalizedThreshold * Cardinality(IncidentsOf(n)') <= Cardinality(FailedResults(n)')
         /\ NormalizedThreshold * Cardinality(Resolved(n)') + failureCount'[n] + Cardinality(Incrementing(n)')
              <= Cardinality(FailedResults(n)')
  <1>n. status[n] # "deleted"
    BY StaysKnown
  <1> DEFINE T == NormalizedThreshold
             I == Cardinality(IncidentsOf(n))
             R == Cardinality(Resolved(n))
             F == Cardinality(FailedResults(n))
             Ip == Cardinality(IncidentsOf(n)')
             Rp == Cardinality(Resolved(n)')
             Fp == Cardinality(FailedResults(n)')
  <1>0. /\ T \in Nat /\ I \in Nat /\ R \in Nat /\ F \in Nat /\ Ip \in Nat /\ Rp \in Nat /\ Fp \in Nat
        /\ R <= I /\ Rp <= Ip /\ F <= Fp
    <2>1. IsFiniteSet(incidents)
      BY DEF OwnFailures
    <2> QED
      BY <2>1, ThresholdType, RowCounts, RowCountsStep, CountsStep
  <1>1. T * I <= F /\ T * R + failureCount[n] + Cardinality(Incrementing(n)) <= F
    BY <1>n DEF OwnFailures
  <1>2. /\ failureCount[n] \in Nat /\ failureCount'[n] \in Nat
        /\ Cardinality(Incrementing(n)) \in Nat /\ Cardinality(Incrementing(n)') \in Nat
        /\ failureCount'[n] + Cardinality(Incrementing(n)') + F <= failureCount[n] + Cardinality(Incrementing(n)) + Fp
    BY CountsStep
  <1>3. \/ Ip <= I
        \/ \E s \in Slots : CreateIncident(s) /\ slot[s].monitor = n /\ Ip <= I + 1
    BY RowCountsStep DEF OwnFailures
  <1>4. Rp <= R \/ \E s \in Slots : ResolveIncident(s) /\ slot[s].monitor = n
    BY RowCountsStep DEF OwnFailures
  <1>5. T * Ip <= Fp
    <2>1. CASE Ip <= I
      <3>1. T * Ip \in Nat /\ T * I \in Nat /\ T * Ip <= T * I
        BY <1>0, <2>1, TimesMonotone
      <3> HIDE DEF T, I, F, Ip, Fp
      <3> QED
        BY <1>0, <1>1, <3>1
    <2>2. ASSUME NEW s \in Slots, CreateIncident(s), slot[s].monitor = n, Ip <= I + 1
          PROVE  T * Ip <= Fp
      <3>1. I = R
        <4>1. IncidentsOf(n) = Resolved(n)
          BY <2>2 DEF CreateIncident, SerialInv, CreateStillNeeded, OpenIncidents, IncidentsOf, Resolved
        <4> QED
          BY <4>1
      <3>2. slot[s].count \in Nat /\ slot[s].count >= T /\ T * R + slot[s].count <= F
        BY <1>n, <2>2 DEF CreateIncident, RestInv, SlotRests, OwnFailures, CountedPCs, TypeOK, SlotsTypeOK, SlotRecords
      <3>3. T * R \in Nat /\ T * (R + 1) = T * R + T /\ T * Ip \in Nat /\ T * Ip <= T * (R + 1)
        BY <1>0, <2>2, <3>1, TimesMonotone, TimesNext
      <3> HIDE DEF T, I, R, F, Ip, Fp
      <3> QED
        BY <1>0, <3>2, <3>3
    <2> QED
      BY <1>3, <2>1, <2>2
  <1>6. T * Rp + failureCount'[n] + Cardinality(Incrementing(n)') <= Fp
    <2>1. CASE Rp <= R
      <3>1. T * Rp \in Nat /\ T * R \in Nat /\ T * Rp <= T * R
        BY <1>0, <2>1, TimesMonotone
      <3> HIDE DEF T, R, F, Rp, Fp
      <3> QED
        BY <1>0, <1>1, <1>2, <3>1
    <2>2. ASSUME NEW s \in Slots, ResolveIncident(s), slot[s].monitor = n
          PROVE  T * Rp + failureCount'[n] + Cardinality(Incrementing(n)') <= Fp
      <3>1. failureCount'[n] = 0
        BY <2>2 DEF ResolveIncident, OwnFailures, redis
      <3>2. Incrementing(n)' = {}
        <4>1. slot'[s].pc = "enqueueRecovered"
          BY <2>2, SlotMoves DEF Goes
        <4> QED
          BY <4>1 DEF Incrementing, OneSlot
      <3>3. Cardinality(Incrementing(n)') = 0
        BY <3>2, FS_EmptySet
      <3>4. T * Rp \in Nat /\ T * Ip \in Nat /\ T * Rp <= T * Ip
        BY <1>0, TimesMonotone
      <3> HIDE DEF T, Rp, Ip, Fp
      <3> QED
        BY <1>0, <1>5, <3>1, <3>3, <3>4
    <2> QED
      BY <1>4, <2>1, <2>2
  <1> QED
    BY <1>5, <1>6

\* The count a job holds adds to the failures behind resolved incidents.
LEMMA OwnSlotStep ==
  ASSUME OneSlot, TypeOK, RestInv, OwnFailures, [Next]_vars, NEW t \in Slots, NEW n \in Monitors,
         slot'[t].pc \in CountedPCs, slot'[t].monitor = n, status'[n] # "deleted"
  PROVE  NormalizedThreshold * Cardinality(Resolved(n)') + slot'[t].count <= Cardinality(FailedResults(n)')
  <1>n. status[n] # "deleted"
    BY StaysKnown
  <1> DEFINE T == NormalizedThreshold
             R == Cardinality(Resolved(n))
             F == Cardinality(FailedResults(n))
             Rp == Cardinality(Resolved(n)')
             Fp == Cardinality(FailedResults(n)')
  <1>0. /\ T \in Nat /\ R \in Nat /\ F \in Nat /\ Rp \in Nat /\ Fp \in Nat /\ F <= Fp
        /\ slot[t].count \in Nat
    <2>1. IsFiniteSet(incidents)
      BY DEF OwnFailures
    <2> QED
      BY <2>1, ThresholdType, RowCounts, RowCountsStep, CountsStep DEF TypeOK, SlotsTypeOK, SlotRecords
  <1>1. Rp <= R
    <2>1. ASSUME NEW s \in Slots, ResolveIncident(s)
          PROVE  FALSE
      BY <2>1, SlotMoves DEF OneSlot, Goes, CountedPCs
    <2> QED
      BY <2>1, RowCountsStep DEF OwnFailures
  <1>2. T * Rp \in Nat /\ T * R \in Nat /\ T * Rp <= T * R
    BY <1>0, <1>1, TimesMonotone
  <1>3. ASSUME slot[t].pc \in CountedPCs, slot'[t].count = slot[t].count, slot[t].monitor = n
        PROVE  T * Rp + slot'[t].count <= Fp
    <2>1. T * R + slot[t].count <= F
      BY <1>n, <1>3 DEF OwnFailures
    <2> HIDE DEF T, R, F, Rp, Fp
    <2> QED
      BY <1>0, <1>2, <1>3, <2>1
  <1>4. ASSUME NEW m \in Monitors, Environment(m)
        PROVE  T * Rp + slot'[t].count <= Fp
    BY <1>3, <1>4, EnvironmentWrites
  <1>5. ASSUME SlotStep(t)
        PROVE  T * Rp + slot'[t].count <= Fp
    <2>1. CASE IncrementFailures(t)
      <3>1. slot'[t].count = failureCount[n] + 1 /\ t \in Incrementing(n)
        BY <2>1, SlotMoves DEF Goes, IncrementFailures, Incrementing
      <3>2. IsFiniteSet(Incrementing(n)) /\ failureCount[n] \in Nat
        BY DEF RestInv, FailuresCountOnce, TypeOK, RedisTypeOK
      <3>3. Cardinality(Incrementing(n)) \in Nat \ {0}
        BY <3>1, <3>2, FS_EmptySet, FS_CardinalityType
      <3>4. T * R + failureCount[n] + Cardinality(Incrementing(n)) <= F
        BY <1>n DEF OwnFailures
      <3> HIDE DEF T, R, F, Rp, Fp
      <3> QED
        BY <1>0, <1>2, <3>1, <3>2, <3>3, <3>4
    <2>2. CASE MarkFirstFailure(t) \/ ReadFirstFailure(t) \/ FindIncidentToOpen(t)
      <3>1. slot'[t].count = slot[t].count /\ slot[t].monitor = n
        BY <2>2, SlotMoves DEF Goes, Ends, CountedPCs
      <3>2. slot[t].pc \in CountedPCs
        BY <2>2 DEF MarkFirstFailure, ReadFirstFailure, FindIncidentToOpen, CountedPCs
      <3> QED
        BY <1>3, <3>1, <3>2
    <2>3. CASE RecordCheckResult(t)
      BY <2>3, RecordWrites DEF Goes, CountedPCs
    <2>4. CASE ~RecordCheckResult(t) /\ ~IncrementFailures(t) /\ ~MarkFirstFailure(t) /\ ~ReadFirstFailure(t)
               /\ ~FindIncidentToOpen(t)
      BY <1>5, <2>4, SlotMoves DEF SlotStep, Advance, Ending, Ends, Goes, CountedPCs
    <2> QED
      BY <2>1, <2>2, <2>3, <2>4
  <1>6. CASE UNCHANGED vars
    BY <1>3, <1>6 DEF vars
  <1> QED
    BY <1>4, <1>5, <1>6, StepKinds DEF OneSlot

LEMMA OwnStep ==
  ASSUME OneSlot, TypeOK, RestInv, SerialInv, OwnFailures, [Next]_vars
  PROVE  OwnFailures'
  <1>0. IsFiniteSet(incidents) /\ \A i \in incidents : i.monitor \in Monitors
    BY DEF OwnFailures, TypeOK, DatabaseTypeOK, IncidentRows
  <1>1. ASSUME NEW n \in Monitors
        PROVE  IsFiniteSet(incidents')
    BY <1>0, RowCountsStep
  <1>2. IsFiniteSet(incidents')
    <2>1. CASE Monitors = {}
      <3>1. incidents' \subseteq IncidentRows(Monitors)
        BY TypeStep DEF TypeOK, DatabaseTypeOK
      <3>2. incidents' = {}
        BY <2>1, <3>1 DEF IncidentRows
      <3> QED
        BY <3>2, FS_EmptySet
    <2> QED
      BY <1>1, <2>1
  <1>3. ASSUME NEW n \in Monitors, status'[n] = "deleted"
        PROVE  IncidentsOf(n)' = {}
    <2>1. CASE DeleteMonitor(n)
      BY <2>1 DEF DeleteMonitor, WithoutMonitor, IncidentsOf
    <2>2. CASE ~DeleteMonitor(n)
      <3>1. status[n] = "deleted"
        <4>1. ASSUME NEW m \in Monitors, Environment(m)
              PROVE  status[n] = "deleted"
          BY <1>3, <2>2, <4>1, EnvironmentWrites
        <4>2. ASSUME NEW s \in Slots, SlotStep(s)
              PROVE  status[n] = "deleted"
          BY <1>3, <4>2, SlotWrites
        <4> QED
          BY <1>3, <4>1, <4>2, StepKinds DEF vars
      <3>2. \A i \in incidents : i.monitor # n
        BY <3>1 DEF OwnFailures, IncidentsOf
      <3>3. CASE incidents' \subseteq incidents
        BY <3>2, <3>3 DEF IncidentsOf
      <3>4. CASE \E s \in Slots : ResolveIncident(s) /\ incidents' = WithResolved(incidents, slot[s].incident, slot[s].at)
        <4>1. \A i \in incidents' : \E j \in incidents : i.monitor = j.monitor
          BY <3>4 DEF WithResolved, TypeOK, DatabaseTypeOK, IncidentRows
        <4> QED
          BY <3>2, <4>1 DEF IncidentsOf
      <3>5. CASE \E s \in Slots :
              /\ CreateIncident(s) /\ lastIncident' = lastIncident + 1
              /\ incidents' = WithIncident(incidents, lastIncident + 1, slot[s].monitor, slot[s].startedAt, slot[s].at)
        <4>1. \A i \in incidents' : i \in incidents \/ i.monitor # n
          BY <3>1, <3>5 DEF CreateIncident, WithIncident
        <4> QED
          BY <3>2, <4>1 DEF IncidentsOf
      <3> QED
        BY <3>3, <3>4, <3>5, RowsStep
    <2> QED
      BY <2>1, <2>2
  <1>4. \A n \in Monitors : status'[n] # "deleted" =>
          /\ NormalizedThreshold * Cardinality(IncidentsOf(n)') <= Cardinality(FailedResults(n)')
          /\ NormalizedThreshold * Cardinality(Resolved(n)') + failureCount'[n] + Cardinality(Incrementing(n)')
               <= Cardinality(FailedResults(n)')
    BY OwnCountsStep
  <1>5. ASSUME NEW t \in Slots, slot'[t].pc \in CountedPCs, status'[slot'[t].monitor] # "deleted"
        PROVE  (NormalizedThreshold * Cardinality(Resolved(slot[t].monitor)) + slot[t].count
                  <= Cardinality(FailedResults(slot[t].monitor)))'
    <2>1. slot'[t].monitor \in Monitors
      BY <1>5, TypeStep DEF TypeOK, SlotsTypeOK, HasJob, CountedPCs
    <2>2. PICK n \in Monitors : n = slot'[t].monitor
      BY <2>1
    <2>3. NormalizedThreshold * Cardinality(Resolved(n)') + slot'[t].count <= Cardinality(FailedResults(n)')
      BY <1>5, <2>2, OwnSlotStep
    <2> QED
      BY <2>2, <2>3 DEF Resolved, FailedResults, NormalizedThreshold
  <1>6. ASSUME NEW t \in Slots, slot'[t].pc \in {"findToResolve", "resolve"}
        PROVE  failureCount'[slot'[t].monitor] = 0
    <2>1. ASSUME NEW m \in Monitors, Environment(m)
          PROVE  failureCount'[slot'[t].monitor] = 0
      <3>1. slot'[t] = slot[t]
        BY <2>1, EnvironmentWrites
      <3>2. slot[t].monitor \in Monitors
        BY <1>6, <3>1 DEF TypeOK, SlotsTypeOK, HasJob
      <3> QED
        BY <1>6, <2>1, <3>1, <3>2, EnvironmentWrites DEF OwnFailures
    <2>2. ASSUME SlotStep(t)
          PROVE  failureCount'[slot'[t].monitor] = 0
      <3>1. CASE ClearFailures(t)
        <4>1. slot'[t].monitor = slot[t].monitor /\ slot[t].monitor \in Monitors
          BY <3>1, SlotMoves DEF Goes, ClearFailures, TypeOK, SlotsTypeOK, HasJob
        <4> QED
          BY <3>1, <4>1 DEF ClearFailures, TypeOK, RedisTypeOK
      <3>2. CASE FindIncidentToResolve(t)
        BY <1>6, <3>2, SlotMoves DEF Goes, Ends, FindIncidentToResolve, redis, OwnFailures
      <3>3. CASE RecordCheckResult(t)
        BY <1>6, <3>3, RecordWrites DEF Goes
      <3>4. CASE ~RecordCheckResult(t) /\ ~ClearFailures(t) /\ ~FindIncidentToResolve(t)
        BY <1>6, <2>2, <3>4, SlotMoves DEF SlotStep, Advance, Ending, Ends, Goes
      <3> QED
        BY <3>1, <3>2, <3>3, <3>4
    <2>3. CASE UNCHANGED vars
      BY <1>6, <2>3 DEF vars, OwnFailures
    <2> QED
      BY <2>1, <2>2, <2>3, StepKinds DEF OneSlot
  <1> QED
    BY <1>2, <1>3, <1>4, <1>5, <1>6 DEF OwnFailures, NormalizedThreshold

LEMMA OwnInit == Init => OwnFailures
  <1> SUFFICES ASSUME Init PROVE OwnFailures
    OBVIOUS
  <1>1. incidents = {} /\ results = {} /\ \A s \in Slots : slot[s].pc = "idle"
    BY DEF Init, IdleSlot
  <1>2. ASSUME NEW m \in Monitors
        PROVE  /\ IncidentsOf(m) = {} /\ failureCount[m] = 0
               /\ Cardinality(IncidentsOf(m)) = 0 /\ Cardinality(Resolved(m)) = 0
               /\ Cardinality(Incrementing(m)) = 0 /\ Cardinality(FailedResults(m)) = 0
    <2>1. IncidentsOf(m) = {} /\ Resolved(m) = {} /\ Incrementing(m) = {} /\ FailedResults(m) = {}
      BY <1>1 DEF IncidentsOf, Resolved, Incrementing, FailedResults
    <2> QED
      BY <2>1, FS_EmptySet DEF Init
  <1>3. NormalizedThreshold * 0 = 0
    BY ThresholdType
  <1> QED
    BY <1>1, <1>2, <1>3, FS_EmptySet DEF OwnFailures, CountedPCs

\* With one job at a time no failed check is counted for two incidents: a monitor
\* has recorded its threshold of failures for each of its incidents.
THEOREM IncidentsHaveTheirOwnFailures ==
  ASSUME OneSlot
  PROVE  Spec => []EachIncidentHasItsOwnFailures
  <1>1. Init => TypeOK /\ AlertInv /\ RestInv /\ SerialInv /\ OwnFailures
    <2>1. Init => SerialInv
      BY DEF Init, SerialInv, AtMostOneOpenIncident, CreateStillNeeded, IdleSlot
    <2> QED
      BY <2>1, TypeInit, AlertInit, RestInit, OwnInit
  <1>2. TypeOK /\ AlertInv /\ RestInv /\ SerialInv /\ OwnFailures /\ [Next]_vars
          => (TypeOK /\ AlertInv /\ RestInv /\ SerialInv /\ OwnFailures)'
    BY TypeStep, AlertStep, RestStep, SerialStep, OwnStep
  <1>3. TypeOK /\ RestInv /\ OwnFailures => EachIncidentHasItsOwnFailures
    <2> SUFFICES ASSUME TypeOK, RestInv, OwnFailures, NEW m \in Monitors
                 PROVE  NormalizedThreshold * Cardinality(IncidentsOf(m)) <= Cardinality(FailedResults(m))
      BY DEF EachIncidentHasItsOwnFailures, IncidentsOf
    <2>1. CASE status[m] = "deleted"
      <3>1. Cardinality(IncidentsOf(m)) = 0
        BY <2>1, FS_EmptySet DEF OwnFailures
      <3>2. Cardinality(FailedResults(m)) \in Nat
        BY FailedFinite DEF RestInv, FailuresCountOnce
      <3>3. NormalizedThreshold * 0 = 0
        BY ThresholdType
      <3> QED
        BY <3>1, <3>2, <3>3
    <2>2. CASE status[m] # "deleted"
      BY <2>2 DEF OwnFailures
    <2> QED
      BY <2>1, <2>2
  <1> QED
    BY <1>1, <1>2, <1>3, PTL DEF Spec

-----------------------------------------------------------------------------
(* Outages without a success, as long as nothing fails *)

\* No success lies strictly between two instants.
Quiet(m, from, to) == \A r \in results : r.monitor = m /\ r.isUp => ~(from < r.at /\ r.at < to)

\* No success since the first failure, but the one whose slot is about to clear it.
SinceFirst(m) ==
  status[m] # "deleted" /\ firstFailureAt[m] # NoTime
    /\ ~(\E s \in Slots : slot[s].pc = "clear" /\ slot[s].monitor = m) =>
      \A r \in results : r.monitor = m /\ r.isUp => r.at <= firstFailureAt[m]

\* The outage a job is about to open is without one too.
AboutToOpen(s) ==
  slot[s].pc \in {"findToOpen", "create"} /\ status[slot[s].monitor] # "deleted" =>
    Quiet(slot[s].monitor, slot[s].startedAt, slot[s].at)

Continuous ==
  failures = 0 =>
    /\ OutageHasNoSuccess
    /\ \A m \in Monitors : SinceFirst(m)
    /\ \A s \in Slots : AboutToOpen(s)

\* A step that records no success leaves every quiet interval quiet.
LEMMA StillQuiet ==
  ASSUME NEW m, NEW from, NEW to, Quiet(m, from, to), \A r \in results' : r \in results \/ r.monitor # m \/ ~r.isUp
  PROVE  Quiet(m, from, to)'
  BY DEF Quiet

\* The successes recorded by a step: none, or one at the clock of the slot that goes on to clear.
LEMMA NewSuccess ==
  ASSUME OneSlot, TypeOK, Latest, [Next]_vars
  PROVE  \/ \A r \in results' : r \in results \/ ~r.isUp
         \/ \E s \in Slots : /\ slot'[s].pc = "clear" /\ RecordCheckResult(s) /\ slot'[s].monitor = slot[s].monitor
                             /\ \A r \in results' : r \in results \/ (r.monitor = slot[s].monitor /\ r.at = clock)
  <1>1. ASSUME NEW m \in Monitors, Environment(m)
        PROVE  results' \subseteq results
    BY <1>1, EnvironmentWrites DEF DeleteMonitor
  <1>2. ASSUME NEW s \in Slots, RecordCheckResult(s)
        PROVE  \/ \A r \in results' : r \in results \/ ~r.isUp
               \/ /\ slot'[s].pc = "clear" /\ slot'[s].monitor = slot[s].monitor
                  /\ \A r \in results' : r \in results \/ (r.monitor = slot[s].monitor /\ r.at = clock)
    <2>1. PICK isUp \in BOOLEAN :
           /\ results' = results \cup {[monitor |-> slot[s].monitor, at |-> slot[s].at, isUp |-> isUp]}
           /\ slot'[s].pc = (IF isUp THEN "clear" ELSE "increment") /\ slot'[s].monitor = slot[s].monitor
      BY <1>2, RecordWrites DEF Goes
    <2>2. slot[s].at = clock
      BY <1>2 DEF RecordCheckResult, Latest
    <2> QED
      BY <2>1, <2>2
  <1> QED
    BY <1>1, <1>2, SlotWrites, StepKinds DEF vars

LEMMA ContinuousRows ==
  ASSUME OneSlot, TypeOK, Latest, OutageHasNoSuccess, \A s \in Slots : AboutToOpen(s), [Next]_vars
  PROVE  OutageHasNoSuccess'
  <1>0. /\ clock \in Nat /\ \A i \in incidents : i.startedAt \in Nat /\ i.confirmedAt \in Nat /\ i.confirmedAt <= clock
        /\ \A r \in results : r.at \in Nat
    BY DEF TypeOK, DatabaseTypeOK, IncidentRows, Latest
  <1>1. \A i \in incidents' :
          \/ \E j \in incidents : i.monitor = j.monitor /\ i.startedAt = j.startedAt /\ i.confirmedAt = j.confirmedAt
          \/ \E s \in Slots : /\ CreateIncident(s) /\ i.monitor = slot[s].monitor
                              /\ i.startedAt = slot[s].startedAt /\ i.confirmedAt = slot[s].at
    <2>1. CASE incidents' \subseteq incidents
      BY <2>1
    <2>2. CASE \E s \in Slots : ResolveIncident(s) /\ incidents' = WithResolved(incidents, slot[s].incident, slot[s].at)
      BY <2>2 DEF WithResolved, TypeOK, DatabaseTypeOK, IncidentRows
    <2>3. CASE \E s \in Slots :
              /\ CreateIncident(s) /\ lastIncident' = lastIncident + 1
              /\ incidents' = WithIncident(incidents, lastIncident + 1, slot[s].monitor, slot[s].startedAt, slot[s].at)
      BY <2>3 DEF WithIncident
    <2> QED
      BY <2>1, <2>2, <2>3, RowsStep
  <1>2. \A i \in incidents' : i.confirmedAt <= clock
    <2>1. \A s \in Slots : CreateIncident(s) => slot[s].at <= clock
      BY <1>0 DEF CreateIncident, Latest
    <2> QED
      BY <1>0, <1>1, <2>1
  <1>3. \A i \in incidents' : \A r \in results :
          r.monitor = i.monitor /\ r.isUp => ~(i.startedAt < r.at /\ r.at < i.confirmedAt)
    <2>1. \A s \in Slots : CreateIncident(s) => Quiet(slot[s].monitor, slot[s].startedAt, slot[s].at)
      BY DEF CreateIncident, AboutToOpen
    <2> QED
      BY <1>1, <2>1 DEF OutageHasNoSuccess, Quiet
  <1>4. \A r \in results' : r \in results \/ ~r.isUp \/ r.at = clock
    BY NewSuccess
  <1>5. \A i \in incidents' : i.confirmedAt \in Nat
    BY TypeStep DEF TypeOK, DatabaseTypeOK, IncidentRows
  <1> QED
    BY <1>0, <1>2, <1>3, <1>4, <1>5 DEF OutageHasNoSuccess

LEMMA ContinuousStep ==
  ASSUME OneSlot, TypeOK, Fresh, Latest, Continuous, [Next]_vars
  PROVE  Continuous'
  <1> SUFFICES ASSUME failures' = 0
               PROVE  /\ OutageHasNoSuccess'
                      /\ \A m \in Monitors : SinceFirst(m)'
                      /\ \A s \in Slots : AboutToOpen(s)'
    BY DEF Continuous
  <1>0. /\ clock \in Nat /\ (\A r \in results : r.at \in Nat /\ r.at <= clock) /\ \A s \in Slots : ~Fail(s)
        /\ failures = 0
    <2>1. failures \in Nat
      BY DEF TypeOK
    <2>2. \A s \in Slots : ~Fail(s)
      BY <2>1 DEF Fail
    <2>3. failures = 0
      BY <2>2, EnvironmentWrites, SlotWrites, StepKinds DEF vars
    <2> QED
      BY <2>2, <2>3 DEF TypeOK, DatabaseTypeOK, Fresh
  <1>1. OutageHasNoSuccess /\ (\A m \in Monitors : SinceFirst(m)) /\ \A s \in Slots : AboutToOpen(s)
    BY <1>0 DEF Continuous
  <1>2. OutageHasNoSuccess'
    BY <1>1, ContinuousRows
  <1>3. ASSUME NEW n \in Monitors, status'[n] # "deleted", firstFailureAt'[n] # NoTime,
               ~(\E s \in Slots : slot'[s].pc = "clear" /\ slot'[s].monitor = n)
        PROVE  \A r \in results' : r.monitor = n /\ r.isUp => r.at <= firstFailureAt'[n]
    <2>n. status[n] # "deleted"
      BY <1>3, StaysKnown
    <2>1. \A r \in results' : r.monitor = n /\ r.isUp => r \in results
      BY <1>3, NewSuccess
    <2>2. ASSUME NEW s \in Slots, slot[s].pc = "clear", slot[s].monitor = n
          PROVE  FALSE
      <3>1. slot'[s] # slot[s]
        BY <1>3, <2>2
      <3>2. SlotStep(s)
        BY <3>1, EnvironmentWrites, StepKinds DEF OneSlot, vars
      <3>3. ClearFailures(s)
        BY <1>0, <2>2, <3>2 DEF SlotStep, Claim, Advance, Load, RecordCheckResult, FindIncidentToResolve,
           ResolveIncident, EnqueueRecovered, IncrementFailures, MarkFirstFailure, ReadFirstFailure, FindIncidentToOpen,
           CreateIncident, EnqueueDown, Acknowledge, FailMissing
      <3>4. firstFailureAt'[n] = NoTime
        BY <2>2, <3>3 DEF ClearFailures, TypeOK, RedisTypeOK
      <3> QED
        BY <1>3, <3>4
    <2>3. CASE firstFailureAt'[n] = firstFailureAt[n]
      <3>1. \A r \in results : r.monitor = n /\ r.isUp => r.at <= firstFailureAt[n]
        BY <1>1, <1>3, <2>n, <2>2, <2>3 DEF SinceFirst
      <3> QED
        BY <2>1, <2>3, <3>1
    <2>4. CASE firstFailureAt'[n] # firstFailureAt[n]
      <3>1. PICK s \in Slots : SlotStep(s)
        BY <1>3, <2>4, EnvironmentWrites, StepKinds DEF vars
      <3>2. ~ClearFailures(s)
        BY <1>3, <2>4 DEF ClearFailures, TypeOK, RedisTypeOK
      <3>3. MarkFirstFailure(s)
        BY <2>4, <3>1, <3>2, SlotWrites
      <3>4. slot[s].at = clock
        BY <3>3 DEF MarkFirstFailure, Latest
      <3>5. firstFailureAt'[n] = clock
        BY <2>4, <3>3, <3>4 DEF MarkFirstFailure, TypeOK, RedisTypeOK
      <3> QED
        BY <1>0, <2>1, <3>5
    <2> QED
      BY <2>3, <2>4
  <1>4. ASSUME NEW t \in Slots, slot'[t].pc \in {"findToOpen", "create"}, status'[slot'[t].monitor] # "deleted"
        PROVE  Quiet(slot[t].monitor, slot[t].startedAt, slot[t].at)'
    <2>1. \A r \in results' : r \in results \/ ~r.isUp
      BY <1>4, NewSuccess DEF OneSlot
    <2>2. ASSUME NEW n, NEW from, NEW to, n = slot'[t].monitor, from = slot'[t].startedAt, to = slot'[t].at,
                 Quiet(n, from, to)
          PROVE  Quiet(slot[t].monitor, slot[t].startedAt, slot[t].at)'
      BY <2>1, <2>2 DEF Quiet
    <2>3. slot'[t].monitor \in Monitors
      BY <1>4, TypeStep DEF TypeOK, SlotsTypeOK, HasJob
    <2>n. status[slot'[t].monitor] # "deleted"
      BY <1>4, <2>3, StaysKnown
    <2>4. CASE slot'[t] = slot[t] \/ FindIncidentToOpen(t)
      <3>1. slot'[t].monitor = slot[t].monitor /\ slot'[t].startedAt = slot[t].startedAt /\ slot'[t].at = slot[t].at
        BY <1>4, <2>4, SlotMoves DEF Goes, Ends
      <3>2. slot[t].pc \in {"findToOpen", "create"}
        BY <1>4, <2>4 DEF FindIncidentToOpen
      <3>3. Quiet(slot[t].monitor, slot[t].startedAt, slot[t].at)
        BY <1>1, <2>n, <3>1, <3>2 DEF AboutToOpen
      <3> QED
        BY <2>2, <3>1, <3>3
    <2>5. CASE ReadFirstFailure(t)
      <3>1. PICK n \in Monitors : n = slot'[t].monitor
        BY <2>3
      <3>2. PICK first, at : first = firstFailureAt[n] /\ at = slot[t].at
        OBVIOUS
      <3>3. /\ slot[t].monitor = n /\ slot'[t].at = at
            /\ slot'[t].startedAt = IF first # NoTime THEN first ELSE at
        BY <2>5, <3>1, <3>2, SlotMoves DEF Goes
      <3>4. at \in Nat /\ first \in TimeOrNull
        BY <3>2 DEF TypeOK, SlotsTypeOK, SlotRecords, RedisTypeOK
      <3>5. Quiet(n, at, at)
        BY <1>0, <3>4 DEF Quiet
      <3>6. first # NoTime => Quiet(n, first, at)
        <4>1. first # NoTime => \A r \in results : r.monitor = n /\ r.isUp => r.at <= first
          BY <1>1, <2>5, <2>n, <3>1, <3>2 DEF SinceFirst, OneSlot, ReadFirstFailure
        <4> QED
          BY <1>0, <3>4, <4>1 DEF Quiet, TimeOrNull
      <3> QED
        BY <2>2, <3>1, <3>3, <3>5, <3>6
    <2>6. ASSUME slot'[t] # slot[t], ~FindIncidentToOpen(t), ~ReadFirstFailure(t)
          PROVE  FALSE
      <3>1. SlotStep(t)
        BY <2>6, EnvironmentWrites, StepKinds DEF OneSlot, vars
      <3>2. ~RecordCheckResult(t)
        BY <1>4, RecordWrites DEF Goes
      <3> QED
        BY <1>4, <2>6, <3>1, <3>2, SlotMoves DEF SlotStep, Advance, Ending, Ends, Goes
    <2> QED
      BY <2>4, <2>5, <2>6
  <1> QED
    BY <1>2, <1>3, <1>4 DEF SinceFirst, AboutToOpen

\* With one job at a time, and as long as nothing fails, an incident spans
\* consecutive failures: no success was recorded between its first and its last.
THEOREM OutagesAreContinuous ==
  ASSUME OneSlot
  PROVE  Spec => []FaultFreeOutagesAreContinuous
  <1>1. Init => Fresh /\ Continuous
    <2>1. Init => Fresh
      BY RestInit DEF RestInv
    <2>2. Init => Continuous
      BY DEF Init, IdleSlot, Continuous, OutageHasNoSuccess, SinceFirst, AboutToOpen
    <2> QED
      BY <2>1, <2>2
  <1>2. TypeOK /\ Fresh /\ Latest /\ Continuous /\ [Next]_vars => (Fresh /\ Latest /\ Continuous)'
    BY FreshStep, LatestStep, ContinuousStep
  <1>3. Continuous => FaultFreeOutagesAreContinuous
    BY DEF Continuous, FaultFreeOutagesAreContinuous
  <1> QED
    BY <1>1, <1>2, <1>3, LatestInit, TypeCorrect, PTL DEF Spec

-----------------------------------------------------------------------------
(* With one job at a time, its steps implement the lifecycle of incidents *)

\* The incident to resolve is the open one.
ResolvesOpen ==
  /\ \A i \in incidents : i.id >= 1
  /\ \A s \in Slots : slot[s].pc = "resolve" /\ status[slot[s].monitor] # "deleted" =>
       \E i \in OpenIncidents(incidents, slot[s].monitor) : i.id = slot[s].incident

LEMMA ResolvesOpenStep ==
  ASSUME OneSlot, TypeOK, ResolvesOpen, [Next]_vars
  PROVE  ResolvesOpen'
  <1>1. \A i \in incidents' : i.id >= 1
    <2>1. CASE incidents' \subseteq incidents
      BY <2>1 DEF ResolvesOpen
    <2>2. CASE \E s \in Slots : ResolveIncident(s) /\ incidents' = WithResolved(incidents, slot[s].incident, slot[s].at)
      <3>1. \A i \in incidents' : \E j \in incidents : i.id = j.id
        BY <2>2 DEF WithResolved, TypeOK, DatabaseTypeOK, IncidentRows
      <3> QED
        BY <3>1 DEF ResolvesOpen
    <2>3. CASE \E s \in Slots :
              /\ CreateIncident(s) /\ lastIncident' = lastIncident + 1
              /\ incidents' = WithIncident(incidents, lastIncident + 1, slot[s].monitor, slot[s].startedAt, slot[s].at)
      <3>1. \A i \in incidents' : i \in incidents \/ i.id = lastIncident + 1
        BY <2>3 DEF WithIncident
      <3>2. lastIncident + 1 >= 1
        BY DEF TypeOK, DatabaseTypeOK
      <3> QED
        BY <3>1, <3>2 DEF ResolvesOpen
    <2> QED
      BY <2>1, <2>2, <2>3, RowsStep
  <1>2. ASSUME NEW s \in Slots, slot'[s].pc = "resolve", status'[slot'[s].monitor] # "deleted"
        PROVE  \E i \in OpenIncidents(incidents, slot[s].monitor)' : i.id = slot'[s].incident
    <2>0. slot'[s].monitor \in Monitors
      BY <1>2, TypeStep DEF TypeOK, SlotsTypeOK, HasJob
    <2>1. PICK n \in Monitors : n = slot'[s].monitor
      BY <2>0
    <2>2. status[n] # "deleted" /\ ~DeleteMonitor(n)
      BY <1>2, <2>1, StaysKnown
    <2>3. \E i \in OpenIncidents(incidents, n) : i.id = slot'[s].incident /\ (UNCHANGED slot \/ UNCHANGED incidents)
      <3>1. ASSUME NEW m \in Monitors, Environment(m)
            PROVE  UNCHANGED slot
        BY <3>1, EnvironmentWrites
      <3>2. CASE UNCHANGED slot
        BY <1>2, <2>1, <2>2, <3>2 DEF ResolvesOpen
      <3>3. CASE SlotStep(s)
        <4>1. ~RecordCheckResult(s)
          BY <1>2, RecordWrites DEF Goes
        <4>2. FindIncidentToResolve(s)
          BY <1>2, <3>3, <4>1, SlotMoves DEF SlotStep, Advance, Ending, Ends, Goes
        <4> QED
          BY <1>2, <2>1, <4>2, SlotMoves DEF Goes, Ends, FindIncidentToResolve, database, FindOpen
      <3> QED
        BY <3>1, <3>2, <3>3, StepKinds DEF OneSlot, vars
    <2>4. PICK i \in incidents : i.monitor = n /\ i.resolvedAt = NoTime /\ i.id = slot'[s].incident
      BY <2>3 DEF OpenIncidents
    <2>5. i \in incidents'
      <3>1. CASE UNCHANGED incidents
        BY <3>1
      <3>2. CASE UNCHANGED slot
        <4>1. ASSUME NEW m \in Monitors, Environment(m)
              PROVE  i \in incidents'
          BY <2>2, <2>4, <4>1, EnvironmentWrites DEF DeleteMonitor, WithoutMonitor
        <4>2. ASSUME NEW t \in Slots, SlotStep(t)
              PROVE  UNCHANGED incidents
          <5>1. ~ResolveIncident(t) /\ ~CreateIncident(t)
            BY <3>2, SlotMoves DEF Goes, ResolveIncident, CreateIncident
          <5> QED
            BY <4>2, <5>1, SlotWrites
        <4> QED
          BY <4>1, <4>2, StepKinds DEF vars
      <3> QED
        BY <2>3, <3>1, <3>2
    <2> QED
      BY <2>1, <2>4, <2>5 DEF OpenIncidents
  <1> QED
    BY <1>1, <1>2 DEF ResolvesOpen

\* What the lifecycle's variables are with a single slot.
NothingOwed == [event |-> "NONE", incident |-> 0]

OwedBy(r, m) ==
  IF r.pc = "enqueueDown" /\ r.monitor = m
  THEN [event |-> "MONITOR_DOWN", incident |-> r.incident]
  ELSE IF r.pc = "enqueueRecovered" /\ r.monitor = m
  THEN [event |-> "MONITOR_RECOVERED", incident |-> r.incident]
  ELSE NothingOwed

LEMMA OwedIs ==
  ASSUME OneSlot, NEW s \in Slots, NEW m
  PROVE  OwedAlert(m) = OwedBy(slot[s], m) /\ OwedAlert(m)' = OwedBy(slot'[s], m)
  <1>1. Slots = {s}
    BY DEF OneSlot
  <1>2. \A t \in Slots : t = s
    BY DEF OneSlot
  <1> QED
    BY <1>1, <1>2 DEF OwedAlert, OwedBy, NothingOwed

LEMMA NothingOwedWithoutSlots ==
  ASSUME Slots = {}, NEW m
  PROVE  OwedAlert(m) = NothingOwed /\ OwedAlert(m)' = NothingOwed
  BY DEF OwedAlert, NothingOwed

LEMMA CurrentIs ==
  ASSUME NEW m
  PROVE  /\ OpenIncidents(incidents, m) = {} => CurrentIncident(m) = 0
         /\ \A i \in OpenIncidents(incidents, m) : AtMostOneOpenIncident => CurrentIncident(m) = i.id
         /\ OpenIncidents(incidents, m)' = {} => CurrentIncident(m)' = 0
         /\ \A i \in OpenIncidents(incidents, m)' : AtMostOneOpenIncident' => CurrentIncident(m)' = i.id
  <1>1. ASSUME NEW i \in OpenIncidents(incidents, m), AtMostOneOpenIncident
        PROVE  OpenIncidents(incidents, m) = {i}
    BY <1>1 DEF AtMostOneOpenIncident, OpenIncidents
  <1>2. ASSUME NEW i \in OpenIncidents(incidents, m)', AtMostOneOpenIncident'
        PROVE  OpenIncidents(incidents, m)' = {i}
    BY <1>2 DEF AtMostOneOpenIncident, OpenIncidents
  <1> QED
    BY <1>1, <1>2 DEF CurrentIncident

RefInv == TypeOK /\ AlertInv /\ RestInv /\ SerialInv /\ OwnFailures /\ ResolvesOpen

LEMMA RefInvStep ==
  ASSUME OneSlot, RefInv, [Next]_vars
  PROVE  RefInv'
  BY TypeStep, AlertStep, RestStep, SerialStep, OwnStep, ResolvesOpenStep DEF RefInv

Known == {m \in Monitors : status[m] # "deleted"}
Current == [m \in Monitors |-> CurrentIncident(m)]
Owed == [m \in Monitors |-> OwedAlert(m)]

LEMMA SameCurrent ==
  ASSUME OneSlot, RefInv, [Next]_vars, NEW n, OpenIncidents(incidents, n)' = OpenIncidents(incidents, n)
  PROVE  CurrentIncident(n)' = CurrentIncident(n)
  <1>1. AtMostOneOpenIncident /\ AtMostOneOpenIncident'
    BY SerialStep DEF RefInv, SerialInv
  <1>2. CASE OpenIncidents(incidents, n) = {}
    BY <1>2, CurrentIs
  <1>3. ASSUME NEW i \in OpenIncidents(incidents, n)
        PROVE  CurrentIncident(n)' = CurrentIncident(n)
    BY <1>1, <1>3, CurrentIs
  <1> QED
    BY <1>2, <1>3

\* A step that touches none of the rows open, owes what was owed and tells nothing.
LEMMA LifecycleStutter ==
  ASSUME OneSlot, RefInv, [Next]_vars, Known' = Known, UNCHANGED <<incidents, lastIncident, alerts>>,
         \A m \in Monitors : OwedAlert(m)' = OwedAlert(m)
  PROVE  UNCHANGED Lifecycle!lifecycleVars
  <1>1. \A m \in Monitors : CurrentIncident(m)' = CurrentIncident(m)
    <2> SUFFICES ASSUME NEW m \in Monitors PROVE CurrentIncident(m)' = CurrentIncident(m)
      OBVIOUS
    <2>1. OpenIncidents(incidents, m)' = OpenIncidents(incidents, m)
      BY DEF OpenIncidents
    <2> QED
      BY <2>1, SameCurrent
  <1> QED
    BY <1>1 DEF Lifecycle!lifecycleVars, Known

LEMMA LifecycleEnvironment ==
  ASSUME OneSlot, RefInv, NEW m \in Monitors, Environment(m)
  PROVE  Lifecycle!Forget(m) \/ UNCHANGED Lifecycle!lifecycleVars
  <1>0. TypeOK /\ [Next]_vars
    BY DEF RefInv, Next
  <1>1. UNCHANGED <<slot, alerts, lastIncident>>
    BY <1>0, EnvironmentWrites
  <1>2. \A n \in Monitors : OwedAlert(n)' = OwedAlert(n)
    BY <1>1 DEF OwedAlert
  <1>3. CASE DeleteMonitor(m)
    <2>1. /\ m \in Known /\ Known' = Known \ {m}
      BY <1>0, <1>3 DEF DeleteMonitor, Known, TypeOK, DatabaseTypeOK
    <2>2. CurrentIncident(m)' = 0
      <3>1. OpenIncidents(incidents, m)' = {}
        BY <1>3 DEF DeleteMonitor, WithoutMonitor, OpenIncidents
      <3> QED
        BY <3>1, CurrentIs
    <2>3. ASSUME NEW n \in Monitors \ {m}
          PROVE  CurrentIncident(n)' = CurrentIncident(n)
      <3>1. OpenIncidents(incidents, n)' = OpenIncidents(incidents, n)
        BY <1>3 DEF DeleteMonitor, WithoutMonitor, OpenIncidents
      <3> QED
        BY <1>0, <3>1, SameCurrent
    <2>4. Current' = [Current EXCEPT ![m] = 0]
      BY <2>2, <2>3 DEF Current
    <2> QED
      BY <1>1, <1>2, <2>1, <2>4 DEF Lifecycle!Forget, Known, Current
  <1>4. CASE ~DeleteMonitor(m)
    <2>1. UNCHANGED incidents /\ \A n \in Monitors : status'[n] = "deleted" <=> status[n] = "deleted"
      BY <1>0, <1>4, EnvironmentWrites
    <2>2. Known' = Known
      BY <2>1 DEF Known
    <2> QED
      BY <1>0, <1>1, <1>2, <2>1, <2>2, LifecycleStutter
  <1> QED
    BY <1>3, <1>4

LEMMA LifecycleOpen ==
  ASSUME OneSlot, RefInv, NEW s \in Slots, CreateIncident(s)
  PROVE  \E m \in Monitors : Lifecycle!Open(m)
  <1>0. TypeOK /\ [Next]_vars
    BY DEF RefInv, Next, Advance
  <1>1. PICK m \in Monitors : m = slot[s].monitor
    BY <1>0 DEF CreateIncident, TypeOK, SlotsTypeOK, HasJob
  <1>2. m \in Known /\ UNCHANGED <<Known, alerts>> /\ lastIncident' = lastIncident + 1
    BY <1>1 DEF CreateIncident, Known
  <1>3. OpenIncidents(incidents, m) = {}
    BY <1>1 DEF RefInv, SerialInv, CreateStillNeeded, CreateIncident
  <1>4. CurrentIncident(m) = 0
    BY <1>3, CurrentIs
  <1> DEFINE row == [id |-> lastIncident + 1, monitor |-> m,
                     startedAt |-> slot[s].startedAt, confirmedAt |-> slot[s].at, resolvedAt |-> NoTime]
  <1>5. incidents' = incidents \cup {row} /\ row.monitor = m /\ row.id = lastIncident + 1 /\ row.resolvedAt = NoTime
    BY <1>1 DEF CreateIncident, WithIncident
  <1> HIDE DEF row
  <1>6. CurrentIncident(m)' = lastIncident + 1
    <2>1. row \in OpenIncidents(incidents, m)' /\ AtMostOneOpenIncident'
      BY <1>0, <1>5, SerialStep DEF OpenIncidents, RefInv, SerialInv
    <2>2. PICK r : r = row
      OBVIOUS
    <2> QED
      BY <1>5, <2>1, <2>2, CurrentIs
  <1>7. ASSUME NEW n \in Monitors \ {m}
        PROVE  CurrentIncident(n)' = CurrentIncident(n)
    <2>1. OpenIncidents(incidents, n)' = OpenIncidents(incidents, n)
      BY <1>5 DEF OpenIncidents
    <2> QED
      BY <1>0, <2>1, SameCurrent
  <1>8. Current' = [Current EXCEPT ![m] = lastIncident + 1]
    BY <1>6, <1>7 DEF Current
  <1>9. slot'[s].pc = "enqueueDown" /\ slot'[s].monitor = m /\ slot'[s].incident = lastIncident + 1
        /\ slot[s].pc = "create"
    BY <1>0, <1>1, SlotMoves DEF Goes, CreateIncident
  <1>10. /\ \A n \in Monitors : OwedAlert(n) = NothingOwed
         /\ \A n \in Monitors \ {m} : OwedAlert(n)' = NothingOwed
         /\ OwedAlert(m)' = [event |-> "MONITOR_DOWN", incident |-> lastIncident + 1]
    BY <1>9, OwedIs DEF OwedBy
  <1>11. Owed' = [Owed EXCEPT ![m] = [event |-> "MONITOR_DOWN", incident |-> lastIncident + 1]]
         /\ Owed[m] = NothingOwed
    BY <1>10 DEF Owed
  <1> QED
    BY <1>2, <1>4, <1>8, <1>11 DEF Lifecycle!Open, Lifecycle!NothingOwed, NothingOwed, Known, Current, Owed

LEMMA LifecycleResolve ==
  ASSUME OneSlot, RefInv, NEW s \in Slots, ResolveIncident(s)
  PROVE  \E m \in Monitors : Lifecycle!Resolve(m)
  <1>0. TypeOK /\ [Next]_vars
    BY DEF RefInv, Next, Advance
  <1>1. PICK m \in Monitors : m = slot[s].monitor
    BY <1>0 DEF ResolveIncident, TypeOK, SlotsTypeOK, HasJob
  <1>2. m \in Known /\ UNCHANGED <<Known, alerts, lastIncident>>
    BY <1>1 DEF ResolveIncident, Known
  <1>3. PICK i \in incidents : i.monitor = m /\ i.resolvedAt = NoTime /\ i.id = slot[s].incident
    BY <1>1, <1>2 DEF RefInv, ResolvesOpen, ResolveIncident, OpenIncidents, Known
  <1>4. AtMostOneOpenIncident /\ i.id # 0
    BY DEF RefInv, SerialInv, ResolvesOpen
  <1>5. CurrentIncident(m) = i.id
    BY <1>3, <1>4, CurrentIs DEF OpenIncidents
  <1>6. slot[s].at \in Nat /\ slot[s].at # NoTime
    BY <1>0 DEF TypeOK, SlotsTypeOK, SlotRecords, NoTime
  <1>7. \A j \in incidents' : \E k \in incidents :
          /\ j.id = k.id /\ j.monitor = k.monitor
          /\ j = IF k.id = i.id THEN [k EXCEPT !.resolvedAt = slot[s].at] ELSE k
          /\ k.id = i.id => j.resolvedAt # NoTime
    BY <1>0, <1>3, <1>6 DEF ResolveIncident, WithResolved, TypeOK, DatabaseTypeOK, IncidentRows
  <1>8. CurrentIncident(m)' = 0
    <2>1. \A k \in incidents : k.monitor = m /\ k.resolvedAt = NoTime => k = i
      BY <1>3, <1>4 DEF AtMostOneOpenIncident
    <2>2. OpenIncidents(incidents, m)' = {}
      BY <1>7, <2>1 DEF OpenIncidents
    <2> QED
      BY <2>2, CurrentIs
  <1>9. ASSUME NEW n \in Monitors \ {m}
        PROVE  CurrentIncident(n)' = CurrentIncident(n)
    <2>1. \A k \in incidents : k.id = i.id => k.monitor = m
      BY <1>3 DEF RefInv, RestInv, IdsOfRows
    <2>2. \A k \in incidents : k.monitor = n => k \in incidents'
      BY <1>3, <2>1 DEF ResolveIncident, WithResolved
    <2>3. \A j \in incidents' : j.monitor = n => j \in incidents
      BY <1>7, <2>1
    <2>4. OpenIncidents(incidents, n)' = OpenIncidents(incidents, n)
      BY <2>2, <2>3 DEF OpenIncidents
    <2> QED
      BY <1>0, <2>4, SameCurrent
  <1>10. Current' = [Current EXCEPT ![m] = 0] /\ Current[m] = i.id
    BY <1>5, <1>8, <1>9 DEF Current
  <1>11. slot'[s].pc = "enqueueRecovered" /\ slot'[s].monitor = m /\ slot'[s].incident = i.id
         /\ slot[s].pc = "resolve"
    BY <1>0, <1>1, <1>3, SlotMoves DEF Goes, ResolveIncident
  <1>12. /\ \A n \in Monitors : OwedAlert(n) = NothingOwed
         /\ \A n \in Monitors \ {m} : OwedAlert(n)' = NothingOwed
         /\ OwedAlert(m)' = [event |-> "MONITOR_RECOVERED", incident |-> i.id]
    BY <1>11, OwedIs DEF OwedBy
  <1>13. Owed' = [Owed EXCEPT ![m] = [event |-> "MONITOR_RECOVERED", incident |-> i.id]] /\ Owed[m] = NothingOwed
    BY <1>12 DEF Owed
  <1> QED
    BY <1>2, <1>4, <1>10, <1>13 DEF Lifecycle!Resolve, Lifecycle!NothingOwed, NothingOwed, Known, Current, Owed

\* The announcement is made or lost: an owner without contacts, a failure.
LEMMA LifecycleSettle ==
  ASSUME OneSlot, RefInv, NEW s \in Slots, slot[s].pc \in {"enqueueDown", "enqueueRecovered"},
         EnqueueDown(s) \/ EnqueueRecovered(s) \/ FailMissing(s) \/ Fail(s)
  PROVE  \E m \in Monitors : Lifecycle!Announce(m) \/ Lifecycle!Drop(m)
  <1>0. TypeOK /\ [Next]_vars
    BY DEF RefInv, Next, Advance
  <1>1. PICK m \in Monitors : m = slot[s].monitor
    BY <1>0 DEF TypeOK, SlotsTypeOK, HasJob
  <1> DEFINE a == [event |-> IF slot[s].pc = "enqueueDown" THEN "MONITOR_DOWN" ELSE "MONITOR_RECOVERED",
                   incident |-> slot[s].incident]
  <1>2. UNCHANGED <<status, incidents, lastIncident>>
    BY DEF EnqueueDown, EnqueueRecovered, FailMissing, Fail, database
  <1>3. Ends(s)
    BY <1>0, SlotMoves DEF Ending
  <1>4. /\ OwedAlert(m) = a
        /\ \A n \in Monitors \ {m} : OwedAlert(n) = NothingOwed
        /\ \A n \in Monitors : OwedAlert(n)' = NothingOwed
    BY <1>1, <1>3, OwedIs DEF OwedBy, Ends
  <1>5. a # NothingOwed
    BY DEF NothingOwed
  <1> HIDE DEF a
  <1>6. Owed' = [Owed EXCEPT ![m] = NothingOwed] /\ Owed[m] = a
    BY <1>4 DEF Owed
  <1>7. Current' = Current /\ Known' = Known
    <2>1. \A n \in Monitors : CurrentIncident(n)' = CurrentIncident(n)
      <3> SUFFICES ASSUME NEW n \in Monitors PROVE CurrentIncident(n)' = CurrentIncident(n)
        OBVIOUS
      <3>1. OpenIncidents(incidents, n)' = OpenIncidents(incidents, n)
        BY <1>2 DEF OpenIncidents
      <3> QED
        BY <1>0, <3>1, SameCurrent
    <2> QED
      BY <1>2, <2>1 DEF Current, Known
  <1>8. CASE alerts' = [alerts EXCEPT ![m] = Append(@, a)] /\ m \in Known
    BY <1>2, <1>5, <1>6, <1>7, <1>8
       DEF Lifecycle!Announce, Lifecycle!NothingOwed, NothingOwed, Known, Current, Owed
  <1>9. CASE UNCHANGED alerts
    BY <1>2, <1>5, <1>6, <1>7, <1>9
       DEF Lifecycle!Drop, Lifecycle!NothingOwed, NothingOwed, Known, Current, Owed
  <1>10. CASE EnqueueDown(s)
    <2>1. slot[s].pc = "enqueueDown" /\ m \in Known /\ AddAlert(m, "MONITOR_DOWN", slot[s].incident)
      BY <1>1, <1>10 DEF EnqueueDown, Known
    <2>2. a = [event |-> "MONITOR_DOWN", incident |-> slot[s].incident]
      BY <2>1 DEF a
    <2> QED
      BY <1>8, <1>9, <2>1, <2>2 DEF AddAlert
  <1>11. CASE EnqueueRecovered(s)
    <2>1. slot[s].pc = "enqueueRecovered" /\ m \in Known /\ AddAlert(m, "MONITOR_RECOVERED", slot[s].incident)
      BY <1>1, <1>11 DEF EnqueueRecovered, Known
    <2>2. a = [event |-> "MONITOR_RECOVERED", incident |-> slot[s].incident]
      BY <2>1 DEF a
    <2> QED
      BY <1>8, <1>9, <2>1, <2>2 DEF AddAlert
  <1>12. CASE FailMissing(s) \/ Fail(s)
    BY <1>9, <1>12 DEF FailMissing, Fail
  <1> QED
    BY <1>10, <1>11, <1>12

LEMMA LifecycleStep ==
  ASSUME OneSlot, RefInv, [Next]_vars
  PROVE  [Lifecycle!Next]_(Lifecycle!lifecycleVars)
  <1>0. TypeOK
    BY DEF RefInv
  <1>1. ASSUME NEW m \in Monitors, Environment(m)
        PROVE  [Lifecycle!Next]_(Lifecycle!lifecycleVars)
    BY <1>1, LifecycleEnvironment DEF Lifecycle!Next
  <1>2. ASSUME NEW s \in Slots, SlotStep(s)
        PROVE  [Lifecycle!Next]_(Lifecycle!lifecycleVars)
    <2>1. CASE CreateIncident(s)
      BY <2>1, LifecycleOpen DEF Lifecycle!Next
    <2>2. CASE ResolveIncident(s)
      BY <2>2, LifecycleResolve DEF Lifecycle!Next
    <2>3. CASE slot[s].pc \in {"enqueueDown", "enqueueRecovered"}
      <3>1. EnqueueDown(s) \/ EnqueueRecovered(s) \/ FailMissing(s) \/ Fail(s)
        BY <1>2, <2>3 DEF SlotStep, Claim, Advance, Load, RecordCheckResult, ClearFailures, FindIncidentToResolve,
           ResolveIncident, IncrementFailures, MarkFirstFailure, ReadFirstFailure, FindIncidentToOpen,
           CreateIncident, Acknowledge
      <3> QED
        BY <2>3, <3>1, LifecycleSettle DEF Lifecycle!Next
    <2>4. CASE ~CreateIncident(s) /\ ~ResolveIncident(s) /\ slot[s].pc \notin {"enqueueDown", "enqueueRecovered"}
      <3>1. ~EnqueueDown(s) /\ ~EnqueueRecovered(s)
        BY <2>4 DEF EnqueueDown, EnqueueRecovered
      <3>2. UNCHANGED <<status, incidents, lastIncident, alerts>>
        BY <1>2, <2>4, <3>1, SlotWrites
      <3>3. slot'[s].pc \notin {"enqueueDown", "enqueueRecovered"}
        <4>1. CASE RecordCheckResult(s)
          BY <4>1, <1>0, RecordWrites DEF Goes
        <4>2. CASE ~RecordCheckResult(s)
          BY <1>0, <1>2, <2>4, <4>2, SlotMoves DEF SlotStep, Advance, Ending, Ends, Goes
        <4> QED
          BY <4>1, <4>2
      <3>4. \A m \in Monitors : OwedAlert(m)' = OwedAlert(m)
        BY <2>4, <3>3, OwedIs DEF OwedBy
      <3>5. Known' = Known
        BY <3>2 DEF Known
      <3> QED
        BY <3>2, <3>4, <3>5, LifecycleStutter
    <2> QED
      BY <2>1, <2>2, <2>3, <2>4
  <1>3. CASE UNCHANGED vars
    <2>1. UNCHANGED <<incidents, lastIncident, alerts>> /\ Known' = Known
      BY <1>3 DEF vars, Known
    <2>2. \A m \in Monitors : OwedAlert(m)' = OwedAlert(m)
      BY <1>3 DEF vars, OwedAlert
    <2> QED
      BY <2>1, <2>2, LifecycleStutter
  <1> QED
    BY <1>1, <1>2, <1>3, StepKinds

LEMMA LifecycleInit ==
  ASSUME Init
  PROVE  Lifecycle!Init
  <1>1. Known = Monitors /\ lastIncident = 0 /\ alerts = [m \in Monitors |-> <<>>]
    BY DEF Init, Known
  <1>2. \A m \in Monitors : CurrentIncident(m) = 0
    <2>1. \A m : OpenIncidents(incidents, m) = {}
      BY DEF Init, OpenIncidents
    <2> QED
      BY <2>1, CurrentIs
  <1>3. \A m \in Monitors : OwedAlert(m) = [event |-> "NONE", incident |-> 0]
    <2>1. \A s \in Slots : slot[s].pc = "idle"
      BY DEF Init, IdleSlot
    <2> QED
      BY <2>1 DEF OwedAlert
  <1> QED
    BY <1>1, <1>2, <1>3 DEF Lifecycle!Init, Lifecycle!NothingOwed, Known

\* With one job at a time, the steps of check jobs, with their failures, retries and
\* deletions between any two awaits, are a behaviour of IncidentLifecycle: every
\* opening and resolution is announced before the next event, or never.
THEOREM ChecksImplementLifecycle ==
  ASSUME OneSlot
  PROVE  Spec => ImplementsLifecycle
  <1>1. Init => RefInv
    <2>1. Init => SerialInv /\ ResolvesOpen
      BY DEF Init, SerialInv, AtMostOneOpenIncident, CreateStillNeeded, IdleSlot, ResolvesOpen
    <2> QED
      BY <2>1, TypeInit, AlertInit, RestInit, OwnInit DEF RefInv
  <1>2. RefInv /\ [Next]_vars => RefInv'
    BY RefInvStep
  <1>3. Init => Lifecycle!Init
    BY LifecycleInit
  <1>4. RefInv /\ [Next]_vars => [Lifecycle!Next]_(Lifecycle!lifecycleVars)
    BY LifecycleStep
  <1> QED
    BY <1>1, <1>2, <1>3, <1>4, PTL DEF Spec, ImplementsLifecycle, Lifecycle!Spec
=============================================================================
