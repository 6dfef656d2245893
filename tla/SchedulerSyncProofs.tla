------------------------ MODULE SchedulerSyncProofs ------------------------
(***************************************************************************)
(* Theorems about SchedulerSync, for any set of instances, runs, monitors  *)
(* and queues, any lifetime of the lock and any bound.                     *)
(***************************************************************************)
EXTENDS SchedulerSync, TLAPS

-----------------------------------------------------------------------------
(* Types *)

\* Typing alone is not inductive: a row that is upserted must be one that is
\* scheduled, which holds because the work left was computed from the snapshot;
\* and the time left of a lock never passes zero.
Sound(record) == /\ record \in RunRecords
                 /\ record.todo \subseteq Scheduled(record.snapshot)
                 /\ record.pc # "reconcile" => record.todo = {}
LockLives == lock = NoLock \/ lock.left > 0
Typed == TypeOK /\ LockLives /\ \A r \in Runs : Sound(run[r])

\* A monitor that is to be scheduled has a plan.
LEMMA ScheduledHasPlan ==
  ASSUME NEW table \in [Monitors -> Rows], NEW m \in Scheduled(table)
  PROVE  table[m] \in Plans
  BY DEF Scheduled, Rows

\* What is idle is sound.
LEMMA IdleRunType == Sound(IdleRun)
  BY TtlAssumption DEF Sound, IdleRun, RunRecords, Rows

\* No lock is a lock value.
LEMMA NoLockType == NoLock \in [owner : Runs \cup {NoRun}, left : 0..LockTtl]
  BY TtlAssumption DEF NoLock

\* Runs that are all sound are well typed.
LEMMA SoundRuns ==
  ASSUME NEW f, f = [r \in Runs |-> f[r]], \A r \in Runs : Sound(f[r])
  PROVE  f \in [Runs -> RunRecords]
  BY DEF Sound

\* A sound record in place of a run's leaves all runs sound.
LEMMA SetRun ==
  ASSUME Typed, NEW r \in Runs, NEW record, Sound(record), run' = [run EXCEPT ![r] = record]
  PROVE  run' \in [Runs -> RunRecords] /\ \A s \in Runs : Sound(run[s])'
  BY DEF Typed, TypeOK, Sound

\* A monitor that is no longer quiet changes nothing else in a record.
LEMMA NotQuiet ==
  ASSUME NEW record, Sound(record), NEW m
  PROVE  Sound([record EXCEPT !.quiet = @ \ {m}])
  BY DEF Sound, RunRecords

\* The runs left when an instance exits are sound.
LEMMA StoppedType ==
  ASSUME Typed, NEW i \in Instances, run' = Stopped(i)
  PROVE  run' \in [Runs -> RunRecords] /\ \A s \in Runs : Sound(run[s])'
  BY IdleRunType DEF Typed, TypeOK, Stopped, Sound

\* The script leaves a live lock or none.
LEMMA UnlockedType ==
  ASSUME Typed, NEW r \in Runs
  PROVE  /\ Unlocked(r) \in [owner : Runs \cup {NoRun}, left : 0..LockTtl]
         /\ Unlocked(r) = NoLock \/ Unlocked(r).left > 0
  BY NoLockType DEF Typed, TypeOK, LockLives, Unlocked

\* Writing about a monitor keeps the runs sound.
LEMMA WrittenType ==
  ASSUME Typed, NEW r \in Runs, NEW m \in Monitors, NEW record, Sound(record),
         Written(r, m, record)
  PROVE  /\ run' \in [Runs -> RunRecords] /\ \A s \in Runs : Sound(run[s])'
         /\ settled' \subseteq Monitors
  <1>1. CASE run[r].snapshot[m] = monitor[m]
    <2>1. run' = [run EXCEPT ![r] = record] /\ settled' = settled
      BY <1>1 DEF Written
    <2> QED
      BY <2>1, SetRun DEF Typed, TypeOK
  <1>2. CASE run[r].snapshot[m] # monitor[m]
    <2>1. /\ run' = [[s \in Runs |-> [run[s] EXCEPT !.quiet = @ \ {m}]] EXCEPT
                      ![r] = [record EXCEPT !.quiet = @ \ {m}]]
          /\ settled' = settled \ {m}
      BY <1>2 DEF Written
    <2>2. Sound([record EXCEPT !.quiet = @ \ {m}])
      BY NotQuiet
    <2>3. \A s \in Runs : Sound([run[s] EXCEPT !.quiet = @ \ {m}])
      BY NotQuiet DEF Typed
    <2>4. \A s \in Runs : Sound(run'[s])
      BY <2>1, <2>2, <2>3
    <2>5. run' = [s \in Runs |-> run'[s]]
      BY <2>1
    <2> QED
      BY <2>1, <2>4, <2>5, SoundRuns DEF Typed, TypeOK
  <1> QED
    BY <1>1, <1>2

\* What users and the clock do.
LEMMA EnvironmentTypes ==
  ASSUME Typed, Elapse \/ \E m \in Monitors : Edit(m)
  PROVE  Typed'
  <1> USE DEF Typed, TypeOK, LockLives
  <1>1. ASSUME Elapse
        PROVE  Typed'
    <2>1. /\ lock' \in [owner : Runs \cup {NoRun}, left : 0..LockTtl]
          /\ lock' = NoLock \/ lock'.left > 0
      BY <1>1, NoLockType, TtlAssumption DEF Elapse
    <2>2. \A r \in Runs : Sound(run'[r])
      <3> TAKE r \in Runs
      <3>1. \/ run'[r] = [run[r] EXCEPT !.age = @ + 1] /\ run[r].age < LockTtl
            \/ run'[r] = run[r]
        BY <1>1 DEF Elapse
      <3> QED
        BY <3>1, TtlAssumption DEF Sound, RunRecords
    <2>3. run' = [r \in Runs |-> run'[r]]
      BY <1>1 DEF Elapse
    <2> QED
      BY <1>1, <2>1, <2>2, <2>3, SoundRuns DEF Elapse
  <1>2. ASSUME NEW m \in Monitors, Edit(m)
        PROVE  Typed'
    <2>1. \A r \in Runs : Sound(run'[r])
      BY <1>2, NotQuiet DEF Edit
    <2>2. run' = [r \in Runs |-> run'[r]]
      BY <1>2 DEF Edit
    <2>3. monitor' \in [Monitors -> Rows]
      BY <1>2 DEF Edit
    <2>4. edits' \in 0..MaxEdits
      BY <1>2, EditBoundAssumption DEF Edit
    <2>5. settled' \subseteq Monitors
      BY <1>2 DEF Edit
    <2> QED
      BY <1>2, <2>1, <2>2, <2>3, <2>4, <2>5, SoundRuns DEF Edit
  <1> QED
    BY <1>1, <1>2

\* The steps in which a run takes the lock and reads.
LEMMA ReadingTypes ==
  ASSUME Typed, NEW r \in Runs,
         Acquire(r) \/ ReadMonitors(r) \/ Plan(r) \/ \E q \in Queues : ReadQueue(r, q)
  PROVE  Typed'
  <1> USE DEF Typed, TypeOK, LockLives
  <1>0. Sound(run[r]) /\ run[r] \in RunRecords
    BY DEF Sound
  <1>1. ASSUME Acquire(r)
        PROVE  Typed'
    <2>1. Sound([IdleRun EXCEPT !.pc = "readMonitors"])
      BY IdleRunType DEF Sound, RunRecords, IdleRun
    <2>2. lock' \in [owner : Runs \cup {NoRun}, left : 0..LockTtl] /\ lock'.left > 0
      BY <1>1, TtlAssumption DEF Acquire
    <2> QED
      BY <1>1, <2>1, <2>2, SetRun DEF Acquire
  <1>2. ASSUME ReadMonitors(r)
        PROVE  Typed'
    <2> DEFINE next == [run[r] EXCEPT !.pc = "readQueues", !.snapshot = monitor,
                                      !.unread = Queues, !.quiet = Monitors]
    <2>1. Sound(next)
      BY <1>0, <1>2 DEF ReadMonitors, Sound, RunRecords
    <2>2. run' = [run EXCEPT ![r] = next]
      BY <1>2 DEF ReadMonitors
    <2> QED
      BY <1>2, <2>1, <2>2, SetRun DEF ReadMonitors
  <1>3. ASSUME Plan(r)
        PROVE  Typed'
    <2> DEFINE next == [run[r] EXCEPT !.pc = "reconcile", !.todo = Scheduled(run[r].snapshot),
                                      !.stale = StaleSchedulers(run[r].existing, run[r].snapshot)]
    <2>1. Sound(next)
      BY <1>0, <1>3 DEF Plan, Sound, RunRecords, Scheduled, StaleSchedulers
    <2>2. run' = [run EXCEPT ![r] = next]
      BY <1>3 DEF Plan
    <2> QED
      BY <1>3, <2>1, <2>2, SetRun DEF Plan
  <1>4. ASSUME NEW q \in Queues, ReadQueue(r, q)
        PROVE  Typed'
    <2> DEFINE next == [run[r] EXCEPT !.unread = @ \ {q},
                                      !.existing = @ \cup {s \in schedulers : s.queue = q}]
    <2>1. Sound(next)
      BY <1>0, <1>4 DEF ReadQueue, Sound, RunRecords
    <2>2. run' = [run EXCEPT ![r] = next]
      BY <1>4 DEF ReadQueue
    <2> QED
      BY <1>4, <2>1, <2>2, SetRun DEF ReadQueue
  <1> QED
    BY <1>1, <1>2, <1>3, <1>4

\* The steps in which a run writes.
LEMMA WritingTypes ==
  ASSUME Typed, NEW r \in Runs, \/ \E m \in Monitors : Upsert(r, m)
                                \/ \E old \in Schedulers : Remove(r, old)
  PROVE  Typed'
  <1> USE DEF Typed, TypeOK, LockLives
  <1>0. Sound(run[r])
    OBVIOUS
  <1>1. ASSUME NEW m \in Monitors, Upsert(r, m)
        PROVE  Typed'
    <2>1. run[r].snapshot[m] \in Plans
      BY <1>0, <1>1, ScheduledHasPlan DEF Upsert, Sound, RunRecords
    <2>2. schedulers' \subseteq Schedulers
      BY <1>1, <2>1 DEF Upsert, Scheduler, Schedulers, Plans
    <2>3. Sound([run[r] EXCEPT !.todo = @ \ {m}])
      BY <1>0, <1>1 DEF Upsert, Sound, RunRecords
    <2> QED
      BY <1>1, <2>2, <2>3, WrittenType DEF Upsert
  <1>2. ASSUME NEW old \in Schedulers, Remove(r, old)
        PROVE  Typed'
    <2>1. Sound([run[r] EXCEPT !.stale = @ \ {old}])
      BY <1>0, <1>2 DEF Remove, Sound, RunRecords
    <2>2. schedulers' \subseteq Schedulers
      BY <1>2 DEF Remove
    <2>3. old.monitor \in Monitors
      BY DEF Schedulers
    <2> QED
      BY <1>2, <2>1, <2>2, <2>3, WrittenType DEF Remove
  <1> QED
    BY <1>1, <1>2

\* The steps in which a run, or its instance, ends.
LEMMA EndingTypes ==
  ASSUME Typed, \/ \E r \in Runs : Finish(r) \/ RunFails(r)
                \/ \E i \in Instances : SkipBootstrap(i) \/ Crash(i)
  PROVE  Typed'
  <1> USE DEF Typed, TypeOK, LockLives
  <1>1. ASSUME NEW r \in Runs, Finish(r)
        PROVE  Typed'
    <2>1. polling' \in [Instances -> BOOLEAN] /\ settled' \subseteq Monitors
      BY <1>1, HomeAssumption DEF Finish, Sound, RunRecords
    <2> QED
      BY <1>1, <2>1, IdleRunType, SetRun, UnlockedType DEF Finish
  <1>2. ASSUME NEW r \in Runs, RunFails(r)
        PROVE  Typed'
    <2>1. Home[r] \in Instances
      BY HomeAssumption
    <2>2. polling' \in [Instances -> BOOLEAN] /\ failures' \in 0..MaxFailures
      BY <1>2, <2>1, EditBoundAssumption DEF RunFails
    <2> QED
      BY <1>2, <2>1, <2>2, StoppedType, UnlockedType DEF RunFails
  <1>3. ASSUME NEW i \in Instances, SkipBootstrap(i)
        PROVE  Typed'
    BY <1>3 DEF SkipBootstrap
  <1>4. ASSUME NEW i \in Instances, Crash(i)
        PROVE  Typed'
    <2>1. polling' \in [Instances -> BOOLEAN] /\ failures' \in 0..MaxFailures
      BY <1>4, EditBoundAssumption DEF Crash
    <2> QED
      BY <1>4, <2>1, StoppedType DEF Crash
  <1> QED
    BY <1>1, <1>2, <1>3, <1>4

\* Every step keeps the types.
LEMMA StepTypes ==
  ASSUME Typed, [Next]_vars
  PROVE  Typed'
  <1>1. CASE UNCHANGED vars
    BY <1>1 DEF vars, Typed, TypeOK, LockLives
  <1>2. CASE Next
    BY <1>2, EnvironmentTypes, ReadingTypes, WritingTypes, EndingTypes DEF Next, RunStep
  <1> QED
    BY <1>1, <1>2

\* Nothing runs at first.
LEMMA InitTypes ==
  ASSUME Init
  PROVE  Typed
  BY IdleRunType, NoLockType, EditBoundAssumption
  DEF Init, Typed, TypeOK, LockLives, Sound

\* Every variable keeps its type in every behaviour of the scheduler instances.
THEOREM TypeCorrect == Spec => []TypeOK
  <1>1. Typed /\ [Next]_vars => Typed'
    BY StepTypes
  <1>2. Typed => TypeOK
    BY DEF Typed
  <1> QED
    BY <1>1, <1>2, InitTypes, PTL DEF Spec

-----------------------------------------------------------------------------
(* The lock *)

\* A run that has not outlived its lock holds it, and the time the lock has left
\* and the age of the run make up its lifetime.
HoldsLock(r) == lock.owner = r /\ lock.left = LockTtl - run[r].age
YoungRunsHoldTheLock ==
  \A r \in Runs : Inside(r) /\ run[r].age < LockTtl => HoldsLock(r)

\* Steps that leave the lock alone and make no run younger keep it.
LEMMA LockUntouched ==
  ASSUME YoungRunsHoldTheLock, lock' = lock,
         \A r \in Runs : Inside(r)' => Inside(r) /\ run'[r].age = run[r].age
  PROVE  YoungRunsHoldTheLock'
  BY DEF YoungRunsHoldTheLock, HoldsLock

\* Writing about a monitor starts no run and makes none younger.
LEMMA WrittenKeepsAges ==
  ASSUME Typed, NEW r \in Runs, NEW m \in Monitors, NEW record,
         record.pc = run[r].pc, record.age = run[r].age, Sound(record), Written(r, m, record)
  PROVE  \A s \in Runs : run'[s].pc = run[s].pc /\ run'[s].age = run[s].age
  <1>1. ASSUME NEW s \in Runs
        PROVE  run'[s].pc = run[s].pc /\ run'[s].age = run[s].age
    <2> DEFINE base == IF s = r THEN record ELSE run[s]
    <2>1. base \in RunRecords /\ base.pc = run[s].pc /\ base.age = run[s].age
      BY DEF Typed, Sound
    <2>2. run'[s] = base \/ run'[s] = [base EXCEPT !.quiet = @ \ {m}]
      BY DEF Written, Typed, TypeOK
    <2> QED
      BY <2>1, <2>2 DEF RunRecords
  <1> QED
    BY <1>1

\* Every step keeps it.
LEMMA StepKeepsLock ==
  ASSUME Typed, YoungRunsHoldTheLock, [Next]_vars
  PROVE  YoungRunsHoldTheLock'
  <1> USE DEF Typed, TypeOK
  <1>0. \A r \in Runs : Sound(run[r]) /\ run[r] \in RunRecords
    BY DEF Sound
  <1>1. CASE UNCHANGED vars
    BY <1>1, LockUntouched DEF vars, Inside
  <1>2. ASSUME NEW m \in Monitors, Edit(m)
        PROVE  YoungRunsHoldTheLock'
    BY <1>2, <1>0, LockUntouched DEF Edit, Inside, RunRecords
  <1>3. ASSUME Elapse
        PROVE  YoungRunsHoldTheLock'
    <2> SUFFICES ASSUME NEW r \in Runs, Inside(r)', run'[r].age < LockTtl
                 PROVE  HoldsLock(r)'
      BY DEF YoungRunsHoldTheLock
    <2>1. /\ Inside(r) /\ run[r].age < LockTtl
          /\ run'[r].age = run[r].age + 1
      BY <1>0, <1>3 DEF Elapse, Inside, RunRecords
    <2>2. lock.owner = r /\ lock.left = LockTtl - run[r].age
      BY <2>1 DEF YoungRunsHoldTheLock, HoldsLock
    <2>3. lock.left # 1
      BY <1>0, <2>1, <2>2, TtlAssumption DEF RunRecords
    <2>4. lock'.owner = r /\ lock'.left = lock.left - 1
      BY <1>3, <2>2, <2>3 DEF Elapse
    <2> QED
      BY <1>0, <2>1, <2>2, <2>4, TtlAssumption DEF HoldsLock, RunRecords
  <1>4. ASSUME NEW r \in Runs, Acquire(r)
        PROVE  YoungRunsHoldTheLock'
    <2> SUFFICES ASSUME NEW s \in Runs, Inside(s)', run'[s].age < LockTtl
                 PROVE  HoldsLock(s)'
      BY DEF YoungRunsHoldTheLock
    <2>1. CASE s = r
      BY <1>4, <2>1, TtlAssumption DEF Acquire, HoldsLock, IdleRun
    <2>2. CASE s # r
      <3>1. Inside(s) /\ run[s].age < LockTtl
        BY <1>4, <2>2 DEF Acquire, Inside
      <3>2. lock.owner = s
        BY <3>1 DEF YoungRunsHoldTheLock, HoldsLock
      <3> QED
        BY <1>4, <3>2, NoRunAssumption DEF Acquire, NoLock
    <2> QED
      BY <2>1, <2>2
  <1>5. ASSUME NEW r \in Runs,
               ReadMonitors(r) \/ Plan(r) \/ \E q \in Queues : ReadQueue(r, q)
        PROVE  YoungRunsHoldTheLock'
    <2>1. lock' = lock /\ Inside(r)
      BY <1>5 DEF ReadMonitors, Plan, ReadQueue, Inside
    <2>2. run'[r].age = run[r].age
      <3>1. CASE ReadMonitors(r)
        BY <1>0, <3>1 DEF ReadMonitors, RunRecords
      <3>2. CASE Plan(r)
        BY <1>0, <3>2 DEF Plan, RunRecords
      <3>3. CASE \E q \in Queues : ReadQueue(r, q)
        BY <1>0, <3>3 DEF ReadQueue, RunRecords
      <3> QED
        BY <1>5, <3>1, <3>2, <3>3
    <2>3. \A s \in Runs : s # r => run'[s] = run[s]
      BY <1>5 DEF ReadMonitors, Plan, ReadQueue
    <2> QED
      BY <2>1, <2>2, <2>3, LockUntouched DEF Inside
  <1>6. ASSUME NEW r \in Runs, NEW m \in Monitors, Upsert(r, m)
        PROVE  YoungRunsHoldTheLock'
    <2> DEFINE record == [run[r] EXCEPT !.todo = @ \ {m}]
    <2>1. record.pc = run[r].pc /\ record.age = run[r].age /\ Sound(record)
      BY <1>0, <1>6 DEF Upsert, Sound, RunRecords
    <2>2. Written(r, m, record) /\ lock' = lock
      BY <1>6 DEF Upsert
    <2> QED
      BY <2>1, <2>2, WrittenKeepsAges, LockUntouched DEF Inside
  <1>7. ASSUME NEW r \in Runs, NEW old \in Schedulers, Remove(r, old)
        PROVE  YoungRunsHoldTheLock'
    <2> DEFINE record == [run[r] EXCEPT !.stale = @ \ {old}]
    <2>1. record.pc = run[r].pc /\ record.age = run[r].age /\ Sound(record)
      BY <1>0, <1>7 DEF Remove, Sound, RunRecords
    <2>2. Written(r, old.monitor, record) /\ lock' = lock /\ old.monitor \in Monitors
      BY <1>7 DEF Remove, Schedulers
    <2> QED
      BY <2>1, <2>2, WrittenKeepsAges, LockUntouched DEF Inside
  <1>8. ASSUME NEW r \in Runs, Finish(r) \/ RunFails(r)
        PROVE  YoungRunsHoldTheLock'
    <2> SUFFICES ASSUME NEW s \in Runs, Inside(s)', run'[s].age < LockTtl
                 PROVE  HoldsLock(s)'
      BY DEF YoungRunsHoldTheLock
    <2>1. s # r /\ run'[s] = run[s] /\ Inside(s)
      BY <1>8 DEF Finish, RunFails, Stopped, Inside, IdleRun
    <2>2. HoldsLock(s)
      BY <2>1 DEF YoungRunsHoldTheLock
    <2>3. lock' = lock
      BY <1>8, <2>1, <2>2 DEF Finish, RunFails, Unlocked, HoldsLock
    <2> QED
      BY <2>1, <2>2, <2>3 DEF HoldsLock
  <1>9. ASSUME NEW i \in Instances, SkipBootstrap(i) \/ Crash(i)
        PROVE  YoungRunsHoldTheLock'
    BY <1>9, LockUntouched DEF SkipBootstrap, Crash, Stopped, Inside, IdleRun
  <1> QED
    BY <1>1, <1>2, <1>3, <1>4, <1>5, <1>6, <1>7, <1>8, <1>9 DEF Next, RunStep

\* Only one run can hold the lock, so two runs that are both inside cannot both be
\* younger than its lifetime.
LEMMA YoungRunsDoNotOverlap ==
  ASSUME Typed, YoungRunsHoldTheLock
  PROVE  OverlapOnlyAfterExpiry
  <1>1. \A r \in Runs : run[r].age \in 0..LockTtl
    BY DEF Typed, Sound, RunRecords
  <1> QED
    BY <1>1, TtlAssumption
    DEF YoungRunsHoldTheLock, HoldsLock, OverlapOnlyAfterExpiry

\* Two synchronisations are under way at once only when one of them has outlived
\* the lock's lifetime.
THEOREM MutualExclusionWithinTheLease == Spec => []OverlapOnlyAfterExpiry
  <1>1. Init => YoungRunsHoldTheLock
    BY DEF Init, YoungRunsHoldTheLock, Inside, IdleRun
  <1>2. Typed /\ YoungRunsHoldTheLock /\ [Next]_vars => (Typed /\ YoungRunsHoldTheLock)'
    BY StepTypes, StepKeepsLock
  <1>3. Typed /\ YoungRunsHoldTheLock => OverlapOnlyAfterExpiry
    BY YoungRunsDoNotOverlap
  <1> QED
    BY <1>1, <1>2, <1>3, InitTypes, PTL DEF Spec
-----------------------------------------------------------------------------
(* What a completed synchronisation leaves.  table and present stand for the *)
(* monitors and the job schedulers, x for the record of a run.               *)

\* The schedulers of m are those that the table calls for.
Served(table, present, m) ==
  {s \in present : s.monitor = m} = {s \in Desired(table) : s.monitor = m}

\* A scheduler in the queue that the row of m calls for.
InPlace(table, m, s) == m \in Scheduled(table) /\ s.queue = table[m].queue

\* What a run has seen and done about a monitor that nobody disturbed since it read
\* it: every scheduler out of place is still to be listed, listed, or to be removed;
\* once the run has served the monitor, the one in place is the one its row calls for.
Progress(table, present, x, m) ==
  /\ x.snapshot[m] = table[m]
  /\ x.pc \in {"readQueues", "reconcile"}
  /\ x.pc = "readQueues" => \A s \in present :
       s.monitor = m => s.queue \in x.unread \/ s \in x.existing \/ InPlace(table, m, s)
  /\ x.pc = "reconcile" =>
       /\ \A s \in present : s.monitor = m => s \in x.stale \/ InPlace(table, m, s)
       /\ m \in Scheduled(table) /\ m \notin x.todo =>
            \A s \in Schedulers : s.monitor = m /\ s.queue = table[m].queue
              => (s \in present <=> s.every = table[m].every)

\* A run only removes what its snapshot does not call for.
StaleIsStale(x) ==
  /\ x.pc # "reconcile" => x.stale = {}
  /\ \A s \in x.stale : ~InPlace(x.snapshot, s.monitor, s)

Reconciled ==
  /\ \A m \in settled : Served(monitor, schedulers, m)
  /\ \A r \in Runs : \A m \in run[r].quiet : Progress(monitor, schedulers, run[r], m)
  /\ \A r \in Runs : StaleIsStale(run[r])


\* What a table calls for, monitor by monitor.
LEMMA CalledFor ==
  ASSUME NEW table, NEW m \in Monitors
  PROVE  {s \in Desired(table) : s.monitor = m}
         = IF m \in Scheduled(table) THEN {Scheduler(table[m].queue, m, table[m].every)} ELSE {}
  BY DEF Desired, Scheduled, Scheduler

\* Only the row and the schedulers of m matter to m.
LEMMA OthersDoNotMatter ==
  ASSUME NEW m \in Monitors, NEW t1, NEW t2, NEW p1, NEW p2, t1[m] = t2[m],
         {s \in p1 : s.monitor = m} = {s \in p2 : s.monitor = m}
  PROVE  /\ Served(t1, p1, m) => Served(t2, p2, m)
         /\ \A x : Progress(t1, p1, x, m) => Progress(t2, p2, x, m)
  <1>1. m \in Scheduled(t1) <=> m \in Scheduled(t2)
    BY DEF Scheduled
  <1>2. \A s : s.monitor = m => (s \in p1 <=> s \in p2)
    OBVIOUS
  <1>3. Served(t1, p1, m) => Served(t2, p2, m)
    BY <1>1, CalledFor DEF Served
  <1>4. ASSUME NEW x, Progress(t1, p1, x, m)
        PROVE  Progress(t2, p2, x, m)
    BY <1>1, <1>2, <1>4 DEF Progress, InPlace
  <1> QED
    BY <1>3, <1>4

\* Upserting what the row calls for keeps what was served, and advances every run.
LEMMA UpsertAdvances ==
  ASSUME NEW m \in Monitors, NEW table \in [Monitors -> Rows], m \in Scheduled(table),
         NEW present \in SUBSET Schedulers, NEW after,
         after = {s \in present : ~(s.queue = table[m].queue /\ s.monitor = m)}
                 \cup {Scheduler(table[m].queue, m, table[m].every)}
  PROVE  /\ Served(table, present, m) => Served(table, after, m)
         /\ \A x : Progress(table, present, x, m) => Progress(table, after, x, m)
         /\ \A x \in RunRecords : x.pc = "reconcile" /\ Progress(table, present, x, m)
              => Progress(table, after, [x EXCEPT !.todo = @ \ {m}], m)
  <1> DEFINE new == Scheduler(table[m].queue, m, table[m].every)
  <1>0. /\ table[m] \in Plans /\ new \in Schedulers
        /\ new.monitor = m /\ new.queue = table[m].queue /\ new.every = table[m].every
    BY ScheduledHasPlan DEF Scheduler, Schedulers, Plans
  <1>1. \A s \in Schedulers : s.monitor = m /\ s.queue = table[m].queue
          => (s \in after <=> s.every = table[m].every)
    BY <1>0 DEF Scheduler, Schedulers
  <1>2. \A s \in after : s = new \/ s \in present
    OBVIOUS
  <1>3. InPlace(table, m, new)
    BY <1>0 DEF InPlace
  <1>4. Served(table, present, m) => Served(table, after, m)
    <2>1. ASSUME Served(table, present, m)
          PROVE  {s \in after : s.monitor = m} = {new}
      <3>1. {s \in present : s.monitor = m} = {new}
        BY <2>1, CalledFor DEF Served
      <3> QED
        BY <3>1, <1>0
    <2> QED
      BY <2>1, CalledFor DEF Served
  <1>5. ASSUME NEW x, Progress(table, present, x, m)
        PROVE  Progress(table, after, x, m)
    BY <1>1, <1>2, <1>3, <1>5 DEF Progress
  <1>6. ASSUME NEW x \in RunRecords, x.pc = "reconcile", Progress(table, present, x, m)
        PROVE  Progress(table, after, [x EXCEPT !.todo = @ \ {m}], m)
    <2> DEFINE y == [x EXCEPT !.todo = @ \ {m}]
    <2>1. y.pc = x.pc /\ y.snapshot = x.snapshot /\ y.stale = x.stale
      BY DEF RunRecords
    <2> HIDE DEF y
    <2> QED
      BY <1>1, <1>2, <1>3, <1>6, <2>1 DEF Progress
  <1> QED
    BY <1>4, <1>5, <1>6

\* Removing what is out of place keeps what was served, and advances every run.
LEMMA RemoveAdvances ==
  ASSUME NEW m \in Monitors, NEW table, NEW old \in Schedulers, old.monitor = m,
         ~InPlace(table, m, old), NEW present, NEW after,
         after = {s \in present : ~(s.queue = old.queue /\ s.monitor = old.monitor)}
  PROVE  /\ Served(table, present, m) => Served(table, after, m)
         /\ \A x : Progress(table, present, x, m) => Progress(table, after, x, m)
         /\ \A x \in RunRecords : x.pc = "reconcile" /\ Progress(table, present, x, m)
              => Progress(table, after, [x EXCEPT !.stale = @ \ {old}], m)
  <1>1. \A s \in after : s \in present /\ s # old
    OBVIOUS
  <1>2. m \in Scheduled(table) =>
          \A s : s.monitor = m /\ s.queue = table[m].queue => (s \in after <=> s \in present)
    BY DEF InPlace
  <1>3. Served(table, present, m) => Served(table, after, m)
    <2>1. CASE m \in Scheduled(table)
      BY <1>1, <1>2, <2>1, CalledFor DEF Served, Scheduler
    <2>2. CASE m \notin Scheduled(table)
      BY <1>1, <2>2, CalledFor DEF Served
    <2> QED
      BY <2>1, <2>2
  <1>4. ASSUME NEW x, Progress(table, present, x, m)
        PROVE  Progress(table, after, x, m)
    BY <1>1, <1>2, <1>4 DEF Progress
  <1>5. ASSUME NEW x \in RunRecords, x.pc = "reconcile", Progress(table, present, x, m)
        PROVE  Progress(table, after, [x EXCEPT !.stale = @ \ {old}], m)
    <2> DEFINE y == [x EXCEPT !.stale = @ \ {old}]
    <2>1. y.pc = x.pc /\ y.snapshot = x.snapshot /\ y.todo = x.todo /\ y.stale = x.stale \ {old}
      BY DEF RunRecords
    <2> HIDE DEF y
    <2> QED
      BY <1>1, <1>2, <1>5, <2>1 DEF Progress
  <1> QED
    BY <1>3, <1>4, <1>5

\* A run that did all its work served the monitor.
LEMMA DoneIsServed ==
  ASSUME NEW m \in Monitors, NEW table \in [Monitors -> Rows], NEW present \in SUBSET Schedulers,
         NEW x, x.pc = "reconcile", x.todo = {}, x.stale = {}, Progress(table, present, x, m)
  PROVE  Served(table, present, m)
  <1>1. \A s \in present : s.monitor = m => InPlace(table, m, s)
    BY DEF Progress
  <1>2. CASE m \notin Scheduled(table)
    BY <1>1, <1>2, CalledFor DEF Served, InPlace
  <1>3. CASE m \in Scheduled(table)
    <2> DEFINE new == Scheduler(table[m].queue, m, table[m].every)
    <2>1. /\ new \in Schedulers
          /\ new.monitor = m /\ new.queue = table[m].queue /\ new.every = table[m].every
      BY <1>3, ScheduledHasPlan DEF Scheduler, Schedulers, Plans
    <2>2. new \in present
      BY <1>3, <2>1 DEF Progress
    <2>3. \A s \in present : s.monitor = m => s = new
      BY <1>1, <1>3 DEF Progress, InPlace, Scheduler, Schedulers
    <2> QED
      BY <1>3, <2>1, <2>2, <2>3, CalledFor DEF Served
  <1> QED
    BY <1>2, <1>3

\* A record with the same work left stands where the other stood.
SameWork(x, y) ==
  /\ y.pc = x.pc /\ y.snapshot = x.snapshot /\ y.unread = x.unread
  /\ y.existing = x.existing /\ y.todo = x.todo /\ y.stale = x.stale

LEMMA SameProgress ==
  ASSUME NEW x, NEW y, SameWork(x, y)
  PROVE  /\ \A t, p, m : Progress(t, p, x, m) => Progress(t, p, y, m)
         /\ StaleIsStale(x) => StaleIsStale(y)
  BY DEF SameWork, Progress, StaleIsStale

LEMMA LessQuiet ==
  ASSUME NEW x \in RunRecords, NEW m
  PROVE  /\ SameWork(x, [x EXCEPT !.quiet = @ \ {m}])
         /\ [x EXCEPT !.quiet = @ \ {m}].quiet = x.quiet \ {m}
  BY DEF SameWork, RunRecords

\* Steps in which no run gets on with its work: monitors may stop being quiet, and
\* runs may end or begin.
LEMMA QuietStep ==
  ASSUME Typed, Reconciled, settled' \subseteq settled,
         \A r \in Runs : \/ run'[r].quiet = {} /\ run'[r].stale = {}
                         \/ SameWork(run[r], run'[r]) /\ run'[r].quiet \subseteq run[r].quiet,
         \A m \in Monitors : m \in settled' \/ (\E r \in Runs : m \in run'[r].quiet)
           => monitor'[m] = monitor[m],
         schedulers' = schedulers
  PROVE  Reconciled'
  <1>1. \A m \in settled' : Served(monitor, schedulers, m)'
    BY OthersDoNotMatter DEF Reconciled, Typed, TypeOK
  <1>2. ASSUME NEW r \in Runs, NEW m \in run'[r].quiet
        PROVE  Progress(monitor, schedulers, run[r], m)'
    <2>1. SameWork(run[r], run'[r]) /\ m \in run[r].quiet
      BY <1>2
    <2>2. m \in Monitors
      BY <2>1 DEF Typed, Sound, RunRecords
    <2>3. Progress(monitor, schedulers, run[r], m)
      BY <2>1 DEF Reconciled
    <2>4. Progress(monitor, schedulers, run'[r], m)
      BY <2>1, <2>3, SameProgress
    <2>5. monitor'[m] = monitor[m]
      BY <1>2, <2>2
    <2> QED
      BY <2>2, <2>4, <2>5, OthersDoNotMatter
  <1>3. ASSUME NEW r \in Runs
        PROVE  StaleIsStale(run[r])'
    <2>1. CASE run'[r].stale = {}
      BY <2>1 DEF StaleIsStale
    <2>2. CASE SameWork(run[r], run'[r])
      <3>1. StaleIsStale(run[r])
        BY DEF Reconciled
      <3> QED
        BY <2>2, <3>1, SameProgress
    <2> QED
      BY <2>1, <2>2
  <1> QED
    BY <1>1, <1>2, <1>3 DEF Reconciled

\* Steps in which one run reads.
LEMMA ReadingStep ==
  ASSUME Typed, Reconciled, NEW r \in Runs, NEW y, run' = [run EXCEPT ![r] = y],
         StaleIsStale(y), \A m \in y.quiet : Progress(monitor, schedulers, y, m),
         UNCHANGED <<monitor, schedulers, settled>>
  PROVE  Reconciled'
  BY DEF Reconciled, Typed, TypeOK

\* Steps in which run r writes about m, y being its record afterwards.
LEMMA WritingStep ==
  ASSUME Typed, Reconciled, NEW r \in Runs, NEW m \in Monitors, NEW y \in RunRecords,
         Written(r, m, y), monitor' = monitor, StaleIsStale(y), y.quiet = run[r].quiet,
         \A n \in Monitors \ {m} :
            /\ {s \in schedulers : s.monitor = n} = {s \in schedulers' : s.monitor = n}
            /\ Progress(monitor, schedulers, run[r], n) => Progress(monitor, schedulers, y, n),
         run[r].snapshot[m] = monitor[m] =>
            /\ Served(monitor, schedulers, m) => Served(monitor, schedulers', m)
            /\ \A x : Progress(monitor, schedulers, x, m) => Progress(monitor, schedulers', x, m)
            /\ Progress(monitor, schedulers, run[r], m) => Progress(monitor, schedulers', y, m)
  PROVE  Reconciled'
  <1> DEFINE base(q) == IF q = r THEN y ELSE run[q]
  <1>0. \A q \in Runs : base(q) \in RunRecords /\ base(q).quiet = run[q].quiet
                        /\ run[q].quiet \subseteq Monitors
    BY DEF Typed, Sound, RunRecords
  <1>1. settled' \subseteq settled /\ settled \subseteq Monitors
    BY DEF Written, Typed, TypeOK
  <1>2. \A q \in Runs : SameWork(base(q), run'[q]) /\ run'[q].quiet \subseteq run[q].quiet
    <2> TAKE q \in Runs
    <2>1. run'[q] = base(q) \/ run'[q] = [base(q) EXCEPT !.quiet = @ \ {m}]
      BY DEF Written, Typed, TypeOK
    <2> DEFINE b == base(q)
    <2>2. b \in RunRecords /\ b.quiet = run[q].quiet
      BY <1>0
    <2>3. run'[q] = b \/ run'[q] = [b EXCEPT !.quiet = @ \ {m}]
      BY <2>1
    <2> HIDE DEF b
    <2>4. SameWork(b, run'[q]) /\ run'[q].quiet \subseteq run[q].quiet
      <3>1. CASE run'[q] = b
        BY <2>2, <3>1 DEF SameWork
      <3>2. CASE run'[q] = [b EXCEPT !.quiet = @ \ {m}]
        <4>1. /\ SameWork(b, [b EXCEPT !.quiet = @ \ {m}])
              /\ [b EXCEPT !.quiet = @ \ {m}].quiet = b.quiet \ {m}
          BY <2>2, LessQuiet
        <4> QED
          BY <2>2, <3>2, <4>1
      <3> QED
        BY <2>3, <3>1, <3>2
    <2> QED
      BY <2>4 DEF b
  <1>3. run[r].snapshot[m] # monitor[m] => m \notin settled' /\ \A q \in Runs : m \notin run'[q].quiet
    <2>1. ASSUME run[r].snapshot[m] # monitor[m], NEW q \in Runs
          PROVE  m \notin run'[q].quiet
      <3>1. run'[q] = [base(q) EXCEPT !.quiet = @ \ {m}]
        BY <2>1 DEF Written, Typed, TypeOK
      <3> QED
        BY <1>0, <3>1, LessQuiet
    <2> QED
      BY <2>1 DEF Written
  <1>4. ASSUME NEW n \in settled'
        PROVE  Served(monitor, schedulers, n)'
    <2>1. n \in Monitors /\ Served(monitor, schedulers, n)
      BY <1>1 DEF Reconciled
    <2>2. CASE n = m
      BY <1>3, <2>1, <2>2
    <2>3. CASE n # m
      BY <2>1, <2>3, OthersDoNotMatter
    <2> QED
      BY <2>2, <2>3
  <1>5. ASSUME NEW q \in Runs, NEW n \in run'[q].quiet
        PROVE  Progress(monitor, schedulers, run[q], n)'
    <2>1. n \in Monitors /\ n \in run[q].quiet /\ Progress(monitor, schedulers, run[q], n)
      BY <1>0, <1>2 DEF Reconciled
    <2>2. Progress(monitor, schedulers', base(q), n)
      <3>1. CASE n = m
        BY <1>3, <2>1, <3>1
      <3>2. CASE n # m
        <4>1. Progress(monitor, schedulers, base(q), n)
          BY <2>1, <3>2
        <4> QED
          BY <2>1, <3>2, <4>1, OthersDoNotMatter
      <3> QED
        BY <3>1, <3>2
    <2> QED
      BY <1>2, <2>2, SameProgress
  <1>6. ASSUME NEW q \in Runs
        PROVE  StaleIsStale(run[q])'
    <2>1. StaleIsStale(base(q))
      BY DEF Reconciled
    <2> QED
      BY <1>2, <2>1, SameProgress
  <1> QED
    BY <1>4, <1>5, <1>6 DEF Reconciled

\* A run reads.
LEMMA ReadingReconciles ==
  ASSUME Typed, Reconciled, NEW r \in Runs,
         ReadMonitors(r) \/ Plan(r) \/ \E q \in Queues : ReadQueue(r, q)
  PROVE  Reconciled'
  <1>0. run[r] \in RunRecords /\ StaleIsStale(run[r])
    BY DEF Typed, Sound, Reconciled
  <1>1. ASSUME ReadMonitors(r)
        PROVE  Reconciled'
    <2> DEFINE y == [run[r] EXCEPT !.pc = "readQueues", !.snapshot = monitor,
                                   !.unread = Queues, !.quiet = Monitors]
    <2>1. /\ y.pc = "readQueues" /\ y.snapshot = monitor /\ y.unread = Queues
          /\ y.stale = run[r].stale
      BY <1>0 DEF RunRecords
    <2>2. run[r].stale = {}
      BY <1>0, <1>1 DEF ReadMonitors, StaleIsStale
    <2>3. run' = [run EXCEPT ![r] = y]
      BY <1>1 DEF ReadMonitors
    <2> HIDE DEF y
    <2>4. StaleIsStale(y)
      BY <2>1, <2>2 DEF StaleIsStale
    <2>5. \A s \in schedulers : s.queue \in Queues
      BY DEF Typed, TypeOK, Schedulers
    <2>6. \A m : Progress(monitor, schedulers, y, m)
      BY <2>1, <2>5 DEF Progress
    <2> QED
      BY <1>1, <2>3, <2>4, <2>6, ReadingStep DEF ReadMonitors
  <1>2. ASSUME NEW q \in Queues, ReadQueue(r, q)
        PROVE  Reconciled'
    <2> DEFINE y == [run[r] EXCEPT !.unread = @ \ {q},
                                   !.existing = @ \cup {s \in schedulers : s.queue = q}]
    <2>1. /\ y.pc = run[r].pc /\ y.snapshot = run[r].snapshot /\ y.stale = run[r].stale
          /\ y.unread = run[r].unread \ {q} /\ y.quiet = run[r].quiet
          /\ y.existing = run[r].existing \cup {s \in schedulers : s.queue = q}
      BY <1>0 DEF RunRecords
    <2>2. run' = [run EXCEPT ![r] = y] /\ run[r].pc = "readQueues"
      BY <1>2 DEF ReadQueue
    <2> HIDE DEF y
    <2>3. StaleIsStale(y)
      BY <1>0, <2>1 DEF StaleIsStale
    <2>4. \A m \in y.quiet : Progress(monitor, schedulers, y, m)
      BY <2>1, <2>2 DEF Progress, Reconciled
    <2> QED
      BY <1>2, <2>2, <2>3, <2>4, ReadingStep DEF ReadQueue
  <1>3. ASSUME Plan(r)
        PROVE  Reconciled'
    <2> DEFINE y == [run[r] EXCEPT !.pc = "reconcile", !.todo = Scheduled(run[r].snapshot),
                                   !.stale = StaleSchedulers(run[r].existing, run[r].snapshot)]
    <2>1. /\ y.pc = "reconcile" /\ y.snapshot = run[r].snapshot /\ y.quiet = run[r].quiet
          /\ y.todo = Scheduled(run[r].snapshot)
          /\ y.stale = StaleSchedulers(run[r].existing, run[r].snapshot)
      BY <1>0 DEF RunRecords
    <2>2. run' = [run EXCEPT ![r] = y] /\ run[r].pc = "readQueues" /\ run[r].unread = {}
      BY <1>3 DEF Plan
    <2> HIDE DEF y
    <2>3. \A s \in Schedulers :
            (\E d \in Desired(run[r].snapshot) : d.queue = s.queue /\ d.monitor = s.monitor)
              <=> InPlace(run[r].snapshot, s.monitor, s)
      <3> TAKE s \in Schedulers
      <3>1. ASSUME NEW d \in Desired(run[r].snapshot), d.queue = s.queue, d.monitor = s.monitor
            PROVE  InPlace(run[r].snapshot, s.monitor, s)
        BY <3>1 DEF Desired, Scheduler, InPlace
      <3>2. ASSUME InPlace(run[r].snapshot, s.monitor, s)
            PROVE  \E d \in Desired(run[r].snapshot) : d.queue = s.queue /\ d.monitor = s.monitor
        <4> DEFINE d == Scheduler(run[r].snapshot[s.monitor].queue, s.monitor,
                                  run[r].snapshot[s.monitor].every)
        <4>1. d \in Desired(run[r].snapshot)
          BY <3>2 DEF Desired, InPlace
        <4>2. d.queue = s.queue /\ d.monitor = s.monitor
          BY <3>2 DEF InPlace, Scheduler
        <4> QED
          BY <4>1, <4>2
      <3> QED
        BY <3>1, <3>2
    <2>4. StaleIsStale(y)
      BY <1>0, <2>1, <2>3 DEF StaleIsStale, StaleSchedulers, RunRecords
    <2>5. ASSUME NEW m \in y.quiet
          PROVE  Progress(monitor, schedulers, y, m)
      <3>1. Progress(monitor, schedulers, run[r], m) /\ m \in Monitors
        BY <1>0, <2>1 DEF Reconciled, RunRecords
      <3>2. m \in Scheduled(run[r].snapshot) <=> m \in Scheduled(monitor)
        BY <3>1 DEF Progress, Scheduled
      <3>3. \A s \in schedulers : s.monitor = m => s \in y.stale \/ InPlace(monitor, m, s)
        BY <2>1, <2>2, <2>3, <3>1, <3>2 DEF Progress, StaleSchedulers, InPlace, Typed, TypeOK
      <3> QED
        BY <2>1, <3>1, <3>2, <3>3 DEF Progress
    <2> QED
      BY <1>3, <2>2, <2>4, <2>5, ReadingStep DEF Plan
  <1> QED
    BY <1>1, <1>2, <1>3

\* A run writes.
LEMMA WritingReconciles ==
  ASSUME Typed, Reconciled, NEW r \in Runs, \/ \E m \in Monitors : Upsert(r, m)
                                            \/ \E old \in Schedulers : Remove(r, old)
  PROVE  Reconciled'
  <1>0. Sound(run[r]) /\ run[r] \in RunRecords /\ StaleIsStale(run[r])
    BY DEF Typed, Sound, Reconciled
  <1>t. monitor \in [Monitors -> Rows] /\ schedulers \in SUBSET Schedulers
    BY DEF Typed, TypeOK
  <1>1. ASSUME NEW m \in Monitors, Upsert(r, m)
        PROVE  Reconciled'
    <2> DEFINE y == [run[r] EXCEPT !.todo = @ \ {m}]
               row == run[r].snapshot[m]
    <2>1. /\ y \in RunRecords /\ y.pc = run[r].pc /\ y.snapshot = run[r].snapshot
          /\ y.stale = run[r].stale /\ y.quiet = run[r].quiet /\ y.todo = run[r].todo \ {m}
      BY <1>0 DEF RunRecords
    <2>2. /\ Written(r, m, y) /\ monitor' = monitor
          /\ run[r].pc = "reconcile" /\ m \in run[r].todo
          /\ schedulers' = {s \in schedulers : ~(s.queue = row.queue /\ s.monitor = m)}
                           \cup {Scheduler(row.queue, m, row.every)}
      BY <1>1 DEF Upsert
    <2>3. StaleIsStale(y)
      BY <1>0, <2>1 DEF StaleIsStale
    <2>4. ASSUME NEW n \in Monitors \ {m}
          PROVE  /\ {s \in schedulers : s.monitor = n} = {s \in schedulers' : s.monitor = n}
                 /\ Progress(monitor, schedulers, run[r], n) => Progress(monitor, schedulers, y, n)
      <3>1. {s \in schedulers : s.monitor = n} = {s \in schedulers' : s.monitor = n}
        BY <2>2 DEF Scheduler
      <3>2. Progress(monitor, schedulers, run[r], n) => Progress(monitor, schedulers, y, n)
        <4> HIDE DEF y
        <4> QED
          BY <2>1, <2>2 DEF Progress
      <3> QED
        BY <3>1, <3>2
    <2>5. ASSUME row = monitor[m]
          PROVE  /\ Served(monitor, schedulers, m) => Served(monitor, schedulers', m)
                 /\ \A x : Progress(monitor, schedulers, x, m) => Progress(monitor, schedulers', x, m)
                 /\ Progress(monitor, schedulers, run[r], m) => Progress(monitor, schedulers', y, m)
      <3>1. m \in Scheduled(monitor)
        BY <1>0, <2>2, <2>5 DEF Sound, Scheduled
      <3> QED
        BY <1>0, <1>t, <2>2, <2>5, <3>1, UpsertAdvances
    <2> HIDE DEF y
    <2> QED
      BY <2>1, <2>2, <2>3, <2>4, <2>5, WritingStep
  <1>2. ASSUME NEW old \in Schedulers, Remove(r, old)
        PROVE  Reconciled'
    <2> DEFINE y == [run[r] EXCEPT !.stale = @ \ {old}]
               m == old.monitor
    <2>1. /\ y \in RunRecords /\ y.pc = run[r].pc /\ y.snapshot = run[r].snapshot
          /\ y.stale = run[r].stale \ {old} /\ y.quiet = run[r].quiet /\ y.todo = run[r].todo
      BY <1>0 DEF RunRecords
    <2>2. /\ Written(r, m, y) /\ monitor' = monitor /\ m \in Monitors
          /\ run[r].pc = "reconcile" /\ old \in run[r].stale
          /\ schedulers' = {s \in schedulers : ~(s.queue = old.queue /\ s.monitor = old.monitor)}
      BY <1>2 DEF Remove, Schedulers
    <2>3. StaleIsStale(y)
      BY <1>0, <2>1, <2>2 DEF StaleIsStale
    <2>4. ASSUME NEW n \in Monitors \ {m}
          PROVE  /\ {s \in schedulers : s.monitor = n} = {s \in schedulers' : s.monitor = n}
                 /\ Progress(monitor, schedulers, run[r], n) => Progress(monitor, schedulers, y, n)
      <3>1. {s \in schedulers : s.monitor = n} = {s \in schedulers' : s.monitor = n}
        BY <2>2
      <3>2. Progress(monitor, schedulers, run[r], n) => Progress(monitor, schedulers, y, n)
        <4>1. \A s : s.monitor = n /\ s \in run[r].stale => s \in y.stale
          BY <2>1
        <4> HIDE DEF y
        <4> QED
          BY <2>1, <2>2, <4>1 DEF Progress
      <3> QED
        BY <3>1, <3>2
    <2>5. ASSUME run[r].snapshot[m] = monitor[m]
          PROVE  /\ Served(monitor, schedulers, m) => Served(monitor, schedulers', m)
                 /\ \A x : Progress(monitor, schedulers, x, m) => Progress(monitor, schedulers', x, m)
                 /\ Progress(monitor, schedulers, run[r], m) => Progress(monitor, schedulers', y, m)
      <3>1. ~InPlace(monitor, m, old)
        BY <1>0, <2>2, <2>5 DEF StaleIsStale, InPlace, Scheduled
      <3> QED
        BY <1>0, <2>2, <3>1, RemoveAdvances
    <2> HIDE DEF y
    <2> QED
      BY <2>1, <2>2, <2>3, <2>4, <2>5, WritingStep
  <1> QED
    BY <1>1, <1>2

\* Every step keeps what was reconciled.
LEMMA StepReconciles ==
  ASSUME Typed, Reconciled, [Next]_vars
  PROVE  Reconciled'
  <1>0. \A r \in Runs : run[r] \in RunRecords
    BY DEF Typed, Sound
  <1>i. IdleRun.quiet = {} /\ IdleRun.stale = {}
    BY DEF IdleRun
  <1>t. run \in [Runs -> RunRecords]
    BY DEF Typed, TypeOK
  <1>1. CASE UNCHANGED vars
    BY <1>1, QuietStep DEF vars, SameWork
  <1>2. ASSUME NEW m \in Monitors, Edit(m)
        PROVE  Reconciled'
    <2>1. \A r \in Runs : SameWork(run[r], run'[r]) /\ run'[r].quiet = run[r].quiet \ {m}
      BY <1>0, <1>2, LessQuiet DEF Edit
    <2>2. \A n \in Monitors : n # m => monitor'[n] = monitor[n]
      BY <1>2 DEF Edit, Typed, TypeOK
    <2> QED
      BY <1>2, <2>1, <2>2, QuietStep DEF Edit
  <1>3. ASSUME Elapse
        PROVE  Reconciled'
    <2>1. \A r \in Runs : SameWork(run[r], run'[r]) /\ run'[r].quiet = run[r].quiet
      BY <1>0, <1>3 DEF Elapse, SameWork, RunRecords
    <2> QED
      BY <1>3, <2>1, QuietStep DEF Elapse
  <1>4. ASSUME NEW r \in Runs, Acquire(r)
        PROVE  Reconciled'
    <2>1. run'[r].quiet = {} /\ run'[r].stale = {}
      BY <1>4, <1>t, <1>i DEF Acquire, IdleRun
    <2>2. \A s \in Runs : s # r => run'[s] = run[s]
      BY <1>4, <1>t DEF Acquire
    <2> QED
      BY <1>4, <2>1, <2>2, QuietStep DEF Acquire, SameWork
  <1>5. ASSUME NEW r \in Runs, Finish(r)
        PROVE  Reconciled'
    <2>1. \A m \in run[r].quiet : m \in Monitors /\ Served(monitor, schedulers, m)
      BY <1>0, <1>5, DoneIsServed DEF Finish, Reconciled, Typed, TypeOK, RunRecords
    <2>2. run'[r] = IdleRun /\ \A s \in Runs : s # r => run'[s] = run[s]
      BY <1>5, <1>t DEF Finish
    <2>3. /\ \A s \in Runs : \A m \in run'[s].quiet : Progress(monitor, schedulers, run'[s], m)
          /\ \A s \in Runs : StaleIsStale(run'[s])
      BY <1>i, <2>2 DEF Reconciled, StaleIsStale
    <2> QED
      BY <1>5, <2>1, <2>3 DEF Finish, Reconciled
  <1>6. ASSUME NEW r \in Runs, RunFails(r)
        PROVE  Reconciled'
    <2>1. \A s \in Runs : run'[s] = IdleRun \/ run'[s] = run[s]
      BY <1>6 DEF RunFails, Stopped
    <2> QED
      BY <1>6, <1>i, <2>1, QuietStep DEF RunFails, SameWork
  <1>7. ASSUME NEW i \in Instances, Crash(i) \/ SkipBootstrap(i)
        PROVE  Reconciled'
    <2>1. \A s \in Runs : run'[s] = IdleRun \/ run'[s] = run[s]
      BY <1>7 DEF Crash, SkipBootstrap, Stopped
    <2> QED
      BY <1>7, <1>i, <2>1, QuietStep DEF Crash, SkipBootstrap, SameWork
  <1> QED
    BY <1>1, <1>2, <1>3, <1>4, <1>5, <1>6, <1>7, ReadingReconciles, WritingReconciles
    DEF Next, RunStep

\* A monitor that a synchronisation saw and served has exactly its own scheduler, in
\* the right queue and at the right interval, until it is edited or an out-of-date run
\* writes about it.
THEOREM SettledMonitorsStayScheduled == Spec => []SettledMonitorsAreScheduled
  <1>1. Init => Reconciled
    BY DEF Init, Reconciled, StaleIsStale, IdleRun
  <1>2. Typed /\ Reconciled /\ [Next]_vars => (Typed /\ Reconciled)'
    BY StepTypes, StepReconciles
  <1>3. Reconciled => SettledMonitorsAreScheduled
    BY DEF Reconciled, Served, SettledMonitorsAreScheduled
  <1> QED
    BY <1>1, <1>2, <1>3, InitTypes, PTL DEF Spec
=============================================================================
