--------------------------- MODULE SchedulerSync ---------------------------
(***************************************************************************)
(* SchedulerService: instances of the scheduler process bring the job      *)
(* schedulers of the monitor-check queues in line with the active monitors.*)
(* A synchronisation (a run) holds a Redis lock that expires: a run that   *)
(* takes longer than the lock lives goes on beside the next one, and since *)
(* setInterval waits for nobody, even beside one of its own instance.      *)
(*                                                                         *)
(* Every await is an action.  A run reads the table once and each queue    *)
(* once, then writes from what it read, while users edit the table.        *)
(* Heartbeat monitors have no job scheduler; what a run does for them is   *)
(* in Heartbeat, and only their failures are felt here (RunFails).         *)
(***************************************************************************)
EXTENDS Integers, FiniteSets

CONSTANTS
  Instances,    \* scheduler processes
  Runs,         \* synchronisations that can be under way at once
  Home,         \* the instance of each run
  NoRun,        \* no synchronisation: nobody owns the lock
  Monitors,     \* monitor ids
  Queues,       \* the monitor-check queues, one for each type of monitor
  Intervals,    \* values of intervalSeconds
  LockTtl,      \* SCHEDULER_LOCK_TTL_MS, in ticks
  MaxEdits,     \* bound: edits of the monitors table in a behaviour
  MaxFailures   \* bound: crashes and infrastructure errors in a behaviour

ASSUME HomeAssumption == Home \in [Runs -> Instances]
ASSUME NoRunAssumption == NoRun \notin Runs
ASSUME TtlAssumption == LockTtl \in Nat \ {0}
ASSUME EditBoundAssumption == MaxEdits \in Nat /\ MaxFailures \in Nat

VARIABLES
  monitor,      \* per id, the row as scheduling sees it
  schedulers,   \* the job schedulers of all the queues
  lock,         \* scheduler:sync:lock, its token and the time it has left
  run,          \* per run: where it stands, and what it read
  polling,      \* per instance: its bootstrap ended and the timer fires
  settled,      \* history: the monitors a run saw and served, unedited since
  edits,        \* edits so far, for the bound
  failures      \* failures so far, for the bound

vars == <<monitor, schedulers, lock, run, polling, settled, edits, failures>>

\* The row of an active monitor that is checked; every other id (inactive,
\* deleted, not created yet, a heartbeat monitor) is Unscheduled.
Plans == [queue : Queues, every : Intervals]
Unscheduled == [queue |-> "none", every |-> 0]
Rows == Plans \cup {Unscheduled}

Scheduler(q, m, e) == [queue |-> q, monitor |-> m, every |-> e]
Schedulers == [queue : Queues, monitor : Monitors, every : Intervals]

NoLock == [owner |-> NoRun, left |-> 0]

IdleRun == [pc |-> "idle", snapshot |-> [m \in Monitors |-> Unscheduled], unread |-> {},
            existing |-> {}, todo |-> {}, stale |-> {}, age |-> 0, quiet |-> {}]

Inside(r) == run[r].pc # "idle"

\* The monitors a table has to schedule, and the schedulers it calls for.
Scheduled(table) == {m \in Monitors : table[m] # Unscheduled}
Desired(table) == {Scheduler(table[m].queue, m, table[m].every) : m \in Scheduled(table)}

Init ==
  /\ monitor \in [Monitors -> Rows]
  /\ schedulers = {}
  /\ lock = NoLock
  /\ run = [r \in Runs |-> IdleRun]
  /\ polling = [i \in Instances |-> FALSE]
  /\ settled = {}
  /\ edits = 0 /\ failures = 0

-----------------------------------------------------------------------------
(* The table and the clock *)

\* A user creates, deletes, (de)activates a monitor, or changes its type or
\* interval.  Nothing else is done: the next synchronisation finds out.
Edit(m) ==
  /\ edits < MaxEdits
  /\ edits' = edits + 1
  /\ \E row \in Rows \ {monitor[m]} : monitor' = [monitor EXCEPT ![m] = row]
  /\ settled' = settled \ {m}
  /\ run' = [r \in Runs |-> [run[r] EXCEPT !.quiet = @ \ {m}]]
  /\ UNCHANGED <<schedulers, lock, polling, failures>>

\* Mutant of Elapse: the lock is set without PX.
ElapseWithoutExpiry ==
  /\ lock # NoLock
  /\ run' = [r \in Runs |-> IF Inside(r) /\ run[r].age < LockTtl
                            THEN [run[r] EXCEPT !.age = @ + 1] ELSE run[r]]
  /\ UNCHANGED <<monitor, schedulers, lock, polling, settled, edits, failures>>

\* Time passes; Redis drops the lock when its time is over.
Elapse ==
  /\ lock # NoLock
  /\ lock' = IF lock.left = 1 THEN NoLock ELSE [lock EXCEPT !.left = @ - 1]
  /\ run' = [r \in Runs |-> IF Inside(r) /\ run[r].age < LockTtl
                            THEN [run[r] EXCEPT !.age = @ + 1] ELSE run[r]]
  /\ UNCHANGED <<monitor, schedulers, polling, settled, edits, failures>>

-----------------------------------------------------------------------------
(* A synchronisation *)

\* The timer of a polling instance fires whatever is under way; the bootstrap
\* is the only run of an instance that does not poll yet.
MayStart(r) ==
  /\ ~Inside(r)
  /\ polling[Home[r]] \/ \A s \in Runs : Home[s] = Home[r] => ~Inside(s)

\* SET key token PX ttl NX answers OK.
Acquire(r) ==
  /\ MayStart(r) /\ lock = NoLock
  /\ lock' = [owner |-> r, left |-> LockTtl]
  /\ run' = [run EXCEPT ![r] = [IdleRun EXCEPT !.pc = "readMonitors"]]
  /\ UNCHANGED <<monitor, schedulers, polling, settled, edits, failures>>

\* The lock is another's: a bootstrap ends at once, a poll changes nothing.
SkipBootstrap(i) ==
  /\ ~polling[i] /\ lock # NoLock
  /\ \A r \in Runs : Home[r] = i => ~Inside(r)
  /\ polling' = [polling EXCEPT ![i] = TRUE]
  /\ UNCHANGED <<monitor, schedulers, lock, run, settled, edits, failures>>

\* findActiveMonitorsForScheduling
ReadMonitors(r) ==
  /\ run[r].pc = "readMonitors"
  /\ run' = [run EXCEPT ![r].pc = "readQueues", ![r].snapshot = monitor,
                        ![r].unread = Queues, ![r].quiet = Monitors]
  /\ UNCHANGED <<monitor, schedulers, lock, polling, settled, edits, failures>>

\* The queues are asked at the same time and answer in any order.
ReadQueue(r, q) ==
  /\ run[r].pc = "readQueues" /\ q \in run[r].unread
  /\ run' = [run EXCEPT ![r].unread = @ \ {q},
                        ![r].existing = @ \cup {s \in schedulers : s.queue = q}]
  /\ UNCHANGED <<monitor, schedulers, lock, polling, settled, edits, failures>>

\* Mutant of StaleSchedulers: ids are compared across queues, so the scheduler a
\* change of type left behind looks desired.
StaleSchedulersOfAnyQueue(existing, table) ==
  {s \in existing : s.monitor \notin Scheduled(table)}

\* removeStaleMonitorCheckSchedulers: what was listed in a queue and has an id
\* that is not desired in that queue.
StaleSchedulers(existing, table) ==
  {s \in existing : ~\E d \in Desired(table) : d.queue = s.queue /\ d.monitor = s.monitor}

\* With everything read, the work of the run is decided.
Plan(r) ==
  /\ run[r].pc = "readQueues" /\ run[r].unread = {}
  /\ run' = [run EXCEPT ![r].pc = "reconcile",
                        ![r].todo = Scheduled(run[r].snapshot),
                        ![r].stale = StaleSchedulers(run[r].existing, run[r].snapshot)]
  /\ UNCHANGED <<monitor, schedulers, lock, polling, settled, edits, failures>>

\* Run r writes something about m: if r's row of m is out of date, this may undo
\* what a run with the current row did, so m is no longer settled.
Written(r, m, record) ==
  IF run[r].snapshot[m] = monitor[m]
  THEN /\ run' = [run EXCEPT ![r] = record]
       /\ UNCHANGED settled
  ELSE /\ run' = [[s \in Runs |-> [run[s] EXCEPT !.quiet = @ \ {m}]] EXCEPT
                   ![r] = [record EXCEPT !.quiet = @ \ {m}]]
       /\ settled' = settled \ {m}

\* upsertJobScheduler: a scheduler of that id in that queue is replaced.
Upsert(r, m) ==
  LET row == run[r].snapshot[m] IN
  /\ run[r].pc = "reconcile" /\ m \in run[r].todo
  /\ schedulers' = {s \in schedulers : ~(s.queue = row.queue /\ s.monitor = m)}
                   \cup {Scheduler(row.queue, m, row.every)}
  /\ Written(r, m, [run[r] EXCEPT !.todo = @ \ {m}])
  /\ UNCHANGED <<monitor, lock, polling, edits, failures>>

\* removeJobScheduler, once every monitor was served.
Remove(r, old) ==
  /\ run[r].pc = "reconcile" /\ run[r].todo = {} /\ old \in run[r].stale
  /\ schedulers' = {s \in schedulers : ~(s.queue = old.queue /\ s.monitor = old.monitor)}
  /\ Written(r, old.monitor, [run[r] EXCEPT !.stale = @ \ {old}])
  /\ UNCHANGED <<monitor, lock, polling, edits, failures>>

\* Mutant of Unlocked: a plain DEL, whoever holds the lock by now.
UnlockedWhoeverHolds(r) == NoLock

\* The script deletes the lock only if it still holds the run's token.
Unlocked(r) == IF lock.owner = r THEN NoLock ELSE lock

\* The runs left when an instance exits.
Stopped(i) == [r \in Runs |-> IF Home[r] = i THEN IdleRun ELSE run[r]]

Finish(r) ==
  /\ run[r].pc = "reconcile" /\ run[r].todo = {} /\ run[r].stale = {}
  /\ lock' = Unlocked(r)
  /\ run' = [run EXCEPT ![r] = IdleRun]
  /\ polling' = [polling EXCEPT ![Home[r]] = TRUE]
  /\ settled' = settled \cup run[r].quiet
  /\ UNCHANGED <<monitor, schedulers, edits, failures>>

\* A call fails: finally releases the lock, then the error, which nobody
\* handles, ends the process and with it any other run of the instance.
RunFails(r) ==
  /\ Inside(r) /\ failures < MaxFailures
  /\ failures' = failures + 1
  /\ lock' = Unlocked(r)
  /\ run' = Stopped(Home[r])
  /\ polling' = [polling EXCEPT ![Home[r]] = FALSE]
  /\ UNCHANGED <<monitor, schedulers, settled, edits>>

\* The process dies without a word: the lock stays.
Crash(i) ==
  /\ failures < MaxFailures
  /\ failures' = failures + 1
  /\ run' = Stopped(i)
  /\ polling' = [polling EXCEPT ![i] = FALSE]
  /\ UNCHANGED <<monitor, schedulers, lock, settled, edits>>

RunStep(r) ==
  \/ ReadMonitors(r)
  \/ \E q \in Queues : ReadQueue(r, q)
  \/ Plan(r)
  \/ \E m \in Monitors : Upsert(r, m)
  \/ \E s \in Schedulers : Remove(r, s)
  \/ Finish(r)

Next ==
  \/ \E m \in Monitors : Edit(m)
  \/ Elapse
  \/ \E r \in Runs : Acquire(r) \/ RunStep(r) \/ RunFails(r)
  \/ \E i \in Instances : SkipBootstrap(i) \/ Crash(i)

Spec == Init /\ [][Next]_vars

\* A run that is not interrupted goes on, the lock's time passes, a timer fires
\* again and again so that a lock that stays free is taken, and a process that
\* was started ends its bootstrap.  Edits, errors and crashes owe nothing.
Fairness ==
  /\ \A r \in Runs : WF_vars(RunStep(r))
  /\ WF_vars(Elapse)
  /\ WF_vars(\E r \in Runs : Acquire(r))
  /\ \A i \in Instances : WF_vars(SkipBootstrap(i))

FairSpec == Spec /\ Fairness

-----------------------------------------------------------------------------
(* Properties *)

RunRecords ==
  [pc : {"idle", "readMonitors", "readQueues", "reconcile"}, snapshot : [Monitors -> Rows],
   unread : SUBSET Queues, existing : SUBSET Schedulers, todo : SUBSET Monitors,
   stale : SUBSET Schedulers, age : 0..LockTtl, quiet : SUBSET Monitors]

\* Types.
TypeOK ==
  /\ monitor \in [Monitors -> Rows]
  /\ schedulers \subseteq Schedulers
  /\ lock \in [owner : Runs \cup {NoRun}, left : 0..LockTtl]
  /\ run \in [Runs -> RunRecords]
  /\ polling \in [Instances -> BOOLEAN]
  /\ settled \subseteq Monitors
  /\ edits \in 0..MaxEdits /\ failures \in 0..MaxFailures

\* Two synchronisations are under way at once only when one of them has outlived
\* its lock: neither a crash, nor a release that comes late, nor a restart lets
\* a second one in earlier (syncWithDistributedLock).
OverlapOnlyAfterExpiry ==
  \A r, s \in Runs : r # s /\ Inside(r) /\ Inside(s)
                     => run[r].age = LockTtl \/ run[s].age = LockTtl

\* Once a synchronisation has seen and served a monitor, the monitor has exactly
\* its own scheduler, in the queue of its type and at its interval, until it is
\* edited or a run with an out-of-date row writes about it: runs that overlap, fail
\* half-way or die do not disturb it (synchronizeMonitors).
SettledMonitorsAreScheduled ==
  \A m \in settled : {s \in schedulers : s.monitor = m}
                     = {s \in Desired(monitor) : s.monitor = m}

\* When the users stop editing and the failures end, the queues come to hold
\* exactly the schedulers of the active monitors and keep them, whatever crashed
\* or overlapped before, the holder of the lock included.
SchedulersConverge == <>[](schedulers = Desired(monitor))
=============================================================================
