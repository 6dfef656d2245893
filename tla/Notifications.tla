--------------------------- MODULE Notifications ---------------------------
(***************************************************************************)
(* What the outside learns of a monitor's incidents.  IncidentsService     *)
(* writes the incident, then queues an alert for the owner's contacts,     *)
(* then publishes the change to the event streams of its own process.      *)
(* Incidents open in the worker; those of a heartbeat monitor are resolved *)
(* by pings, in the API, and the others in the worker.  Browsers stream    *)
(* from the API.                                                           *)
(*                                                                         *)
(* Every await is an action, and any of them may fail.  Checks of the      *)
(* monitor come one after the other (CheckWorker has the ones that         *)
(* overlap), a retry like a check of the next minute, but the alert and    *)
(* the publication of a change may trail behind later checks.              *)
(***************************************************************************)
EXTENDS Integers, Sequences, FiniteSets

CONSTANTS
  Contacts,      \* ids of alert contacts
  Clients,       \* browser pages
  Threshold,     \* consecutiveFailuresThreshold of the monitor
  Attempts,      \* attempts of an alert job
  MaxChecks,     \* bound: check results in a behaviour
  MaxConnects,   \* bound: connections of the pages
  MaxEdits,      \* bound: edits of the contacts
  MaxFailures    \* bound: crashes, failing queries, expiries of the failure keys

ASSUME BoundAssumption == Threshold \in Nat \ {0} /\ Attempts \in Nat \ {0} /\ MaxChecks \in Nat
ASSUME ContactsAssumption == IsFiniteSet(Contacts)

VARIABLES
  heartbeat,  \* the monitor is a heartbeat monitor
  check,      \* the latest check: its result, what is left of its processing, the two keys
              \* in Redis; ghosts: silent, down and lost (Record, Broken)
  startedAt,  \* of the open incident, 0 when there is none
  events,     \* the changes of the incidents, in the order they were written
  handler,    \* per event, what is left of open- or resolveOpenIncident
  contacts,   \* the owner's contacts, the newest first
  job,        \* per event, its job of the alerts queue
  got,        \* per event and contact, how often its webhook was called
  page,       \* per page: its stream and what it shows
  connects, edits, failures

vars == <<heartbeat, check, startedAt, events, handler, contacts, job, got, page,
          connects, edits, failures>>
alertVars == <<contacts, job, got, edits>>
monitorVars == <<heartbeat, check, startedAt, events>>

Event == 1..MaxChecks    \* every change of an incident has a check behind it
Types == {"WEBHOOK", "EMAIL"}
Contact(id, type) == [id |-> id, type |-> type]
Tables == {s \in UNION {[1..n -> [id : Contacts, type : Types]] : n \in 0..Cardinality(Contacts)} :
             \A i, j \in DOMAIN s : s[i].id = s[j].id => i = j}

NoJob == [pc |-> "none", contacts |-> <<>>, next |-> 1, attempts |-> 0, stalls |-> 0]
\* A page shows a status and the time of the change, and remembers its toasts.
Closed == [pc |-> "closed", status |-> "UNKNOWN", at |-> 0, toasts |-> {},
           read |-> [status |-> "UNKNOWN", at |-> 0], readAt |-> 0, from |-> 0,
           heard |-> {}, last |-> 0]

Now == check.at
Opened == startedAt > 0
NeededFailures == IF heartbeat THEN 1 ELSE Threshold

\* A successful check, or none yet, at a time.
Success(at) == [at |-> at, up |-> TRUE, pc |-> "idle", failures |-> 0, first |-> 0,
                silent |-> 0, down |-> {}, lost |-> 0]

Unstarted ==
  /\ heartbeat \in BOOLEAN
  /\ startedAt = 0
  /\ events = <<>>
  /\ handler = [e \in Event |-> "none"]
  /\ job = [e \in Event |-> NoJob]
  /\ got = [e \in Event |-> [c \in Contacts |-> 0]]
  /\ page = [c \in Clients |-> Closed]
  /\ failures = 0

Init == Unstarted /\ check = Success(0) /\ contacts \in Tables /\ connects = 0 /\ edits = 0

-----------------------------------------------------------------------------
(* The monitor *)

\* Mutant of Snapshot: a failing monitor changed at its latest check.
SnapshotOfLatestCheck ==
  IF Opened \/ (check.at > 0 /\ ~check.up) THEN [status |-> "DOWN", at |-> check.at]
  ELSE [status |-> IF check.at = 0 THEN "UNKNOWN" ELSE "UP", at |-> check.at]

\* findMonitorStatusSnapshotByUserId: the open incident, or else the latest check.
Snapshot ==
  IF Opened THEN [status |-> "DOWN", at |-> startedAt]
  ELSE [status |-> IF check.at = 0 THEN "UNKNOWN" ELSE IF check.up THEN "UP" ELSE "DOWN",
        at |-> check.at]

\* An incident is looked for, and found or missing as is needed to go on: one may
\* open after a failure, and end after a success.
Then(up) == IF up = Opened THEN "incident" ELSE "idle"

\* Ghost: with no incident open, a success ends the outage.
Over(c) == IF Opened THEN c ELSE [c EXCEPT !.down = {}, !.lost = 0]

\* A check result is recorded; heartbeats have no keys.  Bound: a success after a
\* success is left out when it finds nothing to delete and nothing to resolve.
\* Ghosts: when the status changed without an incident, and the failures of the
\* outage that have no incident yet.
Record(up) ==
  LET shown == IF Opened THEN "DOWN" ELSE IF up THEN "UP" ELSE "DOWN"
      next == [check EXCEPT !.at = Now + 1, !.up = up,
                            !.pc = IF heartbeat THEN Then(up) ELSE "keys",
                            !.silent = IF shown # Snapshot.status THEN Now + 1 ELSE @,
                            !.down = IF up \/ Opened THEN @ ELSE @ \cup {Now + 1}]
  IN
  /\ check.pc = "idle" /\ Now < MaxChecks
  /\ up => ~check.up \/ Now = 0 \/ Opened \/ check.failures > 0
  /\ check' = IF heartbeat /\ up THEN Over(next) ELSE next
  /\ UNCHANGED <<heartbeat, startedAt, events, handler, page, connects, failures>>
  /\ UNCHANGED alertVars

\* DEL of both keys.
ClearFailures ==
  /\ check.pc = "keys" /\ check.up
  /\ check' = [Over(check) EXCEPT !.failures = 0, !.first = 0, !.pc = Then(TRUE)]
  /\ UNCHANGED <<heartbeat, startedAt, events, handler, page, connects, failures>>
  /\ UNCHANGED alertVars

\* INCR of the counter.
CountFailure ==
  /\ check.pc = "keys" /\ ~check.up
  /\ check' = [check EXCEPT !.failures = @ + 1, !.pc = "mark"]
  /\ UNCHANGED <<heartbeat, startedAt, events, handler, page, connects, failures>>
  /\ UNCHANGED alertVars

\* The first failure leaves its time; below the threshold that is all.
MarkFailure ==
  /\ check.pc = "mark"
  /\ check' = [check EXCEPT !.first = IF check.failures = 1 THEN Now ELSE @,
                            !.pc = IF check.failures < Threshold THEN "idle" ELSE Then(FALSE)]
  /\ UNCHANGED <<heartbeat, startedAt, events, handler, page, connects, failures>>
  /\ UNCHANGED alertVars

\* The keys expire, each by a TTL of its own.  Bound: between checks.  Ghost: the
\* counts that are lost.
ExpireFailures ==
  /\ check.pc = "idle" /\ check.failures > 0 /\ failures < MaxFailures
  /\ failures' = failures + 1
  /\ \E count \in {0, check.failures}, first \in {0, check.first} :
       check' = [check EXCEPT !.failures = count, !.first = first,
                              !.lost = IF Opened THEN @ ELSE @ + (check.failures - count)]
  /\ UNCHANGED <<heartbeat, startedAt, events, handler, page, connects>>
  /\ UNCHANGED alertVars

\* What a check leaves that breaks off: what it wrote so far.  Ghost: a failure
\* that was to be counted, or to open the incident, is lost to the outage.
Broken ==
  IF check.pc = "idle" THEN check
  ELSE [check EXCEPT !.pc = "idle", !.lost = IF check.up \/ Opened THEN @ ELSE @ + 1]

\* A query or Redis fails: the job fails, and its retry is another check.
CheckFails ==
  /\ check.pc # "idle" /\ failures < MaxFailures
  /\ failures' = failures + 1
  /\ check' = Broken
  /\ UNCHANGED <<heartbeat, startedAt, events, handler, page, connects>>
  /\ UNCHANGED alertVars

\* The time an incident gets as its start.
FirstFailure == IF check.first # 0 THEN check.first ELSE Now

\* The incident is written; its alert and its publication follow.
Change(status, process) ==
  LET e == Len(events) + 1 IN
  /\ events' = Append(events, [status |-> status, process |-> process,
                               at |-> IF status = "DOWN" THEN FirstFailure ELSE Now])
  /\ handler' = [handler EXCEPT ![e] = "contacts"]

OpenIncident ==
  /\ check.pc = "incident" /\ ~check.up
  /\ check' = [check EXCEPT !.pc = "idle"]
  /\ startedAt' = FirstFailure
  /\ Change("DOWN", "worker")
  /\ UNCHANGED <<heartbeat, page, connects, failures>> /\ UNCHANGED alertVars

\* Ghost: the outage ends with its incident.
ResolveIncident ==
  /\ check.pc = "incident" /\ check.up
  /\ check' = [check EXCEPT !.pc = "idle", !.down = {}, !.lost = 0]
  /\ startedAt' = 0
  /\ Change("UP", IF heartbeat THEN "api" ELSE "worker")
  /\ UNCHANGED <<heartbeat, page, connects, failures>> /\ UNCHANGED alertVars

-----------------------------------------------------------------------------
(* The alert and its job *)

\* The contacts are read, then copied into the job; without contacts, no job.
ReadContacts(e) ==
  /\ handler[e] = "contacts"
  /\ handler' = [handler EXCEPT ![e] = IF contacts = <<>> THEN "publish" ELSE "enqueue"]
  /\ job' = [job EXCEPT ![e].contacts = contacts]
  /\ UNCHANGED <<contacts, got, edits, page, connects, failures>> /\ UNCHANGED monitorVars

Enqueue(e) ==
  /\ handler[e] = "enqueue"
  /\ handler' = [handler EXCEPT ![e] = "publish"]
  /\ job' = [job EXCEPT ![e].pc = "waiting"]
  /\ UNCHANGED <<contacts, got, edits, page, connects, failures>> /\ UNCHANGED monitorVars

\* A query or the queue fails: neither alert nor publication, and the retried
\* check finds the incident as it is.
HandlerFails(e) ==
  /\ handler[e] \in {"contacts", "enqueue"} /\ failures < MaxFailures
  /\ failures' = failures + 1
  /\ handler' = [handler EXCEPT ![e] = "dropped"]
  /\ UNCHANGED <<page, connects>> /\ UNCHANGED monitorVars /\ UNCHANGED alertVars

\* A worker takes the job; a backoff ends.
StartJob(e) ==
  /\ job[e].pc = "waiting"
  /\ job' = [job EXCEPT ![e].pc = "active", ![e].next = 1]
  /\ UNCHANGED <<contacts, got, edits, handler, page, connects, failures>>
  /\ UNCHANGED monitorVars

BackoffEnds(e) ==
  /\ job[e].pc = "backoff"
  /\ job' = [job EXCEPT ![e].pc = "waiting"]
  /\ UNCHANGED <<contacts, got, edits, handler, page, connects, failures>>
  /\ UNCHANGED monitorVars

\* Mutant of Served: one contact too many.
ServedPastTheEnd(j) ==
  IF j.next > Len(j.contacts) THEN [j EXCEPT !.pc = "completed", !.next = 1] ELSE [j EXCEPT !.next = @ + 1]

\* The contact is served: the next one, or the end of the job.
Served(j) ==
  IF j.next = Len(j.contacts) THEN [j EXCEPT !.pc = "completed", !.next = 1] ELSE [j EXCEPT !.next = @ + 1]

\* Mutant of AttemptFails: a contact that fails is skipped.
AttemptSkipsContact(j) == Served(j)

\* The dispatch throws: the job waits for its next attempt, if it has one.
AttemptFails(j) ==
  [j EXCEPT !.attempts = @ + 1, !.next = 1,
            !.pc = IF j.attempts + 1 < Attempts THEN "backoff" ELSE "failed"]

\* dispatchContact: only webhooks are called.  A webhook may take the call and
\* still answer too late, or with a failure.
Dispatch(e) ==
  LET j == job[e]
      contact == j.contacts[j.next]
  IN
  /\ j.pc = "active"
  /\ \/ /\ contact.type # "WEBHOOK"
        /\ job' = [job EXCEPT ![e] = Served(j)]
        /\ UNCHANGED got
     \/ /\ contact.type = "WEBHOOK"
        /\ \E called, accepted \in BOOLEAN :
             /\ accepted => called
             /\ job' = [job EXCEPT ![e] = IF accepted THEN Served(j) ELSE AttemptFails(j)]
             /\ got' = [got EXCEPT ![e][contact.id] = @ + (IF called THEN 1 ELSE 0)]
  /\ UNCHANGED <<contacts, edits, handler, page, connects, failures>>
  /\ UNCHANGED monitorVars

\* The owner adds, edits or deletes a contact.
EditContacts ==
  /\ edits < MaxEdits /\ edits' = edits + 1
  /\ \E id \in Contacts, type \in Types :
       LET held == {i \in DOMAIN contacts : contacts[i].id = id} IN
       contacts' \in IF held = {} THEN {<<Contact(id, type)>> \o contacts}
                     ELSE {[contacts EXCEPT ![i] = Contact(id, type)] : i \in held}
                       \cup {[k \in 1..(Len(contacts) - 1) |-> contacts[IF k < i THEN k ELSE k + 1]] : i \in held}
  /\ UNCHANGED <<job, got, handler, page, connects, failures>> /\ UNCHANGED monitorVars

-----------------------------------------------------------------------------
(* The event streams *)

\* A new stream of a page that stays open.
Reset(p) == [p EXCEPT !.read = Closed.read, !.readAt = 0, !.from = 0, !.heard = {}, !.last = 0]

Connect(c) ==
  /\ page[c].pc = "closed" /\ connects < MaxConnects
  /\ connects' = connects + 1
  /\ page' = [page EXCEPT ![c] = [Reset(@) EXCEPT !.pc = "query"]]
  /\ UNCHANGED <<handler, failures>> /\ UNCHANGED monitorVars /\ UNCHANGED alertVars

ReadSnapshot(c) ==
  /\ page[c].pc = "query"
  /\ page' = [page EXCEPT ![c] = [@ EXCEPT !.pc = "answer", !.read = Snapshot, !.readAt = Now,
                                           !.from = Len(events)]]
  /\ UNCHANGED <<handler, connects, failures>> /\ UNCHANGED monitorVars /\ UNCHANGED alertVars

\* The page shows a status; a DOWN it has not shown yet is toasted, by its time.
Show(p, status, at) ==
  [p EXCEPT !.status = status, !.at = at,
            !.toasts = IF status = "DOWN" THEN @ \cup {at} ELSE @]

\* The snapshot arrives, and only then are the changes subscribed to.
Subscribe(c) ==
  /\ page[c].pc = "answer"
  /\ page' = [page EXCEPT ![c] = [Show(@, @.read.status, @.read.at) EXCEPT !.pc = "streaming"]]
  /\ UNCHANGED <<handler, connects, failures>> /\ UNCHANGED monitorVars /\ UNCHANGED alertVars

\* Mutant of Listening: the changes are merged with the snapshot.
ListeningFromTheStart(c) == page[c].pc # "closed"

Listening(c) == page[c].pc = "streaming"

\* publishMonitorStatusChange: the subject of the process, without memory.
Publish(e) ==
  LET event == events[e] IN
  /\ handler[e] = "publish"
  /\ handler' = [handler EXCEPT ![e] = "done"]
  /\ page' = [c \in Clients |->
       IF event.process = "api" /\ Listening(c)
       THEN [Show(page[c], event.status, event.at) EXCEPT !.heard = @ \cup {e}, !.last = e]
       ELSE page[c]]
  /\ UNCHANGED <<connects, failures>> /\ UNCHANGED monitorVars /\ UNCHANGED alertVars

\* The connection breaks, and the page shows what it last heard; or it is reloaded.
Disconnect(c) ==
  /\ page[c].pc # "closed" /\ connects < MaxConnects
  /\ page' = [page EXCEPT ![c] = [Reset(@) EXCEPT !.pc = "closed"]]
  /\ UNCHANGED <<handler, connects, failures>> /\ UNCHANGED monitorVars /\ UNCHANGED alertVars

Reload(c) ==
  /\ page[c] # Closed /\ connects < MaxConnects
  /\ page' = [page EXCEPT ![c] = Closed]
  /\ UNCHANGED <<handler, connects, failures>> /\ UNCHANGED monitorVars /\ UNCHANGED alertVars

-----------------------------------------------------------------------------
(* Crashes *)

\* The check that is processed, if this process has it: pings are served by the API.
Checking(process) == IF process = IF heartbeat /\ check.up THEN "api" ELSE "worker" THEN Broken ELSE check

InFlight(process) ==
  {e \in 1..Len(events) : events[e].process = process /\ handler[e] \in {"contacts", "enqueue", "publish"}}
Dropped(process) == [e \in Event |-> IF e \in InFlight(process) THEN "dropped" ELSE handler[e]]

\* Mutant of Stalled: nobody looks for stalled jobs.
StalledForGood(j) == IF j.pc = "active" THEN [j EXCEPT !.pc = "stalled"] ELSE j

\* A stalled job is taken again once; a second stall fails it.
Stalled(j) ==
  IF j.pc # "active" THEN j
  ELSE [j EXCEPT !.stalls = @ + 1, !.next = 1, !.pc = IF j.stalls = 0 THEN "waiting" ELSE "failed"]

Calling(j) == j.pc = "active" /\ j.contacts[j.next].type = "WEBHOOK"

CrashWorker ==
  /\ failures < MaxFailures
  /\ failures' = failures + 1
  /\ handler' = Dropped("worker")
  /\ job' = [e \in Event |-> Stalled(job[e])]
  /\ \E called \in SUBSET {e \in Event : Calling(job[e])} :   \* taken, unanswered
       got' = [e \in Event |-> [c \in Contacts |->
                 got[e][c] + (IF e \in called /\ job[e].contacts[job[e].next].id = c THEN 1 ELSE 0)]]
  /\ check' = Checking("worker")
  /\ UNCHANGED <<heartbeat, startedAt, events, contacts, edits, page, connects>>

CrashApi ==
  /\ failures < MaxFailures
  /\ failures' = failures + 1
  /\ handler' = Dropped("api")
  /\ page' = [c \in Clients |-> [Reset(page[c]) EXCEPT !.pc = "closed"]]
  /\ check' = Checking("api")
  /\ UNCHANGED <<heartbeat, startedAt, events, connects>> /\ UNCHANGED alertVars

Next ==
  \/ \E up \in BOOLEAN : Record(up)
  \/ ClearFailures \/ CountFailure \/ MarkFailure \/ ExpireFailures \/ CheckFails
  \/ OpenIncident \/ ResolveIncident
  \/ EditContacts
  \/ CrashWorker \/ CrashApi
  \/ \E e \in Event :
       \/ ReadContacts(e) \/ Enqueue(e) \/ HandlerFails(e) \/ Publish(e)
       \/ StartJob(e) \/ BackoffEnds(e) \/ Dispatch(e)
  \/ \E c \in Clients :
       Connect(c) \/ ReadSnapshot(c) \/ Subscribe(c) \/ Disconnect(c) \/ Reload(c)

Spec == Init /\ [][Next]_vars

\* What an awaited call does, it does; the worker takes waiting jobs.
Fairness ==
  \A e \in Event :
    /\ WF_vars(ReadContacts(e)) /\ WF_vars(Enqueue(e)) /\ WF_vars(Publish(e))
    /\ WF_vars(StartJob(e)) /\ WF_vars(BackoffEnds(e)) /\ WF_vars(Dispatch(e))

FairSpec == Spec /\ Fairness

-----------------------------------------------------------------------------
(* Properties *)

\* Types and ranges.
TypeOK ==
  /\ heartbeat \in BOOLEAN
  /\ check.at \in 0..MaxChecks /\ check.up \in BOOLEAN /\ check.pc \in {"idle", "keys", "mark", "incident"}
  /\ check.failures \in 0..Now /\ check.first \in 0..Now /\ check.silent \in 0..Now
  /\ check.down \subseteq 1..Now /\ check.lost \in Nat
  /\ startedAt \in 0..Now /\ Len(events) <= Now
  /\ handler \in [Event -> {"none", "contacts", "enqueue", "publish", "done", "dropped"}]
  /\ contacts \in Tables
  /\ \A e \in Event :
       /\ job[e].pc \in {"none", "waiting", "active", "backoff", "completed", "failed"}
       /\ job[e].contacts \in Tables /\ job[e].attempts \in 0..Attempts
       /\ job[e].pc # "none" => job[e].next \in DOMAIN job[e].contacts
  /\ \A c \in Clients :
       /\ page[c].pc \in {"closed", "query", "answer", "streaming"}
       /\ page[c].status \in {"UP", "DOWN", "UNKNOWN"} /\ page[c].toasts \subseteq 1..MaxChecks
       /\ page[c].heard \subseteq 1..Len(events)

Webhooks(j) == {j.contacts[i].id : i \in {k \in DOMAIN j.contacts : j.contacts[k].type = "WEBHOOK"}}

\* A completed job has called every webhook of its snapshot; one that failed has
\* called every webhook before the one that made it fail; and no webhook is called
\* more often than the job was attempted, stalls included.
JobsServeTheirContacts ==
  \A e \in Event : LET j == job[e] IN
    /\ j.pc = "completed" => \A c \in Webhooks(j) : got[e][c] > 0
    /\ \A c \in Contacts : got[e][c] <= j.attempts + j.stalls
                             + (IF j.pc \in {"active", "completed"} THEN 1 ELSE 0)
    /\ j.pc = "failed" /\ j.stalls = 0 =>
         \E i \in DOMAIN j.contacts :
           /\ j.contacts[i].type = "WEBHOOK"
           /\ \A k \in 1..(i - 1) : j.contacts[k].type = "WEBHOOK" => got[e][j.contacts[k].id] > 0

\* Every change of an incident is announced, its job at its end, whatever its
\* webhooks answer, unless a query or a process failed before the job was queued.
EveryChangeIsAnnounced ==
  \A e \in Event : handler[e] = "contacts" ~>
    \/ handler[e] = "dropped"
    \/ handler[e] = "done" /\ job[e].pc \in {"none", "completed", "failed"}

\* What live updates leave out: a streaming page shows another status than the
\* API would answer only when it did not hear of a change made since its snapshot
\* was read, when a check changed the status without an incident, or when an
\* earlier change was published after a later one.
StaleViewHasACause ==
  \A c \in Clients : LET p == page[c] IN
    p.pc = "streaming" /\ p.status # Snapshot.status =>
      \/ \E e \in (p.from + 1)..Len(events) : e \notin p.heard
      \/ check.silent > p.readAt
      \/ p.last > 0 /\ (events[p.last].at < p.readAt \/ \E e \in p.heard \cup {p.from} : p.last < e)

\* A page that stays open toasts an outage once, however often its stream
\* reconnects, or once for each of the failures that had to confirm it: until the
\* incident is written, every failure is a change of its own.  A failure that was
\* recorded and then not counted, or did not open its incident (its check broke off),
\* or whose count expired, has to be made up for by another, and is one toast more.
OutageToastedOnce ==
  \A c \in Clients :
    Cardinality({t \in page[c].toasts : \E start \in check.down : start <= t}) <= NeededFailures + check.lost
=============================================================================
