------------------------- MODULE NotificationsProofs -------------------------
(***************************************************************************)
(* What the outside learns of a monitor's incidents, for every number of   *)
(* contacts, pages, checks and attempts: the invariants that Notifications *)
(* checks on a small instance.                                             *)
(*                                                                         *)
(* Monitor, jobs and pages move on their own, and NInv relates each to the *)
(* past of the others: a job to the calls it has made, a page to the check *)
(* it read at and to the changes written by then.                          *)
(***************************************************************************)
EXTENDS Notifications, FiniteSetTheorems, TLAPS

Changes == [status : {"UP", "DOWN"}, process : {"api", "worker"}, at : Nat]
JobRecords == [pc : {"none", "waiting", "active", "backoff", "completed", "failed"}, contacts : Tables,
               next : Nat, attempts : Nat, stalls : Nat]
Statuses == {"UP", "DOWN", "UNKNOWN"}
PageRecords == [pc : {"closed", "query", "answer", "streaming"}, status : Statuses, at : Nat,
                toasts : SUBSET Nat, read : [status : Statuses, at : Nat], readAt : Nat,
                from : Nat, heard : SUBSET Nat, last : Nat]
CheckRecords == [at : Nat, up : BOOLEAN, pc : {"idle", "keys", "mark", "incident"}, failures : Nat,
                 first : Nat, silent : Nat, down : SUBSET Nat, lost : Nat]
Stages == {"none", "contacts", "enqueue", "publish", "done", "dropped"}
Calls == [Contacts -> Nat]

MonitorTypes ==
  heartbeat \in BOOLEAN /\ check \in CheckRecords /\ startedAt \in Nat /\ events \in Seq(Changes)
AlertTypes ==
  handler \in [Event -> Stages] /\ contacts \in Tables /\ job \in [Event -> JobRecords] /\ got \in [Event -> Calls]
PageTypes == page \in [Clients -> PageRecords]
TypesOK == MonitorTypes /\ AlertTypes /\ PageTypes

\* The times of the monitor are of the past, and a check that looks for an
\* incident does so with its keys as it left them.
StageInv ==
  /\ Now <= MaxChecks /\ startedAt <= Now /\ check.first <= Now /\ check.silent <= Now
  /\ check.failures <= Now /\ check.down \subseteq 1..Now
  /\ check.pc # "idle" => Now >= 1
  /\ check.pc = "keys" /\ ~check.up => check.failures <= Now - 1
  /\ check.pc = "mark" => ~check.up
  /\ check.pc = "incident" => (check.up <=> Opened)
  /\ check.pc = "incident" /\ check.up => check.failures = 0 /\ check.first = 0
  /\ heartbeat => check.pc \in {"idle", "incident"} /\ check.failures = 0 /\ check.first = 0

\* A time shown for DOWN is that of a failure of the outage.
DownInv ==
  /\ Opened => startedAt \in check.down
  /\ ~Opened /\ ~check.up => Now \in check.down
  /\ ~Opened /\ check.first > 0 => check.first \in check.down

\* Before the incident, the failures of an outage are those that were counted,
\* those that are lost, and the latest one while its check may still count it or
\* open the incident with it.
Counted == IF check.failures < NeededFailures THEN check.failures ELSE NeededFailures - 1
Awaited == ~check.up /\ (check.pc \in {"keys", "incident"} \/ (check.pc = "mark" /\ check.failures >= Threshold))
CountInv ==
  Cardinality(check.down) <=
    check.lost + (IF Opened THEN NeededFailures ELSE Counted + (IF Awaited THEN 1 ELSE 0))

MonitorInv == StageInv /\ DownInv /\ CountInv

\* Every change has a check behind it, and only changes have a handler.
ChangesInv ==
  /\ Len(events) <= Now /\ (check.pc # "idle" => Len(events) < Now)
  /\ \A e \in 1..Len(events) : 1 <= events[e].at /\ events[e].at <= Now
  /\ \A e \in Event : e > Len(events) => handler[e] = "none"

IsWebhook(j, i) == j.contacts[i].type = "WEBHOOK"
\* The webhooks of a job up to its i-th contact were called.
CalledTo(j, calls, i) == \A k \in 1..i : IsWebhook(j, k) => calls[j.contacts[k].id] > 0
\* The job has served this contact in its running attempt, or in its last.
HasServed(j, c) == j.pc = "completed" \/ (j.pc = "active" /\ \E i \in 1..(j.next - 1) : j.contacts[i].id = c)

\* Where a job stands tells which of its contacts were called, and how often.
JobInv(stage, j, calls) ==
  /\ j.pc # "none" => j.next \in 1..Len(j.contacts)
  /\ j.pc = "none" => j.next = 1 /\ j.attempts = 0 /\ j.stalls = 0 /\ \A c \in Contacts : calls[c] = 0
  /\ stage \in {"none", "contacts", "enqueue"} => j.pc = "none"
  /\ stage = "enqueue" => Len(j.contacts) > 0
  /\ j.attempts <= Attempts
  /\ j.pc \in {"none", "waiting", "active", "backoff"} => j.attempts < Attempts
  /\ j.pc = "active" => CalledTo(j, calls, j.next - 1)
  /\ j.pc = "completed" => CalledTo(j, calls, Len(j.contacts))
  /\ j.pc = "failed" /\ j.stalls = 0 =>
       \E i \in 1..Len(j.contacts) : IsWebhook(j, i) /\ CalledTo(j, calls, i - 1)
  /\ \A c \in Contacts : calls[c] <= j.attempts + j.stalls + (IF HasServed(j, c) THEN 1 ELSE 0)
JobsInv == \A e \in Event : JobInv(handler[e], job[e], got[e])

\* Times and indexes a page holds are of the past.
PageInv(p) ==
  /\ p.toasts \subseteq 1..Now /\ p.read.at <= Now /\ p.readAt <= Now
  /\ p.read.status = "DOWN" => p.read.at >= 1
  /\ p.from <= Len(events) /\ p.heard \subseteq 1..Len(events) /\ p.last <= Len(events)

\* A time of the current outage is that of one of its failures.
InOutage(t) == (\E start \in check.down : start <= t) => t \in check.down
PageToasts(p) ==
  /\ \A t \in p.toasts : InOutage(t)
  /\ p.read.status = "DOWN" => InOutage(p.read.at)
ToastInv ==
  /\ \A e \in 1..Len(events) : events[e].status = "DOWN" => InOutage(events[e].at)
  /\ \A c \in Clients : PageToasts(page[c])

\* The status a page shows is that of the snapshot it read or of the change it
\* heard last, and the API's would be the same but for what came after.
ViewInv(p) ==
  /\ p.pc # "streaming" => p.last = 0
  /\ p.last = 0 => p.heard = {}
  /\ p.last > 0 => p.last \in p.heard /\ p.status = events[p.last].status
  /\ p.pc = "streaming" /\ p.last = 0 => p.status = p.read.status
  /\ p.pc \in {"answer", "streaming"} /\ check.silent <= p.readAt =>
       Snapshot.status = IF p.from = Len(events) THEN p.read.status ELSE events[Len(events)].status
  /\ p.pc \in {"answer", "streaming"} /\ p.from > 0 /\ events[p.from].at >= p.readAt =>
       p.read.status = events[p.from].status
LastChange ==
  Len(events) > 0 /\ events[Len(events)].at >= Now => Snapshot.status = events[Len(events)].status

PagesInv == \A c \in Clients : PageInv(page[c])
ViewsInv == LastChange /\ \A c \in Clients : ViewInv(page[c])
NInv == TypesOK /\ MonitorInv /\ ChangesInv /\ JobsInv /\ PagesInv /\ ToastInv /\ ViewsInv

-----------------------------------------------------------------------------
(* Tables of contacts *)

ContactRecords == [id : Contacts, type : Types]

LEMMA TablesAreSequences ==
  ASSUME NEW s
  PROVE  s \in Tables <=> /\ s \in Seq(ContactRecords) /\ Len(s) <= Cardinality(Contacts)
                          /\ \A i, j \in 1..Len(s) : s[i].id = s[j].id => i = j
<1>1. Cardinality(Contacts) \in Nat
  BY ContactsAssumption, FS_CardinalityType
<1>2. ASSUME s \in Tables
      PROVE  /\ s \in Seq(ContactRecords) /\ Len(s) <= Cardinality(Contacts)
             /\ \A i, j \in 1..Len(s) : s[i].id = s[j].id => i = j
  <2>1. PICK n \in 0..Cardinality(Contacts) : s \in [1..n -> ContactRecords]
    BY <1>2 DEF Tables, ContactRecords
  <2>2. n \in Nat /\ n <= Cardinality(Contacts)
    BY <1>1, <2>1
  <2>3. s \in Seq(ContactRecords) /\ Len(s) = n /\ DOMAIN s = 1..n
    BY <2>1, <2>2
  <2>4. \A i, j \in DOMAIN s : s[i].id = s[j].id => i = j
    BY <1>2 DEF Tables
  <2> QED
    BY <2>2, <2>3, <2>4
<1>3. ASSUME s \in Seq(ContactRecords), Len(s) <= Cardinality(Contacts),
             \A i, j \in 1..Len(s) : s[i].id = s[j].id => i = j
      PROVE  s \in Tables
  <2>1. Len(s) \in 0..Cardinality(Contacts) /\ s \in [1..Len(s) -> ContactRecords] /\ DOMAIN s = 1..Len(s)
    BY <1>1, <1>3
  <2>2. s \in UNION {[1..n -> ContactRecords] : n \in 0..Cardinality(Contacts)}
    BY <2>1
  <2> QED
    BY <1>3, <2>1, <2>2 DEF Tables, ContactRecords
<1> QED
  BY <1>2, <1>3

LEMMA NoContacts == <<>> \in Tables
<1>1. Cardinality(Contacts) \in Nat
  BY ContactsAssumption, FS_CardinalityType
<1> DEFINE s == <<>>
<1>2. s \in Seq(ContactRecords) /\ Len(s) = 0
  OBVIOUS
<1>3. \A i, j \in 1..Len(s) : s[i].id = s[j].id => i = j
  BY <1>2
<1>0. Len(s) <= Cardinality(Contacts)
  BY <1>1, <1>2
<1> HIDE DEF s
<1>4. s \in Tables
  BY <1>0, <1>2, <1>3, TablesAreSequences
<1> QED
  BY <1>4 DEF s

\* A new contact finds room: the ids of a table are distinct, and one is missing.
LEMMA NewContact ==
  ASSUME NEW s \in Tables, NEW id \in Contacts, NEW type \in Types, \A i \in DOMAIN s : s[i].id # id
  PROVE  <<Contact(id, type)>> \o s \in Tables
<1> DEFINE n == Len(s)
           c == Contact(id, type)
           t == <<c>> \o s
           ids == [i \in 1..n |-> s[i].id]
<1>1. /\ s \in Seq(ContactRecords) /\ n <= Cardinality(Contacts) /\ n \in Nat /\ DOMAIN s = 1..n
      /\ \A i, j \in 1..n : s[i].id = s[j].id => i = j
  BY TablesAreSequences
<1>2. \A i \in 1..n : s[i] \in ContactRecords
  BY <1>1
<1>3. Cardinality(Contacts) \in Nat
  BY ContactsAssumption, FS_CardinalityType
<1>4. IsFiniteSet(Contacts \ {id}) /\ Cardinality(Contacts \ {id}) = Cardinality(Contacts) - 1
  BY ContactsAssumption, FS_RemoveElement
<1>5. ids \in Injection(1..n, Contacts \ {id})
  BY <1>1, <1>2 DEF ContactRecords, Injection, IsInjective
<1>6. Cardinality(1..n) <= Cardinality(Contacts \ {id})
  BY <1>4, <1>5, FS_Injection
<1>7. Cardinality(1..n) = n
  BY <1>1, FS_Interval
<1>8. n + 1 <= Cardinality(Contacts)
  BY <1>1, <1>3, <1>4, <1>6, <1>7
<1>9. c \in ContactRecords /\ c.id = id
  BY DEF Contact, ContactRecords
<1> HIDE DEF n, c
<1>10. /\ t \in Seq(ContactRecords) /\ Len(t) = n + 1 /\ t[1] = c
       /\ \A i \in 2..(n + 1) : t[i] = s[i - 1]
  BY <1>1, <1>9 DEF n
<1> HIDE DEF t
<1>11. ASSUME NEW i \in 1..(n + 1), NEW j \in 1..(n + 1), t[i].id = t[j].id PROVE i = j
  <2>1. i = 1 \/ (i \in 2..(n + 1) /\ t[i] = s[i - 1] /\ i - 1 \in 1..n)
    BY <1>1, <1>10
  <2>2. j = 1 \/ (j \in 2..(n + 1) /\ t[j] = s[j - 1] /\ j - 1 \in 1..n)
    BY <1>1, <1>10
  <2>3. \A k \in 1..n : s[k].id # id
    BY <1>1
  <2>4. CASE i = 1
    BY <1>9, <1>10, <1>11, <2>2, <2>3, <2>4
  <2>5. CASE j = 1
    BY <1>9, <1>10, <1>11, <2>1, <2>3, <2>5
  <2>6. CASE i # 1 /\ j # 1
    <3>1. s[i - 1].id = s[j - 1].id
      BY <1>11, <2>1, <2>2, <2>6
    <3>2. i - 1 = j - 1
      BY <1>1, <2>1, <2>2, <2>6, <3>1
    <3> QED
      BY <2>1, <2>2, <2>6, <3>2
  <2> QED
    BY <2>4, <2>5, <2>6
<1>12. t \in Tables
  BY <1>8, <1>10, <1>11, TablesAreSequences
<1> QED
  BY <1>12 DEF t, c

LEMMA EditedContact ==
  ASSUME NEW s \in Tables, NEW i \in DOMAIN s, NEW type \in Types
  PROVE  [s EXCEPT ![i] = Contact(s[i].id, type)] \in Tables
<1> DEFINE t == [s EXCEPT ![i] = Contact(s[i].id, type)]
<1>1. /\ s \in Seq(ContactRecords) /\ Len(s) <= Cardinality(Contacts) /\ DOMAIN s = 1..Len(s)
      /\ \A k, j \in 1..Len(s) : s[k].id = s[j].id => k = j
  BY TablesAreSequences
<1>2. s[i] \in ContactRecords
  BY <1>1
<1>3. Contact(s[i].id, type) \in ContactRecords /\ Contact(s[i].id, type).id = s[i].id
  BY <1>2 DEF Contact, ContactRecords
<1>4. t \in Seq(ContactRecords) /\ Len(t) = Len(s) /\ \A k \in 1..Len(s) : t[k].id = s[k].id
  BY <1>1, <1>3
<1> HIDE DEF t
<1>5. t \in Tables
  BY <1>1, <1>4, TablesAreSequences
<1> QED
  BY <1>5 DEF t

LEMMA DeletedContact ==
  ASSUME NEW s \in Tables, NEW i \in DOMAIN s
  PROVE  [k \in 1..(Len(s) - 1) |-> s[IF k < i THEN k ELSE k + 1]] \in Tables
<1> DEFINE t == [k \in 1..(Len(s) - 1) |-> s[IF k < i THEN k ELSE k + 1]]
<1>1. /\ s \in Seq(ContactRecords) /\ Len(s) <= Cardinality(Contacts) /\ DOMAIN s = 1..Len(s) /\ Len(s) \in Nat
      /\ \A k, j \in 1..Len(s) : s[k].id = s[j].id => k = j
  BY TablesAreSequences
<1>2. Cardinality(Contacts) \in Nat
  BY ContactsAssumption, FS_CardinalityType
<1>3. i \in 1..Len(s) /\ Len(s) - 1 \in Nat
  BY <1>1
<1>4. \A k \in 1..(Len(s) - 1) : (IF k < i THEN k ELSE k + 1) \in 1..Len(s)
  BY <1>3
<1>5. \A k \in 1..(Len(s) - 1) : t[k] = s[IF k < i THEN k ELSE k + 1] /\ t[k] \in ContactRecords
  BY <1>1, <1>4
<1>6. t \in [1..(Len(s) - 1) -> ContactRecords]
  BY <1>5
<1>7. t \in Seq(ContactRecords) /\ Len(t) = Len(s) - 1
  BY <1>3, <1>6
<1> HIDE DEF t
<1>8. ASSUME NEW k \in 1..(Len(s) - 1), NEW j \in 1..(Len(s) - 1), t[k].id = t[j].id PROVE k = j
  <2>1. (IF k < i THEN k ELSE k + 1) = (IF j < i THEN j ELSE j + 1)
    BY <1>1, <1>4, <1>5, <1>8
  <2> QED
    BY <1>3, <2>1
<1>9. t \in Tables
  BY <1>1, <1>2, <1>3, <1>7, <1>8, TablesAreSequences
<1> QED
  BY <1>9 DEF t

-----------------------------------------------------------------------------
(* Jobs *)

LEMMA JobRecordsTyped ==
  ASSUME NEW j \in JobRecords
  PROVE  /\ j.next \in Nat /\ j.attempts \in Nat /\ j.stalls \in Nat /\ Len(j.contacts) \in Nat
         /\ DOMAIN j.contacts = 1..Len(j.contacts)
         /\ \A i \in 1..Len(j.contacts) : j.contacts[i].id \in Contacts /\ j.contacts[i].type \in Types
         /\ \A i, k \in 1..Len(j.contacts) : j.contacts[i].id = j.contacts[k].id => i = k
<1>1. j.contacts \in Tables /\ j.next \in Nat /\ j.attempts \in Nat /\ j.stalls \in Nat
  BY DEF JobRecords
<1>2. j.contacts \in Seq(ContactRecords) /\ \A i, k \in 1..Len(j.contacts) : j.contacts[i].id = j.contacts[k].id => i = k
  BY <1>1, TablesAreSequences
<1>3. \A i \in 1..Len(j.contacts) : j.contacts[i] \in ContactRecords
  BY <1>2
<1> QED
  BY <1>1, <1>2, <1>3 DEF ContactRecords

\* One call, or none, for a contact.
OneCall(calls, after, c) == after \in {calls, [calls EXCEPT ![c] = @ + 1]}

LEMMA OneCallCounts ==
  ASSUME NEW calls \in Calls, NEW c \in Contacts, NEW after, OneCall(calls, after, c)
  PROVE  /\ after \in Calls
         /\ \A x \in Contacts : calls[x] <= after[x] /\ after[x] <= calls[x] + 1 /\ (x # c => after[x] = calls[x])
<1>1. CASE after = calls
  BY <1>1 DEF Calls
<1>2. CASE after = [calls EXCEPT ![c] = @ + 1]
  BY <1>2 DEF Calls
<1> QED
  BY <1>1, <1>2 DEF OneCall

\* What was called stays called.
LEMMA CalledStays ==
  ASSUME NEW j \in JobRecords, NEW i \in Nat, i <= Len(j.contacts), NEW calls \in Calls, NEW after \in Calls,
         CalledTo(j, calls, i), \A x \in Contacts : calls[x] <= after[x]
  PROVE  CalledTo(j, after, i)
<1> SUFFICES ASSUME NEW k \in 1..i, IsWebhook(j, k) PROVE after[j.contacts[k].id] > 0
  BY DEF CalledTo
<1>1. k \in 1..Len(j.contacts)
  BY JobRecordsTyped
<1>2. j.contacts[k].id \in Contacts
  BY <1>1, JobRecordsTyped
<1>3. calls[j.contacts[k].id] > 0
  BY DEF CalledTo
<1> QED
  BY <1>2, <1>3 DEF Calls

LEMMA RunningJob ==
  ASSUME NEW stage, NEW j \in JobRecords, NEW calls \in Calls, JobInv(stage, j, calls), j.pc = "active"
  PROVE  /\ j.next \in 1..Len(j.contacts) /\ j.contacts[j.next].id \in Contacts
         /\ stage \notin {"none", "contacts", "enqueue"}
         /\ j.attempts < Attempts
         /\ CalledTo(j, calls, j.next - 1)
         /\ \A c \in Contacts : calls[c] <= j.attempts + j.stalls + 1
         /\ calls[j.contacts[j.next].id] <= j.attempts + j.stalls
<1>1. j.next \in 1..Len(j.contacts) /\ j.attempts < Attempts /\ CalledTo(j, calls, j.next - 1)
  BY DEF JobInv
<1>2. stage \notin {"none", "contacts", "enqueue"}
  BY DEF JobInv
<1>3. j.contacts[j.next].id \in Contacts
  BY <1>1, JobRecordsTyped
<1>4. \A c \in Contacts : calls[c] <= j.attempts + j.stalls + (IF HasServed(j, c) THEN 1 ELSE 0)
  BY DEF JobInv
<1>5. \A c \in Contacts : calls[c] <= j.attempts + j.stalls + 1
  BY <1>4, JobRecordsTyped DEF Calls
<1>6. ~HasServed(j, j.contacts[j.next].id)
  <2>1. \A i \in 1..(j.next - 1) : i \in 1..Len(j.contacts) /\ i # j.next
    BY <1>1, JobRecordsTyped
  <2>2. \A i \in 1..(j.next - 1) : j.contacts[i].id # j.contacts[j.next].id
    BY <1>1, <2>1, JobRecordsTyped
  <2> QED
    BY <2>2 DEF HasServed
<1>7. calls[j.contacts[j.next].id] <= j.attempts + j.stalls
  BY <1>3, <1>4, <1>6, JobRecordsTyped DEF Calls
<1> QED
  BY <1>1, <1>2, <1>3, <1>5, <1>7

\* A contact is served: it needs no call, or took one.
LEMMA ServedJob ==
  ASSUME NEW stage, NEW j \in JobRecords, NEW calls \in Calls, JobInv(stage, j, calls), j.pc = "active",
         NEW after, OneCall(calls, after, j.contacts[j.next].id),
         IsWebhook(j, j.next) => after[j.contacts[j.next].id] > 0,
         ~IsWebhook(j, j.next) => after = calls
  PROVE  Served(j) \in JobRecords /\ JobInv(stage, Served(j), after)
<1> DEFINE c == j.contacts[j.next].id
           n == Len(j.contacts)
           s == Served(j)
<1>1. /\ j.next \in 1..n /\ c \in Contacts /\ stage \notin {"none", "contacts", "enqueue"}
      /\ j.attempts < Attempts /\ CalledTo(j, calls, j.next - 1)
      /\ \A x \in Contacts : calls[x] <= j.attempts + j.stalls + 1
      /\ calls[c] <= j.attempts + j.stalls
  BY RunningJob
<1>2. n \in Nat /\ j.next \in Nat /\ j.attempts \in Nat /\ j.stalls \in Nat
  BY JobRecordsTyped
<1>3. /\ after \in Calls
      /\ \A x \in Contacts : calls[x] <= after[x] /\ after[x] <= calls[x] + 1 /\ (x # c => after[x] = calls[x])
  BY <1>1, OneCallCounts
<1>0. s = Served(j)
  OBVIOUS
<1> HIDE DEF c, s
<1>4. CalledTo(j, after, j.next)
  <2>1. CalledTo(j, after, j.next - 1)
    BY <1>1, <1>2, <1>3, CalledStays
  <2>2. \A k \in 1..j.next : k \in 1..(j.next - 1) \/ k = j.next
    BY <1>2
  <2> QED
    BY <2>1, <2>2 DEF CalledTo, c
<1>5. /\ s.contacts = j.contacts /\ s.attempts = j.attempts /\ s.stalls = j.stalls
      /\ s.pc = IF j.next = n THEN "completed" ELSE "active"
      /\ s.next = IF j.next = n THEN 1 ELSE j.next + 1
      /\ s \in JobRecords
  <2>1. CASE j.next = n
    <3>1. s = [j EXCEPT !.pc = "completed", !.next = 1]
      BY <1>0, <2>1 DEF Served
    <3> QED
      BY <2>1, <3>1 DEF JobRecords
  <2>2. CASE j.next # n
    <3>1. s = [j EXCEPT !.next = @ + 1]
      BY <1>0, <2>2 DEF Served
    <3> QED
      BY <2>2, <3>1 DEF JobRecords
  <2> QED
    BY <2>1, <2>2
<1>6. \A x \in Contacts : after[x] <= j.attempts + j.stalls + (IF HasServed(s, x) THEN 1 ELSE 0)
  <2> SUFFICES ASSUME NEW x \in Contacts
               PROVE  after[x] <= j.attempts + j.stalls + (IF HasServed(s, x) THEN 1 ELSE 0)
    OBVIOUS
  <2>1. calls[x] \in Nat /\ after[x] \in Nat
    BY <1>3 DEF Calls
  <2>2. after[x] <= j.attempts + j.stalls + 1
    BY <1>1, <1>2, <1>3, <2>1
  <2>3. CASE HasServed(s, x)
    BY <2>2, <2>3
  <2>4. CASE ~HasServed(s, x)
    <3>1. j.next # n /\ s.pc = "active" /\ \A i \in 1..j.next : j.contacts[i].id # x
      BY <1>2, <1>5, <2>4 DEF HasServed
    <3>2. ~HasServed(j, x) /\ x # c
      BY <1>1, <1>2, <3>1 DEF HasServed, c
    <3>3. calls[x] <= j.attempts + j.stalls
      BY <1>2, <2>1, <3>2 DEF JobInv
    <3>4. after[x] <= j.attempts + j.stalls
      BY <1>3, <3>2, <3>3
    <3>5. (IF HasServed(s, x) THEN 1 ELSE 0) = 0
      BY <2>4
    <3> QED
      BY <1>2, <3>4, <3>5
  <2> QED
    BY <2>3, <2>4
<1>7. CalledTo(s, after, j.next) /\ (s.pc = "active" => s.next - 1 = j.next) /\ (s.pc = "completed" => n = j.next)
  BY <1>2, <1>4, <1>5 DEF CalledTo, IsWebhook
<1>8. s.next \in 1..n /\ s.pc \in {"active", "completed"}
  BY <1>1, <1>2, <1>5
<1>9. JobInv(stage, s, after)
  BY <1>1, <1>2, <1>5, <1>6, <1>7, <1>8, BoundAssumption DEF JobInv
<1> QED
  BY <1>5, <1>9 DEF s

\* A call fails, or is lost with its process: the job ends its attempt.
LEMMA BrokenJob ==
  ASSUME NEW stage, NEW j \in JobRecords, NEW calls \in Calls, JobInv(stage, j, calls), j.pc = "active",
         NEW after, OneCall(calls, after, j.contacts[j.next].id),
         NEW k \in JobRecords, k.contacts = j.contacts, k.next = 1,
         \/ /\ k.attempts = j.attempts + 1 /\ k.stalls = j.stalls /\ IsWebhook(j, j.next)
            /\ k.pc = IF j.attempts + 1 < Attempts THEN "backoff" ELSE "failed"
         \/ /\ k.attempts = j.attempts /\ k.stalls = j.stalls + 1
            /\ k.pc \in {"waiting", "failed"}
  PROVE  JobInv(stage, k, after)
<1> DEFINE c == j.contacts[j.next].id
           n == Len(j.contacts)
<1>1. /\ j.next \in 1..n /\ c \in Contacts /\ stage \notin {"none", "contacts", "enqueue"}
      /\ j.attempts < Attempts /\ CalledTo(j, calls, j.next - 1)
      /\ \A x \in Contacts : calls[x] <= j.attempts + j.stalls + 1
      /\ calls[c] <= j.attempts + j.stalls
  BY RunningJob
<1>2. n \in Nat /\ j.next \in Nat /\ j.attempts \in Nat /\ j.stalls \in Nat
  BY JobRecordsTyped
<1>3. /\ after \in Calls
      /\ \A x \in Contacts : calls[x] <= after[x] /\ after[x] <= calls[x] + 1 /\ (x # c => after[x] = calls[x])
  BY <1>1, OneCallCounts
<1> HIDE DEF c
<1>4. CalledTo(k, after, j.next - 1)
  <2>1. CalledTo(j, after, j.next - 1)
    BY <1>1, <1>2, <1>3, CalledStays
  <2> QED
    BY <2>1 DEF CalledTo, IsWebhook
<1>5. k.attempts + k.stalls = j.attempts + j.stalls + 1 /\ k.attempts <= Attempts
  BY <1>1, <1>2, BoundAssumption
<1>6. \A x \in Contacts : after[x] <= k.attempts + k.stalls
  <2> SUFFICES ASSUME NEW x \in Contacts PROVE after[x] <= k.attempts + k.stalls
    OBVIOUS
  <2>1. calls[x] \in Nat /\ after[x] \in Nat
    BY <1>3 DEF Calls
  <2> QED
    BY <1>1, <1>2, <1>3, <1>5, <2>1
<1>7. k.pc \in {"waiting", "backoff", "failed"} /\ (k.pc \in {"waiting", "backoff"} => k.attempts < Attempts)
  BY <1>1, <1>2
<1>8. k.pc = "failed" /\ k.stalls = 0 => IsWebhook(k, j.next)
  BY <1>2 DEF IsWebhook
<1>9. \A x \in Contacts : ~HasServed(k, x)
  BY <1>7 DEF HasServed
<1> QED
  BY <1>1, <1>2, <1>4, <1>5, <1>6, <1>7, <1>8, <1>9 DEF JobInv

\* Of the handler, a job needs to know only that it queues.
LEMMA LaterStage ==
  ASSUME NEW stage, NEW j, NEW calls, JobInv(stage, j, calls), NEW later \in {"publish", "done", "dropped"}
  PROVE  JobInv(later, j, calls)
BY DEF JobInv

LEMMA StartedJob ==
  ASSUME NEW j \in JobRecords, NEW calls \in Calls, NEW stage, JobInv(stage, j, calls), NEW k,
         \/ stage = "enqueue" /\ k = [j EXCEPT !.pc = "waiting"]
         \/ j.pc = "waiting" /\ k = [j EXCEPT !.pc = "active", !.next = 1]
         \/ j.pc = "backoff" /\ k = [j EXCEPT !.pc = "waiting"]
  PROVE  k \in JobRecords /\ JobInv(IF stage = "enqueue" THEN "publish" ELSE stage, k, calls)
<1>1. /\ j.next \in Nat /\ j.attempts \in Nat /\ j.stalls \in Nat /\ Len(j.contacts) \in Nat
  BY JobRecordsTyped
<1>2. /\ k \in JobRecords /\ k.contacts = j.contacts /\ k.attempts = j.attempts /\ k.stalls = j.stalls
      /\ k.pc \in {"waiting", "active"} /\ k.next = IF j.pc = "waiting" THEN 1 ELSE j.next
      /\ k.pc = "active" => j.pc = "waiting"
  <2>1. CASE stage = "enqueue" /\ k = [j EXCEPT !.pc = "waiting"]
    <3>1. j.pc = "none"
      BY <2>1 DEF JobInv
    <3> QED
      BY <2>1, <3>1 DEF JobRecords
  <2>2. CASE j.pc = "waiting" /\ k = [j EXCEPT !.pc = "active", !.next = 1]
    BY <2>2 DEF JobRecords
  <2>3. CASE j.pc = "backoff" /\ k = [j EXCEPT !.pc = "waiting"]
    BY <2>3 DEF JobRecords
  <2> QED
    BY <2>1, <2>2, <2>3
<1>3. /\ j.pc \in {"none", "waiting", "backoff"} /\ j.attempts < Attempts
      /\ k.next \in 1..Len(j.contacts) /\ (stage \in {"none", "contacts"} => FALSE)
  BY <1>1, <1>2 DEF JobInv
<1>4. \A x \in Contacts : ~HasServed(j, x) /\ ~HasServed(k, x)
  BY <1>2, <1>3 DEF HasServed
<1>5. \A x \in Contacts : calls[x] <= j.attempts + j.stalls + 0
  BY <1>4 DEF JobInv
<1>6. k.pc = "active" => CalledTo(k, calls, k.next - 1)
  BY <1>2 DEF CalledTo
<1>7. \A x \in Contacts : calls[x] <= k.attempts + k.stalls + (IF HasServed(k, x) THEN 1 ELSE 0)
  BY <1>2, <1>4, <1>5
<1> QED
  BY <1>1, <1>2, <1>3, <1>6, <1>7 DEF JobInv

\* The contacts are copied into a job that is not queued yet.
LEMMA FilledJob ==
  ASSUME NEW j \in JobRecords, NEW calls \in Calls, JobInv("contacts", j, calls), NEW s \in Tables
  PROVE  /\ [j EXCEPT !.contacts = s] \in JobRecords
         /\ JobInv(IF s = <<>> THEN "publish" ELSE "enqueue", [j EXCEPT !.contacts = s], calls)
<1> DEFINE k == [j EXCEPT !.contacts = s]
<1>1. k \in JobRecords /\ k.contacts = s /\ k.pc = j.pc /\ k.next = j.next /\ k.attempts = j.attempts /\ k.stalls = j.stalls
  BY DEF JobRecords
<1>2. /\ j.pc = "none" /\ j.next = 1 /\ j.attempts = 0 /\ j.stalls = 0 /\ \A x \in Contacts : calls[x] = 0
  BY DEF JobInv
<1>3. s # <<>> => Len(s) > 0
  BY TablesAreSequences
<1> HIDE DEF k
<1>4. \A x \in Contacts : ~HasServed(k, x)
  BY <1>1, <1>2 DEF HasServed
<1>5. \A x \in Contacts : calls[x] <= k.attempts + k.stalls + (IF HasServed(k, x) THEN 1 ELSE 0)
  BY <1>1, <1>2, <1>4
<1>6. JobInv(IF s = <<>> THEN "publish" ELSE "enqueue", k, calls)
  BY <1>1, <1>2, <1>3, <1>5, BoundAssumption DEF JobInv
<1> QED
  BY <1>1, <1>6 DEF k

LEMMA EndedAttempts ==
  ASSUME NEW j \in JobRecords
  PROVE  /\ AttemptFails(j) \in JobRecords
         /\ AttemptFails(j).contacts = j.contacts /\ AttemptFails(j).next = 1
         /\ AttemptFails(j).attempts = j.attempts + 1 /\ AttemptFails(j).stalls = j.stalls
         /\ AttemptFails(j).pc = IF j.attempts + 1 < Attempts THEN "backoff" ELSE "failed"
         /\ j.pc = "active" =>
              /\ Stalled(j) \in JobRecords
              /\ Stalled(j).contacts = j.contacts /\ Stalled(j).next = 1
              /\ Stalled(j).attempts = j.attempts /\ Stalled(j).stalls = j.stalls + 1
              /\ Stalled(j).pc \in {"waiting", "failed"}
<1>0. j.attempts + 1 \in Nat /\ j.stalls + 1 \in Nat
  BY DEF JobRecords
<1>1. ASSUME NEW pc \in {"backoff", "failed"}, NEW k, k = [j EXCEPT !.attempts = @ + 1, !.next = 1, !.pc = pc]
      PROVE  /\ k \in JobRecords /\ k.contacts = j.contacts /\ k.next = 1 /\ k.attempts = j.attempts + 1
             /\ k.stalls = j.stalls /\ k.pc = pc
  BY <1>0, <1>1 DEF JobRecords
<1>2. ASSUME NEW pc \in {"waiting", "failed"}, NEW k, k = [j EXCEPT !.stalls = @ + 1, !.next = 1, !.pc = pc]
      PROVE  /\ k \in JobRecords /\ k.contacts = j.contacts /\ k.next = 1 /\ k.attempts = j.attempts
             /\ k.stalls = j.stalls + 1 /\ k.pc = pc
  BY <1>0, <1>2 DEF JobRecords
<1> DEFINE failed == IF j.attempts + 1 < Attempts THEN "backoff" ELSE "failed"
           stalled == IF j.stalls = 0 THEN "waiting" ELSE "failed"
<1>3. AttemptFails(j) = [j EXCEPT !.attempts = @ + 1, !.next = 1, !.pc = failed] /\ failed \in {"backoff", "failed"}
  BY DEF AttemptFails
<1>4. j.pc = "active" => Stalled(j) = [j EXCEPT !.stalls = @ + 1, !.next = 1, !.pc = stalled]
  BY DEF Stalled
<1>5. stalled \in {"waiting", "failed"}
  OBVIOUS
<1> HIDE DEF failed, stalled
<1>6. /\ AttemptFails(j) \in JobRecords
      /\ AttemptFails(j).contacts = j.contacts /\ AttemptFails(j).next = 1
      /\ AttemptFails(j).attempts = j.attempts + 1 /\ AttemptFails(j).stalls = j.stalls
      /\ AttemptFails(j).pc = failed
  BY <1>1, <1>3
<1> QED
  BY <1>2, <1>4, <1>5, <1>6 DEF failed

LEMMA DispatchedJob ==
  ASSUME AlertTypes, JobsInv, NEW e \in Event, Dispatch(e)
  PROVE  /\ job' = [job EXCEPT ![e] = job'[e]] /\ job'[e] \in JobRecords
         /\ got' = [got EXCEPT ![e] = got'[e]] /\ got'[e] \in Calls
         /\ JobInv(handler[e], job'[e], got'[e])
<1> DEFINE j == job[e]
           c == j.contacts[j.next].id
<1>1. j \in JobRecords /\ got[e] \in Calls /\ JobInv(handler[e], j, got[e]) /\ j.pc = "active"
  BY DEF AlertTypes, JobsInv, Dispatch
<1>2. c \in Contacts /\ j.attempts \in Nat /\ j.attempts < Attempts
  BY <1>1, RunningJob, JobRecordsTyped
<1>3. CASE ~IsWebhook(j, j.next) /\ job' = [job EXCEPT ![e] = Served(j)] /\ UNCHANGED got
  <2>1. OneCall(got[e], got[e], c)
    BY DEF OneCall
  <2>2. Served(j) \in JobRecords /\ JobInv(handler[e], Served(j), got[e])
    BY <1>1, <1>3, <2>1, ServedJob
  <2>3. job'[e] = Served(j) /\ got'[e] = got[e]
    BY <1>3 DEF AlertTypes
  <2> QED
    BY <1>1, <1>3, <2>2, <2>3 DEF AlertTypes
<1>4. ASSUME NEW called \in BOOLEAN, NEW accepted \in BOOLEAN, accepted => called, IsWebhook(j, j.next),
             job' = [job EXCEPT ![e] = IF accepted THEN Served(j) ELSE AttemptFails(j)],
             got' = [got EXCEPT ![e][c] = @ + (IF called THEN 1 ELSE 0)]
      PROVE  /\ job' = [job EXCEPT ![e] = job'[e]] /\ job'[e] \in JobRecords
             /\ got' = [got EXCEPT ![e] = got'[e]] /\ got'[e] \in Calls
             /\ JobInv(handler[e], job'[e], got'[e])
  <2>1. got'[e] = [got[e] EXCEPT ![c] = @ + (IF called THEN 1 ELSE 0)]
    BY <1>4 DEF AlertTypes
  <2>2. OneCall(got[e], got'[e], c) /\ (called => got'[e][c] > 0)
    <3>1. PICK before : before = got[e] /\ before \in Calls
      BY <1>1
    <3>2. PICK more \in {0, 1} : more = IF called THEN 1 ELSE 0
      OBVIOUS
    <3>3. PICK after : after = got'[e] /\ after = [before EXCEPT ![c] = @ + more]
      BY <2>1, <3>1, <3>2
    <3>4. before[c] \in Nat /\ after[c] = before[c] + more
      BY <1>2, <3>1, <3>3 DEF Calls
    <3>5. OneCall(before, after, c)
      <4>1. CASE more = 0
        <5>1. after = [x \in Contacts |-> after[x]] /\ before = [x \in Contacts |-> before[x]]
          BY <3>1, <3>3 DEF Calls
        <5>2. \A x \in Contacts : after[x] = before[x]
          BY <3>1, <3>3, <3>4, <4>1 DEF Calls
        <5>3. after = before
          BY <5>1, <5>2
        <5> QED BY <5>3 DEF OneCall
      <4>2. CASE more = 1
        BY <3>3, <4>2 DEF OneCall
      <4> QED BY <3>2, <4>1, <4>2
    <3>6. called => after[c] > 0
      BY <3>2, <3>4
    <3> QED BY <3>1, <3>3, <3>5, <3>6
  <2>3. got'[e] \in Calls
    BY <1>1, <1>2, <2>2, OneCallCounts
  <2>4. got' = [got EXCEPT ![e] = got'[e]]
    BY <1>4, <2>1 DEF AlertTypes
  <2>5. job'[e] = (IF accepted THEN Served(j) ELSE AttemptFails(j)) /\ job' = [job EXCEPT ![e] = job'[e]]
    BY <1>4 DEF AlertTypes
  <2>6. CASE accepted
    <3>1. Served(j) \in JobRecords /\ JobInv(handler[e], Served(j), got'[e])
      BY <1>1, <1>4, <2>2, <2>6, ServedJob
    <3> QED
      BY <2>3, <2>4, <2>5, <2>6, <3>1
  <2>7. CASE ~accepted
    <3> DEFINE k == AttemptFails(j)
    <3>1. /\ k \in JobRecords /\ k.contacts = j.contacts /\ k.next = 1 /\ k.attempts = j.attempts + 1
          /\ k.stalls = j.stalls /\ k.pc = IF j.attempts + 1 < Attempts THEN "backoff" ELSE "failed"
      BY <1>1, EndedAttempts
    <3> HIDE DEF k
    <3>2. JobInv(handler[e], k, got'[e])
      BY <1>1, <1>4, <2>2, <3>1, BrokenJob
    <3> QED
      BY <2>3, <2>4, <2>5, <2>7, <3>1, <3>2 DEF k
  <2> QED
    BY <2>6, <2>7
<1> QED
  BY <1>3, <1>4 DEF Dispatch, IsWebhook

\* A crash of the worker breaks the jobs that were running.
LEMMA CrashedJob ==
  ASSUME AlertTypes, JobsInv, CrashWorker, NEW e \in Event
  PROVE  job'[e] \in JobRecords /\ got'[e] \in Calls /\ JobInv(handler'[e], job'[e], got'[e])
<1> DEFINE j == job[e]
           c == j.contacts[j.next].id
           k == Stalled(j)
<1>1. j \in JobRecords /\ got[e] \in Calls /\ JobInv(handler[e], j, got[e])
  BY DEF AlertTypes, JobsInv
<1>2. job'[e] = k
  BY DEF CrashWorker
<1>3. PICK called \in SUBSET {x \in Event : Calling(job[x])} :
        got' = [x \in Event |-> [y \in Contacts |->
                  got[x][y] + (IF x \in called /\ job[x].contacts[job[x].next].id = y THEN 1 ELSE 0)]]
  BY DEF CrashWorker
<1>4. got'[e] = [y \in Contacts |-> got[e][y] + (IF e \in called /\ c = y THEN 1 ELSE 0)]
  BY <1>3
<1>5. handler'[e] \in {handler[e], "dropped"}
  BY DEF CrashWorker, Dropped
<1>6. JobInv(handler[e], k, got'[e]) /\ k \in JobRecords /\ got'[e] \in Calls
  <2>1. CASE j.pc # "active"
    <3>1. k = j
      BY <2>1 DEF Stalled
    <3>2. e \notin called
      BY <2>1 DEF Calling
    <3>3. \A y \in Contacts : got'[e][y] = got[e][y]
      BY <1>1, <1>4, <3>2 DEF Calls
    <3>4. got'[e] = got[e]
      BY <1>1, <1>4, <3>3 DEF Calls
    <3> QED
      BY <1>1, <3>1, <3>4
  <2>2. CASE j.pc = "active"
    <3>1. c \in Contacts /\ j.stalls \in Nat
      BY <1>1, <2>2, RunningJob, JobRecordsTyped
    <3>2. \/ \A y \in Contacts : got'[e][y] = got[e][y]
          \/ \A y \in Contacts : got'[e][y] = IF y = c THEN got[e][y] + 1 ELSE got[e][y]
      BY <1>1, <1>4 DEF Calls
    <3>3. OneCall(got[e], got'[e], c)
      <4>1. CASE \A y \in Contacts : got'[e][y] = got[e][y]
        <5>1. got'[e] = got[e]
          BY <1>1, <1>4, <4>1 DEF Calls
        <5> QED
          BY <5>1 DEF OneCall
      <4>2. CASE \A y \in Contacts : got'[e][y] = IF y = c THEN got[e][y] + 1 ELSE got[e][y]
        <5>1. got'[e] = [got[e] EXCEPT ![c] = @ + 1]
          BY <1>1, <1>4, <4>2 DEF Calls
        <5> QED
          BY <5>1 DEF OneCall
      <4> QED
        BY <3>2, <4>1, <4>2
    <3>4. /\ k \in JobRecords /\ k.contacts = j.contacts /\ k.next = 1 /\ k.attempts = j.attempts
          /\ k.stalls = j.stalls + 1 /\ k.pc \in {"waiting", "failed"}
      BY <1>1, <2>2, EndedAttempts
    <3>5. got'[e] \in Calls
      BY <1>1, <3>1, <3>3, OneCallCounts
    <3> HIDE DEF k
    <3>6. JobInv(handler[e], k, got'[e])
      BY <1>1, <2>2, <3>3, <3>4, BrokenJob
    <3> QED
      BY <3>4, <3>5, <3>6
  <2> QED
    BY <2>1, <2>2
<1> HIDE DEF k
<1>7. JobInv(handler'[e], k, got'[e])
  BY <1>5, <1>6, LaterStage
<1> QED
  BY <1>2, <1>6, <1>7

-----------------------------------------------------------------------------
(* Types *)

LEMMA EventTyped ==
  ASSUME MonitorTypes
  PROVE  /\ Now \in Nat /\ Len(events) \in Nat /\ DOMAIN events = 1..Len(events)
         /\ \A e \in 1..Len(events) : events[e] \in Changes
         /\ Snapshot \in [status : Statuses, at : Nat]
         /\ NeededFailures \in Nat \ {0} /\ NeededFailures <= Threshold
<1>1. check \in CheckRecords /\ startedAt \in Nat /\ events \in Seq(Changes) /\ heartbeat \in BOOLEAN
  BY DEF MonitorTypes
<1>2. Now \in Nat
  BY <1>1 DEF CheckRecords, Now
<1>3. Snapshot \in [status : Statuses, at : Nat]
  BY <1>1 DEF Snapshot, Statuses, CheckRecords
<1>4. NeededFailures \in Nat \ {0} /\ NeededFailures <= Threshold
  BY <1>1, BoundAssumption DEF NeededFailures
<1> QED
  BY <1>1, <1>2, <1>3, <1>4

\* What the beginning of a stream leaves of a page.
Begun(p, pc) == [Reset(p) EXCEPT !.pc = pc]
LEMMA StreamBegins ==
  ASSUME NEW p \in PageRecords, NEW pc \in {"closed", "query"}
  PROVE  LET q == Begun(p, pc) IN
         /\ q \in PageRecords /\ q.pc = pc /\ q.toasts = p.toasts
         /\ q.read = [status |-> "UNKNOWN", at |-> 0] /\ q.readAt = 0
         /\ q.from = 0 /\ q.heard = {} /\ q.last = 0
BY DEF Begun, Reset, Closed, PageRecords, Statuses

\* A page shows a status, and nothing else of it changes.
Shows(p, q, status, at) ==
  /\ q.status = status
  /\ q.toasts = p.toasts \cup (IF status = "DOWN" THEN {at} ELSE {})
  /\ q.read = p.read /\ q.readAt = p.readAt /\ q.from = p.from

LEMMA StatusShown ==
  ASSUME NEW p \in PageRecords, NEW status \in Statuses, NEW at \in Nat
  PROVE  LET q == Show(p, status, at) IN
         /\ q \in PageRecords /\ q.pc = p.pc /\ Shows(p, q, status, at) /\ q.heard = p.heard /\ q.last = p.last
<1> DEFINE q == Show(p, status, at)
           toasts == p.toasts \cup (IF status = "DOWN" THEN {at} ELSE {})
<1>1. toasts \in SUBSET Nat
  BY DEF PageRecords
<1>2. q = [p EXCEPT !.status = status, !.at = at, !.toasts = toasts]
  BY DEF Show, PageRecords
<1> HIDE DEF toasts, q
<1>3. /\ q \in PageRecords /\ q.pc = p.pc /\ q.status = status /\ q.toasts = toasts
      /\ q.read = p.read /\ q.readAt = p.readAt /\ q.from = p.from
      /\ q.heard = p.heard /\ q.last = p.last
  BY <1>1, <1>2 DEF PageRecords
<1> QED
  BY <1>3 DEF Shows, q, toasts

Streaming(p, status, at) == [Show(p, status, at) EXCEPT !.pc = "streaming"]
LEMMA SnapshotShown ==
  ASSUME NEW p \in PageRecords, NEW status \in Statuses, NEW at \in Nat
  PROVE  LET q == Streaming(p, status, at) IN
         /\ q \in PageRecords /\ q.pc = "streaming" /\ Shows(p, q, status, at)
         /\ q.heard = p.heard /\ q.last = p.last
<1> DEFINE r == Show(p, status, at)
           q == Streaming(p, status, at)
<1>1. r \in PageRecords /\ Shows(p, r, status, at) /\ r.heard = p.heard /\ r.last = p.last
  BY StatusShown
<1>2. q = [r EXCEPT !.pc = "streaming"]
  BY DEF Streaming
<1> HIDE DEF r, q
<1>3. /\ q \in PageRecords /\ q.pc = "streaming" /\ q.status = r.status /\ q.toasts = r.toasts
      /\ q.read = r.read /\ q.readAt = r.readAt /\ q.from = r.from /\ q.heard = r.heard /\ q.last = r.last
  BY <1>1, <1>2 DEF PageRecords
<1> QED
  BY <1>1, <1>3 DEF Shows, q

Informed(p, status, at, e) == [Show(p, status, at) EXCEPT !.heard = @ \cup {e}, !.last = e]
LEMMA ChangeHeard ==
  ASSUME NEW p \in PageRecords, NEW status \in Statuses, NEW at \in Nat, NEW e \in Nat
  PROVE  LET q == Informed(p, status, at, e) IN
         /\ q \in PageRecords /\ q.pc = p.pc /\ Shows(p, q, status, at)
         /\ q.heard = p.heard \cup {e} /\ q.last = e
<1> DEFINE r == Show(p, status, at)
           q == Informed(p, status, at, e)
           heard == r.heard \cup {e}
<1>1. r \in PageRecords /\ r.pc = p.pc /\ Shows(p, r, status, at) /\ r.heard = p.heard
  BY StatusShown
<1> HIDE DEF r
<1>2. heard \in SUBSET Nat
  BY <1>1 DEF PageRecords
<1>3. q = [r EXCEPT !.heard = heard, !.last = e]
  BY <1>1 DEF r, PageRecords, Informed
<1> HIDE DEF heard, q
<1>4. /\ q \in PageRecords /\ q.pc = r.pc /\ q.status = r.status /\ q.toasts = r.toasts
      /\ q.read = r.read /\ q.readAt = r.readAt /\ q.from = r.from /\ q.heard = heard /\ q.last = e
  BY <1>1, <1>2, <1>3 DEF PageRecords
<1> QED
  BY <1>1, <1>4 DEF Shows, heard, q

LEMMA NInvInit == Init => NInv
<1> SUFFICES ASSUME Init PROVE NInv
  OBVIOUS
<1> USE DEF Init, Unstarted
<1>1. /\ check = [at |-> 0, up |-> TRUE, pc |-> "idle", failures |-> 0, first |-> 0, silent |-> 0,
                   down |-> {}, lost |-> 0]
      /\ Now = 0 /\ Len(events) = 0
  BY DEF Success, Now
<1>2. NoJob \in JobRecords
  BY NoContacts DEF NoJob, JobRecords
<1>3. Closed \in PageRecords
  BY DEF Closed, PageRecords, Statuses
<1>4. TypesOK
  <2>1. events \in Seq(Changes)
    OBVIOUS
  <2>2. MonitorTypes
    <3> DEFINE fresh == [at |-> 0, up |-> TRUE, pc |-> "idle", failures |-> 0, first |-> 0, silent |-> 0,
                         down |-> {}, lost |-> 0]
    <3>0. fresh \in CheckRecords
      BY DEF CheckRecords
    <3> HIDE DEF fresh
    <3>1. check \in CheckRecords
      BY <1>1, <3>0 DEF fresh
    <3>2. heartbeat \in BOOLEAN /\ startedAt \in Nat
      OBVIOUS
    <3> QED
      BY <2>1, <3>1, <3>2 DEF MonitorTypes
  <2>3. AlertTypes
    BY <1>2 DEF AlertTypes, Stages, Calls
  <2> QED
    BY <1>3, <2>2, <2>3 DEF TypesOK, PageTypes
<1>5. MonitorInv
  <2>1. ~Opened /\ NeededFailures \in Nat \ {0}
    BY BoundAssumption DEF Opened, NeededFailures
  <2>2. StageInv /\ DownInv
    BY <1>1, <2>1, BoundAssumption DEF StageInv, DownInv
  <2>3. Cardinality({}) = 0
    BY FS_EmptySet
  <2>4. Counted = 0 /\ ~Awaited
    BY <1>1, <2>1 DEF Counted, Awaited
  <2>5. CountInv
    <3>1. check.down = {} /\ check.lost = 0
      BY <1>1
    <3>2. Cardinality(check.down) = 0
      BY <2>3, <3>1
    <3>3. check.lost + (Counted + 0) = 0
      BY <2>4, <3>1
    <3> QED
      BY <2>1, <2>4, <3>2, <3>3 DEF CountInv
  <2> QED
    BY <2>2, <2>5 DEF MonitorInv
<1>6. ChangesInv
  BY <1>1 DEF ChangesInv
<1>7. JobsInv
  <2>1. ASSUME NEW j, j = NoJob, NEW calls, \A c \in Contacts : calls[c] = 0 PROVE JobInv("none", j, calls)
    <3>1. \A c \in Contacts : ~HasServed(j, c)
      BY <2>1 DEF HasServed, NoJob
    <3>2. \A c \in Contacts : calls[c] <= j.attempts + j.stalls + (IF HasServed(j, c) THEN 1 ELSE 0)
      BY <2>1, <3>1 DEF NoJob
    <3> QED
      BY <2>1, <3>2, BoundAssumption DEF JobInv, NoJob
  <2>2. \A e \in Event : job[e] = NoJob /\ handler[e] = "none" /\ \A c \in Contacts : got[e][c] = 0
    OBVIOUS
  <2> QED
    BY <2>1, <2>2 DEF JobsInv
<1>8. PagesInv
  BY <1>1 DEF PagesInv, PageInv, Closed
<1>9. ToastInv
  BY <1>1 DEF ToastInv, PageToasts, Closed
<1>10. ViewsInv
  BY <1>1 DEF ViewsInv, ViewInv, LastChange, Closed
<1> QED
  BY <1>4, <1>5, <1>6, <1>7, <1>8, <1>9, <1>10 DEF NInv

-----------------------------------------------------------------------------
(* The alerts *)

LEMMA OneJob ==
  ASSUME AlertTypes, JobsInv, NEW e \in Event,
         NEW stage \in Stages, handler' = [handler EXCEPT ![e] = stage],
         NEW j \in JobRecords, job' = [job EXCEPT ![e] = j],
         NEW calls \in Calls, got' = [got EXCEPT ![e] = calls],
         JobInv(stage, j, calls), contacts' \in Tables
  PROVE  AlertTypes' /\ JobsInv'
<1>1. AlertTypes'
  BY DEF AlertTypes
<1>2. \A x \in Event : IF x = e THEN handler'[x] = stage /\ job'[x] = j /\ got'[x] = calls
                       ELSE handler'[x] = handler[x] /\ job'[x] = job[x] /\ got'[x] = got[x]
  BY DEF AlertTypes
<1>3. \A x \in Event : JobInv(handler'[x], job'[x], got'[x])
  BY <1>2 DEF JobsInv
<1> QED
  BY <1>1, <1>3 DEF JobsInv

\* One handler moves on, with its job as it is.
LEMMA HandlerMoves ==
  ASSUME AlertTypes, JobsInv, NEW e \in Event, NEW stage \in Stages, JobInv(stage, job[e], got[e]),
         handler' = [handler EXCEPT ![e] = stage], UNCHANGED <<contacts, job, got>>
  PROVE  AlertTypes' /\ JobsInv'
<1>1. AlertTypes'
  BY DEF AlertTypes
<1>2. \A x \in Event : job'[x] = job[x] /\ got'[x] = got[x] /\ handler'[x] = IF x = e THEN stage ELSE handler[x]
  BY DEF AlertTypes
<1>3. \A x \in Event : JobInv(handler'[x], job'[x], got'[x])
  BY <1>2 DEF JobsInv
<1> QED
  BY <1>1, <1>3 DEF JobsInv

LEMMA EditedTables ==
  ASSUME contacts \in Tables, EditContacts
  PROVE  contacts' \in Tables
<1>1. PICK id \in Contacts, type \in Types :
        LET held == {i \in DOMAIN contacts : contacts[i].id = id} IN
        contacts' \in IF held = {} THEN {<<Contact(id, type)>> \o contacts}
                      ELSE {[contacts EXCEPT ![i] = Contact(id, type)] : i \in held}
                        \cup {[k \in 1..(Len(contacts) - 1) |-> contacts[IF k < i THEN k ELSE k + 1]] : i \in held}
  BY DEF EditContacts
<1> DEFINE held == {i \in DOMAIN contacts : contacts[i].id = id}
<1>2. CASE held = {}
  <2>1. \A i \in DOMAIN contacts : contacts[i].id # id
    BY <1>2
  <2>2. contacts' = <<Contact(id, type)>> \o contacts
    BY <1>1, <1>2
  <2> QED
    BY <2>1, <2>2, NewContact
<1>3. ASSUME NEW i \in held, contacts' = [contacts EXCEPT ![i] = Contact(id, type)] PROVE contacts' \in Tables
  <2>1. contacts' = [contacts EXCEPT ![i] = Contact(contacts[i].id, type)]
    BY <1>3
  <2> QED
    BY <2>1, EditedContact
<1>4. ASSUME NEW i \in held,
             contacts' = [k \in 1..(Len(contacts) - 1) |-> contacts[IF k < i THEN k ELSE k + 1]]
      PROVE  contacts' \in Tables
  BY <1>4, DeletedContact
<1> QED
  BY <1>1, <1>2, <1>3, <1>4

\* A change waits for its alert.
LEMMA ChangeIsQueued ==
  ASSUME AlertTypes, JobsInv, ChangesInv, MonitorInv, MonitorTypes, check.pc # "idle",
         NEW status, NEW process, Change(status, process), UNCHANGED <<contacts, job, got>>
  PROVE  AlertTypes' /\ JobsInv'
<1> DEFINE n == Len(events) + 1
<1>1. n \in Event /\ handler[n] = "none" /\ handler' = [handler EXCEPT ![n] = "contacts"]
  <2>1. Len(events) < Now /\ Now <= MaxChecks
    BY DEF ChangesInv, MonitorInv, StageInv
  <2>2. n \in 1..MaxChecks
    BY <2>1, EventTyped, BoundAssumption
  <2> QED
    BY <2>2, EventTyped DEF ChangesInv, Change, Event
<1>2. JobInv("none", job[n], got[n])
  BY <1>1 DEF JobsInv
<1>3. JobInv("contacts", job[n], got[n])
  BY <1>2 DEF JobInv
<1> QED
  BY <1>1, <1>3, HandlerMoves DEF Stages

\* What a check does between its result and its incident.
Bookkeeping == ClearFailures \/ CountFailure \/ MarkFailure \/ ExpireFailures \/ CheckFails

LEMMA AlertsStep == NInv /\ [Next]_vars => AlertTypes' /\ JobsInv'
<1> SUFFICES ASSUME NInv, [Next]_vars PROVE AlertTypes' /\ JobsInv'
  OBVIOUS
<1>1. AlertTypes /\ JobsInv /\ ChangesInv /\ MonitorInv /\ MonitorTypes
  BY DEF NInv, TypesOK
<1>2. ASSUME UNCHANGED <<handler, contacts, job, got>> PROVE AlertTypes' /\ JobsInv'
  BY <1>1, <1>2 DEF AlertTypes, JobsInv
<1>3. ASSUME NEW up \in BOOLEAN, Record(up) PROVE AlertTypes' /\ JobsInv'
  BY <1>2, <1>3 DEF Record, alertVars
<1>12. CASE Bookkeeping
  BY <1>2, <1>12 DEF Bookkeeping, ClearFailures, CountFailure, MarkFailure, ExpireFailures, CheckFails, alertVars
<1>4. CASE OpenIncident
  BY <1>1, <1>4, ChangeIsQueued DEF OpenIncident, alertVars
<1>5. CASE ResolveIncident
  BY <1>1, <1>5, ChangeIsQueued DEF ResolveIncident, alertVars
<1>6. CASE EditContacts
  <2>1. contacts' \in Tables /\ UNCHANGED <<handler, job, got>>
    BY <1>1, <1>6, EditedTables DEF EditContacts, AlertTypes
  <2> QED
    BY <1>1, <2>1 DEF AlertTypes, JobsInv
<1>7. CASE CrashWorker
  <2>1. \A e \in Event : job'[e] \in JobRecords /\ got'[e] \in Calls /\ JobInv(handler'[e], job'[e], got'[e])
    BY <1>1, <1>7, CrashedJob
  <2>2. job' = [e \in Event |-> job'[e]] /\ got' = [e \in Event |-> got'[e]]
    BY <1>7 DEF CrashWorker
  <2>3. handler' \in [Event -> Stages] /\ contacts' \in Tables
    BY <1>1, <1>7 DEF CrashWorker, Dropped, AlertTypes, Stages
  <2>4. job' \in [Event -> JobRecords] /\ got' \in [Event -> Calls]
    BY <2>1, <2>2
  <2> QED
    BY <2>1, <2>3, <2>4 DEF AlertTypes, JobsInv
<1>8. CASE CrashApi
  <2>1. \A e \in Event : handler'[e] \in {handler[e], "dropped"}
    BY <1>8 DEF CrashApi, Dropped
  <2>2. UNCHANGED <<contacts, job, got>> /\ handler' \in [Event -> Stages]
    BY <1>1, <1>8 DEF CrashApi, Dropped, AlertTypes, Stages, alertVars
  <2>3. \A e \in Event : JobInv(handler'[e], job[e], got[e])
    BY <1>1, <2>1, LaterStage DEF JobsInv
  <2> QED
    BY <1>1, <2>2, <2>3 DEF AlertTypes, JobsInv
<1>9. ASSUME NEW e \in Event,
             ReadContacts(e) \/ Enqueue(e) \/ HandlerFails(e) \/ Publish(e)
             \/ StartJob(e) \/ BackoffEnds(e) \/ Dispatch(e)
      PROVE  AlertTypes' /\ JobsInv'
  <2>0. job[e] \in JobRecords /\ got[e] \in Calls /\ JobInv(handler[e], job[e], got[e]) /\ handler[e] \in Stages
    BY <1>1 DEF AlertTypes, JobsInv
  <2>1. CASE ReadContacts(e)
    <3> DEFINE stage == IF contacts = <<>> THEN "publish" ELSE "enqueue"
               j == [job[e] EXCEPT !.contacts = contacts]
    <3>1. j \in JobRecords /\ JobInv(stage, j, got[e])
      BY <1>1, <2>0, <2>1, FilledJob DEF ReadContacts, AlertTypes
    <3>2. /\ handler' = [handler EXCEPT ![e] = stage] /\ job' = [job EXCEPT ![e] = j]
          /\ got' = [got EXCEPT ![e] = got[e]] /\ contacts' \in Tables
      BY <1>1, <2>1 DEF ReadContacts, AlertTypes
    <3>3. stage \in Stages
      BY DEF Stages
    <3> HIDE DEF stage, j
    <3> QED
      BY <1>1, <2>0, <3>1, <3>2, <3>3, OneJob
  <2>2. CASE Enqueue(e)
    <3> DEFINE j == [job[e] EXCEPT !.pc = "waiting"]
    <3>1. handler[e] = "enqueue"
      BY <2>2 DEF Enqueue
    <3>2. j \in JobRecords /\ JobInv("publish", j, got[e])
      BY <2>0, <3>1, StartedJob
    <3>3. /\ handler' = [handler EXCEPT ![e] = "publish"] /\ job' = [job EXCEPT ![e] = j]
          /\ got' = [got EXCEPT ![e] = got[e]] /\ contacts' \in Tables
      BY <1>1, <2>2 DEF Enqueue, AlertTypes
    <3> HIDE DEF j
    <3> QED
      BY <1>1, <2>0, <3>2, <3>3, OneJob DEF Stages
  <2>3. CASE HandlerFails(e)
    <3>1. JobInv("dropped", job[e], got[e])
      BY <2>0, LaterStage
    <3> QED
      BY <1>1, <2>3, <3>1, HandlerMoves DEF HandlerFails, Stages, alertVars
  <2>4. CASE Publish(e)
    <3>1. JobInv("done", job[e], got[e])
      BY <2>0, LaterStage
    <3> QED
      BY <1>1, <2>4, <3>1, HandlerMoves DEF Publish, Stages, alertVars
  <2>5. CASE StartJob(e) \/ BackoffEnds(e)
    <3> DEFINE j == IF job[e].pc = "waiting" THEN [job[e] EXCEPT !.pc = "active", !.next = 1]
                                             ELSE [job[e] EXCEPT !.pc = "waiting"]
    <3>1. handler[e] # "enqueue"
      BY <2>0, <2>5 DEF JobInv, StartJob, BackoffEnds
    <3>2. /\ handler' = [handler EXCEPT ![e] = handler[e]] /\ job' = [job EXCEPT ![e] = j]
          /\ got' = [got EXCEPT ![e] = got[e]] /\ contacts' \in Tables
      BY <1>1, <2>5 DEF StartJob, BackoffEnds, AlertTypes
    <3>3. \/ job[e].pc = "waiting" /\ j = [job[e] EXCEPT !.pc = "active", !.next = 1]
          \/ job[e].pc = "backoff" /\ j = [job[e] EXCEPT !.pc = "waiting"]
      BY <2>5 DEF StartJob, BackoffEnds
    <3> HIDE DEF j
    <3>4. j \in JobRecords /\ JobInv(handler[e], j, got[e])
      BY <2>0, <3>1, <3>3, StartedJob
    <3> QED
      BY <1>1, <2>0, <3>2, <3>4, OneJob
  <2>6. CASE Dispatch(e)
    <3>1. /\ job' = [job EXCEPT ![e] = job'[e]] /\ job'[e] \in JobRecords
          /\ got' = [got EXCEPT ![e] = got'[e]] /\ got'[e] \in Calls
          /\ JobInv(handler[e], job'[e], got'[e])
      BY <1>1, <2>6, DispatchedJob
    <3>2. handler' = [handler EXCEPT ![e] = handler[e]] /\ contacts' \in Tables
      BY <1>1, <2>6 DEF Dispatch, AlertTypes
    <3> QED
      BY <1>1, <2>0, <3>1, <3>2, OneJob
  <2> QED
    BY <1>9, <2>1, <2>2, <2>3, <2>4, <2>5, <2>6
<1>10. ASSUME NEW c \in Clients, Connect(c) \/ ReadSnapshot(c) \/ Subscribe(c) \/ Disconnect(c) \/ Reload(c)
       PROVE  AlertTypes' /\ JobsInv'
  BY <1>2, <1>10 DEF Connect, ReadSnapshot, Subscribe, Disconnect, Reload, alertVars
<1>11. CASE UNCHANGED vars
  BY <1>2, <1>11 DEF vars
<1> QED
  BY <1>3, <1>4, <1>5, <1>6, <1>7, <1>8, <1>9, <1>10, <1>11, <1>12 DEF Next, Bookkeeping

-----------------------------------------------------------------------------
(* The monitor *)

LEMMA MonitorTyped ==
  ASSUME MonitorTypes, MonitorInv
  PROVE  /\ check \in CheckRecords /\ Now \in Nat /\ Now = check.at /\ startedAt \in Nat
         /\ check.up \in BOOLEAN /\ check.failures \in Nat /\ check.first \in Nat /\ check.silent \in Nat
         /\ check.lost \in Nat /\ heartbeat \in BOOLEAN
         /\ IsFiniteSet(check.down) /\ Cardinality(check.down) \in Nat /\ check.down \in SUBSET Nat
         /\ NeededFailures \in Nat \ {0} /\ NeededFailures = (IF heartbeat THEN 1 ELSE Threshold)
         /\ Threshold \in Nat \ {0}
<1>1. check \in CheckRecords /\ Now \in Nat /\ Now = check.at /\ startedAt \in Nat /\ heartbeat \in BOOLEAN
  BY EventTyped DEF MonitorTypes, Now
<1>2. check.down \in SUBSET (1..Now) /\ IsFiniteSet(1..Now)
  <2>1. check.down \in SUBSET (1..Now)
    BY DEF MonitorInv, StageInv
  <2>2. 1 \in Int /\ Now \in Int
    BY <1>1
  <2> QED
    BY <2>1, <2>2, FS_Interval
<1>3. IsFiniteSet(check.down) /\ Cardinality(check.down) \in Nat
  BY <1>2, FS_Subset, FS_CardinalityType
<1>4. /\ check.up \in BOOLEAN /\ check.failures \in Nat /\ check.first \in Nat /\ check.silent \in Nat
      /\ check.lost \in Nat /\ check.down \in SUBSET Nat
  BY <1>1 DEF CheckRecords
<1>5. /\ NeededFailures \in Nat \ {0} /\ NeededFailures = (IF heartbeat THEN 1 ELSE Threshold)
      /\ Threshold \in Nat \ {0}
  BY <1>1, BoundAssumption DEF NeededFailures
<1> QED
  BY <1>1, <1>3, <1>4, <1>5

\* A check is recorded: a success after the incident, a success that ends an outage
\* without one, a success that still has keys to delete, or a failure, which is one
\* of the outage unless its incident is open.
LEMMA RecordedCheck ==
  ASSUME MonitorTypes, MonitorInv, NEW up \in BOOLEAN, Record(up)
  PROVE  /\ check' \in CheckRecords /\ Now' = Now + 1 /\ Now < MaxChecks /\ check.pc = "idle"
         /\ check'.at = Now + 1 /\ check'.up = up /\ check'.pc = IF heartbeat THEN Then(up) ELSE "keys"
         /\ check'.failures = check.failures /\ check'.first = check.first
         /\ check'.silent \in {check.silent, Now + 1}
         /\ check'.silent # Now + 1 => Snapshot'.status = Snapshot.status
         /\ \/ heartbeat /\ up /\ ~Opened /\ check'.down = {} /\ check'.lost = 0
            \/ (up => ~heartbeat) /\ ~Opened /\ check'.lost = check.lost
               /\ check'.down = check.down \cup (IF up THEN {} ELSE {Now + 1})
            \/ Opened /\ check'.down = check.down /\ check'.lost = check.lost
         /\ UNCHANGED <<heartbeat, startedAt, events, handler, page>>
<1> DEFINE shown == IF Opened THEN "DOWN" ELSE IF up THEN "UP" ELSE "DOWN"
           next == [check EXCEPT !.at = Now + 1, !.up = up,
                                 !.pc = IF heartbeat THEN Then(up) ELSE "keys",
                                 !.silent = IF shown # Snapshot.status THEN Now + 1 ELSE @,
                                 !.down = IF up \/ Opened THEN @ ELSE @ \cup {Now + 1}]
<1>1. /\ Now < MaxChecks /\ check.pc = "idle"
      /\ check' = IF heartbeat /\ up THEN Over(next) ELSE next
      /\ UNCHANGED <<heartbeat, startedAt, events, handler, page>>
  BY DEF Record
<1>2. check \in CheckRecords /\ Now \in Nat /\ check.silent \in Nat /\ check.down \in SUBSET Nat /\ heartbeat \in BOOLEAN
  BY MonitorTyped
<1>3. (IF heartbeat THEN Then(up) ELSE "keys") \in {"idle", "keys", "mark", "incident"}
  BY DEF Then
<1>4. /\ next \in CheckRecords /\ next.at = Now + 1 /\ next.up = up /\ next.pc = IF heartbeat THEN Then(up) ELSE "keys"
      /\ next.failures = check.failures /\ next.first = check.first
      /\ next.silent = IF shown # Snapshot.status THEN Now + 1 ELSE check.silent
      /\ next.down = IF up \/ Opened THEN check.down ELSE check.down \cup {Now + 1}
      /\ next.lost = check.lost
  <2> DEFINE pc == IF heartbeat THEN Then(up) ELSE "keys"
             silent == IF shown # Snapshot.status THEN Now + 1 ELSE check.silent
             down == IF up \/ Opened THEN check.down ELSE check.down \cup {Now + 1}
             at == Now + 1
  <2>1. at \in Nat /\ pc \in {"idle", "keys", "mark", "incident"} /\ silent \in Nat /\ down \in SUBSET Nat
    BY <1>2, <1>3
  <2>2. next = [check EXCEPT !.at = at, !.up = up, !.pc = pc, !.silent = silent, !.down = down]
    OBVIOUS
  <2> HIDE DEF at, pc, silent, down, next
  <2>3. /\ next \in CheckRecords /\ next.at = at /\ next.up = up /\ next.pc = pc /\ next.silent = silent
        /\ next.down = down /\ next.failures = check.failures /\ next.first = check.first /\ next.lost = check.lost
    BY <1>2, <2>1, <2>2 DEF CheckRecords
  <2> QED
    BY <2>3 DEF at, pc, silent, down
<1> HIDE DEF next
<1>5. /\ check' \in CheckRecords /\ check'.at = Now + 1 /\ check'.up = up /\ check'.pc = next.pc
      /\ check'.failures = next.failures /\ check'.first = next.first /\ check'.silent = next.silent
      /\ check'.down = (IF heartbeat /\ up /\ ~Opened THEN {} ELSE next.down)
      /\ check'.lost = (IF heartbeat /\ up /\ ~Opened THEN 0 ELSE next.lost)
  <2>1. CASE heartbeat /\ up /\ ~Opened
    <3>1. check' = [next EXCEPT !.down = {}, !.lost = 0]
      BY <1>1, <2>1 DEF Over
    <3> QED
      BY <1>4, <2>1, <3>1 DEF CheckRecords
  <2>2. CASE ~(heartbeat /\ up /\ ~Opened)
    <3>1. check' = next
      BY <1>1, <2>2 DEF Over
    <3> QED
      BY <1>4, <2>2, <3>1
  <2> QED
    BY <2>1, <2>2
<1>6. Now' = Now + 1
  BY <1>5 DEF Now
<1>7. Snapshot'.status = shown
  BY <1>1, <1>2, <1>5 DEF Snapshot, Opened
<1> HIDE DEF shown
<1>8. check'.silent \in {check.silent, Now + 1} /\ (check'.silent # Now + 1 => Snapshot'.status = Snapshot.status)
  BY <1>4, <1>5, <1>7
<1>9. \/ heartbeat /\ up /\ ~Opened /\ check'.down = {} /\ check'.lost = 0
      \/ (up => ~heartbeat) /\ ~Opened /\ check'.lost = check.lost
         /\ check'.down = check.down \cup (IF up THEN {} ELSE {Now + 1})
      \/ Opened /\ check'.down = check.down /\ check'.lost = check.lost
  BY <1>4, <1>5
<1> QED
  BY <1>1, <1>4, <1>5, <1>6, <1>8, <1>9

LEMMA RecordKeepsMonitor ==
  ASSUME MonitorTypes, MonitorInv, ChangesInv, NEW up \in BOOLEAN, Record(up)
  PROVE  MonitorTypes' /\ MonitorInv' /\ ChangesInv'
<1>1. /\ check' \in CheckRecords /\ Now' = Now + 1 /\ Now < MaxChecks /\ check.pc = "idle"
      /\ check'.at = Now + 1 /\ check'.up = up /\ check'.pc = IF heartbeat THEN Then(up) ELSE "keys"
      /\ check'.failures = check.failures /\ check'.first = check.first
      /\ check'.silent \in {check.silent, Now + 1}
      /\ \/ heartbeat /\ up /\ ~Opened /\ check'.down = {} /\ check'.lost = 0
         \/ (up => ~heartbeat) /\ ~Opened /\ check'.lost = check.lost
            /\ check'.down = check.down \cup (IF up THEN {} ELSE {Now + 1})
         \/ Opened /\ check'.down = check.down /\ check'.lost = check.lost
      /\ UNCHANGED <<heartbeat, startedAt, events, handler, page>>
  BY RecordedCheck
<1>2. /\ Now \in Nat /\ startedAt \in Nat /\ check.failures \in Nat /\ check.first \in Nat /\ check.silent \in Nat
      /\ check.lost \in Nat /\ heartbeat \in BOOLEAN /\ IsFiniteSet(check.down) /\ Cardinality(check.down) \in Nat
      /\ NeededFailures \in Nat \ {0} /\ NeededFailures = (IF heartbeat THEN 1 ELSE Threshold)
      /\ Threshold \in Nat \ {0}
  BY MonitorTyped
<1>3. StageInv /\ DownInv /\ CountInv
  BY DEF MonitorInv
<1>4. Opened' = Opened /\ NeededFailures' = NeededFailures
  BY <1>1 DEF Opened, NeededFailures
<1>5. MonitorTypes'
  BY <1>1 DEF MonitorTypes
<1>6. StageInv'
  <2>1. check'.down \subseteq 1..(Now + 1)
    BY <1>1, <1>2, <1>3 DEF StageInv
  <2>2. /\ Now' <= MaxChecks /\ startedAt' <= Now' /\ check'.first <= Now' /\ check'.silent <= Now'
        /\ check'.failures <= Now' - 1 /\ Now' >= 1
    BY <1>1, <1>2, <1>3, BoundAssumption DEF StageInv
  <2>3. /\ check'.pc \in {"idle", "keys", "incident"}
        /\ check'.pc = "incident" => heartbeat /\ (check'.up <=> Opened)
        /\ heartbeat => check'.pc \in {"idle", "incident"}
    BY <1>1, <1>2 DEF Then, Opened
  <2>4. heartbeat => check'.failures = 0 /\ check'.first = 0
    BY <1>1, <1>3 DEF StageInv
  <2> QED
    BY <1>1, <1>2, <1>4, <2>1, <2>2, <2>3, <2>4 DEF StageInv
<1>7. DownInv'
  <2>1. ~Opened /\ ~up => Now + 1 \in check'.down
    BY <1>1
  <2>2. ~Opened /\ check.first > 0 => check.first \in check'.down
    BY <1>1, <1>2, <1>3 DEF DownInv, StageInv
  <2>3. Opened => startedAt \in check'.down
    BY <1>1, <1>3 DEF DownInv
  <2> QED
    BY <1>1, <1>4, <2>1, <2>2, <2>3 DEF DownInv
<1>8. CountInv'
  <2>1. Cardinality({}) = 0 /\ Cardinality(check.down \cup {}) = Cardinality(check.down)
    BY FS_EmptySet
  <2>2. Cardinality(check.down \cup {Now + 1}) \in Nat /\ Cardinality(check.down \cup {Now + 1}) <= Cardinality(check.down) + 1
    BY <1>2, FS_AddElement
  <2>3. Counted' = Counted /\ Counted \in Nat
    BY <1>1, <1>2, <1>4 DEF Counted
  <2>4. ~Awaited
    BY <1>1 DEF Awaited
  <2>5. ~Opened /\ ~up => Awaited'
    <3>1. ~Opened /\ ~up => check'.pc \in {"keys", "incident"}
      BY <1>1, <1>2 DEF Then, Opened
    <3> QED
      BY <1>1, <3>1 DEF Awaited
  <2>6. CASE Opened
    BY <1>1, <1>3, <1>4, <2>6 DEF CountInv
  <2>7. CASE ~Opened /\ ~up
    <3>1. check'.down = check.down \cup {Now + 1} /\ check'.lost = check.lost
      BY <1>1, <2>7
    <3>2. Cardinality(check.down) <= check.lost + Counted
      BY <1>2, <1>3, <2>3, <2>4, <2>7 DEF CountInv
    <3>3. Cardinality(check'.down) <= check'.lost + (Counted' + 1)
      BY <1>2, <2>2, <2>3, <3>1, <3>2
    <3> QED
      BY <1>4, <2>5, <2>7, <3>3 DEF CountInv
  <2>8. CASE ~Opened /\ up
    <3>1. Cardinality(check.down) <= check.lost + Counted
      BY <1>2, <1>3, <2>3, <2>4, <2>8 DEF CountInv
    <3>2. Cardinality(check'.down) <= check'.lost + Counted'
      <4>1. \/ check'.down = {} /\ check'.lost = 0
            \/ check'.down = check.down \cup {} /\ check'.lost = check.lost
        BY <1>1, <2>8
      <4>2. CASE check'.down = {} /\ check'.lost = 0
        BY <2>1, <2>3, <4>2
      <4>3. CASE check'.down = check.down \cup {} /\ check'.lost = check.lost
        BY <2>1, <2>3, <3>1, <4>3
      <4> QED
        BY <4>1, <4>2, <4>3
    <3>3. ~Awaited'
      BY <1>1, <2>8 DEF Awaited
    <3>4. Counted' + 0 = Counted'
      BY <2>3
    <3> QED
      BY <1>4, <2>8, <3>2, <3>3, <3>4 DEF CountInv
  <2> QED
    BY <2>6, <2>7, <2>8
<1>9. ChangesInv'
  <2>1. Len(events) \in Nat /\ \A e \in 1..Len(events) : events[e] \in Changes
    BY EventTyped
  <2>2. Len(events') <= Now' /\ Len(events') < Now'
    BY <1>1, <1>2, <2>1 DEF ChangesInv
  <2>3. \A e \in 1..Len(events') : 1 <= events'[e].at /\ events'[e].at <= Now'
    BY <1>1, <1>2, <2>1 DEF ChangesInv, Changes
  <2>4. \A e \in Event : e > Len(events') => handler'[e] = "none"
    BY <1>1 DEF ChangesInv
  <2> QED
    BY <2>2, <2>3, <2>4 DEF ChangesInv
<1> QED
  BY <1>5, <1>6, <1>7, <1>8, <1>9 DEF MonitorInv

\* What leaves the status of the monitor alone: a check on its way to its incident,
\* the alerts, the streams and the crashes.  No handler appears, and pages change by
\* an action of their own or by the API's.
Outside ==
  \/ UNCHANGED vars \/ Bookkeeping \/ EditContacts \/ CrashWorker \/ CrashApi
  \/ \E e \in Event : ReadContacts(e) \/ Enqueue(e) \/ HandlerFails(e) \/ Publish(e)
                      \/ StartJob(e) \/ BackoffEnds(e) \/ Dispatch(e)
  \/ \E c \in Clients : Connect(c) \/ ReadSnapshot(c) \/ Subscribe(c) \/ Disconnect(c) \/ Reload(c)

LEMMA StepKinds ==
  [Next]_vars => (\E up \in BOOLEAN : Record(up)) \/ OpenIncident \/ ResolveIncident \/ Outside
BY DEF Next, Outside, Bookkeeping

LEMMA OutsideKeepsEvents ==
  ASSUME AlertTypes, Outside
  PROVE  /\ UNCHANGED <<heartbeat, startedAt, events>>
         /\ check' = check \/ check' = Broken \/ Bookkeeping
         /\ \A e \in Event : handler[e] = "none" => handler'[e] = "none"
<1> USE DEF AlertTypes, monitorVars
<1>1. CASE UNCHANGED vars
  BY <1>1 DEF vars
<1>2. CASE EditContacts
  BY <1>2 DEF EditContacts
<1>3. CASE CrashWorker
  BY <1>3 DEF CrashWorker, Dropped, InFlight, Checking
<1>4. CASE CrashApi
  BY <1>4 DEF CrashApi, Dropped, InFlight, Checking
<1>5. ASSUME NEW e \in Event, ReadContacts(e) \/ Enqueue(e) \/ HandlerFails(e) \/ Publish(e)
                              \/ StartJob(e) \/ BackoffEnds(e) \/ Dispatch(e)
      PROVE  /\ UNCHANGED monitorVars
             /\ \A x \in Event : handler[x] = "none" => handler'[x] = "none"
  <2>1. CASE ReadContacts(e)
    BY <2>1 DEF ReadContacts
  <2>2. CASE Enqueue(e)
    BY <2>2 DEF Enqueue
  <2>3. CASE HandlerFails(e)
    BY <2>3 DEF HandlerFails
  <2>4. CASE Publish(e)
    BY <2>4 DEF Publish
  <2>5. CASE StartJob(e) \/ BackoffEnds(e) \/ Dispatch(e)
    BY <2>5 DEF StartJob, BackoffEnds, Dispatch
  <2> QED
    BY <1>5, <2>1, <2>2, <2>3, <2>4, <2>5
<1>6. ASSUME NEW c \in Clients, Connect(c) \/ ReadSnapshot(c) \/ Subscribe(c) \/ Disconnect(c) \/ Reload(c)
      PROVE  UNCHANGED monitorVars /\ UNCHANGED handler
  BY <1>6 DEF Connect, ReadSnapshot, Subscribe, Disconnect, Reload
<1>7. CASE Bookkeeping
  BY <1>7 DEF Bookkeeping, ClearFailures, CountFailure, MarkFailure, ExpireFailures, CheckFails
<1> QED
  BY <1>1, <1>2, <1>3, <1>4, <1>5, <1>6, <1>7 DEF Outside

\* A check goes on, or breaks off: what it recorded stays, and an outage goes on or ends.
Keeps ==
  /\ check' \in CheckRecords /\ check'.at = check.at /\ check'.up = check.up /\ check'.silent = check.silent
  /\ check'.down \in {check.down, {}} /\ (check.pc = "idle" => check'.pc = "idle")

LEMMA KeptTerms ==
  ASSUME Keeps, UNCHANGED <<heartbeat, startedAt>>
  PROVE  Now' = Now /\ Opened' = Opened /\ NeededFailures' = NeededFailures /\ Snapshot' = Snapshot
BY DEF Keeps, Now, Opened, NeededFailures, Snapshot

LEMMA BrokenCheck ==
  ASSUME MonitorTypes, MonitorInv, UNCHANGED <<heartbeat, startedAt>>, check' \in {check, Broken}
  PROVE  Keeps /\ MonitorInv'
<1>1. /\ check \in CheckRecords /\ Now \in Nat /\ check.failures \in Nat /\ check.lost \in Nat
      /\ Cardinality(check.down) \in Nat /\ NeededFailures \in Nat \ {0} /\ check.down \in SUBSET Nat
  BY MonitorTyped
<1>2. CASE check' = check
  <2>1. Keeps
    BY <1>1, <1>2 DEF Keeps
  <2> QED
    BY <1>2, <2>1, KeptTerms DEF MonitorInv, StageInv, DownInv, CountInv, Counted, Awaited
<1>3. CASE check.pc # "idle" /\ check' = [check EXCEPT !.pc = "idle", !.lost = IF check.up \/ Opened THEN @ ELSE @ + 1]
  <2>1. /\ check' \in CheckRecords /\ check'.pc = "idle" /\ check'.lost = IF check.up \/ Opened THEN check.lost ELSE check.lost + 1
        /\ check'.at = check.at /\ check'.up = check.up /\ check'.silent = check.silent /\ check'.down = check.down
        /\ check'.failures = check.failures /\ check'.first = check.first
    <3> DEFINE lost == IF check.up \/ Opened THEN check.lost ELSE check.lost + 1
    <3>1. lost \in Nat /\ check' = [check EXCEPT !.pc = "idle", !.lost = lost]
      BY <1>1, <1>3
    <3> HIDE DEF lost
    <3>2. /\ check' \in CheckRecords /\ check'.pc = "idle" /\ check'.lost = lost
          /\ check'.at = check.at /\ check'.up = check.up /\ check'.silent = check.silent /\ check'.down = check.down
          /\ check'.failures = check.failures /\ check'.first = check.first
      BY <1>1, <3>1 DEF CheckRecords
    <3> QED
      BY <3>2 DEF lost
  <2>2. Keeps
    BY <2>1 DEF Keeps
  <2>3. Now' = Now /\ Opened' = Opened /\ NeededFailures' = NeededFailures
    BY <2>2, KeptTerms
  <2>4. StageInv' /\ DownInv'
    BY <2>1, <2>3 DEF MonitorInv, StageInv, DownInv
  <2>5. CountInv'
    <3>1. Counted' = Counted /\ Counted \in Nat /\ ~Awaited'
      BY <1>1, <2>1, <2>3 DEF Counted, Awaited
    <3>2. Awaited => ~check.up
      BY DEF Awaited
    <3>3. CountInv
      BY DEF MonitorInv
    <3>4. CASE Opened
      BY <2>1, <2>3, <3>3, <3>4 DEF CountInv
    <3>5. CASE ~Opened
      <4>1. Cardinality(check.down) <= check.lost + (Counted + (IF Awaited THEN 1 ELSE 0))
        BY <3>3, <3>5 DEF CountInv
      <4>2. Cardinality(check'.down) <= check'.lost + (Counted' + 0)
        BY <1>1, <2>1, <3>1, <3>2, <3>5, <4>1
      <4> QED
        BY <2>3, <3>1, <3>5, <4>2 DEF CountInv
    <3> QED
      BY <3>4, <3>5
  <2> QED
    BY <2>2, <2>4, <2>5 DEF MonitorInv
<1> QED
  BY <1>2, <1>3 DEF Broken

LEMMA ClearedFailures ==
  ASSUME MonitorTypes, MonitorInv, ClearFailures
  PROVE  Keeps /\ MonitorInv'
<1>1. /\ check \in CheckRecords /\ Now \in Nat /\ check.lost \in Nat /\ check.down \in SUBSET Nat
      /\ NeededFailures \in Nat \ {0} /\ Cardinality(check.down) \in Nat
  BY MonitorTyped
<1>2. /\ check.pc = "keys" /\ check.up /\ UNCHANGED <<heartbeat, startedAt>>
      /\ check' = [Over(check) EXCEPT !.failures = 0, !.first = 0, !.pc = Then(TRUE)]
  BY DEF ClearFailures
<1>3. Then(TRUE) = (IF Opened THEN "incident" ELSE "idle")
  BY DEF Then, Opened
<1>4. /\ check' \in CheckRecords /\ check'.pc = Then(TRUE) /\ check'.failures = 0 /\ check'.first = 0
      /\ check'.at = check.at /\ check'.up = check.up /\ check'.silent = check.silent
      /\ check'.down = (IF Opened THEN check.down ELSE {}) /\ check'.lost = (IF Opened THEN check.lost ELSE 0)
  <2>1. CASE Opened
    <3>1. check' = [check EXCEPT !.failures = 0, !.first = 0, !.pc = "incident"]
      BY <1>2, <1>3, <2>1 DEF Over
    <3> QED
      BY <1>1, <1>3, <2>1, <3>1 DEF CheckRecords
  <2>2. CASE ~Opened
    <3>1. check' = [check EXCEPT !.down = {}, !.lost = 0, !.failures = 0, !.first = 0, !.pc = "idle"]
      BY <1>2, <1>3, <2>2 DEF Over
    <3> QED
      BY <1>1, <1>3, <2>2, <3>1 DEF CheckRecords
  <2> QED
    BY <2>1, <2>2
<1>5. Keeps
  BY <1>2, <1>4 DEF Keeps
<1>6. Now' = Now /\ Opened' = Opened /\ NeededFailures' = NeededFailures
  BY <1>2, <1>5, KeptTerms
<1>9. StageInv /\ DownInv /\ CountInv
  BY DEF MonitorInv
<1>7. StageInv' /\ DownInv'
  <2>1. ~heartbeat
    BY <1>2, <1>9 DEF StageInv
  <2>2. StageInv'
    <3>1. check'.pc = (IF Opened THEN "incident" ELSE "idle")
      BY <1>3, <1>4
    <3>2. check'.down \subseteq 1..Now
      BY <1>4, <1>9 DEF StageInv
    <3>3. /\ Now' <= MaxChecks /\ startedAt' <= Now' /\ check'.first <= Now' /\ check'.silent <= Now'
          /\ check'.failures <= Now' /\ Now' >= 1
      BY <1>1, <1>2, <1>4, <1>6, <1>9 DEF StageInv
    <3>4. check'.up /\ check'.pc # "keys" /\ check'.pc # "mark" /\ (check'.pc = "incident" => Opened')
      <4>1. check'.up
        BY <1>2, <1>4
      <4> QED
        BY <1>6, <3>1, <4>1
    <3>5. ~heartbeat'
      BY <1>2, <2>1
    <3> QED
      BY <1>4, <1>6, <3>2, <3>3, <3>4, <3>5 DEF StageInv
  <2>3. DownInv'
    <3>0. check'.first = 0 /\ check'.up /\ UNCHANGED startedAt
      BY <1>2, <1>4
    <3>1. CASE Opened
      <4>1. startedAt' \in check'.down /\ Opened'
        BY <1>4, <1>6, <1>9, <3>0, <3>1 DEF DownInv
      <4> QED
        BY <4>1 DEF DownInv
    <3>2. CASE ~Opened
      <4>1. check'.up /\ ~Opened' /\ ~(check'.first > 0)
        BY <1>6, <3>0, <3>2
      <4> QED
        BY <4>1 DEF DownInv
    <3> QED
      BY <3>1, <3>2
  <2> QED
    BY <2>2, <2>3
<1>8. CountInv'
  <2>1. Cardinality({}) = 0
    BY FS_EmptySet
  <2>2. Counted' = 0 /\ ~Awaited'
    <3>1. 0 < NeededFailures'
      BY <1>1, <1>6
    <3> QED
      BY <1>2, <1>4, <3>1 DEF Counted, Awaited
  <2>3. CountInv
    BY DEF MonitorInv
  <2> QED
    BY <1>1, <1>4, <1>6, <2>1, <2>2, <2>3 DEF CountInv
<1> QED
  BY <1>5, <1>7, <1>8 DEF MonitorInv

LEMMA CountedFailure ==
  ASSUME MonitorTypes, MonitorInv, CountFailure
  PROVE  Keeps /\ MonitorInv'
<1>1. /\ check \in CheckRecords /\ Now \in Nat /\ check.lost \in Nat /\ check.failures \in Nat /\ heartbeat \in BOOLEAN
      /\ NeededFailures \in Nat \ {0} /\ Cardinality(check.down) \in Nat
      /\ NeededFailures = (IF heartbeat THEN 1 ELSE Threshold) /\ Threshold \in Nat \ {0}
  BY MonitorTyped
<1>2. /\ check.pc = "keys" /\ ~check.up /\ UNCHANGED <<heartbeat, startedAt>>
      /\ check' = [check EXCEPT !.failures = @ + 1, !.pc = "mark"]
  BY DEF CountFailure
<1>3. /\ check' \in CheckRecords /\ check'.pc = "mark" /\ check'.failures = check.failures + 1
      /\ check'.first = check.first /\ check'.at = check.at /\ check'.up = check.up
      /\ check'.silent = check.silent /\ check'.down = check.down /\ check'.lost = check.lost
  <2> DEFINE more == check.failures + 1
  <2>1. more \in Nat /\ check' = [check EXCEPT !.failures = more, !.pc = "mark"]
    BY <1>1, <1>2
  <2> HIDE DEF more
  <2>2. /\ check' \in CheckRecords /\ check'.pc = "mark" /\ check'.failures = more
        /\ check'.first = check.first /\ check'.at = check.at /\ check'.up = check.up
        /\ check'.silent = check.silent /\ check'.down = check.down /\ check'.lost = check.lost
    BY <1>1, <2>1 DEF CheckRecords
  <2> QED
    BY <2>2 DEF more
<1>4. Keeps
  BY <1>2, <1>3 DEF Keeps
<1>5. Now' = Now /\ Opened' = Opened /\ NeededFailures' = NeededFailures
  BY <1>2, <1>4, KeptTerms
<1>6. StageInv' /\ DownInv'
  BY <1>1, <1>2, <1>3, <1>5 DEF MonitorInv, StageInv, DownInv
<1>7. CountInv'
  <2>0. CountInv
    BY DEF MonitorInv
  <2>1. NeededFailures = Threshold
    BY <1>1, <1>2 DEF MonitorInv, StageInv
  <2>2. CASE Opened
    BY <1>3, <1>5, <2>0, <2>2 DEF CountInv
  <2>3. CASE ~Opened
    <3>1. Awaited /\ (Awaited' <=> check.failures + 1 >= Threshold)
      BY <1>2, <1>3 DEF Awaited
    <3>2. Cardinality(check.down) <= check.lost + (Counted + 1)
      BY <2>0, <2>3, <3>1 DEF CountInv
    <3>3. CASE check.failures + 1 < Threshold
      <4>1. Counted = check.failures /\ Counted' = check.failures + 1 /\ ~Awaited'
        BY <1>1, <1>3, <1>5, <2>1, <3>1, <3>3 DEF Counted
      <4>2. Cardinality(check'.down) <= check'.lost + (Counted' + 0)
        BY <1>1, <1>3, <3>2, <4>1
      <4> QED
        BY <1>5, <2>3, <4>1, <4>2 DEF CountInv
    <3>4. CASE check.failures + 1 >= Threshold
      <4>1. Counted = Threshold - 1 /\ Counted' = Threshold - 1 /\ Awaited'
        BY <1>1, <1>3, <1>5, <2>1, <3>1, <3>4 DEF Counted
      <4>2. Cardinality(check'.down) <= check'.lost + (Counted' + 1)
        BY <1>1, <1>3, <3>2, <4>1
      <4> QED
        BY <1>5, <2>3, <4>1, <4>2 DEF CountInv
    <3> QED
      BY <1>1, <3>3, <3>4
  <2> QED
    BY <2>2, <2>3
<1> QED
  BY <1>4, <1>6, <1>7 DEF MonitorInv

LEMMA MarkedFailure ==
  ASSUME MonitorTypes, MonitorInv, MarkFailure
  PROVE  Keeps /\ MonitorInv'
<1>1. /\ check \in CheckRecords /\ Now \in Nat /\ check.failures \in Nat /\ check.first \in Nat
      /\ Threshold \in Nat \ {0} /\ check.up \in BOOLEAN
  BY MonitorTyped
<1>2. /\ check.pc = "mark" /\ UNCHANGED <<heartbeat, startedAt>>
      /\ check' = [check EXCEPT !.first = IF check.failures = 1 THEN Now ELSE @,
                                !.pc = IF check.failures < Threshold THEN "idle" ELSE Then(FALSE)]
  BY DEF MarkFailure
<1>3. Then(FALSE) = (IF Opened THEN "idle" ELSE "incident")
  BY DEF Then, Opened
<1>4. /\ check' \in CheckRecords /\ check'.first = (IF check.failures = 1 THEN Now ELSE check.first)
      /\ check'.pc = (IF check.failures < Threshold \/ Opened THEN "idle" ELSE "incident")
      /\ check'.failures = check.failures /\ check'.at = check.at /\ check'.up = check.up
      /\ check'.silent = check.silent /\ check'.down = check.down /\ check'.lost = check.lost
  BY <1>1, <1>2, <1>3 DEF CheckRecords
<1>5. Keeps
  BY <1>2, <1>4 DEF Keeps
<1>6. Now' = Now /\ Opened' = Opened /\ NeededFailures' = NeededFailures
  BY <1>2, <1>5, KeptTerms
<1>7. ~check.up /\ StageInv /\ DownInv /\ CountInv
  BY <1>2 DEF MonitorInv, StageInv
<1>8. StageInv' /\ DownInv'
  <2>1. check'.first \in {Now, check.first} /\ check'.pc \in {"idle", "incident"} /\ ~check'.up
    BY <1>4, <1>7
  <2>2. check'.pc = "incident" => ~Opened
    BY <1>4
  <2>3. ~heartbeat
    BY <1>2, <1>7 DEF StageInv
  <2>4. StageInv'
    <3>1. /\ Now' <= MaxChecks /\ startedAt' <= Now' /\ check'.first <= Now' /\ check'.silent <= Now'
          /\ check'.failures <= Now' /\ Now' >= 1 /\ check'.down \subseteq 1..Now'
      BY <1>1, <1>2, <1>4, <1>6, <1>7, <2>1 DEF StageInv
    <3>2. check'.pc # "keys" /\ check'.pc # "mark" /\ (check'.pc = "incident" => ~Opened')
      BY <1>6, <2>1, <2>2
    <3>3. ~heartbeat'
      BY <1>2, <2>3
    <3> QED
      BY <2>1, <3>1, <3>2, <3>3 DEF StageInv
  <2>5. DownInv'
    BY <1>2, <1>4, <1>6, <1>7, <2>1 DEF DownInv
  <2> QED
    BY <2>4, <2>5
<1>9. CountInv'
  <2>1. Counted' = Counted
    BY <1>4, <1>6 DEF Counted
  <2>2. ~Opened => (Awaited' <=> Awaited)
    <3>1. Awaited <=> check.failures >= Threshold
      BY <1>2, <1>7 DEF Awaited
    <3>2. check'.pc # "keys" /\ check'.pc # "mark" /\ ~check'.up
      BY <1>4, <1>7
    <3>3. ~Opened => (check'.pc = "incident" <=> ~(check.failures < Threshold))
      BY <1>4
    <3>4. check.failures < Threshold <=> ~(check.failures >= Threshold)
      BY <1>1
    <3> QED
      BY <3>1, <3>2, <3>3, <3>4 DEF Awaited
  <2> QED
    BY <1>4, <1>6, <1>7, <2>1, <2>2 DEF CountInv
<1> QED
  BY <1>5, <1>8, <1>9 DEF MonitorInv

LEMMA ExpiredFailures ==
  ASSUME MonitorTypes, MonitorInv, ExpireFailures
  PROVE  Keeps /\ MonitorInv'
<1>1. /\ check \in CheckRecords /\ Now \in Nat /\ check.failures \in Nat /\ check.first \in Nat /\ check.lost \in Nat
      /\ NeededFailures \in Nat \ {0} /\ Cardinality(check.down) \in Nat
  BY MonitorTyped
<1>2. PICK count \in {0, check.failures}, first \in {0, check.first} :
        check' = [check EXCEPT !.failures = count, !.first = first,
                               !.lost = IF Opened THEN @ ELSE @ + (check.failures - count)]
  BY DEF ExpireFailures
<1>3. check.pc = "idle" /\ UNCHANGED <<heartbeat, startedAt>>
  BY DEF ExpireFailures
<1>4. count \in Nat /\ first \in Nat /\ check.failures - count \in Nat /\ count <= check.failures
  BY <1>1, <1>2
<1>5. /\ check' \in CheckRecords /\ check'.failures = count /\ check'.first = first
      /\ check'.lost = (IF Opened THEN check.lost ELSE check.lost + (check.failures - count))
      /\ check'.pc = "idle" /\ check'.at = check.at /\ check'.up = check.up
      /\ check'.silent = check.silent /\ check'.down = check.down
  <2> DEFINE lost == IF Opened THEN check.lost ELSE check.lost + (check.failures - count)
  <2>1. lost \in Nat /\ check' = [check EXCEPT !.failures = count, !.first = first, !.lost = lost]
    BY <1>1, <1>2, <1>4
  <2> HIDE DEF lost
  <2>2. /\ check' \in CheckRecords /\ check'.failures = count /\ check'.first = first /\ check'.lost = lost
        /\ check'.pc = check.pc /\ check'.at = check.at /\ check'.up = check.up
        /\ check'.silent = check.silent /\ check'.down = check.down
    BY <1>1, <1>4, <2>1 DEF CheckRecords
  <2> QED
    BY <1>3, <2>2 DEF lost
<1>6. Keeps
  BY <1>3, <1>5 DEF Keeps
<1>7. Now' = Now /\ Opened' = Opened /\ NeededFailures' = NeededFailures
  BY <1>3, <1>6, KeptTerms
<1>8. StageInv /\ DownInv /\ CountInv
  BY DEF MonitorInv
<1>9. StageInv' /\ DownInv'
  BY <1>1, <1>2, <1>3, <1>4, <1>5, <1>7, <1>8 DEF StageInv, DownInv
<1>10. CountInv'
  <2>1. ~Awaited /\ ~Awaited'
    BY <1>3, <1>5 DEF Awaited
  <2>2. CASE Opened
    BY <1>5, <1>7, <1>8, <2>2 DEF CountInv
  <2>3. CASE ~Opened
    <3>1. Counted \in Nat /\ Counted' \in Nat /\ Counted <= Counted' + (check.failures - count)
      BY <1>1, <1>2, <1>4, <1>5, <1>7 DEF Counted
    <3>2. Cardinality(check.down) <= check.lost + (Counted + 0)
      BY <1>8, <2>1, <2>3 DEF CountInv
    <3>3. Cardinality(check'.down) <= check'.lost + (Counted' + 0)
      BY <1>1, <1>4, <1>5, <2>3, <3>1, <3>2
    <3> QED
      BY <1>7, <2>1, <2>3, <3>3 DEF CountInv
  <2> QED
    BY <2>2, <2>3
<1> QED
  BY <1>6, <1>9, <1>10 DEF MonitorInv

LEMMA OutsideKeepsMonitor ==
  ASSUME MonitorTypes, MonitorInv, AlertTypes, ChangesInv, Outside
  PROVE  /\ UNCHANGED <<heartbeat, startedAt, events>> /\ Keeps
         /\ MonitorTypes' /\ MonitorInv' /\ ChangesInv'
<1>1. /\ UNCHANGED <<heartbeat, startedAt, events>>
      /\ check' = check \/ check' = Broken \/ Bookkeeping
      /\ \A e \in Event : handler[e] = "none" => handler'[e] = "none"
  BY OutsideKeepsEvents
<1>2. Keeps /\ MonitorInv'
  <2>1. CASE check' \in {check, Broken}
    BY <1>1, <2>1, BrokenCheck
  <2>2. CASE Bookkeeping
    <3>1. CheckFails => check' = Broken
      BY DEF CheckFails
    <3> QED
      BY <2>1, <2>2, <3>1, ClearedFailures, CountedFailure, MarkedFailure, ExpiredFailures DEF Bookkeeping
  <2> QED
    BY <1>1, <2>1, <2>2
<1>3. MonitorTypes'
  BY <1>1, <1>2 DEF MonitorTypes, Keeps
<1>4. Now' = Now
  BY <1>1, <1>2, KeptTerms
<1>5. ChangesInv'
  BY <1>1, <1>2, <1>4 DEF ChangesInv, Keeps
<1> QED
  BY <1>1, <1>2, <1>3, <1>5

\* A change is written at its end of the list, with a time of its outage.
LEMMA ChangedMonitor ==
  ASSUME MonitorTypes, MonitorInv, ChangesInv, OpenIncident \/ ResolveIncident
  PROVE  /\ Len(events') = Len(events) + 1 /\ events' \in Seq(Changes) /\ Len(events) < Now
         /\ \A e \in 1..Len(events) : events'[e] = events[e]
         /\ events'[Len(events')].status = Snapshot'.status
         /\ \/ /\ startedAt' = FirstFailure /\ FirstFailure \in check.down /\ check'.down = check.down
               /\ check'.lost = check.lost /\ ~Opened /\ Opened' /\ ~check.up
               /\ events'[Len(events')].status = "DOWN" /\ events'[Len(events')].at = FirstFailure
            \/ /\ startedAt' = 0 /\ check'.down = {} /\ check'.lost = 0 /\ Opened /\ ~Opened' /\ check.up
               /\ events'[Len(events')].status = "UP" /\ events'[Len(events')].at = Now
         /\ FirstFailure \in Nat /\ FirstFailure <= Now
         /\ \A e \in Event : e > Len(events') => handler'[e] = handler[e]
         /\ check.pc = "incident" /\ check'.pc = "idle" /\ Keeps
         /\ check'.failures = check.failures /\ check'.first = check.first
         /\ UNCHANGED <<heartbeat, page>>
<1>1. /\ check \in CheckRecords /\ Now \in Nat /\ Now = check.at /\ check.first \in Nat /\ startedAt \in Nat
      /\ check.up \in BOOLEAN /\ events \in Seq(Changes) /\ Len(events) \in Nat
  BY MonitorTyped, EventTyped DEF MonitorTypes
<1>2. check.pc = "incident" /\ Len(events) < Now /\ Now >= 1 /\ StageInv /\ DownInv
  BY <1>1 DEF ChangesInv, OpenIncident, ResolveIncident, MonitorInv
<1>3. FirstFailure \in Nat /\ FirstFailure <= Now /\ FirstFailure >= 1
  BY <1>1, <1>2 DEF FirstFailure, StageInv
<1>4. ASSUME NEW status \in {"UP", "DOWN"}, NEW process \in {"api", "worker"}, Change(status, process)
      PROVE  /\ Len(events') = Len(events) + 1 /\ events' \in Seq(Changes)
             /\ \A e \in 1..Len(events) : events'[e] = events[e]
             /\ events'[Len(events')].status = status
             /\ events'[Len(events')].at = IF status = "DOWN" THEN FirstFailure ELSE Now
             /\ \A e \in Event : e > Len(events') => handler'[e] = handler[e]
  <2> DEFINE new == [status |-> status, process |-> process, at |-> IF status = "DOWN" THEN FirstFailure ELSE Now]
  <2>1. events' = Append(events, new) /\ handler' = [handler EXCEPT ![Len(events) + 1] = "contacts"]
    BY <1>4 DEF Change
  <2>2. new \in Changes /\ new.status = status /\ new.at = IF status = "DOWN" THEN FirstFailure ELSE Now
    BY <1>1, <1>3 DEF Changes
  <2> HIDE DEF new
  <2>3. /\ Len(events') = Len(events) + 1 /\ events' \in Seq(Changes) /\ events'[Len(events) + 1] = new
        /\ \A e \in 1..Len(events) : events'[e] = events[e]
    BY <1>1, <2>1, <2>2
  <2>4. \A e \in Event : e > Len(events') => handler'[e] = handler[e]
    BY <1>1, <2>1, <2>3 DEF Event
  <2> QED
    BY <2>2, <2>3, <2>4
<1>5. CASE OpenIncident
  <2>1. /\ ~check.up /\ check' = [check EXCEPT !.pc = "idle"] /\ startedAt' = FirstFailure
        /\ UNCHANGED <<heartbeat, page>> /\ Change("DOWN", "worker")
    BY <1>5 DEF OpenIncident
  <2>2. /\ check' \in CheckRecords /\ check'.pc = "idle" /\ check'.at = check.at /\ check'.up = check.up
        /\ check'.silent = check.silent /\ check'.down = check.down /\ check'.lost = check.lost
        /\ check'.failures = check.failures /\ check'.first = check.first
    BY <1>1, <2>1 DEF CheckRecords
  <2>3. Keeps
    BY <2>2 DEF Keeps
  <2>4. ~Opened /\ FirstFailure \in check.down
    BY <1>1, <1>2, <2>1 DEF StageInv, DownInv, FirstFailure
  <2>5. Opened' /\ Snapshot'.status = "DOWN"
    BY <1>3, <2>1 DEF Opened, Snapshot
  <2> QED
    BY <1>2, <1>3, <1>4, <2>1, <2>2, <2>3, <2>4, <2>5
<1>6. CASE ResolveIncident
  <2>1. /\ check.up /\ check' = [check EXCEPT !.pc = "idle", !.down = {}, !.lost = 0] /\ startedAt' = 0
        /\ UNCHANGED <<heartbeat, page>> /\ Change("UP", IF heartbeat THEN "api" ELSE "worker")
    BY <1>6 DEF ResolveIncident
  <2>2. /\ check' \in CheckRecords /\ check'.pc = "idle" /\ check'.at = check.at /\ check'.up = check.up
        /\ check'.silent = check.silent /\ check'.down = {} /\ check'.lost = 0
        /\ check'.failures = check.failures /\ check'.first = check.first
    BY <1>1, <2>1 DEF CheckRecords
  <2>3. Keeps
    BY <1>2, <2>2 DEF Keeps
  <2>4. Opened
    BY <1>2, <2>1 DEF StageInv
  <2>5. ~Opened' /\ Snapshot'.status = "UP"
    BY <1>1, <1>2, <2>1, <2>2 DEF Opened, Snapshot
  <2>6. (IF heartbeat THEN "api" ELSE "worker") \in {"api", "worker"}
    OBVIOUS
  <2> QED
    BY <1>2, <1>3, <1>4, <2>1, <2>2, <2>3, <2>4, <2>5, <2>6
<1> QED
  BY <1>5, <1>6

LEMMA ChangeKeepsMonitor ==
  ASSUME MonitorTypes, MonitorInv, ChangesInv, OpenIncident \/ ResolveIncident
  PROVE  MonitorTypes' /\ MonitorInv' /\ ChangesInv'
<1>1. /\ Len(events') = Len(events) + 1 /\ events' \in Seq(Changes) /\ Len(events) < Now
      /\ \A e \in 1..Len(events) : events'[e] = events[e]
      /\ \/ /\ startedAt' = FirstFailure /\ FirstFailure \in check.down /\ check'.down = check.down
            /\ check'.lost = check.lost /\ ~Opened /\ Opened' /\ ~check.up
            /\ events'[Len(events')].at = FirstFailure
         \/ /\ startedAt' = 0 /\ check'.down = {} /\ check'.lost = 0 /\ Opened /\ ~Opened' /\ check.up
            /\ events'[Len(events')].at = Now
      /\ FirstFailure \in Nat /\ FirstFailure <= Now
      /\ \A e \in Event : e > Len(events') => handler'[e] = handler[e]
      /\ check.pc = "incident" /\ check'.pc = "idle" /\ Keeps
      /\ check'.failures = check.failures /\ check'.first = check.first
      /\ UNCHANGED <<heartbeat, page>>
  BY ChangedMonitor
<1>2. /\ Now \in Nat /\ check.lost \in Nat /\ check.failures \in Nat /\ Cardinality(check.down) \in Nat
      /\ NeededFailures \in Nat \ {0} /\ Len(events) \in Nat /\ check.down \subseteq 1..Now
      /\ StageInv /\ DownInv /\ CountInv
  BY MonitorTyped, EventTyped DEF MonitorInv, StageInv
<1>3. /\ check' \in CheckRecords /\ check'.at = check.at /\ check'.up = check.up /\ check'.silent = check.silent
      /\ Now' = Now /\ NeededFailures' = NeededFailures
  BY <1>1 DEF Keeps, Now, NeededFailures
<1>4. startedAt' \in Nat
  BY <1>1
<1>5. MonitorTypes'
  BY <1>1, <1>3, <1>4 DEF MonitorTypes
<1>6. StageInv'
  BY <1>1, <1>2, <1>3 DEF StageInv
<1>7. DownInv'
  BY <1>1, <1>2, <1>3 DEF StageInv, DownInv
<1>8. CountInv'
  <2>1. Cardinality({}) = 0
    BY FS_EmptySet
  <2>2. Counted \in Nat /\ Counted' = Counted /\ Counted + 1 <= NeededFailures /\ ~Awaited'
    BY <1>1, <1>2, <1>3 DEF Counted, Awaited
  <2>3. CASE Opened'
    <3>1. Cardinality(check.down) <= check.lost + (Counted + (IF Awaited THEN 1 ELSE 0))
      BY <1>1, <1>2, <2>3 DEF CountInv
    <3>2. Cardinality(check'.down) <= check'.lost + NeededFailures'
      BY <1>1, <1>2, <1>3, <2>2, <2>3, <3>1
    <3> QED
      BY <2>3, <3>2 DEF CountInv
  <2>4. CASE ~Opened'
    <3>1. Cardinality(check'.down) = 0 /\ check'.lost = 0
      BY <1>1, <2>1, <2>4
    <3> QED
      BY <2>2, <2>4, <3>1 DEF CountInv
  <2> QED
    BY <2>3, <2>4
<1>9. ChangesInv'
  <2>1. \A e \in 1..Len(events) : 1 <= events'[e].at /\ events'[e].at <= Now'
    BY <1>1, <1>2, <1>3 DEF ChangesInv
  <2>2. 1 <= events'[Len(events')].at /\ events'[Len(events')].at <= Now'
    BY <1>1, <1>2, <1>3 DEF StageInv
  <2>3. \A e \in 1..Len(events') : e \in 1..Len(events) \/ e = Len(events')
    BY <1>1, <1>2
  <2>4. \A e \in 1..Len(events') : 1 <= events'[e].at /\ events'[e].at <= Now'
    BY <2>1, <2>2, <2>3
  <2>5. \A e \in Event : e > Len(events') => handler'[e] = "none"
    BY <1>1, <1>2 DEF ChangesInv, Event
  <2>6. Len(events') <= Now'
    BY <1>1, <1>2, <1>3
  <2> QED
    BY <1>1, <2>4, <2>5, <2>6 DEF ChangesInv
<1> QED
  BY <1>5, <1>6, <1>7, <1>8, <1>9 DEF MonitorInv

LEMMA MonitorStep == NInv /\ [Next]_vars => MonitorTypes' /\ MonitorInv' /\ ChangesInv'
<1> SUFFICES ASSUME NInv, [Next]_vars PROVE MonitorTypes' /\ MonitorInv' /\ ChangesInv'
  OBVIOUS
<1>1. MonitorTypes /\ AlertTypes /\ MonitorInv /\ ChangesInv
  BY DEF NInv, TypesOK
<1> QED
  BY <1>1, StepKinds, RecordKeepsMonitor, ChangeKeepsMonitor, OutsideKeepsMonitor

-----------------------------------------------------------------------------
(* The pages *)

\* What a step leaves of a page: it is as it was, its stream begins anew, or goes on.
Restarted(p, q) ==
  /\ q.pc \in {"closed", "query"} /\ q.toasts \subseteq p.toasts
  /\ q.read = [status |-> "UNKNOWN", at |-> 0] /\ q.readAt = 0 /\ q.from = 0 /\ q.heard = {} /\ q.last = 0
HasRead(p, q) ==
  /\ p.pc = "query" /\ q.pc = "answer" /\ q.toasts = p.toasts
  /\ q.read = Snapshot /\ q.readAt = Now /\ q.from = Len(events) /\ q.heard = p.heard /\ q.last = p.last
Subscribed(p, q) ==
  /\ p.pc = "answer" /\ q.pc = "streaming" /\ Shows(p, q, p.read.status, p.read.at)
  /\ q.heard = p.heard /\ q.last = p.last
Heard(p, q, e) ==
  /\ p.pc = "streaming" /\ q.pc = "streaming" /\ Shows(p, q, events[e].status, events[e].at)
  /\ q.heard = p.heard \cup {e} /\ q.last = e
Moves(p, q) ==
  \/ q = p \/ Restarted(p, q) \/ HasRead(p, q) \/ Subscribed(p, q)
  \/ \E e \in 1..Len(events) : Heard(p, q, e)

LEMMA PublishedPage ==
  ASSUME TypesOK, ChangesInv, NEW e \in Event, Publish(e), NEW c \in Clients
  PROVE  page'[c] \in PageRecords /\ Moves(page[c], page'[c])
<1>1. page[c] \in PageRecords /\ MonitorTypes /\ AlertTypes
  BY DEF TypesOK, PageTypes
<1>2. e \in 1..Len(events)
  <2>1. handler[e] = "publish"
    BY DEF Publish
  <2>2. ~(e > Len(events))
    BY <2>1 DEF ChangesInv
  <2> QED
    BY <1>1, <2>2, EventTyped, BoundAssumption DEF Event
<1>3. events[e].status \in Statuses /\ events[e].at \in Nat
  BY <1>1, <1>2, EventTyped DEF Changes, Statuses
<1>4. CASE events[e].process = "api" /\ Listening(c)
  <2>1. page'[c] = Informed(page[c], events[e].status, events[e].at, e)
    BY <1>4 DEF Publish, Informed
  <2>0. e \in Nat
    BY <1>1, <1>2, EventTyped
  <2> DEFINE q == Informed(page[c], events[e].status, events[e].at, e)
  <2>3. /\ q \in PageRecords /\ q.pc = page[c].pc /\ Shows(page[c], q, events[e].status, events[e].at)
        /\ q.heard = page[c].heard \cup {e} /\ q.last = e
    <3>1. PICK p \in PageRecords, status \in Statuses, at \in Nat :
            p = page[c] /\ status = events[e].status /\ at = events[e].at
      BY <1>1, <1>3
    <3>2. /\ Informed(p, status, at, e) \in PageRecords /\ Informed(p, status, at, e).pc = p.pc
          /\ Shows(p, Informed(p, status, at, e), status, at)
          /\ Informed(p, status, at, e).heard = p.heard \cup {e} /\ Informed(p, status, at, e).last = e
      BY <2>0, ChangeHeard
    <3> QED
      BY <3>1, <3>2
  <2> HIDE DEF q
  <2>2. /\ page'[c] \in PageRecords /\ page'[c].pc = page[c].pc /\ Shows(page[c], page'[c], events[e].status, events[e].at)
        /\ page'[c].heard = page[c].heard \cup {e} /\ page'[c].last = e
    BY <2>1, <2>3 DEF q
  <2>4. Heard(page[c], page'[c], e)
    BY <1>4, <2>2 DEF Heard, Listening
  <2> QED
    BY <1>2, <2>2, <2>4 DEF Moves
<1>5. CASE ~(events[e].process = "api" /\ Listening(c))
  BY <1>1, <1>5 DEF Publish, Moves
<1> QED
  BY <1>4, <1>5

\* An action of one page leaves the others alone.
LEMMA OnePage ==
  ASSUME PageTypes, NEW d \in Clients, NEW q \in PageRecords, page' = [page EXCEPT ![d] = q], Moves(page[d], q),
         NEW c \in Clients
  PROVE  page'[c] \in PageRecords /\ Moves(page[c], page'[c])
<1>1. page'[c] = IF c = d THEN q ELSE page[c]
  BY DEF PageTypes
<1> QED
  BY <1>1 DEF PageTypes, Moves

LEMMA PageMoves ==
  ASSUME NInv, Outside, NEW c \in Clients
  PROVE  page'[c] \in PageRecords /\ Moves(page[c], page'[c])
<1>0. TypesOK /\ MonitorTypes /\ PageTypes /\ ChangesInv
  BY DEF NInv, TypesOK
<1>1. ASSUME UNCHANGED page PROVE page'[c] \in PageRecords /\ Moves(page[c], page'[c])
  BY <1>0, <1>1 DEF PageTypes, Moves
<1>2. CASE UNCHANGED vars \/ Bookkeeping \/ EditContacts \/ CrashWorker
  BY <1>1, <1>2 DEF vars, EditContacts, CrashWorker, Bookkeeping, ClearFailures, CountFailure, MarkFailure,
                    ExpireFailures, CheckFails
<1>3. CASE CrashApi
  <2>1. page'[c] = Begun(page[c], "closed") /\ page[c] \in PageRecords
    BY <1>0, <1>3 DEF CrashApi, PageTypes, Begun
  <2> QED
    BY <2>1, StreamBegins DEF Moves, Restarted
<1>4. ASSUME NEW e \in Event, ReadContacts(e) \/ Enqueue(e) \/ HandlerFails(e) \/ StartJob(e) \/ BackoffEnds(e) \/ Dispatch(e)
      PROVE  UNCHANGED page
  BY <1>4 DEF ReadContacts, Enqueue, HandlerFails, StartJob, BackoffEnds, Dispatch
<1>5. ASSUME NEW d \in Clients, Connect(d) \/ ReadSnapshot(d) \/ Subscribe(d) \/ Disconnect(d) \/ Reload(d)
      PROVE  page'[c] \in PageRecords /\ Moves(page[c], page'[c])
  <2>0. page[d] \in PageRecords /\ page \in [Clients -> PageRecords]
    BY <1>0 DEF PageTypes
  <2>1. CASE Connect(d) \/ Disconnect(d)
    <3>1. PICK pc \in {"closed", "query"} : page' = [page EXCEPT ![d] = Begun(page[d], pc)]
      BY <2>0, <2>1 DEF Connect, Disconnect, Begun
    <3> DEFINE q == Begun(page[d], pc)
    <3>2. q \in PageRecords /\ Restarted(page[d], q)
      BY <2>0, StreamBegins DEF Restarted
    <3>3. Moves(page[d], q)
      BY <3>2 DEF Moves
    <3> HIDE DEF q
    <3> QED
      BY <1>0, <3>1, <3>2, <3>3, OnePage DEF q
  <2>2. CASE ReadSnapshot(d)
    <3> DEFINE p == page[d]
               q == [p EXCEPT !.pc = "answer", !.read = Snapshot, !.readAt = Now, !.from = Len(events)]
    <3>1. page' = [page EXCEPT ![d] = q] /\ p.pc = "query"
      BY <2>0, <2>2 DEF ReadSnapshot
    <3>2. Snapshot \in [status : Statuses, at : Nat] /\ Now \in Nat /\ Len(events) \in Nat
      BY <1>0, EventTyped
    <3>3. q \in PageRecords /\ HasRead(p, q)
      BY <2>0, <3>1, <3>2 DEF HasRead, PageRecords
    <3> HIDE DEF q
    <3>4. Moves(page[d], q)
      BY <3>3 DEF Moves
    <3> QED
      BY <1>0, <3>1, <3>3, <3>4, OnePage
  <2>3. CASE Subscribe(d)
    <3> DEFINE p == page[d]
               q == Streaming(p, p.read.status, p.read.at)
    <3>1. page' = [page EXCEPT ![d] = q] /\ p.pc = "answer"
      BY <2>0, <2>3 DEF Subscribe, Streaming
    <3>2. p.read.status \in Statuses /\ p.read.at \in Nat
      BY <2>0 DEF PageRecords
    <3>3. /\ q \in PageRecords /\ q.pc = "streaming" /\ Shows(p, q, p.read.status, p.read.at)
          /\ q.heard = p.heard /\ q.last = p.last
      BY <2>0, <3>2, SnapshotShown
    <3> HIDE DEF q
    <3>4. Moves(page[d], q)
      BY <3>1, <3>3 DEF Moves, Subscribed
    <3> QED
      BY <1>0, <3>1, <3>3, <3>4, OnePage
  <2>4. CASE Reload(d)
    <3>1. page' = [page EXCEPT ![d] = Closed]
      BY <2>4 DEF Reload
    <3>2. Closed \in PageRecords /\ Restarted(page[d], Closed)
      BY DEF Closed, PageRecords, Statuses, Restarted
    <3>3. Moves(page[d], Closed)
      BY <3>2 DEF Moves
    <3> QED
      BY <1>0, <3>1, <3>2, <3>3, OnePage
  <2> QED
    BY <1>5, <2>1, <2>2, <2>3, <2>4
<1> QED
  BY <1>0, <1>1, <1>2, <1>3, <1>4, <1>5, PublishedPage DEF Outside

LEMMA PageInvMoves ==
  ASSUME MonitorTypes, MonitorInv, ChangesInv, NEW p \in PageRecords, NEW q \in PageRecords, PageInv(p), Moves(p, q)
  PROVE  PageInv(q)
<1>1. /\ Now \in Nat /\ Len(events) \in Nat /\ startedAt \in Nat /\ check \in CheckRecords /\ Now = check.at
      /\ startedAt <= Now
      /\ \A e \in 1..Len(events) : events[e].at \in Nat /\ 1 <= events[e].at /\ events[e].at <= Now
  BY EventTyped DEF MonitorTypes, MonitorInv, StageInv, ChangesInv, Changes, Now
<1>2. CASE Restarted(p, q)
  BY <1>1, <1>2 DEF PageInv, Restarted
<1>3. CASE HasRead(p, q)
  <2>1. Snapshot.at <= Now /\ (Snapshot.status = "DOWN" => Snapshot.at >= 1)
    BY <1>1 DEF Snapshot, Opened, CheckRecords
  <2> QED
    BY <1>1, <1>3, <2>1 DEF PageInv, HasRead
<1>4. CASE Subscribed(p, q)
  BY <1>1, <1>4 DEF PageInv, Subscribed, Shows, PageRecords
<1>5. ASSUME NEW e \in 1..Len(events), Heard(p, q, e) PROVE PageInv(q)
  BY <1>1, <1>5 DEF PageInv, Heard, Shows
<1> QED
  BY <1>2, <1>3, <1>4, <1>5 DEF Moves

LEMMA ToastMoves ==
  ASSUME MonitorTypes, MonitorInv, NEW p \in PageRecords, NEW q \in PageRecords, PageToasts(p), Moves(p, q),
         \A e \in 1..Len(events) : events[e].status = "DOWN" => InOutage(events[e].at)
  PROVE  PageToasts(q)
<1>1. CASE Restarted(p, q)
  BY <1>1 DEF PageToasts, Restarted
<1>2. CASE HasRead(p, q)
  <2>1. Snapshot.status = "DOWN" => InOutage(Snapshot.at)
    <3>1. Opened => Snapshot.at \in check.down
      BY DEF Snapshot, MonitorInv, DownInv
    <3>2. ~Opened /\ Snapshot.status = "DOWN" => Snapshot.at \in check.down
      BY DEF Snapshot, MonitorInv, DownInv, Now
    <3> QED
      BY <3>1, <3>2 DEF InOutage
  <2> QED
    BY <1>2, <2>1 DEF PageToasts, HasRead
<1>3. CASE Subscribed(p, q)
  BY <1>3 DEF PageToasts, Subscribed, Shows
<1>4. ASSUME NEW e \in 1..Len(events), Heard(p, q, e) PROVE PageToasts(q)
  BY <1>4 DEF PageToasts, Heard, Shows
<1> QED
  BY <1>1, <1>2, <1>3, <1>4 DEF Moves

LEMMA ViewMoves ==
  ASSUME MonitorTypes, MonitorInv, LastChange, NEW p \in PageRecords, NEW q \in PageRecords,
         PageInv(p), ViewInv(p), Moves(p, q)
  PROVE  ViewInv(q)
<1>1. Now \in Nat /\ Len(events) \in Nat /\ \A e \in 1..Len(events) : events[e] \in Changes
  BY EventTyped
<1>2. CASE Restarted(p, q)
  BY <1>2 DEF ViewInv, Restarted
<1>3. CASE HasRead(p, q)
  <2>1. q.last = 0 /\ q.heard = {}
    BY <1>3 DEF ViewInv, HasRead
  <2>2. q.from > 0 /\ events[q.from].at >= q.readAt => q.read.status = events[q.from].status
    BY <1>3 DEF HasRead, LastChange
  <2> QED
    BY <1>3, <2>1, <2>2 DEF ViewInv, HasRead
<1>4. CASE Subscribed(p, q)
  BY <1>4 DEF ViewInv, Subscribed, Shows
<1>5. ASSUME NEW e \in 1..Len(events), Heard(p, q, e) PROVE ViewInv(q)
  <2>1. q.last > 0 /\ q.last \in q.heard /\ q.status = events[q.last].status
    BY <1>1, <1>5 DEF Heard, Shows
  <2>2. q.pc = "streaming" /\ p.pc = "streaming" /\ q.read = p.read /\ q.readAt = p.readAt /\ q.from = p.from
    BY <1>5 DEF Heard, Shows
  <2> QED
    BY <1>1, <2>1, <2>2 DEF ViewInv, PageRecords
<1> QED
  BY <1>2, <1>3, <1>4, <1>5 DEF Moves

\* The monitor moves on: what its pages hold stays of the past, and what they
\* show is the API's unless a check or a change came after.
LEMMA PagesUnderChecks ==
  ASSUME NInv, NEW up \in BOOLEAN, Record(up)
  PROVE  PagesInv' /\ ToastInv' /\ ViewsInv'
<1>0. MonitorTypes /\ PageTypes /\ MonitorInv /\ ChangesInv /\ PagesInv /\ ToastInv /\ ViewsInv
  BY DEF NInv, TypesOK
<1>1. /\ Now \in Nat /\ Len(events) \in Nat /\ check.silent \in Nat
      /\ \A e \in 1..Len(events) : events[e].at \in Nat /\ events[e].at <= Now
  BY <1>0, MonitorTyped, EventTyped DEF Changes, ChangesInv
<1>2. /\ Now' = Now + 1 /\ check'.silent \in {check.silent, Now + 1}
      /\ check'.silent # Now + 1 => Snapshot'.status = Snapshot.status
      /\ check'.down \in {{}, check.down, check.down \cup {Now + 1}}
      /\ UNCHANGED <<heartbeat, startedAt, events, handler, page>>
  BY <1>0, RecordedCheck
<1>3. \A c \in Clients : page[c] \in PageRecords /\ PageInv(page[c]) /\ PageToasts(page[c]) /\ ViewInv(page[c])
  BY <1>0 DEF PageTypes, PagesInv, ToastInv, ViewsInv
<1>4. \A c \in Clients : page'[c] = page[c]
  BY <1>2
<1>5. PagesInv'
  <2> SUFFICES ASSUME NEW c \in Clients PROVE PageInv(page[c])'
    BY DEF PagesInv
  <2>1. PICK p \in PageRecords : p = page[c] /\ p = page'[c] /\ PageInv(p)
    BY <1>3, <1>4
  <2>2. /\ p.toasts \subseteq 1..Now' /\ p.read.at <= Now' /\ p.readAt <= Now'
    BY <1>1, <1>2, <2>1 DEF PageInv, PageRecords
  <2> QED
    BY <1>2, <2>1, <2>2 DEF PageInv
<1>6. ASSUME NEW t \in Nat, t <= Now, InOutage(t) PROVE InOutage(t)'
  <2>1. ~(Now + 1 <= t)
    BY <1>1, <1>6
  <2> QED
    BY <1>2, <1>6, <2>1 DEF InOutage
<1>7. ToastInv'
  <2>1. (\A e \in 1..Len(events) : events[e].status = "DOWN" => InOutage(events[e].at))'
    <3> SUFFICES ASSUME NEW e \in 1..Len(events), events[e].status = "DOWN" PROVE InOutage(events[e].at)'
      BY <1>2
    <3>1. PICK t \in Nat : t = events[e].at /\ t = events'[e].at /\ t <= Now /\ InOutage(t)
      BY <1>0, <1>1, <1>2 DEF ToastInv
    <3>2. InOutage(t)'
      BY <1>6, <3>1
    <3> QED
      BY <3>1, <3>2 DEF InOutage
  <2>2. ASSUME NEW c \in Clients PROVE PageToasts(page[c])'
    <3>1. PICK p \in PageRecords : p = page[c] /\ p = page'[c] /\ PageInv(p) /\ PageToasts(p)
      BY <1>3, <1>4
    <3>2. ASSUME NEW t \in p.toasts PROVE InOutage(t)'
      <4>1. t \in Nat /\ t <= Now /\ InOutage(t)
        BY <1>1, <3>1 DEF PageInv, PageToasts, PageRecords
      <4> QED
        BY <1>6, <4>1
    <3>3. ASSUME p.read.status = "DOWN" PROVE InOutage(p.read.at)'
      <4>1. p.read.at \in Nat /\ p.read.at <= Now /\ InOutage(p.read.at)
        BY <3>1, <3>3 DEF PageInv, PageToasts, PageRecords
      <4> QED
        BY <1>6, <4>1
    <3> QED
      BY <3>1, <3>2, <3>3 DEF PageToasts
  <2> QED
    BY <2>1, <2>2 DEF ToastInv
<1>8. ViewsInv'
  <2>1. LastChange'
    <3>1. Len(events') > 0 => events'[Len(events')].at < Now'
      BY <1>1, <1>2
    <3>2. Len(events') > 0 => events'[Len(events')].at \in Nat
      BY <1>1, <1>2
    <3> QED
      BY <1>1, <1>2, <3>1, <3>2 DEF LastChange
  <2>2. ASSUME NEW c \in Clients PROVE ViewInv(page[c])'
    <3>1. PICK p \in PageRecords : p = page[c] /\ p = page'[c] /\ PageInv(p) /\ ViewInv(p)
      BY <1>3, <1>4
    <3>2. check'.silent <= p.readAt => check.silent <= p.readAt /\ Snapshot'.status = Snapshot.status
      BY <1>1, <1>2, <3>1 DEF PageInv, PageRecords
    <3> QED
      BY <1>2, <3>1, <3>2 DEF ViewInv
  <2> QED
    BY <2>1, <2>2 DEF ViewsInv
<1> QED
  BY <1>5, <1>7, <1>8

LEMMA PagesUnderChanges ==
  ASSUME NInv, OpenIncident \/ ResolveIncident
  PROVE  PagesInv' /\ ToastInv' /\ ViewsInv'
<1>0. MonitorTypes /\ PageTypes /\ MonitorInv /\ ChangesInv /\ PagesInv /\ ToastInv /\ ViewsInv
  BY DEF NInv, TypesOK
<1>1. /\ Now \in Nat /\ Len(events) \in Nat
      /\ \A e \in 1..Len(events) : events[e].at \in Nat /\ events[e].at <= Now
  BY <1>0, EventTyped DEF Changes, ChangesInv
<1>2. /\ Len(events') = Len(events) + 1 /\ Len(events) < Now
      /\ \A e \in 1..Len(events) : events'[e] = events[e]
      /\ events'[Len(events')].status = Snapshot'.status
      /\ \/ /\ FirstFailure \in check.down /\ check'.down = check.down /\ Opened'
            /\ events'[Len(events')].status = "DOWN" /\ events'[Len(events')].at = FirstFailure
         \/ check'.down = {} /\ events'[Len(events')].status = "UP"
      /\ UNCHANGED <<heartbeat, page>> /\ Keeps
  BY <1>0, ChangedMonitor
<1>3. \A c \in Clients : page[c] \in PageRecords /\ PageInv(page[c]) /\ PageToasts(page[c]) /\ ViewInv(page[c])
  BY <1>0 DEF PageTypes, PagesInv, ToastInv, ViewsInv
<1>4. \A c \in Clients : page'[c] = page[c]
  BY <1>2
<1>5. Now' = Now /\ check'.silent = check.silent
  BY <1>2 DEF Now, Keeps
<1>6. PagesInv'
  <2> SUFFICES ASSUME NEW c \in Clients PROVE PageInv(page[c])'
    BY DEF PagesInv
  <2>1. PICK p \in PageRecords : p = page[c] /\ p = page'[c] /\ PageInv(p)
    BY <1>3, <1>4
  <2>2. p.from <= Len(events') /\ p.heard \subseteq 1..Len(events') /\ p.last <= Len(events')
    BY <1>1, <1>2, <2>1 DEF PageInv, PageRecords
  <2> QED
    BY <1>5, <2>1, <2>2 DEF PageInv
<1>8. ASSUME NEW t, InOutage(t) PROVE InOutage(t)'
  BY <1>2, <1>8 DEF InOutage
<1>9. ToastInv'
  <2>1. (\A e \in 1..Len(events) : events[e].status = "DOWN" => InOutage(events[e].at))'
    <3> SUFFICES ASSUME NEW e \in 1..Len(events'), events'[e].status = "DOWN" PROVE InOutage(events[e].at)'
      OBVIOUS
    <3>1. CASE e \in 1..Len(events)
      <4>1. PICK t : t = events[e].at /\ t = events'[e].at
        BY <1>2, <3>1
      <4>2. InOutage(t)
        BY <1>0, <1>2, <3>1, <4>1 DEF ToastInv
      <4>3. InOutage(t)'
        BY <1>8, <4>2
      <4> QED
        BY <4>1, <4>3 DEF InOutage
    <3>2. CASE e = Len(events')
      BY <1>2, <3>2 DEF InOutage
    <3> QED
      BY <1>1, <1>2, <3>1, <3>2
  <2>2. ASSUME NEW c \in Clients PROVE PageToasts(page[c])'
    <3>1. PICK p \in PageRecords : p = page[c] /\ p = page'[c] /\ PageToasts(p)
      BY <1>3, <1>4
    <3>2. ASSUME NEW t \in p.toasts PROVE InOutage(t)'
      BY <1>8, <3>1 DEF PageToasts
    <3>3. ASSUME p.read.status = "DOWN" PROVE InOutage(p.read.at)'
      BY <1>8, <3>1, <3>3 DEF PageToasts
    <3> QED
      BY <3>1, <3>2, <3>3 DEF PageToasts
  <2> QED
    BY <2>1, <2>2 DEF ToastInv
<1>10. ViewsInv'
  <2>1. LastChange'
    BY <1>2 DEF LastChange
  <2>2. ASSUME NEW c \in Clients PROVE ViewInv(page[c])'
    <3>1. PICK p \in PageRecords : p = page[c] /\ p = page'[c] /\ PageInv(p) /\ ViewInv(p)
      BY <1>3, <1>4
    <3>2. p.from \in Nat /\ p.last \in Nat /\ p.from <= Len(events) /\ p.last <= Len(events)
      BY <3>1 DEF PageInv, PageRecords
    <3>3. /\ p.from > 0 => events'[p.from] = events[p.from]
          /\ p.last > 0 => events'[p.last] = events[p.last]
          /\ p.from # Len(events')
      BY <1>1, <1>2, <3>2
    <3> QED
      BY <1>2, <1>5, <3>1, <3>3 DEF ViewInv
  <2> QED
    BY <2>1, <2>2 DEF ViewsInv
<1> QED
  BY <1>6, <1>9, <1>10

LEMMA PagesOutside ==
  ASSUME NInv, Outside
  PROVE  PagesInv' /\ ToastInv' /\ ViewsInv'
<1>0. MonitorTypes /\ AlertTypes /\ PageTypes /\ MonitorInv /\ ChangesInv /\ PagesInv /\ ToastInv /\ ViewsInv
  BY DEF NInv, TypesOK
<1>1. UNCHANGED <<heartbeat, startedAt, events>> /\ Keeps
  BY <1>0, OutsideKeepsMonitor
<1>2. Now' = Now /\ Snapshot' = Snapshot /\ check'.silent = check.silent /\ check'.down \in {check.down, {}}
  BY <1>1, KeptTerms DEF Keeps
<1>3. ASSUME NEW c \in Clients PROVE \E q \in PageRecords : q = page'[c] /\ PageInv(q) /\ PageToasts(q) /\ ViewInv(q)
  <2>1. page[c] \in PageRecords /\ PageInv(page[c]) /\ PageToasts(page[c]) /\ ViewInv(page[c])
    BY <1>0 DEF PageTypes, PagesInv, ToastInv, ViewsInv
  <2>2. page'[c] \in PageRecords /\ Moves(page[c], page'[c])
    BY PageMoves
  <2>3. PICK p \in PageRecords, q \in PageRecords :
          p = page[c] /\ q = page'[c] /\ PageInv(p) /\ PageToasts(p) /\ ViewInv(p) /\ Moves(p, q)
    BY <2>1, <2>2
  <2>4. PageInv(q)
    BY <1>0, <2>3, PageInvMoves
  <2>5. PageToasts(q)
    BY <1>0, <2>3, ToastMoves DEF ToastInv
  <2>6. ViewInv(q)
    BY <1>0, <2>3, ViewMoves DEF ViewsInv
  <2> QED
    BY <2>3, <2>4, <2>5, <2>6
<1>4. PagesInv'
  <2> SUFFICES ASSUME NEW c \in Clients PROVE PageInv(page[c])'
    BY DEF PagesInv
  <2>1. PICK q \in PageRecords : q = page'[c] /\ PageInv(q)
    BY <1>3
  <2> QED
    BY <1>1, <1>2, <2>1 DEF PageInv
<1>5. ToastInv'
  <2>1. \A t : InOutage(t) => InOutage(t)'
    BY <1>2 DEF InOutage
  <2>2. (\A e \in 1..Len(events) : events[e].status = "DOWN" => InOutage(events[e].at))'
    BY <1>0, <1>1, <1>2 DEF ToastInv, InOutage
  <2>3. ASSUME NEW c \in Clients PROVE PageToasts(page[c])'
    <3>1. PICK q \in PageRecords : q = page'[c] /\ PageToasts(q)
      BY <1>3
    <3> QED
      BY <1>2, <3>1 DEF PageToasts, InOutage
  <2> QED
    BY <2>2, <2>3 DEF ToastInv
<1>6. ViewsInv'
  <2>1. LastChange'
    BY <1>0, <1>1, <1>2 DEF ViewsInv, LastChange
  <2>2. ASSUME NEW c \in Clients PROVE ViewInv(page[c])'
    <3>1. PICK q \in PageRecords : q = page'[c] /\ ViewInv(q)
      BY <1>3
    <3> QED
      BY <1>1, <1>2, <3>1 DEF ViewInv
  <2> QED
    BY <2>1, <2>2 DEF ViewsInv
<1> QED
  BY <1>4, <1>5, <1>6

LEMMA PagesStep == NInv /\ [Next]_vars => PageTypes' /\ PagesInv' /\ ToastInv' /\ ViewsInv'
<1> SUFFICES ASSUME NInv, [Next]_vars PROVE PageTypes' /\ PagesInv' /\ ToastInv' /\ ViewsInv'
  OBVIOUS
<1>1. PagesInv' /\ ToastInv' /\ ViewsInv'
  BY StepKinds, PagesUnderChecks, PagesUnderChanges, PagesOutside
<1>2. PageTypes'
  <2>1. CASE UNCHANGED page
    BY <2>1 DEF NInv, TypesOK, PageTypes
  <2>2. CASE Outside
    <3>1. \A c \in Clients : page'[c] \in PageRecords
      BY <2>2, PageMoves
    <3>2. page \in [Clients -> PageRecords]
      BY DEF NInv, TypesOK, PageTypes
    <3>3. UNCHANGED page \/ (\E c \in Clients : \E q : page' = [page EXCEPT ![c] = q]) \/ page' = [c \in Clients |-> page'[c]]
      BY <2>2 DEF Outside, vars, Bookkeeping, ClearFailures, CountFailure, MarkFailure, ExpireFailures, CheckFails, EditContacts, CrashWorker, CrashApi, ReadContacts, Enqueue, HandlerFails, Publish,
                  StartJob, BackoffEnds, Dispatch, Connect, ReadSnapshot, Subscribe, Disconnect, Reload
    <3>4. ASSUME NEW c \in Clients, NEW q, page' = [page EXCEPT ![c] = q] PROVE page' = [x \in Clients |-> page'[x]]
      BY <3>2, <3>4
    <3>5. CASE page' = [c \in Clients |-> page'[c]]
      BY <3>1, <3>5 DEF PageTypes
    <3> QED
      BY <2>1, <3>3, <3>4, <3>5
  <2>3. ASSUME NEW up \in BOOLEAN, Record(up) PROVE UNCHANGED page
    BY <2>3 DEF Record
  <2> QED
    BY <2>1, <2>2, <2>3, StepKinds DEF OpenIncident, ResolveIncident
<1> QED
  BY <1>1, <1>2

-----------------------------------------------------------------------------
(* Theorems *)

LEMMA NInvHolds == Spec => []NInv
<1>1. NInv /\ [Next]_vars => NInv'
  BY MonitorStep, AlertsStep, PagesStep DEF NInv, TypesOK
<1> QED
  BY NInvInit, <1>1, PTL DEF Spec

\* Types and ranges, for every number of contacts, pages, checks and attempts:
\* tables of contacts keep their ids apart however they are edited, and a job
\* is never past its contacts or its attempts.
THEOREM NotificationsTypes == Spec => []TypeOK
<1>1. NInv => TypeOK
  <2> SUFFICES ASSUME NInv PROVE TypeOK
    OBVIOUS
  <2>0. MonitorTypes /\ AlertTypes /\ PageTypes /\ MonitorInv /\ ChangesInv /\ JobsInv /\ PagesInv
    BY DEF NInv, TypesOK
  <2>1. /\ heartbeat \in BOOLEAN /\ check \in CheckRecords /\ startedAt \in Nat /\ Now \in Nat /\ Now = check.at
        /\ Now <= MaxChecks /\ Len(events) <= Now
    BY <2>0, EventTyped DEF MonitorTypes, MonitorInv, StageInv, ChangesInv, Now
  <2>2. /\ check.at \in 0..MaxChecks /\ check.up \in BOOLEAN /\ check.pc \in {"idle", "keys", "mark", "incident"}
        /\ check.failures \in 0..Now /\ check.first \in 0..Now /\ check.silent \in 0..Now
        /\ check.down \subseteq 1..Now /\ check.lost \in Nat /\ startedAt \in 0..Now
    BY <2>0, <2>1, BoundAssumption DEF MonitorInv, StageInv, CheckRecords
  <2>3. ASSUME NEW e \in Event
        PROVE  /\ job[e].pc \in {"none", "waiting", "active", "backoff", "completed", "failed"}
               /\ job[e].contacts \in Tables /\ job[e].attempts \in 0..Attempts
               /\ job[e].pc # "none" => job[e].next \in DOMAIN job[e].contacts
    <3>1. job[e] \in JobRecords /\ JobInv(handler[e], job[e], got[e])
      BY <2>0 DEF AlertTypes, JobsInv
    <3>2. DOMAIN job[e].contacts = 1..Len(job[e].contacts) /\ job[e].attempts \in Nat
      BY <3>1, JobRecordsTyped
    <3> QED
      BY <3>1, <3>2 DEF JobInv, JobRecords
  <2>4. ASSUME NEW c \in Clients
        PROVE  /\ page[c].pc \in {"closed", "query", "answer", "streaming"}
               /\ page[c].status \in {"UP", "DOWN", "UNKNOWN"} /\ page[c].toasts \subseteq 1..MaxChecks
               /\ page[c].heard \subseteq 1..Len(events)
    <3>1. page[c] \in PageRecords /\ PageInv(page[c])
      BY <2>0 DEF PageTypes, PagesInv
    <3>2. 1..Now \subseteq 1..MaxChecks
      BY <2>1, BoundAssumption
    <3> QED
      BY <3>1, <3>2 DEF PageRecords, PageInv, Statuses
  <2> QED
    BY <2>0, <2>1, <2>2, <2>3, <2>4 DEF TypeOK, AlertTypes, Stages
<1> QED
  BY NInvHolds, <1>1, PTL

\* A completed job has called every webhook of its snapshot, one that failed every
\* webhook before the one that made it fail, and none more often than it was
\* attempted, for every table of contacts and number of attempts (dispatchContact,
\* the alerts worker).
THEOREM AlertsServeTheirContacts == Spec => []JobsServeTheirContacts
<1>1. NInv => JobsServeTheirContacts
  <2> SUFFICES ASSUME NInv, NEW e \in Event,
                      NEW j \in JobRecords, j = job[e], NEW calls \in Calls, calls = got[e], JobInv(handler[e], j, calls)
               PROVE  /\ j.pc = "completed" => \A c \in Webhooks(j) : calls[c] > 0
                      /\ \A c \in Contacts : calls[c] <= j.attempts + j.stalls
                                               + (IF j.pc \in {"active", "completed"} THEN 1 ELSE 0)
                      /\ j.pc = "failed" /\ j.stalls = 0 =>
                           \E i \in DOMAIN j.contacts :
                             /\ j.contacts[i].type = "WEBHOOK"
                             /\ \A k \in 1..(i - 1) : j.contacts[k].type = "WEBHOOK" => calls[j.contacts[k].id] > 0
    BY DEF NInv, TypesOK, AlertTypes, JobsInv, JobsServeTheirContacts
  <2>1. DOMAIN j.contacts = 1..Len(j.contacts) /\ j.attempts \in Nat /\ j.stalls \in Nat
    BY JobRecordsTyped
  <2>2. j.pc = "completed" => \A c \in Webhooks(j) : calls[c] > 0
    BY <2>1 DEF JobInv, CalledTo, IsWebhook, Webhooks
  <2>3. ASSUME NEW c \in Contacts
        PROVE  calls[c] <= j.attempts + j.stalls + (IF j.pc \in {"active", "completed"} THEN 1 ELSE 0)
    <3>1. calls[c] <= j.attempts + j.stalls + (IF HasServed(j, c) THEN 1 ELSE 0) /\ calls[c] \in Nat
      BY DEF JobInv, Calls
    <3>2. HasServed(j, c) => j.pc \in {"active", "completed"}
      BY DEF HasServed
    <3> QED
      BY <2>1, <3>1, <3>2
  <2>4. j.pc = "failed" /\ j.stalls = 0 =>
          \E i \in DOMAIN j.contacts :
            /\ j.contacts[i].type = "WEBHOOK"
            /\ \A k \in 1..(i - 1) : j.contacts[k].type = "WEBHOOK" => calls[j.contacts[k].id] > 0
    BY <2>1 DEF JobInv, CalledTo, IsWebhook
  <2> QED
    BY <2>2, <2>3, <2>4
<1> QED
  BY NInvHolds, <1>1, PTL

\* A page that stays open toasts an outage at most once for each failure that had
\* to confirm it and for each whose count was lost, however often its stream breaks
\* and whatever threshold the monitor has: every time it shows for DOWN is that of a
\* failure of the outage, and of those no more than that pass without an incident
\* (recordCheckResult, the counter, the incident: three calls, each of which may be
\* the last of its check).
THEOREM OutagesAreToastedOnce == Spec => []OutageToastedOnce
<1>1. NInv => OutageToastedOnce
  <2> SUFFICES ASSUME NInv, NEW c \in Clients
               PROVE  Cardinality({t \in page[c].toasts : \E start \in check.down : start <= t})
                        <= NeededFailures + check.lost
    BY DEF OutageToastedOnce
  <2>1. page[c] \in PageRecords /\ PageToasts(page[c]) /\ MonitorTypes /\ MonitorInv
    BY DEF NInv, TypesOK, PageTypes, ToastInv
  <2>2. /\ IsFiniteSet(check.down) /\ Cardinality(check.down) \in Nat /\ check.lost \in Nat /\ check.failures \in Nat
        /\ NeededFailures \in Nat \ {0}
    BY <2>1, MonitorTyped
  <2> DEFINE shown == {t \in page[c].toasts : \E start \in check.down : start <= t}
  <2>3. shown \in SUBSET check.down
    BY <2>1 DEF PageToasts, InOutage
  <2> HIDE DEF shown
  <2>4. Cardinality(shown) <= Cardinality(check.down) /\ Cardinality(shown) \in Nat
    BY <2>2, <2>3, FS_Subset, FS_CardinalityType
  <2>5. Cardinality(check.down) <= NeededFailures + check.lost
    <3>1. Counted \in Nat /\ Counted + 1 <= NeededFailures
      BY <2>2 DEF Counted
    <3>2. CountInv
      BY <2>1 DEF MonitorInv
    <3> QED
      BY <2>2, <3>1, <3>2 DEF CountInv
  <2>6. Cardinality(shown) <= NeededFailures + check.lost
    BY <2>2, <2>4, <2>5
  <2> QED
    BY <2>6 DEF shown
<1> QED
  BY NInvHolds, <1>1, PTL

\* A streaming page shows the status the API would answer, unless it did not hear
\* of a change made since its snapshot was read, a check changed the status without
\* an incident, or changes were published in another order than written, for every
\* number of pages and of changes (findMonitorStatusSnapshotByUserId,
\* publishMonitorStatusChange).
THEOREM StaleViewsHaveACause == Spec => []StaleViewHasACause
<1>1. NInv => StaleViewHasACause
  <2> SUFFICES ASSUME NInv, NEW c \in Clients, NEW p \in PageRecords, p = page[c], p.pc = "streaming",
                      \A e \in (p.from + 1)..Len(events) : e \in p.heard,
                      ~(check.silent > p.readAt),
                      ~(p.last > 0 /\ (events[p.last].at < p.readAt \/ \E e \in p.heard \cup {p.from} : p.last < e))
               PROVE  p.status = Snapshot.status
    BY DEF StaleViewHasACause, NInv, TypesOK, PageTypes
  <2>1. MonitorTypes /\ PageInv(p) /\ ViewInv(p)
    BY DEF NInv, TypesOK, PagesInv, ViewsInv
  <2>2. /\ Len(events) \in Nat /\ p.from \in Nat /\ p.last \in Nat /\ p.readAt \in Nat /\ check.silent \in Nat
        /\ p.from <= Len(events) /\ p.last <= Len(events) /\ check.silent <= p.readAt
        /\ \A e \in 1..Len(events) : events[e].at \in Nat
    <3>1. check.silent \in Nat
      BY <2>1 DEF MonitorTypes, CheckRecords
    <3>2. p.from \in Nat /\ p.last \in Nat /\ p.readAt \in Nat /\ p.from <= Len(events) /\ p.last <= Len(events)
      BY <2>1 DEF PageRecords, PageInv
    <3>3. Len(events) \in Nat /\ \A e \in 1..Len(events) : events[e].at \in Nat
      BY <2>1, EventTyped DEF Changes
    <3> QED
      BY <3>1, <3>2, <3>3
  <2>3. Snapshot.status = IF p.from = Len(events) THEN p.read.status ELSE events[Len(events)].status
    BY <2>1, <2>2 DEF ViewInv
  <2>4. CASE p.last = 0
    <3>1. p.heard = {} /\ p.status = p.read.status
      BY <2>1, <2>4 DEF ViewInv
    <3>2. p.from = Len(events)
      BY <2>2, <3>1
    <3> QED
      BY <2>3, <3>1, <3>2
  <2>5. CASE p.last > 0
    <3>0. ~(events[p.last].at < p.readAt) /\ \A e \in p.heard \cup {p.from} : ~(p.last < e)
      BY <2>5
    <3>1. p.status = events[p.last].status /\ p.from <= p.last
      <4>1. p.status = events[p.last].status
        BY <2>1, <2>5 DEF ViewInv
      <4>2. ~(p.last < p.from)
        BY <3>0
      <4> QED
        BY <2>2, <4>1, <4>2
    <3>2. p.last = Len(events)
      <4>1. CASE p.from = Len(events)
        BY <2>2, <3>1, <4>1
      <4>2. CASE p.from < Len(events)
        <5>1. Len(events) \in p.heard
          BY <2>2, <4>2
        <5> QED
          BY <2>2, <3>0, <5>1
      <4> QED
        BY <2>2, <4>1, <4>2
    <3>3. CASE p.from = Len(events)
      <4>1. p.read.status = events[p.from].status
        BY <2>1, <2>2, <2>5, <3>0, <3>2, <3>3 DEF ViewInv
      <4> QED
        BY <2>3, <3>1, <3>2, <3>3, <4>1
    <3> QED
      BY <2>3, <3>1, <3>2, <3>3
  <2> QED
    BY <2>2, <2>4, <2>5
<1> QED
  BY NInvHolds, <1>1, PTL
=============================================================================
