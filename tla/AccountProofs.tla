---------------------------- MODULE AccountProofs ----------------------------
(***************************************************************************)
(* What users own, under overlapping requests, deletions, upgrades and     *)
(* crashes: the properties that Account checks on a small instance, for    *)
(* every value of the constants.                                           *)
(*                                                                         *)
(* A request holds on to what it has read.  AInv says what stays true of   *)
(* that while others write: owners never change and ids are never used     *)
(* twice, a plan only rises, and a setting that was read is still the one  *)
(* of the row unless two updates overlapped.                               *)
(***************************************************************************)
EXTENDS BillingProofs

States == {"new", "here", "gone"}
Answers == {"yes", "no"}

\* A row that a single request, of an owner on this plan, could have made.
WellFormed(row, plan) ==
  /\ row \in Rows
  /\ row.intervalSeconds >= minMonitorIntervalSeconds[plan]
  /\ Valid(row)
  /\ row.heartbeatToken <=> row.type = "HEARTBEAT"
  /\ row.type = "HEARTBEAT" <=> row.url = Absent
  /\ IF row.type = "KEYWORD" THEN row.keywordExpected = "text" /\ row.keywordMustExist # Absent
                             ELSE KeywordFieldsAbsent(row)

\* What a request carries at each of its awaits.
Creates == [pc : {"count", "create"}, kind : Kinds, user : Users, plan : Plans, input : Inputs \cup {Empty}]
LoadsMonitor == [pc : {"loadMonitor"}, target : Monitors, user : Users, plan : Plans, input : Inputs]
WritesMonitor == [pc : {"writeMonitor"}, target : Monitors, user : Users, input : Inputs, row : Rows]
LoadsPage == [pc : {"loadPage"}, target : Pages \cup {NoPage}, user : Users, input : PageInputs]
HasPage == [pc : {"checkPage", "writePage"}, target : Pages \cup {NoPage}, user : Users, input : PageInputs,
            isPublic : Answers]

IsRequest(q) ==
  \/ q = [pc |-> "idle"]
  \/ q \in Creates \/ q \in LoadsMonitor \/ q \in WritesMonitor \/ q \in LoadsPage \/ q \in HasPage

\* The row is of this user, now or once.
OfUser(row, u) == row.state # "new" /\ row.owner = u

\* What a request has read, and been told by a check, still holds as far as it goes.
Sound(q) ==
  /\ IsRequest(q)
  /\ q \in Creates =>
       /\ user[q.user].state # "new" /\ q.plan \in {"FREE", user[q.user].plan}
       /\ q.kind = "monitor" => q.input \in Inputs /\ (q.pc = "create" => Accepts(q.input, q.plan, Empty))
  /\ q \in LoadsMonitor => user[q.user].state # "new" /\ q.plan \in {"FREE", user[q.user].plan}
  /\ q \in WritesMonitor => OfUser(monitor[q.target], q.user) /\ WellFormed(q.row, user[q.user].plan)
  /\ q \in LoadsPage => user[q.user].state # "new"
  /\ q \in HasPage =>
       /\ user[q.user].state # "new"
       /\ q.target # NoPage => OfUser(page[q.target], q.user)
       /\ q.pc = "writePage" => \A m \in q.input.monitors : OfUser(monitor[m], q.user)

MonitorTypes == monitor \in [Monitors -> [state : States, owner : Users \cup {NoUser}, row : Rows \cup {Empty}]]
ContactTypes == contact \in [Contacts -> [state : States, owner : Users \cup {NoUser}]]
PageTypes == page \in [Pages -> [state : States, owner : Users \cup {NoUser}, isPublic : Answers,
                                 monitors : SUBSET Monitors]]

\* Rows have owners who have registered, and are well formed for the owner's plan.
MonitorRows ==
  \A m \in Monitors : monitor[m].state # "new" =>
    /\ monitor[m].owner \in Users /\ user[monitor[m].owner].state # "new"
    /\ WellFormed(monitor[m].row, user[monitor[m].owner].plan)
ContactRows ==
  \A c \in Contacts : contact[c].state # "new" => contact[c].owner \in Users /\ user[contact[c].owner].state # "new"
PageRows ==
  \A p \in Pages :
    /\ page[p].state = "here" => \A m \in page[p].monitors : MonitorHere(m) /\ monitor[m].owner = page[p].owner
    /\ page[p].state # "here" => page[p].monitors = {}

\* An update of x that has read its row and not written it yet.
Overwrites(r, x) ==
  \/ x \in Monitors /\ request[r] \in WritesMonitor /\ request[r].target = x
  \/ x \in Pages /\ request[r] \in HasPage /\ request[r].target = x
OneUpdate == \A x \in (Monitors \cup Pages) \ overlapped, r, s \in Requests : Overwrites(r, x) /\ Overwrites(s, x) => r = s

Settings ==
  /\ \A m \in Monitors \ overlapped :
       /\ MonitorHere(m) => monitor[m].row.isActive = asked[m]
       /\ \A r \in Requests : request[r] \in WritesMonitor /\ request[r].target = m =>
            request[r].row.isActive = Or(request[r].input.isActive, monitor[m].row.isActive)
  /\ \A p \in Pages \ overlapped :
       /\ page[p].state = "here" => page[p].isPublic = asked[p]
       /\ \A r \in Requests : request[r] \in HasPage /\ request[r].target = p => request[r].isPublic = page[p].isPublic

\* The requests that will make one more of this kind.
Creating(k, u) == {r \in Requests : request[r] \in Creates /\ request[r].pc = "create"
                                    /\ request[r].kind = k /\ request[r].user = u}
WithinReach(k, u) ==
  /\ IsFiniteSet(Owned(k, u))
  /\ Here(u) => Cardinality(Owned(k, u)) + Cardinality(Creating(k, u))
                  <= PLAN_LIMITS[user[u].plan][k] - 1 + Cardinality(Requests)

Ghosts == asked \in [Monitors \cup Pages -> Answers] /\ overlapped \subseteq Monitors \cup Pages

Bounds ==
  /\ left \in [Operations -> 0..MaxOperations]
  /\ failures \in 0..MaxFailures
  /\ \A w \in Webhooks : event[w].issued \/ event[w] = NoEvent

RequestsSound == DOMAIN request = Requests /\ \A r \in Requests : Sound(request[r])
RowTypesOK == MonitorTypes /\ ContactTypes /\ PageTypes
RowsOK == RowTypesOK /\ MonitorRows /\ ContactRows /\ PageRows

AInv ==
  /\ PInv /\ Bounds /\ Ghosts
  /\ RequestsSound /\ RowsOK
  /\ OneUpdate /\ Settings
  /\ \A k \in Kinds, u \in Users : WithinReach(k, u)

-----------------------------------------------------------------------------
(* Users, and what the bounds count *)

\* Users register once and their plan only rises.
UsersKept ==
  \A u \in Users : /\ user[u].state # "new" => user'[u].state # "new"
                   /\ user[u].plan = "PRO" => user'[u].plan = "PRO"
                   /\ Here(u)' => user[u].state \in {"new", "here"}

LEMMA PlanRises ==
  ASSUME PInv, PInv', UsersKept, NEW u \in Users, user[u].state # "new"
  PROVE  /\ user[u].plan \in Plans /\ user'[u].plan \in Plans
         /\ \A plan \in {"FREE", user[u].plan} : plan \in {"FREE", user'[u].plan}
BY DEF PInv, RowTypes, UsersKept, Plans

LEMMA UsersAreKept == PInv /\ [Next]_vars => UsersKept
<1> SUFFICES ASSUME PInv, Step PROVE UsersKept
  BY NextIsStep
<1> USE DEF UsersKept, Here
<1>1. user \in [Users -> [state : States, email : Emails \cup {NoEmail}, plan : Plans]]
  BY DEF PInv, RowTypes, States
<1>2. ASSUME UNCHANGED user PROVE UsersKept
  BY <1>1, <1>2 DEF States
<1>3. ASSUME NEW u \in Users, LeaveBilling(u) PROVE UsersKept
  BY <1>1, <1>3 DEF LeaveBilling, States, Plans
<1>4. ASSUME NEW u \in Users, NEW email \in Emails, Register(u, email) PROVE UsersKept
  <2>1. user[u].plan # "PRO"
    BY <1>4 DEF Register, PInv, Known
  <2> QED
    BY <1>1, <1>4, <2>1 DEF Register, States, Plans
<1>5. ASSUME NEW u \in Users, NEW email \in Emails, UpdateUser(u, email) PROVE UsersKept
  BY <1>1, <1>5 DEF UpdateUser, States, Plans
<1>6. ASSUME NEW w \in Webhooks, NEW d \in Deliveries, Upgrade(w, d) PROVE UsersKept
  <2>1. CASE UNCHANGED user
    BY <1>2, <2>1
  <2>2. CASE user' = [user EXCEPT ![delivery[w][d].user].plan = "PRO"]
    BY <1>1, <2>2 DEF States, Plans
  <2> QED
    BY <1>6, <2>1, <2>2 DEF Upgrade
<1>7. CASE BillingStep
  <2>1. ASSUME NEW u \in Users, CreateCheckout(u) PROVE UsersKept
    BY <1>2, <2>1 DEF CreateCheckout
  <2>2. ASSUME NEW w \in Webhooks, NEW e, Issue(w, e) PROVE UsersKept
    BY <1>2, <2>2 DEF Issue
  <2>3. ASSUME NEW w \in Webhooks, NEW d \in Deliveries,
               Deliver(w, d) \/ Look(w, d) \/ Resolve(w, d) \/ Record(w, d) \/ DeliveryFails(w, d)
        PROVE  UsersKept
    BY <1>2, <2>3 DEF Deliver, Look, Resolve, Record, DeliveryFails
  <2> QED
    BY <1>4, <1>5, <1>6, <1>7, <2>1, <2>2, <2>3 DEF BillingStep, HandleDelivery
<1>8. CASE CrashBilling
  BY <1>2, <1>8 DEF CrashBilling
<1>9. CASE UNCHANGED userVars
  BY <1>2, <1>9 DEF userVars
<1> QED
  BY <1>3, <1>7, <1>8, <1>9 DEF Step

LEMMA AskTyped ==
  ASSUME left \in [Operations -> 0..MaxOperations], NEW o \in Operations, Ask(o)
  PROVE  left' \in [Operations -> 0..MaxOperations]
BY OperationsAssumption DEF Ask

LEMMA BoundsStep == PInv /\ Bounds /\ [Next]_vars => Bounds'
<1> SUFFICES ASSUME PInv, Bounds, [Next]_vars PROVE Bounds'
  OBVIOUS
<1> USE DEF Bounds
<1>1. ASSUME NEW o \in Operations, Ask(o), UNCHANGED <<failures, event>> PROVE Bounds'
  BY <1>1, AskTyped
<1>2. ASSUME UNCHANGED left, failures' = failures + 1, failures < MaxFailures, UNCHANGED event PROVE Bounds'
  BY <1>2, OperationsAssumption
<1>3. ASSUME UNCHANGED <<left, failures, event>> PROVE Bounds'
  BY <1>3
<1>4. CASE UNCHANGED vars
  BY <1>3, <1>4 DEF vars, userVars, billingVars
<1>5. CASE BillingStep
  <2>1. ASSUME NEW u \in Users, CreateCheckout(u) PROVE Bounds'
    BY <1>3, <2>1 DEF CreateCheckout, billingVars
  <2>2. ASSUME NEW u \in Users, NEW email \in Emails, Register(u, email) PROVE Bounds'
    BY <1>1, <2>2 DEF Register, billingVars, Operations
  <2>3. ASSUME NEW u \in Users, NEW email \in Emails, UpdateUser(u, email) PROVE Bounds'
    BY <1>1, <2>3 DEF UpdateUser, billingVars, Operations
  <2>4. ASSUME NEW w \in Webhooks, NEW e \in Events, Issue(w, e) PROVE Bounds'
    <3>1. left' \in [Operations -> 0..MaxOperations] /\ UNCHANGED failures
      BY <2>4, AskTyped DEF Issue, Operations
    <3>2. event' = [event EXCEPT ![w] = Issued(e)] /\ Issued(e).issued
      BY <2>4 DEF Issue, Issued
    <3>3. \A x \in Webhooks : event'[x].issued \/ event'[x] = NoEvent
      BY <3>2 DEF PInv, RowTypes
    <3> QED
      BY <3>1, <3>3
  <2>5. ASSUME NEW w \in Webhooks, NEW d \in Deliveries, Deliver(w, d) \/ HandleDelivery(w, d) PROVE Bounds'
    BY <1>3, <2>5 DEF Deliver, HandleDelivery, Look, Resolve, Upgrade, Record
  <2>6. ASSUME NEW w \in Webhooks, NEW d \in Deliveries, DeliveryFails(w, d) PROVE Bounds'
    BY <1>2, <2>6 DEF DeliveryFails
  <2> QED
    BY <1>5, <2>1, <2>2, <2>3, <2>4, <2>5, <2>6 DEF BillingStep
<1>6. ASSUME NEW u \in Users, DeleteUser(u) PROVE Bounds'
  BY <1>1, <1>6 DEF DeleteUser, LeaveBilling, billingVars, Operations
<1>7. CASE Crash
  BY <1>2, <1>7 DEF Crash, CrashBilling
<1>8. ASSUME NEW m \in Monitors, DeleteMonitor(m) PROVE Bounds'
  BY <1>1, <1>8 DEF DeleteMonitor, userVars, billingVars, Operations
<1>9. ASSUME NEW c \in Contacts, DeleteContact(c) PROVE Bounds'
  BY <1>1, <1>9 DEF DeleteContact, userVars, billingVars, Operations
<1>10. ASSUME NEW p \in Pages, DeletePage(p) PROVE Bounds'
  BY <1>1, <1>10 DEF DeletePage, userVars, billingVars, Operations
<1>11. ASSUME NEW r \in Requests, HandleRequest(r) PROVE Bounds'
  BY <1>3, <1>11 DEF HandleRequest, Count, CreateMonitor, CreateContact, LoadMonitor, WriteMonitor,
                     LoadPage, CheckPage, WritePage, userVars, billingVars
<1>12. ASSUME NEW r, NEW u, NEW k \in Kinds, NEW input, StartCreate(r, u, k, input) PROVE Bounds'
  BY <1>1, <1>12 DEF StartCreate, userVars, billingVars, Operations, Kinds
<1>13. ASSUME NEW r, NEW u, NEW m, NEW input, StartUpdate(r, u, m, input) PROVE Bounds'
  BY <1>1, <1>13 DEF StartUpdate, userVars, billingVars, Operations
<1>14. ASSUME NEW r, NEW u, NEW p, NEW input, StartPage(r, u, p, input) PROVE Bounds'
  BY <1>1, <1>14 DEF StartPage, userVars, billingVars, Operations
<1> QED
  BY <1>4, <1>5, <1>6, <1>7, <1>8, <1>9, <1>10, <1>11, <1>12, <1>13, <1>14 DEF Next, Kinds

-----------------------------------------------------------------------------
(* What stays true of requests and rows while others write *)

LEMMA NormalizedIsWellFormed ==
  ASSUME NEW input \in Inputs, NEW plan \in Plans, NEW row \in Rows \cup {Empty}, Accepts(input, plan, row)
  PROVE  /\ WellFormed(normalizeMonitorInput(input, row), plan)
         /\ row \in Rows => normalizeMonitorInput(input, row).isActive = Or(input.isActive, row.isActive)
<1> DEFINE m == Merge(input, row)
<1>1. /\ m.type \in Types \cup {Absent} /\ m.url \in Urls \cup {Absent}
      /\ m.keywordExpected \in Keywords \cup {Absent} /\ m.keywordMustExist \in {Absent, "yes", "no"}
      /\ m.intervalSeconds \in Intervals \cup {0} /\ m.isActive \in Answers
      /\ row \in Rows => m.isActive = Or(input.isActive, row.isActive)
  BY DEF Merge, Inputs, Rows, Empty, Or, Absent, Answers
<1>2. /\ m.type # Absent /\ m.intervalSeconds # 0
      /\ m.intervalSeconds >= minMonitorIntervalSeconds[plan]
      /\ Valid(m)
      /\ IF m.type = "KEYWORD" THEN m.keywordExpected = "text" /\ m.keywordMustExist # Absent
                               ELSE KeywordFieldsAbsent(m)
  BY DEF Accepts
<1> DEFINE n == normalizeMonitorInput(input, row)
<1>3. /\ n = [type |-> m.type, url |-> IF m.type = "HEARTBEAT" THEN Absent ELSE m.url,
              keywordExpected |-> m.keywordExpected, keywordMustExist |-> m.keywordMustExist,
              intervalSeconds |-> m.intervalSeconds, isActive |-> m.isActive,
              heartbeatToken |-> m.type = "HEARTBEAT"]
  BY DEF normalizeMonitorInput
<1> HIDE DEF m, n
<1>4. n \in Rows
  BY <1>1, <1>2, <1>3 DEF Rows, Answers
<1>5. Valid(n) /\ (n.type = "HEARTBEAT" <=> n.url = Absent)
  BY <1>1, <1>2, <1>3 DEF Valid, Types, Absent
<1>6. IF n.type = "KEYWORD" THEN n.keywordExpected = "text" /\ n.keywordMustExist # Absent ELSE KeywordFieldsAbsent(n)
  BY <1>2, <1>3 DEF KeywordFieldsAbsent
<1>7. WellFormed(n, plan)
  BY <1>2, <1>3, <1>4, <1>5, <1>6 DEF WellFormed
<1> QED
  BY <1>1, <1>3, <1>7 DEF n

\* What suits a plan suits every later plan of the user.
LEMMA WellFormedForHigherPlans ==
  ASSUME NEW row, NEW plan \in Plans, NEW higher \in Plans, plan \in {"FREE", higher}, WellFormed(row, plan)
  PROVE  WellFormed(row, higher)
<1>1. minMonitorIntervalSeconds[higher] <= minMonitorIntervalSeconds[plan]
      /\ minMonitorIntervalSeconds[higher] \in Nat /\ minMonitorIntervalSeconds[plan] \in Nat
  BY DEF Plans, minMonitorIntervalSeconds
<1>2. row.intervalSeconds \in Nat
  BY IntervalsAssumption DEF WellFormed, Rows
<1>3. row.intervalSeconds >= minMonitorIntervalSeconds[higher]
  BY <1>1, <1>2 DEF WellFormed
<1> QED
  BY <1>3 DEF WellFormed

LEMMA RequestByPc ==
  ASSUME NEW q, IsRequest(q)
  PROVE  /\ q \in Creates <=> q.pc \in {"count", "create"}
         /\ q \in LoadsMonitor <=> q.pc = "loadMonitor"
         /\ q \in WritesMonitor <=> q.pc = "writeMonitor"
         /\ q \in LoadsPage <=> q.pc = "loadPage"
         /\ q \in HasPage <=> q.pc \in {"checkPage", "writePage"}
         /\ q = [pc |-> "idle"] <=> q.pc = "idle"
<1>1. q \in Creates => q.pc \in {"count", "create"}
  BY DEF Creates
<1>2. q \in LoadsMonitor => q.pc = "loadMonitor"
  BY DEF LoadsMonitor
<1>3. q \in WritesMonitor => q.pc = "writeMonitor"
  BY DEF WritesMonitor
<1>4. q \in LoadsPage => q.pc = "loadPage"
  BY DEF LoadsPage
<1>5. q \in HasPage => q.pc \in {"checkPage", "writePage"}
  BY DEF HasPage
<1>6. q = [pc |-> "idle"] => q.pc = "idle"
  OBVIOUS
<1> QED
  BY <1>1, <1>2, <1>3, <1>4, <1>5, <1>6 DEF IsRequest

\* Rows keep their owner, whatever else becomes of them.
RowsKept ==
  /\ \A m \in Monitors, u \in Users : OfUser(monitor[m], u) => OfUser(monitor[m], u)'
  /\ \A p \in Pages, u \in Users : OfUser(page[p], u) => OfUser(page[p], u)'

LEMMA SoundStays ==
  ASSUME PInv, PInv', UsersKept, RowsKept, NEW q, Sound(q)
  PROVE  Sound(q)'
<1>1. CASE q = [pc |-> "idle"]
  <2>1. IsRequest(q)
    BY <1>1 DEF IsRequest
  <2> QED
    BY <1>1, <2>1, RequestByPc DEF Sound
<1>2. CASE q \in Creates
  <2>1. q.user \in Users
    BY <1>2 DEF Creates
  <2>2. q \notin LoadsMonitor /\ q \notin WritesMonitor /\ q \notin LoadsPage /\ q \notin HasPage
    BY <1>2 DEF Creates, LoadsMonitor, WritesMonitor, LoadsPage, HasPage
  <2>3. user'[q.user].state # "new" /\ q.plan \in {"FREE", user'[q.user].plan}
    BY <1>2, <2>1, PlanRises DEF Sound, UsersKept
  <2> QED
    BY <1>2, <2>2, <2>3 DEF Sound
<1>3. CASE q \in LoadsMonitor
  <2>1. q.user \in Users
    BY <1>3 DEF LoadsMonitor
  <2>2. q \notin Creates /\ q \notin WritesMonitor /\ q \notin LoadsPage /\ q \notin HasPage
    BY <1>3 DEF Creates, LoadsMonitor, WritesMonitor, LoadsPage, HasPage
  <2>3. user'[q.user].state # "new" /\ q.plan \in {"FREE", user'[q.user].plan}
    BY <1>3, <2>1, PlanRises DEF Sound, UsersKept
  <2> QED
    BY <1>3, <2>2, <2>3 DEF Sound
<1>4. CASE q \in WritesMonitor
  <2>1. q.user \in Users /\ q.target \in Monitors
    BY <1>4 DEF WritesMonitor
  <2>2. q \notin Creates /\ q \notin LoadsMonitor /\ q \notin LoadsPage /\ q \notin HasPage
    BY <1>4 DEF Creates, LoadsMonitor, WritesMonitor, LoadsPage, HasPage
  <2>3. OfUser(monitor'[q.target], q.user)
    BY <1>4, <2>1 DEF Sound, RowsKept, OfUser
  <2>4. WellFormed(q.row, user'[q.user].plan)
    <3>1. user[q.user].plan \in Plans /\ user'[q.user].plan \in Plans /\ user[q.user].plan \in {"FREE", user'[q.user].plan}
      BY <2>1 DEF PInv, RowTypes, UsersKept, Plans
    <3> QED
      BY <1>4, <3>1, WellFormedForHigherPlans DEF Sound
  <2> QED
    BY <1>4, <2>2, <2>3, <2>4 DEF Sound
<1>5. CASE q \in LoadsPage
  <2>1. q.user \in Users
    BY <1>5 DEF LoadsPage
  <2>2. q \notin Creates /\ q \notin LoadsMonitor /\ q \notin WritesMonitor /\ q \notin HasPage
    BY <1>5 DEF Creates, LoadsMonitor, WritesMonitor, LoadsPage, HasPage
  <2> QED
    BY <1>5, <2>1, <2>2 DEF Sound, UsersKept
<1>6. CASE q \in HasPage
  <2>1. q.user \in Users /\ q.target \in Pages \cup {NoPage} /\ q.input.monitors \subseteq Monitors
    BY <1>6 DEF HasPage, PageInputs
  <2>2. q \notin Creates /\ q \notin LoadsMonitor /\ q \notin WritesMonitor /\ q \notin LoadsPage
    BY <1>6 DEF Creates, LoadsMonitor, WritesMonitor, LoadsPage, HasPage
  <2>3. user'[q.user].state # "new"
    BY <1>6, <2>1 DEF Sound, UsersKept
  <2>4. q.target # NoPage => OfUser(page'[q.target], q.user)
    BY <1>6, <2>1 DEF Sound, RowsKept, OfUser
  <2>5. q.pc = "writePage" => \A m \in q.input.monitors : OfUser(monitor'[m], q.user)
    BY <1>6, <2>1 DEF Sound, RowsKept, OfUser
  <2> QED
    BY <1>6, <2>2, <2>3, <2>4, <2>5 DEF Sound
<1> QED
  BY <1>1, <1>2, <1>3, <1>4, <1>5, <1>6 DEF Sound, IsRequest

\* One request goes on, the others keep what they have.
LEMMA RequestGoes ==
  ASSUME PInv, PInv', UsersKept, RowsKept, RequestsSound, NEW r \in Requests, NEW q, Go(r, q), Sound(q)'
  PROVE  RequestsSound' /\ request'[r] = q /\ \A s \in Requests \ {r} : request'[s] = request[s]
<1>1. request' = [request EXCEPT ![r] = q]
  BY DEF Go
<1>2. DOMAIN request' = Requests /\ request'[r] = q /\ \A s \in Requests \ {r} : request'[s] = request[s]
  BY <1>1 DEF RequestsSound
<1>3. \A s \in Requests : Sound(request[s])'
  <2>1. ASSUME NEW s \in Requests \ {r} PROVE Sound(request[s])'
    <3>1. Sound(request[s])
      BY DEF RequestsSound
    <3>2. \A x : Sound(x) => Sound(x)'
      BY SoundStays
    <3> QED
      BY <1>2, <3>1, <3>2 DEF Sound
  <2>2. Sound(request[r])'
    BY <1>2 DEF Sound
  <2> QED
    BY <2>1, <2>2
<1> QED
  BY <1>2, <1>3 DEF RequestsSound

\* Rows only go away, and pages only lose monitors.
Shrinks ==
  /\ \A m \in Monitors :
       /\ monitor'[m].owner = monitor[m].owner /\ monitor'[m].row = monitor[m].row
       /\ monitor'[m].state = monitor[m].state \/ (MonitorHere(m) /\ monitor'[m].state = "gone")
  /\ \A c \in Contacts :
       /\ contact'[c].owner = contact[c].owner
       /\ contact'[c].state = contact[c].state \/ (contact[c].state = "here" /\ contact'[c].state = "gone")
  /\ \A p \in Pages :
       /\ page'[p].owner = page[p].owner /\ page'[p].isPublic = page[p].isPublic
       /\ page'[p].state = page[p].state \/ (page[p].state = "here" /\ page'[p].state = "gone")
       /\ page'[p].monitors \subseteq page[p].monitors
       /\ IF page'[p].state = "here" THEN \A m \in page'[p].monitors : monitor'[m].state = "here"
                                     ELSE page'[p].monitors = {}

LEMMA WellFormedStays ==
  ASSUME PInv, PInv', UsersKept, NEW row, NEW u \in Users, WellFormed(row, user[u].plan)
  PROVE  WellFormed(row, user'[u].plan)
<1>1. user[u].plan \in Plans /\ user'[u].plan \in Plans /\ user[u].plan \in {"FREE", user'[u].plan}
  BY DEF PInv, RowTypes, UsersKept, Plans
<1> QED
  BY <1>1, WellFormedForHigherPlans

LEMMA RowsShrink ==
  ASSUME PInv, PInv', UsersKept, RowsOK, RowTypesOK', Shrinks
  PROVE  RowsOK' /\ RowsKept
<1>1. MonitorRows'
  <2> SUFFICES ASSUME NEW m \in Monitors, monitor'[m].state # "new"
               PROVE  /\ monitor'[m].owner \in Users /\ user'[monitor'[m].owner].state # "new"
                      /\ WellFormed(monitor'[m].row, user'[monitor'[m].owner].plan)
    BY DEF MonitorRows, WellFormed
  <2>1. monitor[m].state # "new" /\ monitor'[m].owner = monitor[m].owner /\ monitor'[m].row = monitor[m].row
    BY DEF Shrinks, MonitorHere
  <2>2. /\ monitor[m].owner \in Users /\ user[monitor[m].owner].state # "new"
        /\ WellFormed(monitor[m].row, user[monitor[m].owner].plan)
    BY <2>1 DEF RowsOK, MonitorRows
  <2> QED
    BY <2>1, <2>2, WellFormedStays DEF UsersKept
<1>2. ContactRows'
  BY DEF ContactRows, RowsOK, Shrinks, UsersKept
<1>3. PageRows'
  <2> SUFFICES ASSUME NEW p \in Pages
               PROVE  /\ page'[p].state = "here" => \A m \in page'[p].monitors :
                           monitor'[m].state = "here" /\ monitor'[m].owner = page'[p].owner
                      /\ page'[p].state # "here" => page'[p].monitors = {}
    BY DEF PageRows, MonitorHere
  <2>1. page[p].monitors \subseteq Monitors
    BY DEF RowsOK, RowTypesOK, PageTypes
  <2>2. ASSUME page'[p].state = "here", NEW m \in page'[p].monitors
        PROVE  monitor'[m].state = "here" /\ monitor'[m].owner = page'[p].owner
    <3>1. page[p].state = "here" /\ m \in page[p].monitors /\ m \in Monitors
      BY <2>1, <2>2 DEF Shrinks
    <3>2. monitor[m].owner = page[p].owner
      BY <3>1 DEF RowsOK, PageRows
    <3> QED
      BY <2>2, <3>1, <3>2 DEF Shrinks
  <2> QED
    BY <2>2 DEF Shrinks
<1>4. RowsKept
  BY DEF RowsKept, OfUser, Shrinks, MonitorHere
<1> QED
  BY <1>1, <1>2, <1>3, <1>4 DEF RowsOK

\* No request begins to overwrite a row.
Calm ==
  \A r \in Requests :
    /\ request'[r] \in WritesMonitor => request'[r] = request[r]
    /\ request'[r] \in HasPage => /\ request[r] \in HasPage
                                  /\ request'[r].target = request[r].target
                                  /\ request'[r].isPublic = request[r].isPublic

LEMMA SettingsStay ==
  ASSUME OneUpdate, Settings, Shrinks, Calm, UNCHANGED <<asked, overlapped>>
  PROVE  OneUpdate' /\ Settings'
<1>1. \A r \in Requests : \A x : Overwrites(r, x)' => Overwrites(r, x)
  BY DEF Overwrites, Calm
<1>2. OneUpdate'
  BY <1>1 DEF OneUpdate
<1>3. ASSUME NEW m \in Monitors \ overlapped
      PROVE  /\ monitor'[m].state = "here" => monitor'[m].row.isActive = asked'[m]
             /\ \A r \in Requests : request'[r] \in WritesMonitor /\ request'[r].target = m =>
                  request'[r].row.isActive = Or(request'[r].input.isActive, monitor'[m].row.isActive)
  BY DEF Settings, Shrinks, Calm, MonitorHere
<1>4. ASSUME NEW p \in Pages \ overlapped
      PROVE  /\ page'[p].state = "here" => page'[p].isPublic = asked'[p]
             /\ \A r \in Requests : request'[r] \in HasPage /\ request'[r].target = p => request'[r].isPublic = page'[p].isPublic
  BY DEF Settings, Shrinks, Calm
<1> QED
  BY <1>2, <1>3, <1>4 DEF Settings, MonitorHere, Or

-----------------------------------------------------------------------------
(* Counting *)

LEMMA LimitTypes ==
  ASSUME PInv, PInv', UsersKept, NEW u \in Users, NEW k \in Kinds
  PROVE  /\ PLAN_LIMITS[user[u].plan][k] \in Nat \ {0} /\ PLAN_LIMITS[user'[u].plan][k] \in Nat \ {0}
         /\ PLAN_LIMITS[user[u].plan][k] <= PLAN_LIMITS[user'[u].plan][k]
<1>1. user[u].plan \in Plans /\ user'[u].plan \in Plans /\ user[u].plan \in {"FREE", user'[u].plan}
  BY DEF PInv, RowTypes, UsersKept, Plans
<1> QED
  BY <1>1, LimitsAssumption DEF Plans

LEMMA CreatingIsFinite ==
  ASSUME NEW k, NEW u
  PROVE  /\ IsFiniteSet(Creating(k, u)) /\ Cardinality(Creating(k, u)) \in Nat
         /\ Cardinality(Requests) \in Nat /\ Cardinality(Creating(k, u)) <= Cardinality(Requests)
<1>1. Creating(k, u) \subseteq Requests /\ IsFiniteSet(Requests)
  BY RequestsAssumption DEF Creating
<1> QED
  BY <1>1, FS_Subset, FS_CardinalityType

\* A user who has not registered owns nothing and asks for nothing.
LEMMA NewUsersOwnNothing ==
  ASSUME RequestsSound, RowsOK, NEW u \in Users, user[u].state = "new", NEW k \in Kinds
  PROVE  Owned(k, u) = {} /\ Creating(k, u) = {}
<1>1. Owned(k, u) = {}
  BY DEF Owned, RowsOK, MonitorRows, ContactRows, MonitorHere
<1>2. Creating(k, u) = {}
  BY DEF Creating, RequestsSound, Sound
<1> QED
  BY <1>1, <1>2

LEMMA ReachStays ==
  ASSUME PInv, PInv', UsersKept, RequestsSound, RowsOK, NEW u \in Users, NEW k \in Kinds, WithinReach(k, u),
         Owned(k, u)' \subseteq Owned(k, u), Creating(k, u)' \subseteq Creating(k, u)
  PROVE  WithinReach(k, u)'
<1> DEFINE now == Owned(k, u)  then == Owned(k, u)'
           making == Creating(k, u)  makes == Creating(k, u)'
<1>1. IsFiniteSet(now)
  BY DEF WithinReach
<1>2. IsFiniteSet(then) /\ Cardinality(then) <= Cardinality(now) /\ Cardinality(then) \in Nat /\ Cardinality(now) \in Nat
  BY <1>1, FS_Subset, FS_CardinalityType
<1>3. IsFiniteSet(making) /\ Cardinality(making) \in Nat /\ Cardinality(Requests) \in Nat
  BY CreatingIsFinite
<1>4. IsFiniteSet(makes) /\ Cardinality(makes) <= Cardinality(making) /\ Cardinality(makes) \in Nat
  BY <1>3, FS_Subset, FS_CardinalityType
<1>5. ASSUME Here(u)'
      PROVE  Cardinality(then) + Cardinality(makes) <= PLAN_LIMITS[user'[u].plan][k] - 1 + Cardinality(Requests)
  <2>1. CASE Here(u)
    <3>1. Cardinality(now) + Cardinality(making) <= PLAN_LIMITS[user[u].plan][k] - 1 + Cardinality(Requests)
      BY <2>1 DEF WithinReach
    <3> HIDE DEF now, then, making, makes
    <3> QED
      BY <1>2, <1>3, <1>4, <3>1, LimitTypes
  <2>2. CASE user[u].state = "new"
    <3>1. Cardinality(now) = 0 /\ Cardinality(making) = 0
      BY <2>2, NewUsersOwnNothing, FS_EmptySet
    <3> HIDE DEF now, then, making, makes
    <3> QED
      BY <1>2, <1>3, <1>4, <3>1, LimitTypes
  <2> QED
    BY <1>5, <2>1, <2>2 DEF UsersKept, Here
<1> QED
  BY <1>2, <1>5 DEF WithinReach

-----------------------------------------------------------------------------
(* Steps after which no row is new and none is about to be *)

LEMMA Basics ==
  ASSUME AInv, [Next]_vars
  PROVE  PInv' /\ UsersKept /\ Bounds'
BY PaidStep, UsersAreKept, BoundsStep DEF AInv

LEMMA RowsUnchanged ==
  ASSUME RowsOK, UNCHANGED <<monitor, contact, page>>
  PROVE  Shrinks /\ RowTypesOK'
<1>1. RowTypesOK'
  BY DEF RowsOK, RowTypesOK, MonitorTypes, ContactTypes, PageTypes
<1>2. Shrinks
  BY DEF RowsOK, PageRows, Shrinks, MonitorHere
<1> QED
  BY <1>1, <1>2

LEMMA QuietOwnStep ==
  ASSUME AInv, [Next]_vars, RowTypesOK', Shrinks, RequestsSound', Calm, UNCHANGED <<asked, overlapped>>,
         \A k \in Kinds, u \in Users : Creating(k, u)' \subseteq Creating(k, u)
  PROVE  AInv'
<1>1. PInv /\ PInv' /\ UsersKept /\ Bounds' /\ RowsOK /\ RequestsSound /\ OneUpdate /\ Settings
  BY Basics DEF AInv
<1>2. Ghosts'
  BY DEF AInv, Ghosts
<1>3. RowsOK'
  BY <1>1, RowsShrink
<1>4. OneUpdate' /\ Settings'
  BY <1>1, SettingsStay
<1>5. ASSUME NEW k \in Kinds, NEW u \in Users PROVE WithinReach(k, u)'
  <2>1. Owned(k, u)' \subseteq Owned(k, u)
    BY DEF Owned, Shrinks, MonitorHere
  <2>2. WithinReach(k, u)
    BY DEF AInv
  <2> QED
    BY <1>1, <2>1, <2>2, ReachStays
<1> QED
  BY <1>1, <1>2, <1>3, <1>4, <1>5 DEF AInv

\* Requests are as they were, or have ended.
LEMMA RowStep ==
  ASSUME AInv, [Next]_vars, RowTypesOK', Shrinks, UNCHANGED <<asked, overlapped>>,
         \/ UNCHANGED request
         \/ request' = [r \in Requests |-> [pc |-> "idle"]]
  PROVE  AInv'
<1>1. PInv /\ PInv' /\ UsersKept /\ RowsOK /\ RequestsSound
  BY Basics DEF AInv
<1>2. RowsKept
  BY <1>1, RowsShrink
<1>3. \A x : Sound(x) => Sound(x)'
  BY <1>1, <1>2, SoundStays
<1>4. Sound([pc |-> "idle"])
  <2>1. IsRequest([pc |-> "idle"])
    BY DEF IsRequest
  <2> QED
    BY <2>1, RequestByPc DEF Sound
<1>5. \A r \in Requests : request'[r] = request[r] \/ request'[r] = [pc |-> "idle"]
  OBVIOUS
<1>6. RequestsSound'
  <2>1. DOMAIN request' = Requests
    BY <1>1 DEF RequestsSound
  <2>2. \A r \in Requests : Sound(request'[r])
    BY <1>1, <1>4, <1>5 DEF RequestsSound
  <2>3. \A r \in Requests : Sound(request[r])'
    BY <1>3, <2>2 DEF Sound
  <2> QED
    BY <2>1, <2>3 DEF RequestsSound
<1>7. [pc |-> "idle"] \notin WritesMonitor \cup HasPage \cup Creates
  BY DEF WritesMonitor, HasPage, Creates
<1>8. Calm
  BY <1>5, <1>7 DEF Calm
<1>9. \A k \in Kinds, u \in Users : Creating(k, u)' \subseteq Creating(k, u)
  BY <1>5, <1>7 DEF Creating
<1> QED
  BY <1>6, <1>8, <1>9, QuietOwnStep

LEMMA DeleteUserStep ==
  ASSUME AInv, NEW v \in Users, DeleteUser(v)
  PROVE  AInv'
<1> DEFINE gone == Owned("monitor", v)
<1>1. /\ monitor' = [m \in Monitors |-> IF m \in gone THEN [monitor[m] EXCEPT !.state = "gone"] ELSE monitor[m]]
      /\ contact' = [c \in Contacts |-> IF c \in Owned("contact", v) THEN [contact[c] EXCEPT !.state = "gone"]
                                        ELSE contact[c]]
      /\ page' = [p \in Pages |-> IF page[p].state = "here" /\ page[p].owner = v
                                  THEN [page[p] EXCEPT !.state = "gone", !.monitors = {}]
                                  ELSE [page[p] EXCEPT !.monitors = @ \ gone]]
      /\ UNCHANGED <<request, asked, overlapped>>
  BY DEF DeleteUser
<1>2. [Next]_vars
  BY DEF Next
<1>3. RowsOK /\ MonitorTypes /\ ContactTypes /\ PageTypes
  BY DEF AInv, RowsOK, RowTypesOK
<1>4. \A m \in gone : m \in Monitors /\ MonitorHere(m)
  BY DEF Owned
<1>5. \A c \in Owned("contact", v) : c \in Contacts /\ contact[c].state = "here"
  BY DEF Owned
<1> HIDE DEF gone
<1>6. MonitorTypes'
  BY <1>1, <1>3 DEF MonitorTypes, States
<1>7. ContactTypes'
  BY <1>1, <1>3 DEF ContactTypes, States
<1>8. PageTypes'
  BY <1>1, <1>3 DEF PageTypes, States
<1>9. Shrinks
  <2>1. ASSUME NEW m \in Monitors
        PROVE  /\ monitor'[m].owner = monitor[m].owner /\ monitor'[m].row = monitor[m].row
               /\ monitor'[m].state = IF m \in gone THEN "gone" ELSE monitor[m].state
    BY <1>1, <1>3 DEF MonitorTypes
  <2>2. ASSUME NEW c \in Contacts
        PROVE  /\ contact'[c].owner = contact[c].owner
               /\ contact'[c].state = contact[c].state \/ (contact[c].state = "here" /\ contact'[c].state = "gone")
    BY <1>1, <1>3, <1>5 DEF ContactTypes
  <2>3. ASSUME NEW p \in Pages
        PROVE  /\ page'[p].owner = page[p].owner /\ page'[p].isPublic = page[p].isPublic
               /\ page'[p].state = page[p].state \/ (page[p].state = "here" /\ page'[p].state = "gone")
               /\ page'[p].monitors \subseteq page[p].monitors
               /\ IF page'[p].state = "here" THEN \A m \in page'[p].monitors : monitor'[m].state = "here"
                                             ELSE page'[p].monitors = {}
    <3>1. page[p] \in [state : States, owner : Users \cup {NoUser}, isPublic : Answers, monitors : SUBSET Monitors]
      BY <1>3 DEF PageTypes
    <3>2. CASE page[p].state = "here" /\ page[p].owner = v
      BY <1>1, <3>1, <3>2
    <3>3. CASE ~(page[p].state = "here" /\ page[p].owner = v)
      <4>1. /\ page'[p].owner = page[p].owner /\ page'[p].isPublic = page[p].isPublic
            /\ page'[p].state = page[p].state /\ page'[p].monitors = page[p].monitors \ gone
        BY <1>1, <3>1, <3>3
      <4>2. ASSUME page[p].state = "here", NEW m \in page[p].monitors \ gone PROVE monitor'[m].state = "here"
        BY <1>3, <2>1, <3>1, <4>2 DEF RowsOK, PageRows, MonitorHere
      <4>3. page[p].state # "here" => page[p].monitors = {}
        BY <1>3 DEF RowsOK, PageRows
      <4> QED
        BY <4>1, <4>2, <4>3
    <3> QED
      BY <3>2, <3>3
  <2> QED
    BY <1>4, <2>1, <2>2, <2>3 DEF Shrinks
<1> QED
  BY <1>1, <1>2, <1>6, <1>7, <1>8, <1>9, RowStep DEF RowTypesOK

LEMMA DeleteMonitorStep ==
  ASSUME AInv, NEW x \in Monitors, DeleteMonitor(x)
  PROVE  AInv'
<1>1. /\ MonitorHere(x) /\ monitor' = [monitor EXCEPT ![x].state = "gone"]
      /\ page' = [p \in Pages |-> [page[p] EXCEPT !.monitors = @ \ {x}]]
      /\ UNCHANGED <<user, contact, request, asked, overlapped>>
  BY DEF DeleteMonitor, userVars
<1>2. [Next]_vars
  BY DEF Next
<1>3. RowsOK /\ MonitorTypes /\ ContactTypes /\ PageTypes
  BY DEF AInv, RowsOK, RowTypesOK
<1>4. MonitorTypes' /\ ContactTypes' /\ PageTypes'
  <2>1. MonitorTypes'
    BY <1>1, <1>3 DEF MonitorTypes, States
  <2>2. ContactTypes'
    BY <1>1, <1>3 DEF ContactTypes
  <2>3. PageTypes'
    BY <1>1, <1>3 DEF PageTypes
  <2> QED
    BY <2>1, <2>2, <2>3
<1>5. Shrinks
  <2>1. ASSUME NEW m \in Monitors
        PROVE  /\ monitor'[m].owner = monitor[m].owner /\ monitor'[m].row = monitor[m].row
               /\ monitor'[m].state = IF m = x THEN "gone" ELSE monitor[m].state
    BY <1>1, <1>3 DEF MonitorTypes
  <2>2. ASSUME NEW p \in Pages
        PROVE  /\ page'[p].owner = page[p].owner /\ page'[p].isPublic = page[p].isPublic
               /\ page'[p].state = page[p].state
               /\ page'[p].monitors \subseteq page[p].monitors
               /\ IF page'[p].state = "here" THEN \A m \in page'[p].monitors : monitor'[m].state = "here"
                                             ELSE page'[p].monitors = {}
    <3>1. page[p] \in [state : States, owner : Users \cup {NoUser}, isPublic : Answers, monitors : SUBSET Monitors]
      BY <1>3 DEF PageTypes
    <3>2. /\ page'[p].owner = page[p].owner /\ page'[p].isPublic = page[p].isPublic
          /\ page'[p].state = page[p].state /\ page'[p].monitors = page[p].monitors \ {x}
      BY <1>1, <3>1
    <3>3. ASSUME page[p].state = "here", NEW m \in page[p].monitors \ {x} PROVE monitor'[m].state = "here"
      BY <1>3, <2>1, <3>1, <3>3 DEF RowsOK, PageRows, MonitorHere
    <3>4. page[p].state # "here" => page[p].monitors = {}
      BY <1>3 DEF RowsOK, PageRows
    <3> QED
      BY <3>2, <3>3, <3>4
  <2> QED
    BY <1>1, <2>1, <2>2 DEF Shrinks
<1> QED
  BY <1>1, <1>2, <1>4, <1>5, RowStep DEF RowTypesOK

LEMMA DeleteContactStep ==
  ASSUME AInv, NEW x \in Contacts, DeleteContact(x)
  PROVE  AInv'
<1>1. /\ contact[x].state = "here" /\ contact' = [contact EXCEPT ![x].state = "gone"]
      /\ UNCHANGED <<monitor, page, request, asked, overlapped>>
  BY DEF DeleteContact
<1>2. [Next]_vars
  BY DEF Next
<1>3. RowsOK /\ MonitorTypes /\ ContactTypes /\ PageTypes
  BY DEF AInv, RowsOK, RowTypesOK
<1>4. RowTypesOK'
  <2>1. ContactTypes'
    BY <1>1, <1>3 DEF ContactTypes, States
  <2> QED
    BY <1>1, <1>3, <2>1 DEF MonitorTypes, PageTypes, RowTypesOK
<1>5. Shrinks
  <2>1. \A c \in Contacts : /\ contact'[c].owner = contact[c].owner
                            /\ contact'[c].state = IF c = x THEN "gone" ELSE contact[c].state
    BY <1>1, <1>3 DEF ContactTypes
  <2> QED
    BY <1>1, <1>3, <2>1 DEF Shrinks, RowsOK, PageRows, MonitorHere
<1> QED
  BY <1>1, <1>2, <1>4, <1>5, RowStep

LEMMA DeletePageStep ==
  ASSUME AInv, NEW x \in Pages, DeletePage(x)
  PROVE  AInv'
<1>1. /\ page[x].state = "here" /\ page' = [page EXCEPT ![x].state = "gone", ![x].monitors = {}]
      /\ UNCHANGED <<monitor, contact, request, asked, overlapped>>
  BY DEF DeletePage
<1>2. [Next]_vars
  BY DEF Next
<1>3. RowsOK /\ MonitorTypes /\ ContactTypes /\ PageTypes
  BY DEF AInv, RowsOK, RowTypesOK
<1>4. RowTypesOK'
  <2>1. PageTypes'
    BY <1>1, <1>3 DEF PageTypes, States
  <2> QED
    BY <1>1, <1>3, <2>1 DEF MonitorTypes, ContactTypes, RowTypesOK
<1>5. Shrinks
  <2>1. ASSUME NEW p \in Pages
        PROVE  /\ page'[p].owner = page[p].owner /\ page'[p].isPublic = page[p].isPublic
               /\ page'[p].state = IF p = x THEN "gone" ELSE page[p].state
               /\ page'[p].monitors = IF p = x THEN {} ELSE page[p].monitors
    BY <1>1, <1>3 DEF PageTypes
  <2>2. ASSUME NEW p \in Pages
        PROVE  /\ page'[p].state = page[p].state \/ (page[p].state = "here" /\ page'[p].state = "gone")
               /\ page'[p].monitors \subseteq page[p].monitors
               /\ IF page'[p].state = "here" THEN \A m \in page'[p].monitors : monitor'[m].state = "here"
                                             ELSE page'[p].monitors = {}
    <3>0. page[x].state = "here"
      BY <1>1
    <3>1. CASE p = x
      <4>1. page'[p].state = "gone" /\ page'[p].monitors = {}
        BY <2>1, <3>1
      <4> QED
        BY <3>0, <3>1, <4>1
    <3>2. CASE p # x
      BY <1>1, <1>3, <2>1, <3>2 DEF RowsOK, PageRows, MonitorHere
    <3> QED
      BY <3>1, <3>2
  <2> QED
    BY <1>1, <2>1, <2>2 DEF Shrinks
<1> QED
  BY <1>1, <1>2, <1>4, <1>5, RowStep

\* What billing alone does, and what changes nothing of it.
LEMMA OtherStep ==
  ASSUME AInv, [Next]_vars, UNCHANGED ownVars
  PROVE  AInv'
<1>1. RowsOK /\ UNCHANGED <<monitor, contact, page, request, asked, overlapped>>
  BY DEF AInv, ownVars
<1> QED
  BY <1>1, RowsUnchanged, RowStep

LEMMA OwnCrashStep ==
  ASSUME AInv, Crash
  PROVE  AInv'
<1>1. RowsOK /\ [Next]_vars
  BY DEF AInv, Next
<1>2. request' = [r \in Requests |-> [pc |-> "idle"]] /\ UNCHANGED <<monitor, contact, page, asked, overlapped>>
  BY DEF Crash
<1> QED
  BY <1>1, <1>2, RowsUnchanged, RowStep

-----------------------------------------------------------------------------
(* Steps of requests *)

\* A request goes on or ends, having written nothing, and is not about to.
LEMMA RequestStep ==
  ASSUME AInv, [Next]_vars, UNCHANGED <<monitor, contact, page, asked, overlapped>>,
         NEW r \in Requests, NEW q, Go(r, q), Sound(q), q.pc # "create", q \notin WritesMonitor,
         q \in HasPage => request[r] \in HasPage /\ q.target = request[r].target /\ q.isPublic = request[r].isPublic
  PROVE  AInv'
<1>1. PInv /\ PInv' /\ UsersKept /\ RowsOK /\ RequestsSound
  BY Basics DEF AInv
<1>2. Shrinks /\ RowTypesOK'
  BY <1>1, RowsUnchanged
<1>3. RowsKept
  BY <1>1, <1>2, RowsShrink
<1>4. Sound(q)'
  BY <1>1, <1>3, SoundStays
<1>5. RequestsSound' /\ request'[r] = q /\ \A s \in Requests \ {r} : request'[s] = request[s]
  BY <1>1, <1>3, <1>4, RequestGoes
<1>6. Calm
  BY <1>5 DEF Calm
<1>7. \A k \in Kinds, u \in Users : Creating(k, u)' \subseteq Creating(k, u)
  BY <1>5 DEF Creating
<1> QED
  BY <1>2, <1>5, <1>6, <1>7, QuietOwnStep

LEMMA IdleIsSound == Sound([pc |-> "idle"]) /\ [pc |-> "idle"] \notin HasPage \cup WritesMonitor \cup Creates
<1>1. IsRequest([pc |-> "idle"])
  BY DEF IsRequest
<1> QED
  BY <1>1, RequestByPc DEF Sound

LEMMA EndStep ==
  ASSUME AInv, [Next]_vars, UNCHANGED <<monitor, contact, page, asked, overlapped>>, NEW r \in Requests, End(r)
  PROVE  AInv'
BY RequestStep, IdleIsSound DEF End

LEMMA StartCreateStep ==
  ASSUME AInv, NEW r \in Requests, NEW u \in Users, NEW k \in Kinds, NEW input \in Inputs \cup {Empty},
         k = "monitor" => input \in Inputs, StartCreate(r, u, k, input), [Next]_vars
  PROVE  AInv'
<1> DEFINE q == [pc |-> "count", kind |-> k, user |-> u, plan |-> user[u].plan, input |-> input]
<1>1. Here(u) /\ Go(r, q) /\ UNCHANGED <<monitor, contact, page, asked, overlapped>>
  BY DEF StartCreate
<1>2. user[u].plan \in Plans
  BY DEF AInv, PInv, RowTypes
<1>3. q \in Creates /\ q.pc = "count"
  BY <1>2 DEF Creates
<1>4. IsRequest(q)
  BY <1>3 DEF IsRequest
<1>5. q \notin LoadsMonitor /\ q \notin WritesMonitor /\ q \notin LoadsPage /\ q \notin HasPage
  BY <1>4, RequestByPc
<1>6. Sound(q)
  BY <1>1, <1>3, <1>4, <1>5 DEF Sound, Here
<1> HIDE DEF q
<1> QED
  BY <1>1, <1>3, <1>5, <1>6, RequestStep

LEMMA StartUpdateStep ==
  ASSUME AInv, NEW r \in Requests, NEW u \in Users, NEW m \in Monitors, NEW input \in Inputs,
         StartUpdate(r, u, m, input), [Next]_vars
  PROVE  AInv'
<1> DEFINE q == [pc |-> "loadMonitor", target |-> m, user |-> u, plan |-> user[u].plan, input |-> input]
<1>1. Here(u) /\ Go(r, q) /\ UNCHANGED <<monitor, contact, page, asked, overlapped>>
  BY DEF StartUpdate
<1>2. user[u].plan \in Plans
  BY DEF AInv, PInv, RowTypes
<1>3. q \in LoadsMonitor /\ q.pc = "loadMonitor"
  BY <1>2 DEF LoadsMonitor
<1>4. IsRequest(q)
  BY <1>3 DEF IsRequest
<1>5. q \notin Creates /\ q \notin WritesMonitor /\ q \notin LoadsPage /\ q \notin HasPage
  BY <1>4, RequestByPc
<1>6. Sound(q)
  BY <1>1, <1>3, <1>4, <1>5 DEF Sound, Here
<1> HIDE DEF q
<1> QED
  BY <1>1, <1>3, <1>5, <1>6, RequestStep

LEMMA StartPageStep ==
  ASSUME AInv, NEW r \in Requests, NEW u \in Users, NEW p \in Pages \cup {NoPage}, NEW input \in PageInputs,
         StartPage(r, u, p, input), [Next]_vars
  PROVE  AInv'
<1> DEFINE q == [pc |-> "loadPage", target |-> p, user |-> u, input |-> input]
<1>1. Here(u) /\ Go(r, q) /\ UNCHANGED <<monitor, contact, page, asked, overlapped>>
  BY DEF StartPage
<1>2. q \in LoadsPage /\ q.pc = "loadPage"
  BY DEF LoadsPage
<1>3. IsRequest(q)
  BY <1>2 DEF IsRequest
<1>4. q \notin Creates /\ q \notin LoadsMonitor /\ q \notin WritesMonitor /\ q \notin HasPage
  BY <1>3, RequestByPc
<1>5. Sound(q)
  BY <1>1, <1>2, <1>3, <1>4 DEF Sound, Here
<1> HIDE DEF q
<1> QED
  BY <1>1, <1>2, <1>4, <1>5, RequestStep

LEMMA CheckPageStep ==
  ASSUME AInv, NEW r \in Requests, CheckPage(r), [Next]_vars
  PROVE  AInv'
<1> DEFINE q == request[r]
<1>1. q.pc = "checkPage" /\ UNCHANGED <<monitor, contact, page, asked, overlapped>>
  BY DEF CheckPage
<1>2. Sound(q) /\ q \in HasPage
  <2>1. Sound(q)
    BY DEF AInv, RequestsSound
  <2> QED
    BY <1>1, <2>1, RequestByPc DEF Sound
<1>3. CASE ~AssertOwnedMonitors(q)
  <2>1. End(r)
    BY <1>3 DEF CheckPage
  <2> QED
    BY <1>1, <2>1, EndStep
<1>4. CASE AssertOwnedMonitors(q)
  <2> DEFINE n == [q EXCEPT !.pc = "writePage"]
  <2>1. Go(r, n)
    BY <1>4 DEF CheckPage
  <2>2. n \in HasPage /\ n.pc = "writePage" /\ n.target = q.target /\ n.isPublic = q.isPublic /\ n.user = q.user
        /\ n.input = q.input
    BY <1>2 DEF HasPage
  <2>3. IsRequest(n)
    BY <2>2 DEF IsRequest
  <2>4. n \notin Creates /\ n \notin LoadsMonitor /\ n \notin WritesMonitor /\ n \notin LoadsPage
    BY <2>2, <2>3, RequestByPc
  <2>5. \A m \in q.input.monitors : OfUser(monitor[m], q.user)
    BY <1>4 DEF AssertOwnedMonitors, Owned, MonitorHere, OfUser
  <2> HIDE DEF n
  <2>6. Sound(n)
    BY <1>2, <2>2, <2>3, <2>4, <2>5 DEF Sound
  <2> QED
    BY <1>1, <1>2, <2>1, <2>2, <2>4, <2>6, RequestStep
<1> QED
  BY <1>3, <1>4

\* A count that finds room lets the request create one more.
LEMMA CountStep ==
  ASSUME AInv, NEW r \in Requests, Count(r), [Next]_vars
  PROVE  AInv'
<1> DEFINE q == request[r]
<1> PICK n : n = [q EXCEPT !.pc = "create"]
  OBVIOUS
<1>1. q.pc = "count" /\ UNCHANGED <<userVars, monitor, contact, page, asked, overlapped>>
  BY DEF Count
<1>2. Sound(q) /\ q \in Creates
  <2>1. Sound(q)
    BY DEF AInv, RequestsSound
  <2> QED
    BY <1>1, <2>1, RequestByPc DEF Sound
<1>3. CASE End(r)
  BY <1>1, <1>3, EndStep
<1>4. CASE Go(r, n) /\ WithinLimit(r) /\ (q.kind = "monitor" => Accepts(q.input, q.plan, Empty))
  <2>1. /\ n \in Creates /\ n.pc = "create" /\ n.kind = q.kind /\ n.user = q.user /\ n.plan = q.plan /\ n.input = q.input
        /\ q.kind \in Kinds /\ q.user \in Users /\ q.plan \in Plans
    BY <1>2 DEF Creates
  <2>2. IsRequest(n)
    BY <2>1 DEF IsRequest
  <2>3. n \notin LoadsMonitor /\ n \notin WritesMonitor /\ n \notin LoadsPage /\ n \notin HasPage
    BY <2>1, <2>2, RequestByPc
  <2> DEFINE k == q.kind
             u == q.user
  <2>4. Sound(n)
    BY <1>2, <1>4, <2>1, <2>2, <2>3 DEF Sound
  <2>5. PInv /\ PInv' /\ UsersKept /\ Bounds' /\ RowsOK /\ RequestsSound /\ OneUpdate /\ Settings /\ Ghosts
    BY Basics DEF AInv
  <2>6. Shrinks /\ RowTypesOK' /\ RowsOK' /\ RowsKept
    BY <1>1, <2>5, RowsUnchanged, RowsShrink
  <2>7. Sound(n)'
    BY <2>4, <2>5, <2>6, SoundStays
  <2>8. RequestsSound' /\ request'[r] = n /\ \A s \in Requests \ {r} : request'[s] = request[s]
    BY <1>4, <2>5, <2>6, <2>7, RequestGoes
  <2>9. Calm
    BY <2>3, <2>8 DEF Calm
  <2>10. OneUpdate' /\ Settings'
    BY <1>1, <2>5, <2>6, <2>9, SettingsStay
  <2>11. Ghosts'
    BY <1>1, <2>5 DEF Ghosts
  <2>12. ASSUME NEW j \in Kinds, NEW v \in Users PROVE WithinReach(j, v)'
    <3>1. WithinReach(j, v) /\ Owned(j, v)' = Owned(j, v)
      BY <1>1 DEF AInv, Owned, MonitorHere
    <3>2. CASE j = k /\ v = u
      <4>1. Creating(j, v)' \subseteq Requests /\ IsFiniteSet(Requests)
        BY RequestsAssumption DEF Creating
      <4>2. Cardinality(Creating(j, v)') <= Cardinality(Requests)
            /\ Cardinality(Creating(j, v)') \in Nat /\ Cardinality(Requests) \in Nat
        BY <4>1, FS_Subset, FS_CardinalityType
      <4>3. Cardinality(Owned(j, v)) < PLAN_LIMITS[q.plan][j] /\ Cardinality(Owned(j, v)) \in Nat
        BY <1>4, <3>1, <3>2, FS_CardinalityType DEF WithinLimit, WithinReach
      <4>4. PLAN_LIMITS[q.plan][j] <= PLAN_LIMITS[user[v].plan][j]
            /\ PLAN_LIMITS[q.plan][j] \in Nat /\ PLAN_LIMITS[user[v].plan][j] \in Nat
        <5>1. q.plan \in {"FREE", user[v].plan} /\ user[v].plan \in Plans
          BY <1>2, <2>1, <2>5, <3>2 DEF Sound, PInv, RowTypes
        <5> QED
          BY <5>1, LimitsAssumption DEF Plans
      <4>5. Cardinality(Owned(j, v)) + Cardinality(Creating(j, v)') <= PLAN_LIMITS[user[v].plan][j] - 1 + Cardinality(Requests)
        BY <4>2, <4>3, <4>4
      <4> QED
        BY <1>1, <3>1, <4>5 DEF WithinReach, userVars, Here
    <3>3. CASE ~(j = k /\ v = u)
      <4>1. Creating(j, v)' \subseteq Creating(j, v)
        BY <2>1, <2>8, <3>3 DEF Creating
      <4> QED
        BY <2>5, <3>1, <4>1, ReachStays
    <3> QED
      BY <3>2, <3>3
  <2> QED
    BY <2>5, <2>6, <2>8, <2>10, <2>11, <2>12 DEF AInv
<1> QED
  BY <1>3, <1>4 DEF Count

\* The request has written and ends.
LEMMA RequestEnds ==
  ASSUME PInv, PInv', UsersKept, RowsKept, RequestsSound, NEW r \in Requests, End(r)
  PROVE  /\ RequestsSound' /\ \A s \in Requests \ {r} : request'[s] = request[s]
         /\ \A k, u : Creating(k, u)' = Creating(k, u) \ {r}
         /\ \A s \in Requests : \A x : Overwrites(s, x)' => s # r /\ Overwrites(s, x)
<1>1. Sound([pc |-> "idle"])'
  BY IdleIsSound, SoundStays
<1>2. RequestsSound' /\ request'[r] = [pc |-> "idle"] /\ \A s \in Requests \ {r} : request'[s] = request[s]
  BY <1>1, RequestGoes DEF End
<1>3. request'[r] \notin Creates /\ request'[r] \notin WritesMonitor /\ request'[r] \notin HasPage
  BY <1>2, IdleIsSound
<1>4. \A k, u : Creating(k, u)' = Creating(k, u) \ {r}
  BY <1>2, <1>3 DEF Creating
<1>5. \A s \in Requests : \A x : Overwrites(s, x)' => s # r /\ Overwrites(s, x)
  BY <1>2, <1>3 DEF Overwrites
<1> QED
  BY <1>2, <1>4, <1>5

LEMMA OneUpdateStays ==
  ASSUME OneUpdate, UNCHANGED overlapped, \A s \in Requests : \A x : Overwrites(s, x)' => Overwrites(s, x)
  PROVE  OneUpdate'
BY DEF OneUpdate

\* What was about to be created has been.
LEMMA ReachMoves ==
  ASSUME NEW k \in Kinds, NEW u \in Users, WithinReach(k, u), Here(u), UNCHANGED user, PInv,
         NEW r \in Creating(k, u), Creating(k, u)' = Creating(k, u) \ {r},
         NEW x, Owned(k, u)' = Owned(k, u) \cup {x}
  PROVE  WithinReach(k, u)'
<1> DEFINE now == Owned(k, u)  making == Creating(k, u)
<1>1. IsFiniteSet(now) /\ Cardinality(now) \in Nat
  BY FS_CardinalityType DEF WithinReach
<1>2. /\ IsFiniteSet(now \cup {x}) /\ Cardinality(now \cup {x}) \in Nat
      /\ Cardinality(now \cup {x}) <= Cardinality(now) + 1
  <2> HIDE DEF now
  <2>1. IsFiniteSet(now \cup {x})
        /\ Cardinality(now \cup {x}) = IF x \in now THEN Cardinality(now) ELSE Cardinality(now) + 1
    BY <1>1, FS_AddElement
  <2> QED
    BY <1>1, <2>1
<1>3. IsFiniteSet(making) /\ Cardinality(making) \in Nat /\ Cardinality(Requests) \in Nat
  BY CreatingIsFinite
<1>4. Cardinality(making \ {r}) = Cardinality(making) - 1
  BY <1>3, FS_RemoveElement
<1>5. PLAN_LIMITS[user[u].plan][k] \in Nat
  BY LimitsAssumption DEF PInv, RowTypes
<1>6. Cardinality(now) + Cardinality(making) <= PLAN_LIMITS[user[u].plan][k] - 1 + Cardinality(Requests)
  BY DEF WithinReach
<1>7. Cardinality(now \cup {x}) + Cardinality(making \ {r}) <= PLAN_LIMITS[user[u].plan][k] - 1 + Cardinality(Requests)
  <2> HIDE DEF now, making
  <2> QED
    BY <1>1, <1>2, <1>3, <1>4, <1>5, <1>6
<1> QED
  BY <1>2, <1>7 DEF WithinReach, Here

LEMMA CreateMonitorStep ==
  ASSUME AInv, NEW r \in Requests, CreateMonitor(r), [Next]_vars
  PROVE  AInv'
<1> PICK q : q = request[r]
  OBVIOUS
<1> PICK row : row = normalizeMonitorInput(q.input, Empty)
  OBVIOUS
<1>1. q.pc = "create" /\ q.kind = "monitor" /\ End(r) /\ UNCHANGED <<userVars, contact, page, overlapped>>
  BY DEF CreateMonitor
<1>2. PICK m \in Monitors :
        /\ monitor[m].state = "new"
        /\ IF Here(q.user)
           THEN /\ monitor' = [monitor EXCEPT ![m] = [state |-> "here", owner |-> q.user, row |-> row]]
                /\ asked' = [asked EXCEPT ![m] = row.isActive]
           ELSE UNCHANGED <<monitor, asked>>
  BY DEF CreateMonitor
<1>3. CASE ~Here(q.user)
  BY <1>1, <1>2, <1>3, EndStep
<1>4. CASE Here(q.user)
  <2>1. monitor' = [monitor EXCEPT ![m] = [state |-> "here", owner |-> q.user, row |-> row]]
        /\ asked' = [asked EXCEPT ![m] = row.isActive]
    BY <1>2, <1>4
  <2>2. PInv /\ PInv' /\ UsersKept /\ Bounds' /\ RowsOK /\ RequestsSound /\ OneUpdate /\ Settings /\ Ghosts
        /\ UNCHANGED user
    BY <1>1, Basics DEF AInv, userVars
  <2>3. Sound(q) /\ q \in Creates /\ q.user \in Users /\ q.plan \in Plans /\ q.input \in Inputs
    <3>1. Sound(q)
      BY <2>2 DEF RequestsSound
    <3>2. q \in Creates
      BY <1>1, <3>1, RequestByPc DEF Sound
    <3> QED
      BY <1>1, <3>1, <3>2 DEF Sound, Creates
  <2>4. WellFormed(row, user[q.user].plan) /\ row \in Rows /\ row.isActive \in Answers
    <3>1. Accepts(q.input, q.plan, Empty) /\ q.plan \in {"FREE", user[q.user].plan} /\ user[q.user].plan \in Plans
      BY <1>1, <2>2, <2>3 DEF Sound, PInv, RowTypes
    <3>2. WellFormed(row, q.plan)
      BY <2>3, <3>1, NormalizedIsWellFormed
    <3>3. WellFormed(row, user[q.user].plan)
      BY <2>3, <3>1, <3>2, WellFormedForHigherPlans
    <3> QED
      BY <3>3 DEF WellFormed, Rows, Answers
  <2>5. MonitorTypes /\ ContactTypes /\ PageTypes /\ MonitorRows /\ ContactRows /\ PageRows
    BY <2>2 DEF RowsOK, RowTypesOK
  <2>6. monitor'[m] = [state |-> "here", owner |-> q.user, row |-> row] /\ \A x \in Monitors \ {m} : monitor'[x] = monitor[x]
    BY <2>1, <2>5 DEF MonitorTypes
  <2>7. RowTypesOK'
    <3>1. MonitorTypes'
      BY <2>1, <2>3, <2>4, <2>5 DEF MonitorTypes, States
    <3> QED
      BY <1>1, <2>5, <3>1 DEF RowTypesOK, ContactTypes, PageTypes
  <2>8. RowsOK'
    <3>1. MonitorRows'
      <4>1. user[q.user].state # "new"
        BY <1>4 DEF Here
      <4> QED
        BY <2>2, <2>3, <2>4, <2>5, <2>6, <4>1 DEF MonitorRows, WellFormed
    <3>2. ContactRows'
      BY <1>1, <2>2, <2>5 DEF ContactRows
    <3>3. PageRows'
      <4>1. \A p \in Pages : \A x \in page[p].monitors : x \in Monitors /\ x # m
        BY <1>2, <2>5 DEF PageTypes, PageRows, MonitorHere
      <4> QED
        BY <1>1, <2>5, <2>6, <4>1 DEF PageRows, MonitorHere
    <3> QED
      BY <2>7, <3>1, <3>2, <3>3 DEF RowsOK
  <2>9. RowsKept
    BY <1>1, <1>2, <2>6 DEF RowsKept, OfUser
  <2>10. /\ RequestsSound' /\ \A s \in Requests \ {r} : request'[s] = request[s]
         /\ \A k, u : Creating(k, u)' = Creating(k, u) \ {r}
         /\ \A s \in Requests : \A x : Overwrites(s, x)' => s # r /\ Overwrites(s, x)
    BY <1>1, <2>2, <2>9, RequestEnds
  <2>11. OneUpdate'
    BY <1>1, <2>2, <2>10, OneUpdateStays
  <2>12. asked'[m] = row.isActive /\ \A x \in (Monitors \cup Pages) \ {m} : asked'[x] = asked[x]
    BY <2>1, <2>2 DEF Ghosts
  <2>13. Ghosts'
    BY <1>1, <2>1, <2>2, <2>4 DEF Ghosts
  <2>14. Settings'
    <3>1. ASSUME NEW s \in Requests, request'[s] \in WritesMonitor PROVE request'[s] = request[s] /\ request[s].target \in Monitors \ {m}
      <4>1. \A x : request'[s].target = x => Overwrites(s, x)'
        BY <3>1 DEF Overwrites, WritesMonitor
      <4>2. s # r /\ request'[s] = request[s]
        BY <2>10, <4>1
      <4>3. OfUser(monitor[request[s].target], request[s].user) /\ request[s].target \in Monitors
        BY <2>2, <3>1, <4>2 DEF RequestsSound, Sound, WritesMonitor
      <4> QED
        BY <1>2, <4>2, <4>3 DEF OfUser
    <3>2. ASSUME NEW x \in Monitors \ overlapped
          PROVE  /\ monitor'[x].state = "here" => monitor'[x].row.isActive = asked'[x]
                 /\ \A s \in Requests : request'[s] \in WritesMonitor /\ request'[s].target = x =>
                      request'[s].row.isActive = Or(request'[s].input.isActive, monitor'[x].row.isActive)
      <4>1. CASE x = m
        BY <2>6, <2>12, <3>1, <4>1
      <4>2. CASE x # m
        BY <2>2, <2>6, <2>12, <3>1, <4>2 DEF Settings, MonitorHere
      <4> QED
        BY <4>1, <4>2
    <3>3. ASSUME NEW p \in Pages \ overlapped
          PROVE  /\ page'[p].state = "here" => page'[p].isPublic = asked'[p]
                 /\ \A s \in Requests : request'[s] \in HasPage /\ request'[s].target = p => request'[s].isPublic = page'[p].isPublic
      <4>1. \A s \in Requests : request'[s] \in HasPage /\ request'[s].target = p => request'[s] = request[s]
        BY <2>10 DEF Overwrites
      <4>2. p # m
        BY IdsAssumption
      <4> QED
        BY <1>1, <2>2, <2>12, <4>1, <4>2 DEF Settings
    <3> QED
      BY <1>1, <3>2, <3>3 DEF Settings, MonitorHere, Or
  <2>15. ASSUME NEW k \in Kinds, NEW u \in Users PROVE WithinReach(k, u)'
    <3>1. WithinReach(k, u)
      BY DEF AInv
    <3>2. CASE k = "monitor" /\ u = q.user
      <4>1. r \in Creating(k, u)
        BY <1>1, <2>3, <3>2 DEF Creating
      <4>2. Owned(k, u)' = Owned(k, u) \cup {m}
        BY <1>2, <2>6, <3>2 DEF Owned, MonitorHere
      <4>3. Creating(k, u)' = Creating(k, u) \ {r}
        BY <2>10
      <4> QED
        BY <1>4, <2>2, <3>1, <3>2, <4>1, <4>2, <4>3, ReachMoves
    <3>3. CASE ~(k = "monitor" /\ u = q.user)
      <4>1. Owned(k, u)' \subseteq Owned(k, u)
        BY <1>1, <2>6, <3>3 DEF Owned, MonitorHere
      <4>2. Creating(k, u)' \subseteq Creating(k, u)
        BY <2>10
      <4> QED
        BY <2>2, <3>1, <4>1, <4>2, ReachStays
    <3> QED
      BY <3>2, <3>3
  <2> QED
    BY <2>2, <2>8, <2>10, <2>11, <2>13, <2>14, <2>15 DEF AInv
<1> QED
  BY <1>3, <1>4

LEMMA CreateContactStep ==
  ASSUME AInv, NEW r \in Requests, CreateContact(r), [Next]_vars
  PROVE  AInv'
<1> PICK q : q = request[r]
  OBVIOUS
<1>1. q.pc = "create" /\ q.kind = "contact" /\ End(r) /\ UNCHANGED <<userVars, monitor, page, asked, overlapped>>
  BY DEF CreateContact
<1>2. PICK c \in Contacts :
        /\ contact[c].state = "new"
        /\ contact' = IF Here(q.user) THEN [contact EXCEPT ![c] = [state |-> "here", owner |-> q.user]] ELSE contact
  BY DEF CreateContact
<1>3. CASE ~Here(q.user)
  BY <1>1, <1>2, <1>3, EndStep
<1>4. CASE Here(q.user)
  <2>1. contact' = [contact EXCEPT ![c] = [state |-> "here", owner |-> q.user]]
    BY <1>2, <1>4
  <2>2. PInv /\ PInv' /\ UsersKept /\ Bounds' /\ RowsOK /\ RequestsSound /\ OneUpdate /\ Settings /\ Ghosts
        /\ UNCHANGED user
    BY <1>1, Basics DEF AInv, userVars
  <2>3. Sound(q) /\ q \in Creates /\ q.user \in Users
    <3>1. Sound(q)
      BY <2>2 DEF RequestsSound
    <3>2. q \in Creates
      BY <1>1, <3>1, RequestByPc DEF Sound
    <3> QED
      BY <3>1, <3>2 DEF Creates
  <2>4. MonitorTypes /\ ContactTypes /\ PageTypes /\ MonitorRows /\ ContactRows /\ PageRows
    BY <2>2 DEF RowsOK, RowTypesOK
  <2>5. contact'[c] = [state |-> "here", owner |-> q.user] /\ \A x \in Contacts \ {c} : contact'[x] = contact[x]
    BY <2>1, <2>4 DEF ContactTypes
  <2>6. RowsOK'
    <3>1. ContactTypes'
      BY <2>1, <2>3, <2>4 DEF ContactTypes, States
    <3>2. ContactRows'
      BY <1>4, <2>2, <2>3, <2>4, <2>5 DEF ContactRows, Here
    <3>3. MonitorTypes' /\ PageTypes' /\ MonitorRows' /\ PageRows'
      BY <1>1, <2>2, <2>4 DEF MonitorTypes, PageTypes, MonitorRows, PageRows, WellFormed, MonitorHere
    <3> QED
      BY <3>1, <3>2, <3>3 DEF RowsOK, RowTypesOK
  <2>7. RowsKept
    BY <1>1 DEF RowsKept, OfUser
  <2>8. /\ RequestsSound' /\ \A s \in Requests \ {r} : request'[s] = request[s]
        /\ \A k, u : Creating(k, u)' = Creating(k, u) \ {r}
        /\ \A s \in Requests : \A x : Overwrites(s, x)' => s # r /\ Overwrites(s, x)
    BY <1>1, <2>2, <2>7, RequestEnds
  <2>9. OneUpdate'
    BY <1>1, <2>2, <2>8, OneUpdateStays
  <2>10. Ghosts'
    BY <1>1, <2>2 DEF Ghosts
  <2>11. Settings'
    <3>1. ASSUME NEW x \in Monitors \ overlapped
          PROVE  \A s \in Requests : request'[s] \in WritesMonitor /\ request'[s].target = x =>
                      request'[s].row.isActive = Or(request'[s].input.isActive, monitor'[x].row.isActive)
      BY <1>1, <2>2, <2>8 DEF Settings, Overwrites
    <3>2. ASSUME NEW p \in Pages \ overlapped
          PROVE  \A s \in Requests : request'[s] \in HasPage /\ request'[s].target = p => request'[s].isPublic = page'[p].isPublic
      BY <1>1, <2>2, <2>8 DEF Settings, Overwrites
    <3> QED
      BY <1>1, <2>2, <3>1, <3>2 DEF Settings, MonitorHere, Or
  <2>12. ASSUME NEW k \in Kinds, NEW u \in Users PROVE WithinReach(k, u)'
    <3>1. WithinReach(k, u)
      BY DEF AInv
    <3>2. CASE k = "contact" /\ u = q.user
      <4>1. r \in Creating(k, u)
        BY <1>1, <2>3, <3>2 DEF Creating
      <4>2. Owned(k, u)' = Owned(k, u) \cup {c}
        BY <1>2, <2>5, <3>2 DEF Owned
      <4>3. Creating(k, u)' = Creating(k, u) \ {r}
        BY <2>8
      <4> QED
        BY <1>4, <2>2, <3>1, <3>2, <4>1, <4>2, <4>3, ReachMoves
    <3>3. CASE ~(k = "contact" /\ u = q.user)
      <4>1. Owned(k, u)' \subseteq Owned(k, u)
        BY <1>1, <2>5, <3>3 DEF Owned, MonitorHere, Kinds
      <4>2. Creating(k, u)' \subseteq Creating(k, u)
        BY <2>8
      <4> QED
        BY <2>2, <3>1, <4>1, <4>2, ReachStays
    <3> QED
      BY <3>2, <3>3
  <2> QED
    BY <2>2, <2>6, <2>8, <2>9, <2>10, <2>11, <2>12 DEF AInv
<1> QED
  BY <1>3, <1>4

\* A request that has read the row of x, and nothing else about it, goes on to write it.
LEMMA UpdateBegins ==
  ASSUME AInv, [Next]_vars, UNCHANGED <<userVars, monitor, contact, page, asked>>,
         NEW r \in Requests, NEW n, Go(r, n), Sound(n), n \notin Creates, NEW x \in Monitors \cup Pages \cup {NoPage},
         Overlapping(x),
         \A y \in Monitors \cup Pages : Overwrites(r, y)' => x = y,
         n \in WritesMonitor => n.row.isActive = Or(n.input.isActive, monitor[n.target].row.isActive),
         n \in HasPage /\ n.target # NoPage => n.isPublic = page[n.target].isPublic
  PROVE  AInv'
<1>1. PInv /\ PInv' /\ UsersKept /\ Bounds' /\ RowsOK /\ RequestsSound /\ OneUpdate /\ Settings /\ Ghosts
  BY Basics DEF AInv
<1>2. Shrinks /\ RowTypesOK' /\ RowsOK' /\ RowsKept
  BY <1>1, RowsUnchanged, RowsShrink
<1>3. Sound(n)'
  BY <1>1, <1>2, SoundStays
<1>4. RequestsSound' /\ request'[r] = n /\ \A s \in Requests \ {r} : request'[s] = request[s]
  BY <1>1, <1>2, <1>3, RequestGoes
<1>5. overlapped \subseteq overlapped' /\ overlapped' \subseteq overlapped \cup (IF x = NoPage THEN {} ELSE {x})
  BY DEF Overlapping
<1>6. Ghosts'
  BY <1>1, <1>5 DEF Ghosts
<1>7. OneUpdate'
  <2> SUFFICES ASSUME NEW y \in (Monitors \cup Pages) \ overlapped', NEW s \in Requests, NEW t \in Requests,
                      Overwrites(s, y)', Overwrites(t, y)'
               PROVE  s = t
    BY DEF OneUpdate
  <2>1. \A a \in Requests \ {r} : Overwrites(a, y)' => Overwrites(a, y)
    BY <1>4 DEF Overwrites
  <2>2. ASSUME Overwrites(r, y)', NEW a \in Requests \ {r}, Overwrites(a, y) PROVE FALSE
    <3>1. x = y /\ x # NoPage
      BY <2>2, IdsAssumption
    <3>2. Updating(x)
      BY <2>2, <3>1 DEF Overwrites, Updating, WritesMonitor, HasPage
    <3> QED
      BY <3>1, <3>2 DEF Overlapping
  <2>3. y \notin overlapped
    BY <1>5
  <2> QED
    BY <1>1, <2>1, <2>2, <2>3 DEF OneUpdate
<1>8. Settings'
  <2>1. ASSUME NEW m \in Monitors \ overlapped'
        PROVE  /\ monitor'[m].state = "here" => monitor'[m].row.isActive = asked'[m]
               /\ \A s \in Requests : request'[s] \in WritesMonitor /\ request'[s].target = m =>
                      request'[s].row.isActive = Or(request'[s].input.isActive, monitor'[m].row.isActive)
    <3>1. m \in Monitors \ overlapped
      BY <1>5
    <3>2. ASSUME NEW s \in Requests \ {r}
          PROVE request'[s] \in WritesMonitor /\ request'[s].target = m =>
                      request'[s].row.isActive = Or(request'[s].input.isActive, monitor'[m].row.isActive)
      BY <1>1, <1>4, <3>1 DEF Settings
    <3>3. n \in WritesMonitor /\ n.target = m => n.row.isActive = Or(n.input.isActive, monitor'[m].row.isActive)
      OBVIOUS
    <3>4. monitor'[m].state = "here" => monitor'[m].row.isActive = asked'[m]
      BY <1>1, <3>1 DEF Settings, MonitorHere
    <3> QED
      BY <1>4, <3>2, <3>3, <3>4
  <2>2. ASSUME NEW p \in Pages \ overlapped'
        PROVE  /\ page'[p].state = "here" => page'[p].isPublic = asked'[p]
               /\ \A s \in Requests : request'[s] \in HasPage /\ request'[s].target = p => request'[s].isPublic = page'[p].isPublic
    <3>1. p \in Pages \ overlapped /\ p # NoPage
      BY <1>5, IdsAssumption
    <3>2. ASSUME NEW s \in Requests \ {r}
          PROVE  request'[s] \in HasPage /\ request'[s].target = p => request'[s].isPublic = page'[p].isPublic
      BY <1>1, <1>4, <3>1 DEF Settings
    <3>3. n \in HasPage /\ n.target = p => n.isPublic = page'[p].isPublic
      BY <3>1
    <3>4. page'[p].state = "here" => page'[p].isPublic = asked'[p]
      BY <1>1, <3>1 DEF Settings
    <3> QED
      BY <1>4, <3>2, <3>3, <3>4
  <2> QED
    BY <2>1, <2>2 DEF Settings, MonitorHere, Or
<1>9. ASSUME NEW k \in Kinds, NEW u \in Users PROVE WithinReach(k, u)'
  <2>1. WithinReach(k, u) /\ Owned(k, u)' \subseteq Owned(k, u) /\ Creating(k, u)' \subseteq Creating(k, u)
    BY <1>4 DEF AInv, Owned, MonitorHere, Creating
  <2> QED
    BY <1>1, <2>1, ReachStays
<1> QED
  BY <1>1, <1>2, <1>4, <1>6, <1>7, <1>8, <1>9 DEF AInv

LEMMA LoadMonitorStep ==
  ASSUME AInv, NEW r \in Requests, LoadMonitor(r), [Next]_vars
  PROVE  AInv'
<1> PICK q : q = request[r]
  OBVIOUS
<1>1. q.pc = "loadMonitor" /\ UNCHANGED <<userVars, monitor, contact, page, asked>>
  BY DEF LoadMonitor
<1>2. PInv /\ RowsOK /\ MonitorRows /\ Sound(q) /\ q \in LoadsMonitor
  <2>1. PInv /\ RowsOK /\ MonitorRows /\ Sound(q)
    BY DEF AInv, RequestsSound, RowsOK
  <2> QED
    BY <1>1, <2>1, RequestByPc DEF Sound
<1>3. CASE End(r) /\ UNCHANGED overlapped
  BY <1>1, <1>3, EndStep
<1>4. CASE /\ q.target \in Owned("monitor", q.user) /\ Accepts(q.input, q.plan, monitor[q.target].row)
           /\ Go(r, [pc |-> "writeMonitor", target |-> q.target, user |-> q.user, input |-> q.input,
                     row |-> normalizeMonitorInput(q.input, monitor[q.target].row)])
           /\ Overlapping(q.target)
  <2> PICK row : row = normalizeMonitorInput(q.input, monitor[q.target].row)
    OBVIOUS
  <2> PICK n : n = [pc |-> "writeMonitor", target |-> q.target, user |-> q.user, input |-> q.input, row |-> row]
    OBVIOUS
  <2>1. q.target \in Monitors /\ q.user \in Users /\ q.input \in Inputs /\ q.plan \in Plans
    BY <1>2 DEF LoadsMonitor
  <2>2. monitor[q.target].state = "here" /\ monitor[q.target].owner = q.user
    BY <1>4 DEF Owned, MonitorHere
  <2>3. monitor[q.target].row \in Rows
    BY <1>2, <2>1, <2>2 DEF MonitorRows, WellFormed
  <2>4. WellFormed(row, user[q.user].plan) /\ row \in Rows
        /\ row.isActive = Or(q.input.isActive, monitor[q.target].row.isActive)
    <3>1. q.plan \in {"FREE", user[q.user].plan} /\ user[q.user].plan \in Plans
      BY <1>2, <2>1 DEF Sound, PInv, RowTypes
    <3>2. WellFormed(row, q.plan) /\ row.isActive = Or(q.input.isActive, monitor[q.target].row.isActive)
      BY <1>4, <2>1, <2>3, NormalizedIsWellFormed
    <3>3. WellFormed(row, user[q.user].plan)
      BY <2>1, <3>1, <3>2, WellFormedForHigherPlans
    <3> QED
      BY <3>2, <3>3 DEF WellFormed
  <2>5. n \in WritesMonitor /\ IsRequest(n) /\ n.pc = "writeMonitor"
    BY <2>1, <2>4 DEF WritesMonitor, IsRequest
  <2>6. n \notin Creates /\ n \notin LoadsMonitor /\ n \notin LoadsPage /\ n \notin HasPage
    BY <2>5, RequestByPc
  <2>7. Sound(n)
    BY <2>2, <2>4, <2>5, <2>6 DEF Sound, OfUser
  <2>8. \A y \in Monitors \cup Pages : Overwrites(r, y)' => q.target = y
    <3>1. request'[r] = n
      BY <1>4 DEF Go, AInv, RequestsSound
    <3> QED
      BY <2>6, <3>1 DEF Overwrites
  <2>9. n.row.isActive = Or(n.input.isActive, monitor[n.target].row.isActive)
    BY <2>4
  <2> QED
    BY <1>1, <1>4, <2>1, <2>6, <2>7, <2>8, <2>9, UpdateBegins
<1> QED
  BY <1>3, <1>4 DEF LoadMonitor

LEMMA LoadPageStep ==
  ASSUME AInv, NEW r \in Requests, LoadPage(r), [Next]_vars
  PROVE  AInv'
<1> PICK q : q = request[r]
  OBVIOUS
<1>1. q.pc = "loadPage" /\ UNCHANGED <<userVars, monitor, contact, page, asked>>
  BY DEF LoadPage
<1>2. RowsOK /\ PageTypes /\ Sound(q) /\ q \in LoadsPage
  <2>1. RowsOK /\ PageTypes /\ Sound(q)
    BY DEF AInv, RequestsSound, RowsOK, RowTypesOK
  <2> QED
    BY <1>1, <2>1, RequestByPc DEF Sound
<1>3. CASE End(r) /\ UNCHANGED overlapped
  BY <1>1, <1>3, EndStep
<1>4. CASE /\ q.target = NoPage \/ (page[q.target].state = "here" /\ page[q.target].owner = q.user)
           /\ Go(r, [pc |-> "checkPage", target |-> q.target, user |-> q.user, input |-> q.input,
                     isPublic |-> IF q.target = NoPage THEN "yes" ELSE page[q.target].isPublic])
           /\ Overlapping(q.target)
  <2> PICK public : public = IF q.target = NoPage THEN "yes" ELSE page[q.target].isPublic
    OBVIOUS
  <2> PICK n : n = [pc |-> "checkPage", target |-> q.target, user |-> q.user, input |-> q.input, isPublic |-> public]
    OBVIOUS
  <2>1. q.target \in Pages \cup {NoPage} /\ q.user \in Users /\ q.input \in PageInputs
    BY <1>2 DEF LoadsPage
  <2>2. public \in Answers
    BY <1>2, <2>1 DEF PageTypes, Answers
  <2>3. n \in HasPage /\ IsRequest(n) /\ n.pc = "checkPage"
    BY <2>1, <2>2 DEF HasPage, IsRequest
  <2>4. n \notin Creates /\ n \notin LoadsMonitor /\ n \notin LoadsPage /\ n \notin WritesMonitor
    BY <2>3, RequestByPc
  <2>5. Sound(n)
    BY <1>2, <1>4, <2>3, <2>4 DEF Sound, OfUser
  <2>6. \A y \in Monitors \cup Pages : Overwrites(r, y)' => q.target = y
    <3>1. request'[r] = n
      BY <1>4 DEF Go, AInv, RequestsSound
    <3> QED
      BY <2>4, <3>1 DEF Overwrites
  <2> QED
    BY <1>1, <1>4, <2>1, <2>4, <2>5, <2>6, UpdateBegins
<1> QED
  BY <1>3, <1>4 DEF LoadPage

LEMMA WriteMonitorStep ==
  ASSUME AInv, NEW r \in Requests, WriteMonitor(r), [Next]_vars
  PROVE  AInv'
<1> PICK q : q = request[r]
  OBVIOUS
<1> PICK m : m = q.target
  OBVIOUS
<1>1. q.pc = "writeMonitor" /\ End(r) /\ UNCHANGED <<userVars, contact, page, overlapped>>
  BY DEF WriteMonitor
<1>2. CASE UNCHANGED <<monitor, asked>>
  BY <1>1, <1>2, EndStep
<1>3. CASE MonitorHere(m) /\ monitor' = [monitor EXCEPT ![m].row = q.row]
           /\ asked' = IF q.input.isActive = Absent THEN asked ELSE [asked EXCEPT ![m] = q.input.isActive]
  <2>1. PInv /\ PInv' /\ UsersKept /\ Bounds' /\ RowsOK /\ RequestsSound /\ OneUpdate /\ Settings /\ Ghosts
        /\ UNCHANGED user
    BY <1>1, Basics DEF AInv, userVars
  <2>2. Sound(q) /\ q \in WritesMonitor /\ m \in Monitors /\ q.user \in Users /\ q.row \in Rows /\ q.input \in Inputs
    <3>1. Sound(q)
      BY <2>1 DEF RequestsSound
    <3>2. q \in WritesMonitor
      BY <1>1, <3>1, RequestByPc DEF Sound
    <3> QED
      BY <3>1, <3>2 DEF WritesMonitor
  <2>3. monitor[m].state = "here" /\ monitor[m].owner = q.user /\ WellFormed(q.row, user[q.user].plan)
    BY <1>3, <2>2 DEF Sound, OfUser, MonitorHere
  <2>4. MonitorTypes /\ ContactTypes /\ PageTypes /\ MonitorRows /\ ContactRows /\ PageRows
    BY <2>1 DEF RowsOK, RowTypesOK
  <2>5. /\ \A x \in Monitors : monitor'[x].state = monitor[x].state /\ monitor'[x].owner = monitor[x].owner
        /\ monitor'[m].row = q.row /\ \A x \in Monitors \ {m} : monitor'[x].row = monitor[x].row
    BY <1>3, <2>2, <2>4 DEF MonitorTypes
  <2>6. RowsOK'
    <3>1. MonitorTypes'
      BY <1>3, <2>2, <2>4 DEF MonitorTypes
    <3>2. MonitorRows'
      BY <2>1, <2>3, <2>4, <2>5 DEF MonitorRows, WellFormed
    <3>3. ContactTypes' /\ PageTypes' /\ ContactRows'
      BY <1>1, <2>1, <2>4 DEF ContactTypes, PageTypes, ContactRows
    <3>4. PageRows'
      BY <1>1, <2>4, <2>5 DEF PageRows, MonitorHere, PageTypes
    <3> QED
      BY <3>1, <3>2, <3>3, <3>4 DEF RowsOK, RowTypesOK
  <2>7. RowsKept
    BY <1>1, <2>5 DEF RowsKept, OfUser
  <2>8. /\ RequestsSound' /\ \A s \in Requests \ {r} : request'[s] = request[s]
        /\ \A k, u : Creating(k, u)' = Creating(k, u) \ {r}
        /\ \A s \in Requests : \A x : Overwrites(s, x)' => s # r /\ Overwrites(s, x)
    BY <1>1, <2>1, <2>7, RequestEnds
  <2>9. OneUpdate'
    BY <1>1, <2>1, <2>8, OneUpdateStays
  <2>10. /\ asked'[m] = Or(q.input.isActive, asked[m])
         /\ \A x \in (Monitors \cup Pages) \ {m} : asked'[x] = asked[x]
    BY <1>3, <2>1, <2>2 DEF Ghosts, Or
  <2>11. Ghosts'
    <3>1. q.input.isActive = Absent \/ q.input.isActive \in Answers
      BY <2>2 DEF Inputs, Answers
    <3> QED
      BY <1>1, <1>3, <2>1, <3>1 DEF Ghosts
  <2>12. Settings'
    <3>1. ASSUME NEW x \in Monitors \ overlapped
          PROVE  /\ monitor'[x].state = "here" => monitor'[x].row.isActive = asked'[x]
                 /\ \A s \in Requests : request'[s] \in WritesMonitor /\ request'[s].target = x =>
                      request'[s].row.isActive = Or(request'[s].input.isActive, monitor'[x].row.isActive)
      <4>1. CASE x = m
        <5>1. \A s \in Requests : ~(request'[s] \in WritesMonitor /\ request'[s].target = x)
          <6>1. Overwrites(r, x)
            BY <2>2, <4>1 DEF Overwrites
          <6>2. \A s \in Requests : Overwrites(s, x) => s = r
            BY <2>1, <6>1 DEF OneUpdate
          <6> QED
            BY <2>8, <6>2 DEF Overwrites
        <5>2. q.row.isActive = Or(q.input.isActive, monitor[m].row.isActive) /\ monitor[m].row.isActive = asked[m]
          BY <1>3, <2>1, <2>2, <4>1 DEF Settings
        <5> QED
          BY <2>5, <2>10, <4>1, <5>1, <5>2
      <4>2. CASE x # m
        <5>1. \A s \in Requests : request'[s] \in WritesMonitor /\ request'[s].target = x => request'[s] = request[s]
          BY <2>8 DEF Overwrites
        <5> QED
          BY <2>1, <2>5, <2>10, <4>2, <5>1 DEF Settings, MonitorHere
      <4> QED
        BY <4>1, <4>2
    <3>2. ASSUME NEW p \in Pages \ overlapped
          PROVE  /\ page'[p].state = "here" => page'[p].isPublic = asked'[p]
                 /\ \A s \in Requests : request'[s] \in HasPage /\ request'[s].target = p => request'[s].isPublic = page'[p].isPublic
      <4>1. \A s \in Requests : request'[s] \in HasPage /\ request'[s].target = p => request'[s] = request[s]
        BY <2>8 DEF Overwrites
      <4>2. p # m
        BY <2>2, IdsAssumption
      <4> QED
        BY <1>1, <2>1, <2>10, <4>1, <4>2 DEF Settings
    <3> QED
      BY <1>1, <3>1, <3>2 DEF Settings, MonitorHere, Or
  <2>13. ASSUME NEW k \in Kinds, NEW u \in Users PROVE WithinReach(k, u)'
    <3>1. WithinReach(k, u) /\ Owned(k, u)' \subseteq Owned(k, u) /\ Creating(k, u)' \subseteq Creating(k, u)
      BY <1>1, <2>5, <2>8 DEF AInv, Owned, MonitorHere
    <3> QED
      BY <2>1, <3>1, ReachStays
  <2> QED
    BY <2>1, <2>6, <2>8, <2>9, <2>11, <2>12, <2>13 DEF AInv
<1> QED
  BY <1>2, <1>3 DEF WriteMonitor, Written

LEMMA WritePageStep ==
  ASSUME AInv, NEW r \in Requests, WritePage(r), [Next]_vars
  PROVE  AInv'
<1> PICK q : q = request[r]
  OBVIOUS
<1>1. q.pc = "writePage" /\ End(r) /\ UNCHANGED <<userVars, monitor, contact, overlapped>>
  BY DEF WritePage
<1>2. PICK p \in IF q.target = NoPage THEN {x \in Pages : page[x].state = "new"} ELSE {q.target} :
       IF /\ IF q.target = NoPage THEN Here(q.user) ELSE page[p].state = "here"
          /\ \A m \in q.input.monitors : MonitorHere(m)
       THEN /\ page' = [page EXCEPT ![p] =
                          [state |-> "here", owner |-> q.user,
                           isPublic |-> Or(q.input.isPublic, q.isPublic),
                           monitors |-> IF q.input.given THEN q.input.monitors ELSE page[p].monitors]]
            /\ asked' = IF q.target # NoPage /\ q.input.isPublic = Absent THEN asked
                        ELSE [asked EXCEPT ![p] = Or(q.input.isPublic, q.isPublic)]
       ELSE UNCHANGED <<page, asked>>
  BY DEF WritePage
<1>3. CASE UNCHANGED <<page, asked>>
  BY <1>1, <1>3, EndStep
<1> PICK public : public = Or(q.input.isPublic, q.isPublic)
  OBVIOUS
<1> PICK shown : shown = IF q.input.given THEN q.input.monitors ELSE page[p].monitors
  OBVIOUS
<1>4. CASE /\ IF q.target = NoPage THEN Here(q.user) ELSE page[p].state = "here"
           /\ \A m \in q.input.monitors : MonitorHere(m)
           /\ page' = [page EXCEPT ![p] = [state |-> "here", owner |-> q.user, isPublic |-> public, monitors |-> shown]]
           /\ asked' = IF q.target # NoPage /\ q.input.isPublic = Absent THEN asked ELSE [asked EXCEPT ![p] = public]
  <2>1. PInv /\ PInv' /\ UsersKept /\ Bounds' /\ RowsOK /\ RequestsSound /\ OneUpdate /\ Settings /\ Ghosts
        /\ UNCHANGED user
    BY <1>1, Basics DEF AInv, userVars
  <2>2. MonitorTypes /\ ContactTypes /\ PageTypes /\ MonitorRows /\ ContactRows /\ PageRows
    BY <2>1 DEF RowsOK, RowTypesOK
  <2>3. /\ Sound(q) /\ q \in HasPage /\ q.user \in Users /\ q.target \in Pages \cup {NoPage} /\ q.isPublic \in Answers
        /\ q.input.monitors \subseteq Monitors /\ q.input.isPublic \in Answers \cup {Absent}
    <3>1. Sound(q)
      BY <2>1 DEF RequestsSound
    <3>2. q \in HasPage
      BY <1>1, <3>1, RequestByPc DEF Sound
    <3> QED
      BY <3>1, <3>2 DEF HasPage, PageInputs, Answers
  <2>4. p \in Pages /\ public \in Answers
    BY <1>2, <2>3 DEF Or
  <2>5. IF q.target = NoPage THEN page[p].state = "new" ELSE p = q.target /\ page[p].state = "here" /\ page[p].owner = q.user
    BY <1>2, <1>4, <2>3 DEF Sound, OfUser
  <2>6. shown \subseteq Monitors /\ \A m \in shown : monitor[m].state = "here" /\ monitor[m].owner = q.user
    <3>1. CASE q.input.given
      BY <1>1, <1>4, <2>3, <3>1 DEF Sound, OfUser, MonitorHere
    <3>2. CASE ~q.input.given
      <4>1. shown = page[p].monitors /\ shown \subseteq Monitors
        BY <2>2, <2>4, <3>2 DEF PageTypes
      <4> QED
        BY <2>2, <2>4, <2>5, <4>1 DEF PageRows, MonitorHere
    <3> QED
      BY <3>1, <3>2
  <2>7. /\ page'[p] = [state |-> "here", owner |-> q.user, isPublic |-> public, monitors |-> shown]
        /\ \A x \in Pages \ {p} : page'[x] = page[x]
    BY <1>4, <2>2, <2>4 DEF PageTypes
  <2>8. RowsOK'
    <3>1. PageTypes'
      BY <1>4, <2>2, <2>3, <2>4, <2>6 DEF PageTypes, States
    <3>2. PageRows'
      BY <1>1, <2>2, <2>6, <2>7 DEF PageRows, MonitorHere
    <3>3. MonitorTypes' /\ ContactTypes' /\ MonitorRows' /\ ContactRows'
      BY <1>1, <2>1, <2>2 DEF MonitorTypes, ContactTypes, MonitorRows, ContactRows, WellFormed
    <3> QED
      BY <3>1, <3>2, <3>3 DEF RowsOK, RowTypesOK
  <2>9. RowsKept
    BY <1>1, <2>5, <2>7 DEF RowsKept, OfUser
  <2>10. /\ RequestsSound' /\ \A s \in Requests \ {r} : request'[s] = request[s]
         /\ \A k, u : Creating(k, u)' = Creating(k, u) \ {r}
         /\ \A s \in Requests : \A x : Overwrites(s, x)' => s # r /\ Overwrites(s, x)
    BY <1>1, <2>1, <2>9, RequestEnds
  <2>11. OneUpdate'
    BY <1>1, <2>1, <2>10, OneUpdateStays
  <2>12. /\ asked'[p] = IF q.target # NoPage /\ q.input.isPublic = Absent THEN asked[p] ELSE public
         /\ \A x \in (Monitors \cup Pages) \ {p} : asked'[x] = asked[x]
    BY <1>4, <2>1, <2>4 DEF Ghosts
  <2>13. Ghosts'
    BY <1>1, <1>4, <2>1, <2>4 DEF Ghosts
  <2>14. Settings'
    <3>1. ASSUME NEW m \in Monitors \ overlapped
          PROVE  /\ monitor'[m].state = "here" => monitor'[m].row.isActive = asked'[m]
                 /\ \A s \in Requests : request'[s] \in WritesMonitor /\ request'[s].target = m =>
                      request'[s].row.isActive = Or(request'[s].input.isActive, monitor'[m].row.isActive)
      <4>1. \A s \in Requests : request'[s] \in WritesMonitor /\ request'[s].target = m => request'[s] = request[s]
        BY <2>10 DEF Overwrites
      <4>2. p # m
        BY <2>4, IdsAssumption
      <4> QED
        BY <1>1, <2>1, <2>12, <4>1, <4>2 DEF Settings, MonitorHere
    <3>2. ASSUME NEW x \in Pages \ overlapped
          PROVE  /\ page'[x].state = "here" => page'[x].isPublic = asked'[x]
                 /\ \A s \in Requests : request'[s] \in HasPage /\ request'[s].target = x => request'[s].isPublic = page'[x].isPublic
      <4>1. CASE x # p
        <5>1. \A s \in Requests : request'[s] \in HasPage /\ request'[s].target = x => request'[s] = request[s]
          BY <2>10 DEF Overwrites
        <5> QED
          BY <2>1, <2>7, <2>12, <4>1, <5>1 DEF Settings
      <4>2. CASE x = p /\ q.target # NoPage
        <5>1. \A s \in Requests : ~(request'[s] \in HasPage /\ request'[s].target = x)
          <6>1. Overwrites(r, x)
            BY <2>3, <2>5, <4>2 DEF Overwrites
          <6>2. \A s \in Requests : Overwrites(s, x) => s = r
            BY <2>1, <6>1 DEF OneUpdate
          <6> QED
            BY <2>10, <6>2 DEF Overwrites
        <5>2. q.isPublic = page[x].isPublic /\ page[x].isPublic = asked[x]
          BY <2>1, <2>3, <2>5, <4>2 DEF Settings
        <5>3. page'[x].isPublic = asked'[x]
          BY <2>7, <2>12, <4>2, <5>2 DEF Or
        <5> QED
          BY <5>1, <5>3
      <4>3. CASE x = p /\ q.target = NoPage
        <5>1. \A s \in Requests : ~(request'[s] \in HasPage /\ request'[s].target = x)
          <6>1. ASSUME NEW s \in Requests, request'[s] \in HasPage, request'[s].target = x PROVE FALSE
            <7>1. request'[s] = request[s]
              BY <2>10, <6>1 DEF Overwrites
            <7>2. x # NoPage
              BY IdsAssumption
            <7>3. OfUser(page[x], request[s].user)
              BY <2>1, <6>1, <7>1, <7>2 DEF RequestsSound, Sound
            <7> QED
              BY <2>5, <4>3, <7>3 DEF OfUser
          <6> QED
            BY <6>1
        <5> QED
          BY <2>7, <2>12, <4>3, <5>1
      <4> QED
        BY <4>1, <4>2, <4>3
    <3> QED
      BY <1>1, <3>1, <3>2 DEF Settings, MonitorHere, Or
  <2>15. ASSUME NEW k \in Kinds, NEW u \in Users PROVE WithinReach(k, u)'
    <3>1. WithinReach(k, u) /\ Owned(k, u)' \subseteq Owned(k, u) /\ Creating(k, u)' \subseteq Creating(k, u)
      BY <1>1, <2>10 DEF AInv, Owned, MonitorHere
    <3> QED
      BY <2>1, <3>1, ReachStays
  <2> QED
    BY <2>1, <2>8, <2>10, <2>11, <2>13, <2>14, <2>15 DEF AInv
<1> QED
  BY <1>2, <1>3, <1>4

-----------------------------------------------------------------------------

LEMMA InitOwns == Init => AInv
<1> SUFFICES ASSUME Init PROVE AInv
  OBVIOUS
<1>1. PInv
  BY InitPaid
<1>2. Bounds
  BY OperationsAssumption DEF Init, UsersInit, BillingInit, Bounds
<1>3. Ghosts
  BY DEF Init, Ghosts, Answers
<1>4. \A r \in Requests : request[r] = [pc |-> "idle"]
  BY DEF Init
<1>5. RequestsSound
  <2>1. DOMAIN request = Requests
    BY DEF Init
  <2> QED
    BY <1>4, <2>1, IdleIsSound DEF RequestsSound
<1>6. RowsOK
  BY DEF Init, RowsOK, RowTypesOK, MonitorTypes, ContactTypes, PageTypes, MonitorRows, ContactRows, PageRows,
         NewMonitor, New, NewPage, States, Answers, MonitorHere
<1>7. OneUpdate /\ Settings
  <2>1. \A r \in Requests : request[r] \notin WritesMonitor /\ request[r] \notin HasPage
    BY <1>4, IdleIsSound
  <2>2. OneUpdate
    BY <2>1 DEF OneUpdate, Overwrites
  <2>3. (\A m \in Monitors : ~MonitorHere(m)) /\ (\A p \in Pages : page[p].state # "here")
    BY DEF Init, MonitorHere, NewMonitor, NewPage
  <2> QED
    BY <2>1, <2>2, <2>3 DEF Settings
<1>8. ASSUME NEW k \in Kinds, NEW u \in Users PROVE WithinReach(k, u)
  <2>1. user[u].state = "new"
    BY DEF Init, UsersInit
  <2>2. IsFiniteSet(Owned(k, u))
    BY <1>5, <1>6, <2>1, NewUsersOwnNothing, FS_EmptySet
  <2> QED
    BY <2>1, <2>2 DEF WithinReach, Here
<1> QED
  BY <1>1, <1>2, <1>3, <1>5, <1>6, <1>7, <1>8 DEF AInv

LEMMA OwnStep == AInv /\ [Next]_vars => AInv'
<1> SUFFICES ASSUME AInv, [Next]_vars PROVE AInv'
  OBVIOUS
<1>1. CASE UNCHANGED vars \/ (BillingStep /\ UNCHANGED ownVars)
  <2>1. UNCHANGED ownVars
    BY <1>1 DEF vars
  <2> QED
    BY <2>1, OtherStep
<1>2. ASSUME NEW u \in Users, DeleteUser(u) PROVE AInv'
  BY <1>2, DeleteUserStep
<1>3. CASE Crash
  BY <1>3, OwnCrashStep
<1>4. ASSUME NEW m \in Monitors, DeleteMonitor(m) PROVE AInv'
  BY <1>4, DeleteMonitorStep
<1>5. ASSUME NEW c \in Contacts, DeleteContact(c) PROVE AInv'
  BY <1>5, DeleteContactStep
<1>6. ASSUME NEW p \in Pages, DeletePage(p) PROVE AInv'
  BY <1>6, DeletePageStep
<1>7. ASSUME NEW r \in Requests, HandleRequest(r) PROVE AInv'
  BY <1>7, CountStep, CreateMonitorStep, CreateContactStep, LoadMonitorStep, WriteMonitorStep, LoadPageStep,
     CheckPageStep, WritePageStep DEF HandleRequest
<1>8. ASSUME NEW r \in Requests, NEW u \in Users, NEW input \in MonitorInputs, StartCreate(r, u, "monitor", input) PROVE AInv'
  <2>1. input \in Inputs /\ "monitor" \in Kinds
    BY RequestsAssumption DEF Kinds
  <2> QED
    BY <1>8, <2>1, StartCreateStep
<1>9. ASSUME NEW r \in Requests, NEW u \in Users, StartCreate(r, u, "contact", Empty) PROVE AInv'
  <2>1. "contact" \in Kinds
    BY DEF Kinds
  <2> QED
    BY <1>9, <2>1, StartCreateStep
<1>10. ASSUME NEW r \in Requests, NEW u \in Users, NEW input \in MonitorInputs, NEW m \in Monitors, StartUpdate(r, u, m, input)
       PROVE  AInv'
  <2>1. input \in Inputs
    BY RequestsAssumption
  <2> QED
    BY <1>10, <2>1, StartUpdateStep
<1>11. ASSUME NEW r \in Requests, NEW u \in Users, NEW p \in Pages \cup {NoPage}, NEW input \in PageInputs, StartPage(r, u, p, input)
       PROVE  AInv'
  BY <1>11, StartPageStep
<1> QED
  BY <1>1, <1>2, <1>3, <1>4, <1>5, <1>6, <1>7, <1>8, <1>9, <1>10, <1>11 DEF Next

LEMMA AlwaysOwned == Spec => []AInv
  BY InitOwns, OwnStep, PTL DEF Spec

\* The rows, the webhooks and the requests keep their types.
THEOREM AccountTypes == Spec => []TypeOK
<1>1. ASSUME AInv PROVE TypeOK
  <2>1. RowTypes /\ Bounds /\ Ghosts /\ MonitorTypes /\ ContactTypes /\ PageTypes
    BY <1>1 DEF AInv, PInv, RowsOK, RowTypesOK
  <2>2. ASSUME NEW w \in Webhooks PROVE event[w] = NoEvent \/ \E e \in Events : event[w] = Issued(e)
    <3>1. CASE event[w].issued
      <4>1. [activates |-> event[w].activates, user |-> event[w].user, email |-> event[w].email] \in Events
            /\ event[w] = Issued([activates |-> event[w].activates, user |-> event[w].user, email |-> event[w].email])
        BY <2>1, <3>1 DEF RowTypes, Events, Issued
      <4> QED
        BY <4>1
    <3> QED
      BY <2>1, <3>1 DEF Bounds
  <2>3. BillingTypeOK
    BY <2>1, <2>2 DEF RowTypes, Bounds, BillingTypeOK
  <2>4. \A r \in Requests : request[r].pc \in {"idle", "count", "create", "loadMonitor", "writeMonitor",
                                               "loadPage", "checkPage", "writePage"}
    BY <1>1, RequestByPc DEF AInv, RequestsSound, Sound, IsRequest
  <2> QED
    BY <2>1, <2>3, <2>4 DEF Ghosts, MonitorTypes, ContactTypes, PageTypes, States, Answers, TypeOK
<1> QED
  BY <1>1, AlwaysOwned, PTL

\* The limits of the plan are overrun by at most the requests that may be under way
\* beside the one that counts, for any number of users and requests, whatever else is
\* deleted, upgraded or crashes: countByUserId and the insert are two awaits.
THEOREM LimitsAreOverrunByConcurrencyOnly == Spec => []OverrunBoundedByConcurrency
<1>1. ASSUME AInv PROVE OverrunBoundedByConcurrency
  <2> SUFFICES ASSUME NEW u \in Users, NEW k \in Kinds, Here(u)
               PROVE  Cardinality(Owned(k, u)) < PLAN_LIMITS[user[u].plan][k] + Cardinality(Requests)
    BY DEF OverrunBoundedByConcurrency
  <2>1. IsFiniteSet(Owned(k, u)) /\ Cardinality(Owned(k, u)) + Cardinality(Creating(k, u))
                  <= PLAN_LIMITS[user[u].plan][k] - 1 + Cardinality(Requests)
    BY <1>1 DEF AInv, WithinReach
  <2>2. Cardinality(Creating(k, u)) \in Nat /\ Cardinality(Requests) \in Nat
    BY CreatingIsFinite
  <2>3. Cardinality(Owned(k, u)) \in Nat
    BY <2>1, FS_CardinalityType
  <2>4. PLAN_LIMITS[user[u].plan][k] \in Nat
    BY <1>1, LimitsAssumption DEF AInv, PInv, RowTypes
  <2> QED
    BY <2>1, <2>2, <2>3, <2>4
<1> QED
  BY <1>1, AlwaysOwned, PTL

\* However updates of a monitor overlap with each other and with an upgrade, its row
\* is one that a single request of its owner could have made.
THEOREM UpdatesKeepMonitorsWellFormed == Spec => []MonitorsAreWellFormed
<1>1. ASSUME AInv PROVE MonitorsAreWellFormed
  BY <1>1 DEF AInv, RowsOK, MonitorRows, MonitorHere, WellFormed, MonitorsAreWellFormed
<1> QED
  BY <1>1, AlwaysOwned, PTL

\* A page shows monitors of its owner only, although the monitors are checked in one
\* await and written in a later one, between which they may be deleted.
THEOREM PagesKeepToTheirOwner == Spec => []PagesShowOwnMonitors
<1>1. ASSUME AInv PROVE PagesShowOwnMonitors
  <2> SUFFICES ASSUME NEW p \in Pages, page[p].state = "here", NEW m \in page[p].monitors
               PROVE  m \in Owned("monitor", page[p].owner)
    BY DEF PagesShowOwnMonitors
  <2>1. m \in Monitors
    BY <1>1 DEF AInv, RowsOK, RowTypesOK, PageTypes
  <2> QED
    BY <1>1, <2>1 DEF AInv, RowsOK, PageRows, Owned
<1> QED
  BY <1>1, AlwaysOwned, PTL

\* What a request did not name stays as it was last asked for, unless two updates of
\* the same monitor or page overlapped.
THEOREM SettingsAreKept == Spec => []SettingsStick
<1>1. ASSUME AInv PROVE SettingsStick
  BY <1>1 DEF AInv, Settings, SettingsStick
<1> QED
  BY <1>1, AlwaysOwned, PTL
=============================================================================
