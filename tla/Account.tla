------------------------------- MODULE Account -------------------------------
(***************************************************************************)
(* What users own, changed through the API: monitors, alert contacts and   *)
(* status pages, under the limits of the plan that Billing gives them.     *)
(*                                                                         *)
(* A request loads its user (JwtStrategy), then awaits a count or the row  *)
(* it changes, then writes.  Requests overlap as they please.  The slug of *)
(* a page is left out: its look-up can only refuse, as the unique index    *)
(* does.                                                                   *)
(***************************************************************************)
EXTENDS Billing, MonitorInput

CONSTANTS
  Monitors, Contacts, Pages,   \* ids, each used once
  NoPage,                      \* the page of a request that creates one
  Requests,                    \* requests at the same time
  PLAN_LIMITS,                 \* per plan and kind, how many a user may own
  MonitorInputs                \* bound: what requests ask of monitors

Kinds == {"monitor", "contact"}

ASSUME LimitsAssumption ==
  /\ PLAN_LIMITS \in [Plans -> [Kinds -> Nat \ {0}]]
  /\ \A k \in Kinds : PLAN_LIMITS["FREE"][k] <= PLAN_LIMITS["PRO"][k]
ASSUME RequestsAssumption == IsFiniteSet(Requests) /\ MonitorInputs \subseteq Inputs
ASSUME IdsAssumption == Monitors \cap Pages = {} /\ NoPage \notin Monitors \cup Pages

VARIABLES
  monitor, contact, page,   \* the rows
  request,                  \* the requests being handled
  asked,                    \* ghost: the setting a request last wrote by its name
  overlapped                \* ghost: what two updates were reading and writing at once

ownVars == <<monitor, contact, page, request, asked, overlapped>>
vars == <<userVars, left, ownVars>>

\* Rows of each table: the id is new, here or gone.
New == [state |-> "new", owner |-> NoUser]
NewMonitor == [state |-> "new", owner |-> NoUser, row |-> Empty]
NewPage == [state |-> "new", owner |-> NoUser, isPublic |-> "yes", monitors |-> {}]

Init ==
  /\ UsersInit /\ BillingInit
  /\ monitor = [m \in Monitors |-> NewMonitor]
  /\ contact = [c \in Contacts |-> New]
  /\ page = [p \in Pages |-> NewPage]
  /\ request = [r \in Requests |-> [pc |-> "idle"]]
  /\ asked = [x \in Monitors \cup Pages |-> "yes"]
  /\ overlapped = {}

MonitorHere(m) == monitor[m].state = "here"
Owned(kind, u) ==
  IF kind = "monitor" THEN {m \in Monitors : MonitorHere(m) /\ monitor[m].owner = u}
  ELSE {c \in Contacts : contact[c].state = "here" /\ contact[c].owner = u}

Go(r, step) == request' = [request EXCEPT ![r] = step]
End(r) == Go(r, [pc |-> "idle"])

-----------------------------------------------------------------------------
(* Monitors and contacts are created *)

StartCreate(r, u, kind, input) ==
  /\ request[r].pc = "idle" /\ Here(u)
  /\ Ask(kind)
  /\ Go(r, [pc |-> "count", kind |-> kind, user |-> u, plan |-> user[u].plan, input |-> input])
  /\ UNCHANGED <<userVars, monitor, contact, page, asked, overlapped>>

\* Mutant of WithinLimit: one too many.
WithinLimitOrAtIt(r) ==
  Cardinality(Owned(request[r].kind, request[r].user)) <= PLAN_LIMITS[request[r].plan][request[r].kind]

\* countByUserId, against the limit of the plan as the request found it.
WithinLimit(r) ==
  Cardinality(Owned(request[r].kind, request[r].user)) < PLAN_LIMITS[request[r].plan][request[r].kind]

Count(r) ==
  /\ request[r].pc = "count"
  /\ IF /\ WithinLimit(r)
        /\ request[r].kind = "monitor" => Accepts(request[r].input, request[r].plan, Empty)
     THEN Go(r, [request[r] EXCEPT !.pc = "create"])
     ELSE End(r)
  /\ UNCHANGED <<userVars, left, monitor, contact, page, asked, overlapped>>

\* The row refers to its owner, who may be gone.
CreateMonitor(r) ==
  LET q == request[r]
      row == normalizeMonitorInput(q.input, Empty)
  IN
  /\ q.pc = "create" /\ q.kind = "monitor"
  /\ \E m \in Monitors :
       /\ monitor[m].state = "new"
       /\ IF Here(q.user)
          THEN /\ monitor' = [monitor EXCEPT ![m] = [state |-> "here", owner |-> q.user, row |-> row]]
               /\ asked' = [asked EXCEPT ![m] = row.isActive]
          ELSE UNCHANGED <<monitor, asked>>
  /\ End(r)
  /\ UNCHANGED <<userVars, left, contact, page, overlapped>>

CreateContact(r) ==
  LET q == request[r] IN
  /\ q.pc = "create" /\ q.kind = "contact"
  /\ \E c \in Contacts :
       /\ contact[c].state = "new"
       /\ contact' = IF Here(q.user) THEN [contact EXCEPT ![c] = [state |-> "here", owner |-> q.user]]
                     ELSE contact
  /\ End(r)
  /\ UNCHANGED <<userVars, left, monitor, page, asked, overlapped>>

DeleteContact(c) ==
  /\ contact[c].state = "here"
  /\ Ask("delete")
  /\ contact' = [contact EXCEPT ![c].state = "gone"]
  /\ UNCHANGED <<userVars, monitor, page, request, asked, overlapped>>

\* Pages lose the monitor.
DeleteMonitor(m) ==
  /\ MonitorHere(m)
  /\ Ask("delete")
  /\ monitor' = [monitor EXCEPT ![m].state = "gone"]
  /\ page' = [p \in Pages |-> [page[p] EXCEPT !.monitors = @ \ {m}]]
  /\ UNCHANGED <<userVars, contact, request, asked, overlapped>>

-----------------------------------------------------------------------------
(* Monitors are updated *)

\* An update of x reads it while another one has read it and not written yet.
Updating(x) == \E r \in Requests : request[r].pc \in {"writeMonitor", "checkPage", "writePage"} /\ request[r].target = x
Overlapping(x) == overlapped' = IF x # NoPage /\ Updating(x) THEN overlapped \cup {x} ELSE overlapped

StartUpdate(r, u, m, input) ==
  /\ request[r].pc = "idle" /\ Here(u)
  /\ Ask("update")
  /\ Go(r, [pc |-> "loadMonitor", target |-> m, user |-> u, plan |-> user[u].plan, input |-> input])
  /\ UNCHANGED <<userVars, monitor, contact, page, asked, overlapped>>

\* getOwnedMonitorOrThrow, and the input over the row as it is now.
LoadMonitor(r) ==
  LET q == request[r] IN
  /\ q.pc = "loadMonitor"
  /\ IF q.target \in Owned("monitor", q.user) /\ Accepts(q.input, q.plan, monitor[q.target].row)
     THEN /\ Go(r, [pc |-> "writeMonitor", target |-> q.target, user |-> q.user, input |-> q.input,
                    row |-> normalizeMonitorInput(q.input, monitor[q.target].row)])
          /\ Overlapping(q.target)
     ELSE End(r) /\ UNCHANGED overlapped
  /\ UNCHANGED <<userVars, left, monitor, contact, page, asked>>

\* Mutants of Written: only what the request names is written; an update that does
\* not say so activates the monitor.
WrittenAsNamed(q) ==
  [field \in DOMAIN q.row |->
     IF field = "heartbeatToken" THEN q.row[field]
     ELSE IF field = "intervalSeconds"
     THEN IF q.input.intervalSeconds = 0 THEN monitor[q.target].row[field] ELSE q.row[field]
     ELSE IF q.input[field] = Absent THEN monitor[q.target].row[field] ELSE q.row[field]]
WrittenActive(q) == [q.row EXCEPT !.isActive = Or(q.input.isActive, "yes")]

\* Every column is written.
Written(q) == q.row

WriteMonitor(r) ==
  LET q == request[r] IN
  /\ q.pc = "writeMonitor"
  /\ IF MonitorHere(q.target)
     THEN /\ monitor' = [monitor EXCEPT ![q.target].row = Written(q)]
          /\ asked' = IF q.input.isActive = Absent THEN asked
                      ELSE [asked EXCEPT ![q.target] = q.input.isActive]
     ELSE UNCHANGED <<monitor, asked>>
  /\ End(r)
  /\ UNCHANGED <<userVars, left, contact, page, overlapped>>

-----------------------------------------------------------------------------
(* Status pages *)

\* CreateStatusPageDto and UpdateStatusPageDto; monitors are given or absent.
PageInputs ==
  {q \in [isPublic : {Absent, "yes", "no"}, given : BOOLEAN, monitors : SUBSET Monitors] :
     q.monitors # {} => q.given}

StartPage(r, u, p, input) ==
  /\ request[r].pc = "idle" /\ Here(u)
  /\ Ask("page")
  /\ Go(r, [pc |-> "loadPage", target |-> p, user |-> u, input |-> input])
  /\ UNCHANGED <<userVars, monitor, contact, page, asked, overlapped>>

\* getOwnedStatusPageOrThrow; a new page has nothing to load.
LoadPage(r) ==
  LET q == request[r] IN
  /\ q.pc = "loadPage"
  /\ IF q.target = NoPage \/ (page[q.target].state = "here" /\ page[q.target].owner = q.user)
     THEN /\ Go(r, [pc |-> "checkPage", target |-> q.target, user |-> q.user, input |-> q.input,
                    isPublic |-> IF q.target = NoPage THEN "yes" ELSE page[q.target].isPublic])
          /\ Overlapping(q.target)
     ELSE End(r) /\ UNCHANGED overlapped
  /\ UNCHANGED <<userVars, left, monitor, contact, page, asked>>

\* Mutant of AssertOwnedMonitors: an update shows any monitor.
AssertExistingMonitors(q) == \A m \in q.input.monitors : MonitorHere(m)

AssertOwnedMonitors(q) == q.input.monitors \subseteq Owned("monitor", q.user)

CheckPage(r) ==
  LET q == request[r] IN
  /\ q.pc = "checkPage"
  /\ IF AssertOwnedMonitors(q) THEN Go(r, [q EXCEPT !.pc = "writePage"]) ELSE End(r)
  /\ UNCHANGED <<userVars, left, monitor, contact, page, asked, overlapped>>

\* The page and its monitors are written at once: the monitors must still be here,
\* and the owner of a new page, or the page.
WritePage(r) ==
  LET q == request[r] IN
  /\ q.pc = "writePage"
  /\ \E p \in IF q.target = NoPage THEN {x \in Pages : page[x].state = "new"} ELSE {q.target} :
       IF /\ IF q.target = NoPage THEN Here(q.user) ELSE page[p].state = "here"
          /\ \A m \in q.input.monitors : MonitorHere(m)
       THEN /\ page' = [page EXCEPT ![p] =
                          [state |-> "here", owner |-> q.user,
                           isPublic |-> Or(q.input.isPublic, q.isPublic),
                           monitors |-> IF q.input.given THEN q.input.monitors ELSE @.monitors]]
            /\ asked' = IF q.target # NoPage /\ q.input.isPublic = Absent THEN asked
                        ELSE [asked EXCEPT ![p] = Or(q.input.isPublic, q.isPublic)]
       ELSE UNCHANGED <<page, asked>>
  /\ End(r)
  /\ UNCHANGED <<userVars, left, monitor, contact, overlapped>>

DeletePage(p) ==
  /\ page[p].state = "here"
  /\ Ask("delete")
  /\ page' = [page EXCEPT ![p].state = "gone", ![p].monitors = {}]
  /\ UNCHANGED <<userVars, monitor, contact, request, asked, overlapped>>

-----------------------------------------------------------------------------
(* Users leave, processes die *)

\* Everything a user owns goes with them.
DeleteUser(u) ==
  /\ LeaveBilling(u)
  /\ monitor' = [m \in Monitors |-> IF m \in Owned("monitor", u) THEN [monitor[m] EXCEPT !.state = "gone"]
                                    ELSE monitor[m]]
  /\ contact' = [c \in Contacts |-> IF c \in Owned("contact", u) THEN [contact[c] EXCEPT !.state = "gone"]
                                    ELSE contact[c]]
  /\ page' = [p \in Pages |-> IF page[p].state = "here" /\ page[p].owner = u
                              THEN [page[p] EXCEPT !.state = "gone", !.monitors = {}]
                              ELSE [page[p] EXCEPT !.monitors = @ \ Owned("monitor", u)]]
  /\ UNCHANGED <<request, asked, overlapped>>

Crash ==
  /\ CrashBilling
  /\ request' = [r \in Requests |-> [pc |-> "idle"]]
  /\ UNCHANGED <<monitor, contact, page, asked, overlapped>>

HandleRequest(r) ==
  \/ Count(r) \/ CreateMonitor(r) \/ CreateContact(r)
  \/ LoadMonitor(r) \/ WriteMonitor(r)
  \/ LoadPage(r) \/ CheckPage(r) \/ WritePage(r)

Next ==
  \/ BillingStep /\ UNCHANGED ownVars
  \/ \E u \in Users : DeleteUser(u)
  \/ Crash
  \/ \E m \in Monitors : DeleteMonitor(m)
  \/ \E c \in Contacts : DeleteContact(c)
  \/ \E p \in Pages : DeletePage(p)
  \/ \E r \in Requests :
       \/ HandleRequest(r)
       \/ \E u \in Users :
            \/ \E input \in MonitorInputs :
                 \/ StartCreate(r, u, "monitor", input)
                 \/ \E m \in Monitors : StartUpdate(r, u, m, input)
            \/ StartCreate(r, u, "contact", Empty)
            \/ \E p \in Pages \cup {NoPage}, input \in PageInputs : StartPage(r, u, p, input)

Spec == Init /\ [][Next]_vars

\* A webhook handler does what it awaits, and the provider delivers an event
\* again until it is answered with success, which it is only once recorded.
Fairness ==
  \A w \in Webhooks, d \in Deliveries :
    /\ WF_vars(HandleDelivery(w, d) /\ UNCHANGED ownVars)
    /\ WF_vars(w \notin processed /\ Deliver(w, d) /\ UNCHANGED ownVars)

FairSpec == Spec /\ Fairness

-----------------------------------------------------------------------------
(* Properties *)

\* Types.
TypeOK ==
  /\ BillingTypeOK
  /\ monitor \in [Monitors -> [state : {"new", "here", "gone"}, owner : Users \cup {NoUser},
                               row : Rows \cup {Empty}]]
  /\ contact \in [Contacts -> [state : {"new", "here", "gone"}, owner : Users \cup {NoUser}]]
  /\ page \in [Pages -> [state : {"new", "here", "gone"}, owner : Users \cup {NoUser},
                         isPublic : {"yes", "no"}, monitors : SUBSET Monitors]]
  /\ \A r \in Requests : request[r].pc \in {"idle", "count", "create", "loadMonitor", "writeMonitor",
                                       "loadPage", "checkPage", "writePage"}
  /\ asked \in [Monitors \cup Pages -> {"yes", "no"}]
  /\ overlapped \subseteq Monitors \cup Pages

\* A user owns at most as many monitors, or contacts, as the plan allows, and one
\* more for each further request that may be under way at the same time: without
\* overlapping requests, never more than the plan allows.
OverrunBoundedByConcurrency ==
  \A u \in Users, k \in Kinds :
    Here(u) => Cardinality(Owned(k, u)) < PLAN_LIMITS[user[u].plan][k] + Cardinality(Requests)

\* However updates overlap, a monitor is one that a single request could have made,
\* its URL, keyword and token those of its type, its interval one its owner's plan allows.
MonitorsAreWellFormed ==
  \A m \in Monitors : MonitorHere(m) => LET row == monitor[m].row IN
    /\ row.intervalSeconds >= minMonitorIntervalSeconds[user[monitor[m].owner].plan]
    /\ Valid(row)
    /\ row.heartbeatToken <=> row.type = "HEARTBEAT"
    /\ row.type = "HEARTBEAT" <=> row.url = Absent
    /\ IF row.type = "KEYWORD" THEN row.keywordExpected = "text" /\ row.keywordMustExist # Absent
                               ELSE KeywordFieldsAbsent(row)

\* A status page shows monitors of its owner only, and none that is gone.
PagesShowOwnMonitors ==
  \A p \in Pages : page[p].state = "here" => page[p].monitors \subseteq Owned("monitor", page[p].owner)

\* A monitor stays paused, and a page private, until a request says otherwise,
\* unless two updates of it overlapped: each writes what it read, whatever it was
\* asked for.
SettingsStick ==
  /\ \A m \in Monitors \ overlapped : MonitorHere(m) => monitor[m].row.isActive = asked[m]
  /\ \A p \in Pages \ overlapped : page[p].state = "here" => page[p].isPublic = asked[p]
=============================================================================
