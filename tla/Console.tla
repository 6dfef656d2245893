------------------------------- MODULE Console -------------------------------
(***************************************************************************)
(* A browser tab on the dashboard and on the pages of monitors: the cache  *)
(* of queries, the create form, the editor of a monitor, the requests they *)
(* send, and who is signed in.                                             *)
(*                                                                         *)
(* A query is answered with what the API read when it was sent and lands   *)
(* later; a request is handled in one step (Account has the steps) and     *)
(* its outcome reaches the tab later.  The table of monitors is also       *)
(* changed from elsewhere: another tab, a client of the API, a worker.     *)
(***************************************************************************)
EXTENDS MonitorForm, CheckExecutor, FiniteSets, TLC

CONSTANTS
  Users, NoUser,
  Plan,           \* per user
  Monitors, NoMonitor,
  Answers,        \* bound: the answers checks get
  Typed,          \* bound: the targets typed into the editor
  OtherRows       \* bound: what is written from elsewhere

ASSUME UsersAssumption == NoUser \notin Users /\ NoMonitor \notin Monitors
ASSUME PagesAssumption == {"login", "dashboard"} \cap Monitors = {}
ASSUME DefaultAssumption == 300 \in Intervals
ASSUME PlanAssumption == Plan \in [Users -> DOMAIN minMonitorIntervalSeconds]

\* What the API writes: a keyword is that of a KEYWORD monitor (Account).
WrittenRows == {row \in Rows : row.type = "KEYWORD" \/ KeywordFieldsAbsent(row)}

ASSUME BoundsAssumption == Typed \subseteq Texts /\ OtherRows \subseteq WrittenRows
ASSUME AnswersAssumption ==
  \A a \in Answers : /\ a.code \in Nat /\ a.certificate.days \in Int
                     /\ a.certificate.kind \in {"none", "no date", "dated"}

VARIABLES
  monitor,   \* the table: per id its state, owner, row, latest check and number of checks
  user,      \* who is signed in
  logins,    \* sign-ins so far
  route,     \* the page: "login", "dashboard" or a monitor's
  cache,     \* per query with data: the data, whether it is fresh, the sign-in it is of
  fetching,  \* per query that is being fetched: the answer, and the sign-in it is of
  editor,    \* the editor of the monitor page; ghost: seen, the row that filled it
  creating,  \* the create form of the dashboard
  request,   \* the request of each mutation
  writers,   \* ghost: per monitor, the users whose requests changed it
  left       \* bound: how often the tab or the world may still do what

tab == <<user, logins, route, cache, fetching, editor, creating, request>>
vars == <<monitor, tab, writers, left>>

Mutations == {"create", "update", "delete", "restart"}
Operations == {"goto", "open", "type", "submit", "switch", "expire", "elsewhere", "check", "history"}

Spend(operation) ==
  left[operation] > 0 /\ left' = [left EXCEPT ![operation] = @ - 1]

Idle == [pc |-> "idle"]
NoCheck == [result |-> Up, of |-> Absent, days |-> 0]
NewRow == [state |-> "new", owner |-> NoUser, row |-> Empty, check |-> NoCheck, checks |-> 0]
Closed == [open |-> FALSE, form |-> getDefaultMonitorFormValues, seen |-> Empty]
ClosedForm == [open |-> FALSE, form |-> getDefaultMonitorFormValues]

MinInterval == IF user = NoUser THEN 300 ELSE minMonitorIntervalSeconds[Plan[user]]

Here(m) == monitor[m].state = "here"

-----------------------------------------------------------------------------
(* Queries *)

List == <<"list", NoMonitor>>
Detail(m) == <<"detail", m>>
Checks(m) == <<"checks", m>>
Stats(m) == <<"stats", m>>
Queries == {List} \cup ({"detail", "checks", "stats"} \X Monitors)

\* Mutant of Owned: the API looks monitors up by their id alone.
OwnedByAnyone(u) == {m \in Monitors : Here(m)}

Owned(u) == {m \in Monitors : Here(m) /\ monitor[m].owner = u}

\* What the API says of q to u, "none" being its 404.
Answer(q, u) ==
  LET m == q[2] IN
  CASE q[1] = "list" -> [kind |-> "list", data |-> Owned(u)]
    [] q[1] # "list" /\ m \notin Owned(u) -> [kind |-> "none"]
    [] q[1] = "detail" /\ m \in Owned(u) -> [kind |-> "detail", data |-> monitor[m].row]
    [] q[1] = "checks" /\ m \in Owned(u) ->
         [kind |-> "checks", check |-> monitor[m].check, checks |-> monitor[m].checks]
    [] q[1] = "stats" /\ m \in Owned(u) ->
         [kind |-> "stats", checks |-> monitor[m].checks,
          currentStatus |-> IF monitor[m].checks = 0 THEN "UNKNOWN"
                            ELSE IF monitor[m].check.result.isUp THEN "UP" ELSE "DOWN"]

Cached(q) == q \in DOMAIN cache
Fresh(q) == Cached(q) /\ cache[q].fresh
Listed == IF Cached(List) THEN cache[List].answer.data ELSE {}

\* Bound: a behaviour with no "history" leaves checks and statistics out.
WithHistory(queries) == IF left["history"] = 0 THEN {} ELSE queries

\* The queries a page observes.
Observed(page) ==
  CASE page = "login" -> {}
    [] page = "dashboard" -> {List} \cup WithHistory({Stats(m) : m \in Listed})
    [] page \in Monitors -> {Detail(page)} \cup WithHistory({Checks(page), Stats(page)})

\* What is under way, and queries sent now for u.
Sending(underWay, queries, u, login) ==
  [q \in queries \cup DOMAIN underWay |->
     IF q \in queries THEN [answer |-> Answer(q, u), login |-> login] ELSE underWay[q]]

\* A page is shown: what it observes is fetched unless it is fresh, or under way.
Show(page, u, login) ==
  /\ route' = page
  /\ fetching' = Sending(fetching, {q \in Observed(page) : ~Fresh(q)} \ DOMAIN fetching, u, login)

\* invalidateQueries: nothing cached is fresh any more; what the page observes is
\* fetched again, in place of what is under way for a query that has data.
Invalidate(page) ==
  /\ cache' = [q \in DOMAIN cache |-> [cache[q] EXCEPT !.fresh = FALSE]]
  /\ fetching' = Sending([q \in DOMAIN fetching \ (Observed(page) \cap DOMAIN cache) |-> fetching[q]],
                         Observed(page) \ (DOMAIN fetching \ DOMAIN cache), user, logins)

\* The answer to q lands.  Monitors new in the list bring their statistics; after
\* a 404 there is no data.
Land(q) ==
  LET f == fetching[q]
      without == [x \in DOMAIN fetching \ {q} |-> fetching[x]]
      added == IF f.answer.kind = "list" /\ route = "dashboard"
               THEN WithHistory({Stats(m) : m \in f.answer.data \ Listed}) ELSE {}
  IN
  /\ q \in DOMAIN fetching
  /\ cache' = IF f.answer.kind = "none" THEN [x \in DOMAIN cache \ {q} |-> cache[x]]
              ELSE [x \in DOMAIN cache \cup {q} |->
                      IF x = q THEN [answer |-> f.answer, fresh |-> TRUE, login |-> f.login] ELSE cache[x]]
  /\ fetching' = Sending(without, {x \in added : ~Fresh(x)} \ DOMAIN without, user, logins)
  /\ UNCHANGED <<monitor, user, logins, route, editor, creating, request, writers, left>>

\* The minute of its freshness passes; a query no page observes may be dropped.
Expire(q) ==
  /\ Fresh(q) /\ Spend("expire")
  /\ \/ cache' = [cache EXCEPT ![q].fresh = FALSE]
     \/ q \notin Observed(route) /\ cache' = [x \in DOMAIN cache \ {q} |-> cache[x]]
  /\ UNCHANGED <<monitor, user, logins, route, fetching, editor, creating, request, writers>>

\* The dashboard's refresh button.
Refresh ==
  /\ route = "dashboard" /\ Cached(List) /\ Spend("goto")
  /\ fetching' = Sending(fetching, {List}, user, logins)
  /\ UNCHANGED <<monitor, user, logins, route, cache, editor, creating, request, writers>>

-----------------------------------------------------------------------------
(* Pages *)

\* The callbacks of a request outlive the page that sent it, its state does not.
Detach == request' = [o \in Mutations |-> IF request[o].pc = "idle" THEN Idle
                                          ELSE [request[o] EXCEPT !.attached = FALSE]]

\* From one monitor to another the page stays mounted and keeps its state: the
\* open editor, and what was typed in it.
MonitorPageState(page) ==
  IF route \in Monitors /\ page \in Monitors THEN UNCHANGED <<editor, creating, request>>
  ELSE editor' = Closed /\ creating' = ClosedForm /\ Detach

\* A monitor is reached from the list, or from the toast of its outage.
Goto(page) ==
  /\ user # NoUser /\ page # route /\ Spend("goto")
  /\ page \in Listed \cup Owned(user) \cup {"dashboard"}
  /\ MonitorPageState(page)
  /\ Show(page, user, logins)
  /\ UNCHANGED <<monitor, user, logins, cache, writers>>

\* Signing out clears the session and nothing else; "login" is any page of those
\* who are signed out.
Logout ==
  /\ user # NoUser /\ Spend("switch")
  /\ user' = NoUser /\ route' = "login"
  /\ editor' = Closed /\ creating' = ClosedForm /\ Detach
  /\ UNCHANGED <<monitor, logins, cache, fetching, writers>>

Login(u) ==
  /\ user = NoUser /\ Spend("switch")
  /\ user' = u /\ logins' = logins + 1
  /\ Show("dashboard", u, logins + 1)
  /\ UNCHANGED <<monitor, cache, editor, creating, request, writers>>

-----------------------------------------------------------------------------
(* Forms *)

Shown == cache[Detail(route)].answer.data
isEditableMonitor == route \in Monitors /\ Cached(Detail(route)) /\ Shown.type # "HEARTBEAT"

\* Opening fills the editor with the monitor as the page shows it, and closing too.
ToggleEditor ==
  /\ isEditableMonitor /\ Spend("open")
  /\ editor' = [open |-> ~editor.open, form |-> toMonitorFormValues(Shown), seen |-> Shown]
  /\ UNCHANGED <<monitor, user, logins, route, cache, fetching, creating, request, writers>>

\* The type is fixed in the editor.
updateEditField(url) ==
  /\ isEditableMonitor /\ editor.open /\ Spend("type")
  /\ editor' = [editor EXCEPT !.form.url = url]
  /\ UNCHANGED <<monitor, user, logins, route, cache, fetching, creating, request, writers>>

\* What a request asks for, and what came of it.
Asking == [pc |-> "sent", user |-> user, attached |-> TRUE, target |-> route, payload |-> Empty,
           seen |-> Empty, ok |-> FALSE, found |-> Empty, row |-> Empty]

Send(o, r) == request' = [request EXCEPT ![o] = r]

\* The monitor is that of the page, whatever filled the form.
handleMonitorUpdate ==
  /\ isEditableMonitor /\ editor.open /\ Spend("submit")
  /\ request["update"].pc = "idle"
  /\ createMonitorSchema(editor.form, MinInterval)
  /\ Send("update", [Asking EXCEPT !.payload = toCreateMonitorPayload(editor.form), !.seen = editor.seen])
  /\ UNCHANGED <<monitor, user, logins, route, cache, fetching, editor, creating, writers>>

deleteMonitor ==
  /\ isEditableMonitor /\ Spend("submit")
  /\ request["delete"].pc = "idle"
  /\ Send("delete", Asking)
  /\ UNCHANGED <<monitor, user, logins, route, cache, fetching, editor, creating, writers>>

restartMonitor ==
  /\ isEditableMonitor /\ Shown.isActive = "yes" /\ Spend("submit")
  /\ request["restart"].pc = "idle" /\ request["delete"].pc = "idle"
  /\ Send("restart", Asking)
  /\ UNCHANGED <<monitor, user, logins, route, cache, fetching, editor, creating, writers>>

ToggleCreateForm ==
  /\ route = "dashboard" /\ Spend("open")
  /\ creating' = [open |-> ~creating.open,
                  form |-> IF creating.open THEN creating.form ELSE getDefaultMonitorFormValues]
  /\ UNCHANGED <<monitor, user, logins, route, cache, fetching, editor, request, writers>>

updateField(form) ==
  /\ route = "dashboard" /\ creating.open /\ Spend("type")
  /\ creating' = [creating EXCEPT !.form = form]
  /\ UNCHANGED <<monitor, user, logins, route, cache, fetching, editor, request, writers>>

handleMonitorSubmit ==
  /\ route = "dashboard" /\ creating.open /\ Spend("submit")
  /\ request["create"].pc = "idle"
  /\ createMonitorSchema(creating.form, MinInterval)
  /\ Send("create", [Asking EXCEPT !.payload = toCreateMonitorPayload(creating.form)])
  /\ UNCHANGED <<monitor, user, logins, route, cache, fetching, editor, creating, writers>>

-----------------------------------------------------------------------------
(* Requests *)

Respond(o, ok, found, row) ==
  request' = [request EXCEPT ![o] = [@ EXCEPT !.pc = "answered", !.ok = ok, !.found = found, !.row = row]]

\* The limit of the plan is in Account.
ServeCreate ==
  LET r == request["create"] IN
  /\ r.pc = "sent"
  /\ IF Accepts(r.payload, Plan[r.user], Empty)
     THEN \E m \in Monitors :
            /\ monitor[m].state = "new"
            /\ monitor' = [monitor EXCEPT ![m] = [NewRow EXCEPT !.state = "here", !.owner = r.user,
                                                  !.row = normalizeMonitorInput(r.payload, Empty)]]
            /\ Respond("create", TRUE, Empty, Empty)
     ELSE Respond("create", FALSE, Empty, Empty) /\ UNCHANGED monitor
  /\ UNCHANGED <<user, logins, route, cache, fetching, editor, creating, writers, left>>

\* Ghosts: the row as the update found it, and as it left it.
ServeUpdate ==
  LET r == request["update"]
      m == r.target
      ok == m \in Owned(r.user) /\ Accepts(r.payload, Plan[r.user], monitor[m].row)
      row == normalizeMonitorInput(r.payload, monitor[m].row)
  IN
  /\ r.pc = "sent"
  /\ IF ok
     THEN /\ monitor' = [monitor EXCEPT ![m].row = row]
          /\ writers' = [writers EXCEPT ![m] = @ \cup {r.user}]
          /\ Respond("update", TRUE, monitor[m].row, row)
     ELSE /\ Respond("update", FALSE, IF m \in Owned(r.user) THEN monitor[m].row ELSE Empty, Empty)
          /\ UNCHANGED <<monitor, writers>>
  /\ UNCHANGED <<user, logins, route, cache, fetching, editor, creating, left>>

ServeDelete ==
  LET r == request["delete"]
      ok == r.target \in Owned(r.user)
  IN
  /\ r.pc = "sent"
  /\ Respond("delete", ok, Empty, Empty)
  /\ IF ok THEN /\ monitor' = [monitor EXCEPT ![r.target].state = "gone"]
                /\ writers' = [writers EXCEPT ![r.target] = @ \cup {r.user}]
     ELSE UNCHANGED <<monitor, writers>>
  /\ UNCHANGED <<user, logins, route, cache, fetching, editor, creating, left>>

\* A check is queued, for a monitor that has checks and is not paused.
ServeRestart ==
  LET r == request["restart"] IN
  /\ r.pc = "sent"
  /\ Respond("restart", /\ r.target \in Owned(r.user)
                      /\ monitor[r.target].row.type # "HEARTBEAT"
                      /\ monitor[r.target].row.isActive = "yes", Empty, Empty)
  /\ UNCHANGED <<monitor, user, logins, route, cache, fetching, editor, creating, writers, left>>

\* Success closes the editor, or the create form, of the page that sent the request,
\* whatever has been typed in it since, and invalidates what is known of monitors.
Settle(o) ==
  LET r == request[o]
      mine == r.ok /\ r.attached
      away == o = "delete" /\ r.ok /\ user # NoUser
  IN
  /\ r.pc = "answered"
  /\ editor' = CASE away /\ route \in Monitors -> Closed
                 [] ~away /\ o = "update" /\ mine ->
                      [open |-> FALSE, form |-> toMonitorFormValues(r.row), seen |-> r.row]
                 [] OTHER -> editor
  /\ creating' = IF o = "create" /\ mine THEN ClosedForm ELSE creating
  /\ request' = [x \in Mutations |-> IF x = o THEN Idle
                   ELSE IF away /\ route \in Monitors /\ request[x].pc # "idle"
                   THEN [request[x] EXCEPT !.attached = FALSE] ELSE request[x]]
  /\ IF r.ok THEN Invalidate(IF away THEN "dashboard" ELSE route) ELSE UNCHANGED <<cache, fetching>>
  /\ route' = IF away THEN "dashboard" ELSE route
  /\ UNCHANGED <<monitor, user, logins, writers, left>>

-----------------------------------------------------------------------------
(* The world *)

\* Another client of the owner writes the row, or deletes it.
Elsewhere(m) ==
  /\ Here(m) /\ Spend("elsewhere")
  /\ \/ \E row \in OtherRows : row # monitor[m].row /\ monitor' = [monitor EXCEPT ![m].row = row]
     \/ monitor' = [monitor EXCEPT ![m].state = "gone"]
  /\ UNCHANGED <<tab, writers>>

\* A worker checks m.
Check(m) ==
  /\ Here(m) /\ monitor[m].row.isActive = "yes" /\ monitor[m].row.type # "HEARTBEAT"
  /\ ~Throws(monitor[m].row) /\ Spend("check")
  /\ \E answer \in Answers :
       monitor' = [monitor EXCEPT ![m].checks = @ + 1,
                     ![m].check = [result |-> execute(monitor[m].row, answer), of |-> monitor[m].row.type,
                                   days |-> answer.certificate.days]]
  /\ UNCHANGED <<tab, writers>>

\* A tab has just loaded, or holds what it has just read; no monitor was checked yet.
Init ==
  /\ monitor \in [Monitors -> {NewRow} \cup [state : {"here", "gone"}, owner : Users, row : WrittenRows,
                                            check : {NoCheck}, checks : {0}]]
  /\ \/ user = NoUser /\ logins = 0 /\ route = "login"
     \/ user \in Users /\ logins = 1 /\ route \in Monitors \cup {"dashboard"}
  /\ \E held \in SUBSET {q \in Queries : user # NoUser /\ Answer(q, user).kind # "none"} :
       cache = [q \in held |-> [answer |-> Answer(q, user), fresh |-> TRUE, login |-> logins]]
  /\ fetching = Sending(<<>>, {q \in Observed(route) : ~Cached(q)}, user, logins)
  /\ editor = Closed /\ creating = ClosedForm
  /\ request = [o \in Mutations |-> Idle]
  /\ writers = [m \in Monitors |-> {}]
  /\ left \in [Operations -> Nat]

Next ==
  \/ \E q \in Queries : Land(q) \/ Expire(q)
  \/ Refresh
  \/ \E page \in Monitors \cup {"dashboard"} : Goto(page)
  \/ Logout \/ \E u \in Users : Login(u)
  \/ ToggleEditor \/ \E url \in Typed : updateEditField(url)
  \/ handleMonitorUpdate \/ deleteMonitor \/ restartMonitor
  \/ ToggleCreateForm \/ \E form \in Forms : updateField(form)
  \/ handleMonitorSubmit
  \/ ServeCreate \/ ServeUpdate \/ ServeDelete \/ ServeRestart
  \/ \E o \in Mutations : Settle(o)
  \/ \E m \in Monitors : Elsewhere(m) \/ Check(m)

Spec == Init /\ [][Next]_vars

-----------------------------------------------------------------------------
(* Properties *)

\* Types.
ConsoleTypeOK ==
  /\ \A m \in Monitors : /\ monitor[m].state \in {"new", "here", "gone"}
                         /\ monitor[m].owner \in Users \cup {NoUser}
                         /\ monitor[m].row \in Rows \cup {Empty}
                         /\ monitor[m].check.result \in Results
  /\ user \in Users \cup {NoUser} /\ logins \in Nat
  /\ route \in Monitors \cup {"login", "dashboard"}
  /\ DOMAIN cache \subseteq Queries /\ DOMAIN fetching \subseteq Queries
  /\ editor.open \in BOOLEAN /\ editor.form \in Forms
  /\ creating.open \in BOOLEAN /\ creating.form \in Forms
  /\ \A o \in Mutations : request[o].pc \in {"idle", "sent", "answered"}
  /\ writers \in [Monitors -> SUBSET Users]

\* Saving the editor ("The existing monitor type is fixed when editing from this
\* page.") is accepted and leaves the monitor its type, unless the monitor as the
\* editor was filled had another type: it was the page of another monitor, or the
\* monitor was changed, or deleted, from elsewhere in between.
SavesHaveTheirMonitor ==
  LET r == request["update"] IN
  r.pc = "answered" /\ r.found.type = r.seen.type => r.ok /\ r.row.type = r.found.type

\* After another user signed in, the tab shows what the API told the one before
\* only while nothing it asked for since has arrived, and whatever a user does on a
\* page of somebody else's monitor, no monitor is changed but by its owner.
OthersMonitorsAreOnlySeen ==
  /\ user # NoUser => \A q \in DOMAIN cache :
       (IF q = List THEN cache[q].answer.data ELSE {q[2]}) \subseteq {m \in Monitors : monitor[m].owner = user}
         \/ cache[q].login < logins
  /\ \A m \in Monitors : writers[m] \subseteq {monitor[m].owner}

\* getSslCertificateSummary, of the latest check and of the statistics, which are
\* queries of their own.
CertificateLabel ==
  LET check == cache[Checks(route)].answer.check
      currentStatus == IF Cached(Stats(route)) THEN cache[Stats(route)].answer.currentStatus ELSE "UNKNOWN"
  IN
  CASE ~Cached(Checks(route)) \/ cache[Checks(route)].answer.checks = 0 -> "Unknown"
    [] OTHER -> CASE check.result.error = "expired" -> "Expired"
                  [] check.result.error = "expires soon" -> "Expiring Soon"
                  [] check.result.isUp /\ currentStatus = "UP" -> "Healthy"
                  [] check.result.error \notin {"expired", "expires soon", "none", "empty"} -> "Needs Review"
                  [] OTHER -> "Unknown"

\* An SSL monitor's certificate is called healthy only if the check the page shows
\* found it valid for a week, or is older than the monitor's type; and unknown,
\* although there is a check, only if the statistics are missing or of another
\* check, or the check failed with an error without a text, which "if (error)" skips.
CertificateLabelHasItsCheck ==
  route \in Monitors /\ Cached(Detail(route)) /\ Cached(Checks(route)) /\ Shown.type = "SSL" =>
    LET shown == cache[Checks(route)].answer IN
    /\ CertificateLabel = "Healthy" => shown.check.of # "SSL" \/ shown.check.days >= 7
    /\ CertificateLabel = "Unknown" =>
         \/ shown.checks = 0 \/ ~Cached(Stats(route))
         \/ cache[Stats(route)].answer.checks # shown.checks
         \/ shown.check.result.error = "empty"
=============================================================================
