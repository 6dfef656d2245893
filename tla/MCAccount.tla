----------------------------- MODULE MCAccount -----------------------------
(* Finite instances of Account.  A behaviour is about payments, about limits,  *)
(* about updates of a monitor, or about status pages: what is left to ask for  *)
(* in the others keeps them small.                                             *)
EXTENDS Account, TLC

CONSTANTS u1, u2, e1, e2, w1, m1, m2, k1, k2, k3, p1

MCLimits == [FREE |-> [monitor |-> 1, contact |-> 1], PRO |-> [monitor |-> 2, contact |-> 2]]

Asks(type, url, keyword, interval, active) ==
  [type |-> type, url |-> url, keywordExpected |-> keyword,
   keywordMustExist |-> IF keyword = Absent THEN Absent ELSE "yes",
   intervalSeconds |-> interval, isActive |-> active]

NewHttp == Asks("HTTP", "https", Absent, 300, Absent)
NewKeyword == Asks("KEYWORD", "http", "text", 60, "no")
Updates == {Asks(t, u, Absent, 0, Absent) : t \in Types \cup {Absent}, u \in {"http", "https", Absent}}
MCInputs ==
  Updates \cup {NewHttp, NewKeyword, Asks("TCP", "target", Absent, 60, Absent),
                Asks("KEYWORD", Absent, "empty", 0, Absent),
                Asks(Absent, Absent, Absent, 60, "yes"), Asks(Absent, Absent, Absent, 0, "no")}

Only(amounts) == left = [o \in Operations |-> IF o \in DOMAIN amounts THEN amounts[o] ELSE 0]
FreeUser(email) == [state |-> "here", email |-> email, plan |-> "FREE"]
NewUser == [state |-> "new", email |-> NoEmail, plan |-> "FREE"]
OneUser == user = [u \in Users |-> IF u = u1 THEN FreeUser(e1) ELSE NewUser]
ProUser == user = [u \in Users |-> IF u = u1 THEN [FreeUser(e1) EXCEPT !.plan = "PRO"] ELSE NewUser]
BothUsers == user = (u1 :> FreeUser(e1) @@ u2 :> FreeUser(e2))
Row(input) == normalizeMonitorInput([input EXCEPT !.isActive = "yes"], Empty)
Monitor(owner, input) == [state |-> "here", owner |-> owner, row |-> Row(input)]
NoMonitors == monitor = [m \in Monitors |-> NewMonitor]

NoPages == page = [p \in Pages |-> NewPage]

NoWebhook == event = [w \in Webhooks |-> NoEvent] /\ delivery = [w \in Webhooks |-> [d \in Deliveries |-> Idle]]
Quiet == NoWebhook /\ checkout = {u \in Users : Here(u)} /\ failures = MaxFailures

Payments ==
  /\ OneUser /\ NoMonitors /\ NoPages
  /\ NoWebhook /\ checkout = {} /\ failures = 0
  /\ Only("register" :> 1 @@ "email" :> 2 @@ "leave" :> 1 @@ "pay" :> 1)

\* One delivery is about to upgrade the user.
Limits ==
  /\ OneUser /\ NoMonitors /\ NoPages
  /\ checkout = {u1} /\ failures \in {MaxFailures - 1, MaxFailures}
  /\ event = [w \in Webhooks |-> Issued([activates |-> TRUE, user |-> u1, email |-> e1])]
  /\ delivery = [w \in Webhooks |-> [d \in Deliveries |-> [pc |-> "upgrade", user |-> u1]]]
  /\ Only("contact" :> (IF failures = MaxFailures THEN 4 ELSE 2) @@ "delete" :> 1)

Creation ==
  /\ OneUser /\ NoMonitors /\ NoPages /\ Quiet
  /\ Only("monitor" :> 1 @@ "update" :> 1 @@ "leave" :> 1)

MonitorUpdates ==
  /\ OneUser \/ ProUser
  /\ NoPages /\ Quiet
  /\ \E input \in {NewHttp, [NewKeyword EXCEPT !.intervalSeconds = 300, !.isActive = Absent]} :
       monitor = (m1 :> Monitor(u1, input) @@ m2 :> NewMonitor)
  /\ Only("update" :> 2 @@ "delete" :> 1)

StatusPages ==
  /\ BothUsers /\ Quiet
  /\ monitor = (m1 :> Monitor(u1, NewHttp) @@ m2 :> Monitor(u2, NewHttp))
  /\ page \in {[p \in Pages |-> NewPage],
               [p \in Pages |-> [state |-> "here", owner |-> u1, isPublic |-> "yes", monitors |-> {m1}]]}
  /\ \E leaving \in {0, 1} : Only("page" :> 2 - leaving @@ "delete" :> 1 @@ "leave" :> leaving)

MCInit ==
  /\ Payments \/ Limits \/ Creation \/ MonitorUpdates \/ StatusPages
  /\ processed = {} /\ unknown = {}
  /\ upgrades = [w \in Webhooks |-> {}]
  /\ early = [w \in Webhooks |-> Cardinality({d \in Deliveries : delivery[w][d] # Idle})]
  /\ contact = [c \in Contacts |-> New]
  /\ request = [r \in Requests |-> [pc |-> "idle"]]
  /\ asked = [x \in Monitors \cup Pages |-> "yes"]
  /\ overlapped = {}

MCSpec == MCInit /\ [][Next]_vars /\ Fairness
=============================================================================
