------------------------------ MODULE MCConsole ------------------------------
(* Finite instances of what a browser shows and saves.  A behaviour is about    *)
(* one thing: editing a monitor, the create form, another user signing in,      *)
(* certificates (Console); the contacts or the status pages (ListPages); or who *)
(* is signed in (Sessions).                                                     *)
EXTENDS Console, ListPages, Sessions

CONSTANTS u1, u2, m1, m2

Row(type, url, keyword, active) ==
  [type |-> type, url |-> url, keywordExpected |-> keyword,
   keywordMustExist |-> IF keyword = Absent THEN Absent ELSE "no", intervalSeconds |-> 300,
   isActive |-> active, heartbeatToken |-> type = "HEARTBEAT"]
Https == Row("HTTP", "https", Absent, "yes")
Keyword == Row("KEYWORD", "http", "text", "yes")
Ssl == Row("SSL", "https", Absent, "yes")
MCPlan == u1 :> "FREE" @@ u2 :> "PRO"
MCOtherRows == {Ssl, Row("HTTP", "http", Absent, "no")}

Reply(error, code, hasKeyword, events, kind, days) ==
  [error |-> error, code |-> code, hasKeyword |-> hasKeyword, events |-> events,
   certificate |-> [kind |-> kind, days |-> days]]
Fetched(code, hasKeyword) == Reply("none", code, hasKeyword, <<"connect">>, "none", 0)
Handshake(kind, days) == Reply("none", 200, FALSE, <<"connect">>, kind, days)
MCAnswers ==
  {Fetched(399, TRUE), Fetched(400, FALSE), Reply("TimeoutError", 0, FALSE, <<"timeout", "connect">>, "none", 0)}
  \cup {Reply("AggregateError", 0, FALSE, <<"AggregateError">>, "none", 0), Handshake("no date", 0)} \cup {Handshake("dated", d) : d \in {-1, 6, 7}}

Only(amounts) == left = [o \in Operations |-> IF o \in DOMAIN amounts THEN amounts[o] ELSE 0]
Monitor(u, row) == [NewRow EXCEPT !.state = "here", !.owner = u, !.row = row]
Held(q, login) == [answer |-> Answer(q, u1), fresh |-> TRUE, login |-> login]
\* The tab has just loaded, or everything was looked at within the minute.
Opening(at) ==
  /\ user = u1 /\ logins = 1 /\ route = at
  /\ cache = <<>> /\ fetching = Sending(<<>>, Observed(at), u1, 1)
Opened(at) ==
  /\ user = u1 /\ logins = 1 /\ route = at
  /\ cache = [q \in {List, Detail(m1), Detail(m2)} |-> Held(q, 1)] /\ fetching = <<>>

Editing ==
  /\ monitor = (m1 :> Monitor(u1, Https) @@ m2 :> Monitor(u1, Keyword))
  /\ Opened(m1)
  /\ \E others \in {0, 1} :
       Only("goto" :> 1 @@ "open" :> 2 - others @@ "type" :> 1 @@ "submit" :> 2 - others @@ "elsewhere" :> others)

Creating ==
  /\ Only("history" :> 1 @@ "goto" :> 1 @@ "open" :> 2 @@ "type" :> 1 @@ "submit" :> 1)
  /\ monitor = (m1 :> Monitor(u1, Https) @@ m2 :> NewRow)
  /\ Opening("dashboard")

Switching ==
  /\ Only("history" :> 1 @@ "goto" :> 1 @@ "open" :> 1 @@ "submit" :> 1 @@ "switch" :> 2 @@ "expire" :> 1)
  /\ monitor = (m1 :> Monitor(u1, Https) @@ m2 :> Monitor(u2, Ssl))
  /\ Opening("dashboard")

Certificates ==
  /\ Only("history" :> 1 @@ "goto" :> 2 @@ "elsewhere" :> 1 @@ "check" :> 2)
  /\ \E row \in {Https, Ssl} : monitor = (m1 :> Monitor(u1, row) @@ m2 :> NewRow)
  /\ Opening("dashboard")

NoConsole ==
  /\ monitor = [m \in Monitors |-> NewRow] /\ Only(<<>>)
  /\ user = NoUser /\ logins = 0 /\ route = "login" /\ cache = <<>> /\ fetching = <<>>

-----------------------------------------------------------------------------
(* Contacts and status pages *)

Contact(type, value) == [type |-> type, value |-> value]
StatusPage(slug, description, monitorIds) ==
  [slug |-> slug, description |-> description, monitorIds |-> monitorIds]
InTable(row) == [state |-> "here", row |-> row]
NotYet == [state |-> "new", row |-> defaultFormValues]
Steps(amounts) ==
  steps = [x \in {"page", "edit", "type", "submit", "offline", "other"} |-> IF x \in DOMAIN amounts THEN amounts[x] ELSE 0]

Contacts ==
  /\ site = "alerts"
  /\ table = <<InTable(Contact("EMAIL", "email")), InTable(Contact("SMS", "phone")), NotYet>>
  /\ \/ Steps("page" :> 2 @@ "edit" :> 1 @@ "type" :> 1 @@ "submit" :> 2 @@ "offline" :> 1)
     \/ Steps("edit" :> 2 @@ "submit" :> 1 @@ "offline" :> 1 @@ "other" :> 1)

StatusPages ==
  /\ site = "status-pages"
  /\ table = <<InTable(StatusPage("a", "text", ShownMonitors)), InTable(StatusPage("b", "", {})), NotYet>>
  /\ Steps("edit" :> 2 @@ "type" :> 1 @@ "submit" :> 2 @@ "other" :> 1)

NoList == site = "none" /\ table = [i \in Ids |-> NotYet] /\ Steps(<<>>)

-----------------------------------------------------------------------------
(* Who is signed in *)

User(email, plan) == [state |-> "here", email |-> email, password |-> "p", plan |-> plan]
NoAccount == [state |-> "new", email |-> "", password |-> "", plan |-> "FREE"]
MCCredentials == [email : {"e1", "e2"}, password : {"p"}]
Tries(amounts) ==
  tries = [x \in Deeds |-> IF x \in DOMAIN amounts THEN amounts[x] ELSE 0]
Everywhere(at, knows) ==
  page = [t \in Tabs |-> at] /\ session = [t \in Tabs |-> knows]

\* Both tabs are in; neither is, and there is one account; both are just opened.
SignedIn ==
  /\ account = <<User("e1", "FREE"), User("e2", "PRO"), NoAccount>> /\ cookie = 1
  /\ Everywhere("app", Known(toAuthenticatedUser(1), TRUE, {}))
  /\ Tries("visit" :> 3 @@ "submit" :> 3 @@ "stale" :> 1 @@ "expire" :> 1 @@ "fail" :> 1)

SignedOut ==
  /\ account = <<User("e1", "FREE"), NoAccount, NoAccount>> /\ cookie = Nobody
  /\ Everywhere("login", Known(toAuthenticatedUser(Nobody), TRUE, {}))
  /\ Tries("visit" :> 1 @@ "submit" :> 2 @@ "client" :> 1 @@ "upgrade" :> 1 @@ "fail" :> 1)

Paying ==
  /\ account = <<User("e1", "FREE"), NoAccount, NoAccount>> /\ cookie = 1
  /\ Everywhere("loading", [pc |-> "unknown"])
  /\ Tries("visit" :> 3 @@ "submit" :> 1 @@ "pay" :> 1 @@ "upgrade" :> 1)

NoSessions ==
  /\ account = [u \in Accounts |-> NoAccount] /\ cookie = Nobody
  /\ Everywhere("home", [pc |-> "unknown"]) /\ Tries(<<>>)

-----------------------------------------------------------------------------
MCInit ==
  /\ \/ (Editing \/ Creating \/ Switching \/ Certificates) /\ NoList /\ NoSessions
     \/ NoConsole /\ (Contacts \/ StatusPages) /\ NoSessions
     \/ NoConsole /\ NoList /\ (SignedIn \/ SignedOut \/ Paying)
  /\ alive = ShownMonitors
  /\ Init /\ ListInit /\ SessionsInit

MCNext ==
  \/ logins > 0 /\ Next /\ UNCHANGED <<listVars, sessionVars>>
  \/ site # "none" /\ ListNext /\ UNCHANGED <<vars, sessionVars>>
  \/ account[1] # NoAccount /\ SessionsNext /\ UNCHANGED <<vars, listVars>>

MCSpec == MCInit /\ [][MCNext]_<<vars, listVars, sessionVars>>

\* The state of every page is of its types.
TypesOK == ConsoleTypeOK /\ ListTypeOK /\ SessionsTypeOK
=============================================================================
