------------------------------ MODULE Sessions ------------------------------
(***************************************************************************)
(* Who the tabs of one browser think is signed in.  The tabs share the     *)
(* cookie; each has its own copy of the session, read by /auth/me, set by  *)
(* its own sign-in or sign-out, and what the router's guards go by.        *)
(*                                                                         *)
(* Calls of the API look the account up and write in a second step; the    *)
(* answer, and the cookie with it, reaches the tab later, or never.        *)
(* Accounts also change by a client of the API and by the webhook of a     *)
(* payment.  Passwords are compared as they are, not as hashes; e-mail     *)
(* addresses are those that trim and toLowerCase make of them.             *)
(***************************************************************************)
EXTENDS Naturals, FiniteSets

CONSTANTS
  Tabs, Client,       \* those that call the API
  Accounts, Nobody,   \* ids of users
  Credentials         \* the e-mail addresses and passwords typed

ASSUME SessionsAssumption == Client \notin Tabs /\ Nobody \notin Accounts

VARIABLES
  account,  \* the table of users
  cookie,   \* the user of the browser's cookie
  session,  \* per tab, the session it knows; ghost: why it may be out of date
  me,       \* per tab, the /auth/me under way; ghost: why its answer may be
  call,     \* per caller, the call under way; ghost: likewise
  page,     \* per tab, where it is
  going,    \* per tab, the page whose guard waits for the session
  tries     \* bound: how often each deed may still be done

sessionVars == <<account, cookie, session, me, call, page, going, tries>>

Try(deed) == tries[deed] > 0 /\ tries' = [tries EXCEPT ![deed] = @ - 1]

-----------------------------------------------------------------------------
(* Users *)

Exists(u) == u # Nobody /\ account[u].state = "here"
findByEmail(email) == {u \in Accounts : Exists(u) /\ account[u].email = email}

\* JwtStrategy.validate: the token is of a user there is.
validate(token) == IF Exists(token) THEN token ELSE Nobody

toAuthenticatedUser(u) ==
  IF u = Nobody THEN [user |-> Nobody, email |-> "", plan |-> "FREE"]
  ELSE [user |-> u, email |-> account[u].email, plan |-> account[u].plan]

-----------------------------------------------------------------------------
(* What a tab knows *)

None == [pc |-> "none"]
Unknown == [pc |-> "unknown"]
Known(data, fresh, causes) == [pc |-> "known", data |-> data, fresh |-> fresh, causes |-> causes]

Plans == {"FREE", "PRO"}
Emails == {c.email : c \in Credentials} \cup {""}
Passwords == {c.password : c \in Credentials} \cup {""}
UserRows == [state : {"new", "here", "gone"}, email : Emails, password : Passwords, plan : Plans]
Places == {"home", "login", "register", "app", "away", "loading"}
Deeds == {"visit", "submit", "client", "stale", "fail", "pay", "upgrade", "expire"}

\* Ghost: what is under way at these tabs, or known there, may be out of date.
Because(cause, at, records) ==
  [x \in DOMAIN records |-> IF x \in at /\ "causes" \in DOMAIN records[x]
                            THEN [records[x] EXCEPT !.causes = @ \cup {cause}] ELSE records[x]]

\* Ghost: who is signed in, or what the API says of them, changed from elsewhere.
ChangedElsewhere(tabs) ==
  /\ session' = Because("elsewhere", tabs, session)
  /\ me' = Because("elsewhere", tabs, me)

\* The cookie goes along when the request is sent.
getSession == [pc |-> "sent", token |-> cookie, answer |-> toAuthenticatedUser(validate(cookie)), causes |-> {}]
Fetching(t) == IF me[t].pc = "none" THEN [me EXCEPT ![t] = getSession] ELSE me

\* requireAuth and redirectIfAuthenticated, of the pages of the application and
\* those of signing in.
Guard(target, user) ==
  CASE target \in {"app", "return"} -> IF user = Nobody THEN "login" ELSE "app"
    [] target \in {"login", "register"} -> IF user = Nobody THEN target ELSE "app"

\* Pages of the application read the session again when it is no longer fresh.
Mount(t, target) ==
  me' = IF target = "app" /\ ~session[t].fresh THEN Fetching(t) ELSE me

\* ensureQueryData: whatever session is known will do.
Visit(t, target) ==
  /\ page[t] # "away" /\ Try("visit")
  /\ IF session[t].pc = "known"
     THEN LET there == Guard(target, session[t].data.user) IN
          page' = [page EXCEPT ![t] = there] /\ going' = [going EXCEPT ![t] = "nowhere"] /\ Mount(t, there)
     ELSE going' = [going EXCEPT ![t] = target] /\ me' = Fetching(t) /\ UNCHANGED page
  /\ UNCHANGED <<account, cookie, session, call>>

VisitHome(t) ==
  /\ page[t] \notin {"away", "home"} /\ Try("visit")
  /\ page' = [page EXCEPT ![t] = "home"] /\ going' = [going EXCEPT ![t] = "nowhere"]
  /\ UNCHANGED <<account, cookie, session, me, call>>

\* The API read the user when the request was sent, or as late as it may.  After a
\* payment the session is read once more.
SessionLands(t) ==
  LET f == me[t] IN
  /\ f.pc = "sent"
  /\ \E answer \in {f.answer, toAuthenticatedUser(validate(f.token))} :
       LET returned == going[t] = "return" /\ answer.user # Nobody IN
       /\ session' = [session EXCEPT ![t] = Known(answer, ~returned, f.causes)]
       /\ me' = [me EXCEPT ![t] = IF returned THEN getSession ELSE None]
       /\ page' = IF going[t] = "nowhere" THEN page ELSE [page EXCEPT ![t] = Guard(going[t], answer.user)]
  /\ going' = [going EXCEPT ![t] = "nowhere"]
  /\ UNCHANGED <<account, cookie, call, tries>>

\* Any answer but 200 and 401 leaves the session as it is, and stops who waits for it.
SessionFails(t) ==
  /\ me[t].pc = "sent" /\ Try("fail")
  /\ me' = [me EXCEPT ![t] = None] /\ going' = [going EXCEPT ![t] = "nowhere"]
  /\ UNCHANGED <<account, cookie, session, call, page>>

\* The minute of its freshness passes.
SessionStales(t) ==
  /\ session[t].pc = "known" /\ session[t].fresh /\ Try("stale")
  /\ session' = [session EXCEPT ![t].fresh = FALSE]
  /\ UNCHANGED <<account, cookie, me, call, page, going>>

-----------------------------------------------------------------------------
(* Calls *)

Calling(a, request) ==
  /\ call[a].pc = "none"
  /\ call' = [call EXCEPT ![a] = request]

\* handleSubmit of the login and of the register page.
SubmitCredentials(t, c) ==
  /\ page[t] \in {"login", "register"} /\ Try("submit")
  /\ Calling(t, [pc |-> "sent", kind |-> page[t], causes |-> {}, email |-> c.email, password |-> c.password])
  /\ UNCHANGED <<account, cookie, session, me, page, going>>

handleLogout(t) ==
  /\ page[t] = "app" /\ Try("submit")
  /\ Calling(t, [pc |-> "sent", kind |-> "logout", causes |-> {}])
  /\ UNCHANGED <<account, cookie, session, me, page, going>>

\* The client acts as u: assertSelfAccess lets nobody else.
ClientCalls(kind, c, u) ==
  /\ Try("client") /\ (kind = "register" <=> u = Nobody)
  /\ Calling(Client, [pc |-> "sent", kind |-> kind, causes |-> {},
                      user |-> u, email |-> c.email, password |-> c.password])
  /\ UNCHANGED <<account, cookie, session, me, page, going>>

Refuse(a) == call' = [call EXCEPT ![a] = [pc |-> "answered", ok |-> FALSE, kind |-> @.kind, causes |-> @.causes]]
Accept(a, u) == [pc |-> "answered", ok |-> TRUE, kind |-> call[a].kind, causes |-> call[a].causes,
                 profile |-> u]

\* The first half: the account is looked up, the password compared.
LookUp(a) ==
  LET c == call[a] IN
  /\ c.pc = "sent"
  /\ \/ /\ c.kind = "login"
        /\ \/ findByEmail(c.email) = {} /\ Refuse(a)
           \/ \E u \in findByEmail(c.email) :
                IF account[u].password = c.password
                THEN call' = [call EXCEPT ![a] = Accept(a, toAuthenticatedUser(u))] ELSE Refuse(a)
     \/ /\ c.kind = "logout"
        /\ call' = [call EXCEPT ![a] = Accept(a, toAuthenticatedUser(Nobody))]
     \/ /\ c.kind = "register"
        /\ IF findByEmail(c.email) = {} THEN call' = [call EXCEPT ![a].pc = "looked"] ELSE Refuse(a)
     \/ /\ c.kind = "update"
        /\ IF Exists(c.user) /\ findByEmail(c.email) \subseteq {c.user}
           THEN call' = [call EXCEPT ![a].pc = "looked"] ELSE Refuse(a)
     \/ /\ c.kind = "delete"
        /\ IF Exists(c.user) THEN call' = [call EXCEPT ![a].pc = "looked"] ELSE Refuse(a)
  /\ UNCHANGED <<account, cookie, session, me, page, going, tries>>

\* Ghost: the row of u is written while others are under way.
WriteUser(u, row, a, answer) ==
  /\ account' = [account EXCEPT ![u] = row]
  /\ session' = Because("elsewhere", Tabs, session)
  /\ me' = Because("elsewhere", Tabs, me)
  /\ call' = [Because("elsewhere", Tabs \ {a}, call) EXCEPT ![a] = answer]

\* createUser, after the password was hashed: an address is unique.
CreateUser(a) ==
  LET c == call[a] IN
  /\ c.pc = "looked" /\ c.kind = "register"
  /\ IF findByEmail(c.email) = {}
     THEN LET row == [state |-> "here", email |-> c.email, password |-> c.password, plan |-> "FREE"]
              u == CHOOSE x \in Accounts : account[x].state = "new"
          IN /\ \E x \in Accounts : account[x].state = "new"
             /\ account' = [account EXCEPT ![u] = row]
             /\ call' = [call EXCEPT ![a] = Accept(a, [user |-> u, email |-> c.email, plan |-> "FREE"])]
     ELSE Refuse(a) /\ UNCHANGED account
  /\ UNCHANGED <<cookie, session, me, page, going, tries>>

UpdateUser(a) ==
  LET c == call[a]
      row == [account[c.user] EXCEPT !.email = c.email, !.password = c.password]
  IN
  /\ c.pc = "looked" /\ c.kind = "update"
  /\ IF Exists(c.user) /\ findByEmail(c.email) \subseteq {c.user}
     THEN WriteUser(c.user, row, a, Accept(a, [user |-> c.user, email |-> c.email, plan |-> row.plan]))
     ELSE Refuse(a) /\ UNCHANGED <<account, session, me>>
  /\ UNCHANGED <<cookie, page, going, tries>>

DeleteUser(a) ==
  LET c == call[a] IN
  /\ c.pc = "looked" /\ c.kind = "delete"
  /\ IF Exists(c.user)
     THEN WriteUser(c.user, [account[c.user] EXCEPT !.state = "gone"], a, Accept(a, toAuthenticatedUser(Nobody)))
     ELSE Refuse(a) /\ UNCHANGED <<account, session, me>>
  /\ UNCHANGED <<cookie, page, going, tries>>

\* Mutant of SetSession: signing out, a tab forgets to say so.
SetSessionOfUser(t, profile) ==
  IF profile.user = Nobody THEN session[t] ELSE Known(profile, TRUE, call[t].causes)

\* setQueryData.
SetSession(t, profile) == Known(profile, TRUE, call[t].causes)

\* The answer arrives: with it the cookie is set, or cleared; the tab takes the
\* session from the answer and goes on, wherever it is.  An /auth/me under way is
\* not cancelled.
SignedInOrOut(t) ==
  LET c == call[t]
      user == c.profile.user
  IN
  /\ t \in Tabs /\ c.pc = "answered" /\ c.ok
  /\ cookie' = user
  /\ session' = [Because("elsewhere", Tabs \ {t}, session) EXCEPT ![t] = SetSession(t, c.profile)]
  /\ me' = Because("late", {t}, Because("elsewhere", Tabs \ {t}, me))
  /\ call' = [call EXCEPT ![t] = None]
  /\ page' = [page EXCEPT ![t] = IF c.kind = "logout" THEN "home" ELSE Guard("app", user)]
  /\ going' = [going EXCEPT ![t] = "nowhere"]
  /\ UNCHANGED <<account, tries>>

\* The call was refused, or its answer is lost; the client needs no answer.
CallFails(a) ==
  /\ call[a].pc = "answered"
  /\ call[a].ok /\ a # Client => Try("fail")
  /\ ~call[a].ok \/ a = Client => UNCHANGED tries
  /\ call' = [call EXCEPT ![a] = None]
  /\ UNCHANGED <<account, cookie, session, me, page, going>>

-----------------------------------------------------------------------------
(* Payments and time *)

\* The checkout is another site: the tab forgets everything.
LeaveForCheckout(t) ==
  /\ page[t] = "app" /\ call[t].pc = "none" /\ Try("pay")
  /\ page' = [page EXCEPT ![t] = "away"]
  /\ session' = [session EXCEPT ![t] = Unknown] /\ me' = [me EXCEPT ![t] = None]
  /\ going' = [going EXCEPT ![t] = "nowhere"]
  /\ UNCHANGED <<account, cookie, call>>

ReturnFromCheckout(t) ==
  /\ page[t] = "away"
  /\ page' = [page EXCEPT ![t] = "loading"] /\ going' = [going EXCEPT ![t] = "return"]
  /\ me' = Fetching(t)
  /\ UNCHANGED <<account, cookie, session, call, tries>>

\* The webhook's handler is in Billing.
PlanUpgraded(u) ==
  /\ Exists(u) /\ account[u].plan = "FREE" /\ Try("upgrade")
  /\ account' = [account EXCEPT ![u].plan = "PRO"]
  /\ ChangedElsewhere(Tabs) /\ call' = Because("elsewhere", Tabs, call)
  /\ UNCHANGED <<cookie, page, going>>

\* Cookie and token last for a week.
CookieExpires ==
  /\ cookie # Nobody /\ Try("expire")
  /\ cookie' = Nobody
  /\ ChangedElsewhere(Tabs)
  /\ UNCHANGED <<account, call, page, going>>

\* There are users; the tabs have just been opened, or have just read the session.
SessionsInit ==
  /\ account \in [Accounts -> UserRows]
  /\ \A u, v \in Accounts : Exists(u) /\ Exists(v) /\ account[u].email = account[v].email => u = v
  /\ cookie \in {Nobody} \cup {u \in Accounts : account[u].state # "new"}
  /\ session \in [Tabs -> {Unknown, Known(toAuthenticatedUser(validate(cookie)), TRUE, {})}]
  /\ me = [t \in Tabs |-> None] /\ call = [a \in Tabs \cup {Client} |-> None]
  /\ page \in [Tabs -> Places]
  /\ \A t \in Tabs : page[t] \in {"home"} \cup IF session[t].pc = "unknown" THEN {"loading"}
                        ELSE {Guard(target, session[t].data.user) : target \in {"app", "register"}}
  /\ going = [t \in Tabs |-> "nowhere"]
  /\ tries \in [Deeds -> Nat]

SessionsNext ==
  \/ \E t \in Tabs :
       \/ \E target \in {"app", "login", "register"} : Visit(t, target)
       \/ VisitHome(t)
       \/ SessionLands(t) \/ SessionFails(t) \/ SessionStales(t)
       \/ \E c \in Credentials : SubmitCredentials(t, c)
       \/ handleLogout(t)
       \/ SignedInOrOut(t)
       \/ LeaveForCheckout(t) \/ ReturnFromCheckout(t)
  \/ \E kind \in {"register", "update", "delete"}, c \in Credentials, u \in Accounts \cup {Nobody} :
       ClientCalls(kind, c, u)
  \/ \E a \in Tabs \cup {Client} : LookUp(a) \/ CreateUser(a) \/ UpdateUser(a) \/ DeleteUser(a) \/ CallFails(a)
  \/ \E u \in Accounts : PlanUpgraded(u)
  \/ CookieExpires

SessionsSpec == SessionsInit /\ [][SessionsNext]_sessionVars

-----------------------------------------------------------------------------
(* Properties *)

\* Types.
SessionsTypeOK ==
  /\ cookie \in Accounts \cup {Nobody}
  /\ \A u \in Accounts : account[u].state \in {"new", "here", "gone"}
  /\ \A t \in Tabs :
       /\ page[t] \in Places
       /\ session[t].pc \in {"known", "unknown"} /\ me[t].pc \in {"none", "sent"}
       /\ session[t].pc = "known" => session[t].data.user \in Accounts \cup {Nobody}
  /\ \A a \in Tabs \cup {Client} : call[a].pc \in {"none", "sent", "looked", "answered"}

\* The session a tab knows is that of the browser's cookie, as the API gives it;
\* unless since it was asked for another tab signed in or out, the user changed
\* elsewhere or the cookie expired, or it was asked for before the tab itself signed
\* in or out, and came later.
SessionsAreOfTheirTime ==
  \A t \in Tabs :
    session[t].pc = "known" /\ session[t].causes = {} =>
      session[t].data = toAuthenticatedUser(validate(cookie))
=============================================================================
