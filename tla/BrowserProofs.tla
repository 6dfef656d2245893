---------------------------- MODULE BrowserProofs ----------------------------
(***************************************************************************)
(* What the tabs of a browser know and save, for any tabs, accounts and    *)
(* rows: the properties of Sessions, of ListPages and of Console.          *)
(*                                                                         *)
(* A session, an /auth/me under way and the answer to a sign-in are three  *)
(* copies of one fact, made at different times.  TimesInv says of each     *)
(* that nothing has happened since that it would have to name.  In the     *)
(* same way ConsoleInv says of each answer the page has, or is waiting     *)
(* for, what it may still say of the table, and of each request that the   *)
(* form it was made of was valid.  LTypes says what the rows, the lists    *)
(* and the requests of a list page hold.                                   *)
(***************************************************************************)
EXTENDS MCConsole, TLAPS

-----------------------------------------------------------------------------
(* Types of what is known and under way *)

UserIds == Accounts \cup {Nobody}
Callers == Tabs \cup {Client}
Causes == {"elsewhere", "late"}
Profiles == [user : UserIds, email : Emails, plan : Plans]
KnownSessions == [pc : {"known"}, data : Profiles, fresh : BOOLEAN, causes : SUBSET Causes]
SentReads == [pc : {"sent"}, token : UserIds, answer : Profiles, causes : SUBSET Causes]

\* Calls: of a tab, its sign-out, of the client; and answers.
Signing == [pc : {"sent", "looked"}, kind : {"login", "register"}, causes : SUBSET Causes,
            email : Emails, password : Passwords]
Leaving == [pc : {"sent"}, kind : {"logout"}, causes : SUBSET Causes]
Managing == [pc : {"sent", "looked"}, kind : {"register", "update", "delete"}, causes : SUBSET Causes,
             user : UserIds, email : Emails, password : Passwords]
CallKinds == {"login", "register", "logout", "update", "delete"}
Refused == [pc : {"answered"}, ok : {FALSE}, kind : CallKinds, causes : SUBSET Causes]
Accepted == [pc : {"answered"}, ok : {TRUE}, kind : CallKinds, causes : SUBSET Causes, profile : Profiles]
Calls == {None} \cup Signing \cup Leaving \cup Managing \cup Refused \cup Accepted

TypesInv ==
  /\ account \in [Accounts -> UserRows] /\ cookie \in UserIds
  /\ session \in [Tabs -> {Unknown} \cup KnownSessions]
  /\ me \in [Tabs -> {None} \cup SentReads]
  /\ call \in [Callers -> Calls]
  /\ page \in [Tabs -> Places]
  /\ going \in [Tabs -> {"nowhere", "app", "login", "register", "return"}]

\* An id that is in use was given to a user.
Given(u, users) == u = Nobody \/ users[u].state # "new"

\* What the API would answer of a user.
Answered(u, users) ==
  IF u = Nobody \/ users[u].state # "here" THEN [user |-> Nobody, email |-> "", plan |-> "FREE"]
  ELSE [user |-> u, email |-> users[u].email, plan |-> users[u].plan]

\* A session, a read and an answer without causes are what the API would say now.
SessionOfNow(s, users, u) == s \in KnownSessions /\ s.causes = {} => s.data = Answered(u, users)
ReadOfNow(f, users, u) ==
  f \in SentReads =>
    Given(f.token, users) /\ (f.causes = {} => f.token = u /\ f.answer = Answered(u, users))
CallOfNow(c, users) ==
  c \in Accepted =>
    Given(c.profile.user, users) /\ (c.causes = {} => c.profile = Answered(c.profile.user, users))

TimesInv ==
  /\ Given(cookie, account)
  /\ \A t \in Tabs : /\ SessionOfNow(session[t], account, cookie)
                     /\ ReadOfNow(me[t], account, cookie)
                     /\ CallOfNow(call[t], account)

SInv == TypesInv /\ TimesInv

-----------------------------------------------------------------------------
(* Operators *)

LEMMA Credential ==
  ASSUME NEW c \in Credentials
  PROVE  c.email \in Emails /\ c.password \in Passwords
BY DEF Emails, Passwords

LEMMA AnsweredIs ==
  /\ \A u : toAuthenticatedUser(validate(u)) = Answered(u, account)
  /\ \A u : (toAuthenticatedUser(validate(u)) = Answered(u, account))'
  /\ \A u : Exists(u) => toAuthenticatedUser(u) = Answered(u, account)
  /\ \A users : toAuthenticatedUser(Nobody) = Answered(Nobody, users)
BY DEF toAuthenticatedUser, validate, Exists, Answered

LEMMA AnsweredType ==
  ASSUME NEW users \in [Accounts -> UserRows], NEW u \in UserIds
  PROVE  Answered(u, users) \in Profiles
<1>1. "" \in Emails /\ "FREE" \in Plans /\ Nobody \in UserIds
  BY DEF Emails, Plans, UserIds
<1>2. CASE u = Nobody \/ users[u].state # "here"
  <2>1. Answered(u, users) = [user |-> Nobody, email |-> "", plan |-> "FREE"]
    BY <1>2 DEF Answered
  <2>2. [user |-> Nobody, email |-> "", plan |-> "FREE"] \in Profiles
    BY <1>1 DEF Profiles
  <2> QED BY <2>1, <2>2
<1>3. CASE ~(u = Nobody \/ users[u].state # "here")
  <2>1. users[u] \in UserRows
    BY <1>3 DEF UserIds
  <2>2. Answered(u, users) = [user |-> u, email |-> users[u].email, plan |-> users[u].plan]
    BY <1>3 DEF Answered
  <2> QED BY <2>1, <2>2 DEF Profiles, UserRows
<1> QED BY <1>2, <1>3

\* The ghosts mark what has causes, and leave the rest alone.
LEMMA MarkedSessions ==
  ASSUME NEW cause \in Causes, NEW at, NEW f \in [Tabs -> {Unknown} \cup KnownSessions]
  PROVE  /\ Because(cause, at, f) \in [Tabs -> {Unknown} \cup KnownSessions]
         /\ \A t \in Tabs : t \in at => Because(cause, at, f)[t] = Unknown \/ Because(cause, at, f)[t].causes # {}
         /\ \A t \in Tabs : t \notin at => Because(cause, at, f)[t] = f[t]
<1> DEFINE g == Because(cause, at, f)
<1>1. g = [x \in Tabs |-> IF x \in at /\ "causes" \in DOMAIN f[x] THEN [f[x] EXCEPT !.causes = @ \cup {cause}] ELSE f[x]]
  BY DEF Because
<1> HIDE DEF g
<1>2. ASSUME NEW t \in Tabs
      PROVE  /\ g[t] \in {Unknown} \cup KnownSessions
             /\ t \in at => g[t] = Unknown \/ g[t].causes # {}
             /\ t \notin at => g[t] = f[t]
  <2>1. CASE f[t] = Unknown
    <3>1. "causes" \notin DOMAIN f[t]
      BY <2>1 DEF Unknown
    <3> QED BY <1>1, <2>1, <3>1
  <2>2. CASE f[t] \in KnownSessions
    <3>1. "causes" \in DOMAIN f[t] /\ f[t].causes \cup {cause} \in SUBSET Causes
      BY <2>2 DEF KnownSessions
    <3>2. CASE t \in at
      <4>1. g[t] = [f[t] EXCEPT !.causes = @ \cup {cause}]
        BY <1>1, <3>1, <3>2
      <4>2. g[t] \in KnownSessions /\ g[t].causes = f[t].causes \cup {cause}
        BY <2>2, <3>1, <4>1 DEF KnownSessions
      <4> QED BY <3>2, <4>2
    <3>3. CASE t \notin at
      BY <1>1, <2>2, <3>3
    <3> QED BY <3>2, <3>3
  <2> QED BY <2>1, <2>2
<1> QED BY <1>1, <1>2 DEF g

LEMMA MarkedReads ==
  ASSUME NEW cause \in Causes, NEW at, NEW f \in [Tabs -> {None} \cup SentReads]
  PROVE  /\ Because(cause, at, f) \in [Tabs -> {None} \cup SentReads]
         /\ \A t \in Tabs : f[t] = None => Because(cause, at, f)[t] = None
         /\ \A t \in Tabs : f[t] \in SentReads =>
              /\ Because(cause, at, f)[t] \in SentReads /\ Because(cause, at, f)[t].token = f[t].token
              /\ t \in at \/ f[t].causes # {} => Because(cause, at, f)[t].causes # {}
         /\ \A t \in Tabs : t \notin at => Because(cause, at, f)[t] = f[t]
<1> DEFINE g == Because(cause, at, f)
<1>1. g = [x \in Tabs |-> IF x \in at /\ "causes" \in DOMAIN f[x] THEN [f[x] EXCEPT !.causes = @ \cup {cause}] ELSE f[x]]
  BY DEF Because
<1> HIDE DEF g
<1>2. ASSUME NEW t \in Tabs
      PROVE  /\ g[t] \in {None} \cup SentReads
             /\ f[t] = None => g[t] = None
             /\ f[t] \in SentReads =>
                  g[t] \in SentReads /\ g[t].token = f[t].token /\ (t \in at \/ f[t].causes # {} => g[t].causes # {})
             /\ t \notin at => g[t] = f[t]
  <2>1. CASE f[t] = None
    <3>1. "causes" \notin DOMAIN f[t] /\ f[t] \notin SentReads
      BY <2>1 DEF None, SentReads
    <3> QED BY <1>1, <2>1, <3>1
  <2>2. CASE f[t] \in SentReads
    <3>1. "causes" \in DOMAIN f[t] /\ f[t].causes \cup {cause} \in SUBSET Causes /\ f[t] # None
      BY <2>2 DEF SentReads, None
    <3>2. CASE t \in at
      <4>1. g[t] = [f[t] EXCEPT !.causes = @ \cup {cause}]
        BY <1>1, <3>1, <3>2
      <4>2. g[t] \in SentReads /\ g[t].causes = f[t].causes \cup {cause} /\ g[t].token = f[t].token
        BY <2>2, <3>1, <4>1 DEF SentReads
      <4> QED BY <3>1, <3>2, <4>2
    <3>3. CASE t \notin at
      BY <1>1, <2>2, <3>1, <3>3
    <3> QED BY <3>2, <3>3
  <2> QED BY <2>1, <2>2
<1> QED BY <1>1, <1>2 DEF g

\* The calls of g are those of f, marked where they are at.
MarkedFrom(g, f, at) ==
  /\ g \in [Callers -> Calls]
  /\ \A a \in Callers : g[a] \in Accepted =>
       f[a] \in Accepted /\ g[a].profile = f[a].profile /\ (a \in at \/ f[a].causes # {} => g[a].causes # {})

LEMMA MarkedCalls ==
  ASSUME NEW cause \in Causes, NEW at, NEW f \in [Callers -> Calls]
  PROVE  MarkedFrom(Because(cause, at, f), f, at)
<1> DEFINE g == Because(cause, at, f)
<1>1. g = [x \in Callers |-> IF x \in at /\ "causes" \in DOMAIN f[x] THEN [f[x] EXCEPT !.causes = @ \cup {cause}] ELSE f[x]]
  BY DEF Because
<1> HIDE DEF g
<1>2. ASSUME NEW r \in Calls, r # None
      PROVE  /\ "causes" \in DOMAIN r /\ r.causes \in SUBSET Causes
             /\ [r EXCEPT !.causes = @ \cup {cause}] \in Calls
             /\ [r EXCEPT !.causes = @ \cup {cause}] \in Accepted => r \in Accepted
             /\ r \in Accepted => /\ [r EXCEPT !.causes = @ \cup {cause}].causes # {}
                                  /\ [r EXCEPT !.causes = @ \cup {cause}].profile = r.profile
  <2> DEFINE s == [r EXCEPT !.causes = @ \cup {cause}]
  <2>1. CASE r \in Signing
    <3>1. s \in Signing /\ r.causes \in SUBSET Causes /\ "causes" \in DOMAIN r
      BY <2>1 DEF Signing
    <3>2. s \notin Accepted /\ r \notin Accepted
      BY <2>1, <3>1 DEF Signing, Accepted
    <3> QED BY <3>1, <3>2 DEF Calls
  <2>2. CASE r \in Leaving
    <3>1. s \in Leaving /\ r.causes \in SUBSET Causes /\ "causes" \in DOMAIN r
      BY <2>2 DEF Leaving
    <3>2. s \notin Accepted /\ r \notin Accepted
      BY <2>2, <3>1 DEF Leaving, Accepted
    <3> QED BY <3>1, <3>2 DEF Calls
  <2>3. CASE r \in Managing
    <3>1. s \in Managing /\ r.causes \in SUBSET Causes /\ "causes" \in DOMAIN r
      BY <2>3 DEF Managing
    <3>2. s \notin Accepted /\ r \notin Accepted
      BY <2>3, <3>1 DEF Managing, Accepted
    <3> QED BY <3>1, <3>2 DEF Calls
  <2>4. CASE r \in Refused
    <3>1. s \in Refused /\ r.causes \in SUBSET Causes /\ "causes" \in DOMAIN r
      BY <2>4 DEF Refused
    <3>2. s \notin Accepted /\ r \notin Accepted
      BY <2>4, <3>1 DEF Refused, Accepted
    <3> QED BY <3>1, <3>2 DEF Calls
  <2>5. CASE r \in Accepted
    <3>1. s \in Accepted /\ r.causes \in SUBSET Causes /\ "causes" \in DOMAIN r
      BY <2>5 DEF Accepted
    <3>2. s.causes # {} /\ s.profile = r.profile
      BY <2>5 DEF Accepted
    <3> QED BY <2>5, <3>1, <3>2 DEF Calls
  <2> QED BY <1>2, <2>1, <2>2, <2>3, <2>4, <2>5 DEF Calls
<1>3. ASSUME NEW a \in Callers
      PROVE  /\ g[a] \in Calls
             /\ g[a] \in Accepted =>
                  f[a] \in Accepted /\ g[a].profile = f[a].profile /\ (a \in at \/ f[a].causes # {} => g[a].causes # {})
  <2>1. CASE f[a] = None
    <3>1. "causes" \notin DOMAIN f[a] /\ None \notin Accepted
      BY <2>1 DEF None, Accepted
    <3> QED BY <1>1, <2>1, <3>1
  <2>2. CASE f[a] # None /\ a \in at
    <3>1. f[a] \in Calls
      OBVIOUS
    <3>2. g[a] = [f[a] EXCEPT !.causes = @ \cup {cause}]
      BY <1>1, <1>2, <2>2, <3>1
    <3> QED BY <1>2, <2>2, <3>1, <3>2
  <2>3. CASE a \notin at
    <3>1. g[a] = f[a]
      BY <1>1, <2>3
    <3> QED BY <2>3, <3>1
  <2> QED BY <2>1, <2>2, <2>3
<1>4. g \in [Callers -> Calls]
  BY <1>1, <1>3
<1>5. MarkedFrom(g, f, at)
  BY <1>3, <1>4 DEF MarkedFrom
<1> QED BY <1>5 DEF g

\* The read of the session that is sent now.
LEMMA FetchingIs ==
  ASSUME TypesInv
  PROVE  /\ getSession \in SentReads /\ getSession.token = cookie /\ getSession.answer = Answered(cookie, account)
         /\ \A t \in Tabs : /\ Fetching(t) \in [Tabs -> {None} \cup SentReads]
                           /\ \A s \in Tabs : Fetching(t)[s] = me[s] \/ Fetching(t)[s] = getSession
<1>1. Answered(cookie, account) \in Profiles /\ cookie \in UserIds
  BY AnsweredType DEF TypesInv
<1>2. getSession = [pc |-> "sent", token |-> cookie, answer |-> Answered(cookie, account), causes |-> {}]
  BY AnsweredIs DEF getSession
<1>3. getSession \in SentReads /\ getSession.token = cookie /\ getSession.answer = Answered(cookie, account)
  BY <1>1, <1>2 DEF SentReads
<1>4. me \in [Tabs -> {None} \cup SentReads]
  BY DEF TypesInv
<1> HIDE DEF getSession
<1> QED BY <1>3, <1>4 DEF Fetching

\* A step that leaves users and the cookie alone: what a session and a read say
\* stays true, and a read that is sent now is of now.
LEMMA CalmTimes ==
  ASSUME SInv, TypesInv', account' = account, cookie' = cookie,
         \A t \in Tabs : \/ session'[t] = session[t]
                         \/ session[t] \in KnownSessions /\ session'[t] = [session[t] EXCEPT !.fresh = FALSE]
                         \/ session'[t] = Unknown,
         \A t \in Tabs : me'[t] = me[t] \/ me'[t] = None \/ me'[t] = getSession,
         \A t \in Tabs : call'[t] = call[t] \/ CallOfNow(call'[t], account)
  PROVE  TimesInv'
<1>1. Given(cookie, account)
  BY DEF SInv, TimesInv
<1>2. ASSUME NEW t \in Tabs
      PROVE  SessionOfNow(session'[t], account, cookie)
  <2>1. SessionOfNow(session[t], account, cookie)
    BY DEF SInv, TimesInv
  <2>2. CASE session[t] \in KnownSessions /\ session'[t] = [session[t] EXCEPT !.fresh = FALSE]
    <3>1. session'[t].causes = session[t].causes /\ session'[t].data = session[t].data
      BY <2>2 DEF KnownSessions
    <3> QED BY <2>1, <2>2, <3>1 DEF SessionOfNow
  <2>3. CASE session'[t] = Unknown
    BY <2>3 DEF Unknown, KnownSessions, SessionOfNow
  <2>4. CASE session'[t] = session[t]
    BY <2>1, <2>4
  <2> QED BY <2>2, <2>3, <2>4
<1>3. ASSUME NEW t \in Tabs
      PROVE  ReadOfNow(me'[t], account, cookie)
  <2>1. ReadOfNow(me[t], account, cookie)
    BY DEF SInv, TimesInv
  <2>2. CASE me'[t] = None
    BY <2>2 DEF None, SentReads, ReadOfNow
  <2>3. CASE me'[t] = getSession
    BY <1>1, <2>3, FetchingIs DEF SInv, ReadOfNow
  <2> QED BY <2>1, <2>2, <2>3
<1>4. ASSUME NEW t \in Tabs
      PROVE  CallOfNow(call'[t], account)
  BY DEF SInv, TimesInv
<1> QED BY <1>1, <1>2, <1>3, <1>4 DEF TimesInv

-----------------------------------------------------------------------------
(* The steps of a tab *)

LEMMA InitSessions == SessionsInit => SInv
<1> SUFFICES ASSUME SessionsInit PROVE SInv
  OBVIOUS
<1>1. cookie \in UserIds /\ Given(cookie, account) /\ account \in [Accounts -> UserRows]
  BY DEF SessionsInit, UserIds, Given
<1>2. PICK data : data = Answered(cookie, account) /\ data \in Profiles
  BY <1>1, AnsweredType
<1>3. \A t \in Tabs : session[t] = Unknown \/ session[t] = Known(data, TRUE, {})
  BY <1>2, AnsweredIs DEF SessionsInit
<1>4. Known(data, TRUE, {}) \in KnownSessions /\ Known(data, TRUE, {}).data = data
  BY <1>2 DEF Known, KnownSessions
<1>5. Unknown \notin KnownSessions /\ None \notin SentReads /\ None \notin Accepted
  BY DEF Unknown, KnownSessions, None, SentReads, Accepted
<1>6. session \in [Tabs -> {Unknown} \cup KnownSessions]
  <2>1. DOMAIN session = Tabs /\ session = [t \in Tabs |-> session[t]]
    BY DEF SessionsInit
  <2> QED BY <1>3, <1>4, <2>1
<1>7. TypesInv
  BY <1>1, <1>6 DEF TypesInv, SessionsInit, Calls, Callers
<1>8. \A t \in Tabs : me[t] = None /\ call[t] = None
  BY DEF SessionsInit
<1>9. TimesInv
  BY <1>1, <1>2, <1>3, <1>4, <1>5, <1>8 DEF TimesInv, SessionOfNow, ReadOfNow, CallOfNow
<1> QED BY <1>7, <1>9 DEF SInv

LEMMA GuardType ==
  ASSUME NEW target \in {"app", "login", "register", "return"}, NEW u
  PROVE  Guard(target, u) \in Places
BY DEF Guard, Places

LEMMA VisitStep ==
  ASSUME SInv, NEW t \in Tabs, NEW target \in {"app", "login", "register"}, Visit(t, target)
  PROVE  SInv'
<1>1. TypesInv
  BY DEF SInv
<1>2. UNCHANGED <<account, cookie, session, call>>
  BY DEF Visit
<1>3. me' = me \/ me' = Fetching(t)
  BY DEF Visit, Mount
<1>4. me' \in [Tabs -> {None} \cup SentReads] /\ \A s \in Tabs : me'[s] = me[s] \/ me'[s] = getSession
  BY <1>1, <1>3, FetchingIs DEF TypesInv
<1>5. page' \in [Tabs -> Places]
  <2>1. \A u : Guard(target, u) \in Places
    BY GuardType
  <2>2. \/ page' = page
        \/ \E u : page' = [page EXCEPT ![t] = Guard(target, u)]
    BY DEF Visit
  <2> QED BY <1>1, <2>1, <2>2 DEF TypesInv
<1>6. going' \in [Tabs -> {"nowhere", "app", "login", "register", "return"}]
  <2>1. going' = [going EXCEPT ![t] = "nowhere"] \/ going' = [going EXCEPT ![t] = target]
    BY DEF Visit
  <2> QED BY <1>1, <2>1 DEF TypesInv
<1>7. TypesInv'
  BY <1>1, <1>2, <1>4, <1>5, <1>6 DEF TypesInv
<1> QED BY <1>2, <1>4, <1>7, CalmTimes DEF SInv

LEMMA VisitHomeStep ==
  ASSUME SInv, NEW t \in Tabs, VisitHome(t)
  PROVE  SInv'
<1>1. UNCHANGED <<account, cookie, session, me, call>>
  BY DEF VisitHome
<1>2. TypesInv'
  BY <1>1 DEF SInv, TypesInv, VisitHome, Places
<1> QED BY <1>1, <1>2, CalmTimes DEF SInv

LEMMA SessionFailsStep ==
  ASSUME SInv, NEW t \in Tabs, SessionFails(t)
  PROVE  SInv'
<1>1. UNCHANGED <<account, cookie, session, call, page>> /\ me' = [me EXCEPT ![t] = None]
      /\ going' = [going EXCEPT ![t] = "nowhere"]
  BY DEF SessionFails
<1>2. TypesInv'
  BY <1>1 DEF SInv, TypesInv
<1>3. \A s \in Tabs : me'[s] = me[s] \/ me'[s] = None
  BY <1>1 DEF SInv, TypesInv
<1> QED BY <1>1, <1>2, <1>3, CalmTimes DEF SInv

LEMMA SessionStalesStep ==
  ASSUME SInv, NEW t \in Tabs, SessionStales(t)
  PROVE  SInv'
<1>1. UNCHANGED <<account, cookie, me, call, page, going>> /\ session' = [session EXCEPT ![t].fresh = FALSE]
  BY DEF SessionStales
<1>2. session[t] \in KnownSessions
  BY DEF SInv, TypesInv, SessionStales, Unknown
<1>3. [session[t] EXCEPT !.fresh = FALSE] \in KnownSessions
  BY <1>2 DEF KnownSessions
<1>4. session \in [Tabs -> {Unknown} \cup KnownSessions]
  BY DEF SInv, TypesInv
<1>5. \A s \in Tabs : session'[s] = IF s = t THEN [session[t] EXCEPT !.fresh = FALSE] ELSE session[s]
  BY <1>1, <1>4
<1>6. TypesInv'
  BY <1>1, <1>3, <1>4 DEF SInv, TypesInv
<1> QED BY <1>1, <1>2, <1>5, <1>6, CalmTimes DEF SInv

LEMMA SessionLandsStep ==
  ASSUME SInv, NEW t \in Tabs, SessionLands(t)
  PROVE  SInv'
<1>1. PICK f : f = me[t]
  OBVIOUS
<1>2. f \in SentReads
  BY <1>1 DEF SInv, TypesInv, SessionLands, None
<1>3. PICK answer \in {f.answer, Answered(f.token, account)} :
        LET returned == going[t] = "return" /\ answer.user # Nobody IN
        /\ session' = [session EXCEPT ![t] = Known(answer, ~returned, f.causes)]
        /\ me' = [me EXCEPT ![t] = IF returned THEN getSession ELSE None]
        /\ page' = IF going[t] = "nowhere" THEN page ELSE [page EXCEPT ![t] = Guard(going[t], answer.user)]
  BY <1>1, AnsweredIs DEF SessionLands
<1>4. UNCHANGED <<account, cookie, call>> /\ going' = [going EXCEPT ![t] = "nowhere"]
  BY DEF SessionLands
<1>5. PICK fresh \in BOOLEAN : session' = [session EXCEPT ![t] = Known(answer, fresh, f.causes)]
  BY <1>3
<1>6. PICK known : known = Known(answer, fresh, f.causes)
  OBVIOUS
<1>7. answer \in Profiles
  <2>1. f.token \in UserIds /\ f.answer \in Profiles
    BY <1>2 DEF SentReads
  <2>2. account \in [Accounts -> UserRows]
    BY DEF SInv, TypesInv
  <2> QED BY <1>3, <2>1, <2>2, AnsweredType
<1>8. known \in KnownSessions /\ known.causes = f.causes /\ known.data = answer
  BY <1>2, <1>6, <1>7 DEF Known, KnownSessions, SentReads
<1>9. session' \in [Tabs -> {Unknown} \cup KnownSessions]
      /\ \A s \in Tabs : session'[s] = IF s = t THEN known ELSE session[s]
  BY <1>5, <1>6, <1>8 DEF SInv, TypesInv
<1>10. me' \in [Tabs -> {None} \cup SentReads] /\ \A s \in Tabs : me'[s] = me[s] \/ me'[s] = None \/ me'[s] = getSession
  <2>1. me' = [me EXCEPT ![t] = getSession] \/ me' = [me EXCEPT ![t] = None]
    BY <1>3
  <2>2. getSession \in SentReads /\ me \in [Tabs -> {None} \cup SentReads]
    BY FetchingIs DEF SInv, TypesInv
  <2> HIDE DEF getSession
  <2> QED BY <2>1, <2>2
<1>11. page' \in [Tabs -> Places]
  <2>1. going[t] # "nowhere" => Guard(going[t], answer.user) \in Places
    BY GuardType DEF SInv, TypesInv
  <2> QED BY <1>3, <2>1 DEF SInv, TypesInv
<1>12. TypesInv'
  BY <1>4, <1>9, <1>10, <1>11 DEF SInv, TypesInv
<1>13. SessionOfNow(known, account, cookie)
  BY <1>1, <1>2, <1>3, <1>8 DEF SInv, TimesInv, ReadOfNow, SessionOfNow
<1>14. \A s \in Tabs : SessionOfNow(session'[s], account, cookie)
  BY <1>9, <1>13 DEF SInv, TimesInv
<1>15. \A s \in Tabs : ReadOfNow(me'[s], account, cookie)
  <2>1. ReadOfNow(None, account, cookie)
    BY DEF None, SentReads, ReadOfNow
  <2>2. ReadOfNow(getSession, account, cookie)
    BY FetchingIs DEF SInv, TimesInv, ReadOfNow
  <2> HIDE DEF getSession
  <2> QED BY <1>10, <2>1, <2>2 DEF SInv, TimesInv
<1> QED BY <1>4, <1>12, <1>14, <1>15 DEF SInv, TimesInv

LEMMA LeaveForCheckoutStep ==
  ASSUME SInv, NEW t \in Tabs, LeaveForCheckout(t)
  PROVE  SInv'
<1>1. /\ UNCHANGED <<account, cookie, call>>
      /\ session' = [session EXCEPT ![t] = Unknown] /\ me' = [me EXCEPT ![t] = None]
      /\ page' = [page EXCEPT ![t] = "away"] /\ going' = [going EXCEPT ![t] = "nowhere"]
  BY DEF LeaveForCheckout
<1>2. TypesInv'
  BY <1>1 DEF SInv, TypesInv, Places
<1>3. \A s \in Tabs : (session'[s] = session[s] \/ session'[s] = Unknown) /\ (me'[s] = me[s] \/ me'[s] = None)
  BY <1>1 DEF SInv, TypesInv
<1> QED BY <1>1, <1>2, <1>3, CalmTimes DEF SInv

LEMMA ReturnFromCheckoutStep ==
  ASSUME SInv, NEW t \in Tabs, ReturnFromCheckout(t)
  PROVE  SInv'
<1>1. /\ UNCHANGED <<account, cookie, session, call>> /\ me' = Fetching(t)
      /\ page' = [page EXCEPT ![t] = "loading"] /\ going' = [going EXCEPT ![t] = "return"]
  BY DEF ReturnFromCheckout
<1>2. me' \in [Tabs -> {None} \cup SentReads] /\ \A s \in Tabs : me'[s] = me[s] \/ me'[s] = getSession
  BY <1>1, FetchingIs DEF SInv
<1>3. TypesInv'
  BY <1>1, <1>2 DEF SInv, TypesInv, Places
<1> QED BY <1>1, <1>2, <1>3, CalmTimes DEF SInv

-----------------------------------------------------------------------------
(* Calls *)

\* A call that has been sent, refused or forgotten, or is answered with what is so now.
LEMMA CallsOnly ==
  ASSUME SInv, NEW a \in Callers, NEW r \in Calls, r \notin Accepted \/ CallOfNow(r, account),
         UNCHANGED <<account, cookie, session, me, page, going>>, call' = [call EXCEPT ![a] = r]
  PROVE  SInv'
<1>1. call' \in [Callers -> Calls] /\ \A t \in Tabs : call'[t] = call[t] \/ call'[t] = r
  BY DEF SInv, TypesInv, Callers
<1>2. TypesInv'
  BY <1>1 DEF SInv, TypesInv
<1>3. CallOfNow(r, account)
  BY DEF CallOfNow
<1> QED BY <1>1, <1>2, <1>3, CalmTimes DEF SInv

LEMMA SubmitStep ==
  ASSUME SInv, NEW t \in Tabs, NEW c \in Credentials, SubmitCredentials(t, c)
  PROVE  SInv'
<1>1. PICK r : r = [pc |-> "sent", kind |-> page[t], causes |-> {}, email |-> c.email, password |-> c.password]
  OBVIOUS
<1>2. page[t] \in {"login", "register"}
  BY DEF SubmitCredentials
<1>3. r \in Signing
  BY <1>1, <1>2, Credential DEF Signing
<1>4. r \notin Accepted /\ r \in Calls
  BY <1>1, <1>3 DEF Accepted, Calls
<1>5. call' = [call EXCEPT ![t] = r] /\ UNCHANGED <<account, cookie, session, me, page, going>>
  BY <1>1 DEF SubmitCredentials, Calling
<1> QED BY <1>4, <1>5, CallsOnly DEF Callers

LEMMA LogoutStep ==
  ASSUME SInv, NEW t \in Tabs, handleLogout(t)
  PROVE  SInv'
<1>1. PICK r : r = [pc |-> "sent", kind |-> "logout", causes |-> {}]
  OBVIOUS
<1>3. r \in Leaving
  BY <1>1 DEF Leaving
<1>4. r \notin Accepted /\ r \in Calls
  BY <1>1, <1>3 DEF Accepted, Calls
<1>5. call' = [call EXCEPT ![t] = r] /\ UNCHANGED <<account, cookie, session, me, page, going>>
  BY <1>1 DEF handleLogout, Calling
<1> QED BY <1>4, <1>5, CallsOnly DEF Callers

LEMMA ClientStep ==
  ASSUME SInv, NEW kind \in {"register", "update", "delete"}, NEW c \in Credentials, NEW u \in UserIds,
         ClientCalls(kind, c, u)
  PROVE  SInv'
<1>1. PICK r : r = [pc |-> "sent", kind |-> kind, causes |-> {},
                   user |-> u, email |-> c.email, password |-> c.password]
  OBVIOUS
<1>3. r \in Managing
  BY <1>1, Credential DEF Managing
<1>4. r \notin Accepted /\ r \in Calls
  BY <1>1, <1>3 DEF Accepted, Calls
<1>5. call' = [call EXCEPT ![Client] = r] /\ UNCHANGED <<account, cookie, session, me, page, going>>
  BY <1>1 DEF ClientCalls, Calling
<1> QED BY <1>4, <1>5, CallsOnly DEF Callers

LEMMA CallFailsStep ==
  ASSUME SInv, NEW a \in Callers, CallFails(a)
  PROVE  SInv'
<1>1. call' = [call EXCEPT ![a] = None] /\ UNCHANGED <<account, cookie, session, me, page, going>>
  BY DEF CallFails
<1>2. None \in Calls /\ None \notin Accepted
  BY DEF Calls, None, Accepted
<1> QED BY <1>1, <1>2, CallsOnly

\* What is under way has a kind and its causes.
LEMMA UnderWay ==
  ASSUME SInv, NEW a \in Callers, call[a].pc \in {"sent", "looked"}
  PROVE  /\ call[a] \in Signing \cup Leaving \cup Managing
         /\ call[a].kind \in CallKinds /\ call[a].causes \in SUBSET Causes
<1>1. call[a] \in Calls
  BY DEF SInv, TypesInv
<1>2. call[a] \in Signing \cup Leaving \cup Managing
  <2>1. call[a] # None
    BY DEF None
  <2>2. call[a] \notin Refused
    BY DEF Refused
  <2>3. call[a] \notin Accepted
    BY DEF Accepted
  <2> QED BY <1>1, <2>1, <2>2, <2>3 DEF Calls
<1>3. CASE call[a] \in Signing
  BY <1>3 DEF Signing, CallKinds
<1>4. CASE call[a] \in Leaving
  BY <1>4 DEF Leaving, CallKinds
<1>5. CASE call[a] \in Managing
  BY <1>5 DEF Managing, CallKinds
<1> QED BY <1>2, <1>3, <1>4, <1>5

LEMMA RefuseStep ==
  ASSUME SInv, NEW a \in Callers, call[a].pc \in {"sent", "looked"}, Refuse(a),
         UNCHANGED <<account, cookie, session, me, page, going>>
  PROVE  SInv'
<1>1. PICK r : r = [pc |-> "answered", ok |-> FALSE, kind |-> call[a].kind, causes |-> call[a].causes]
  OBVIOUS
<1>2. r \in Refused /\ r \notin Accepted
  BY <1>1, UnderWay DEF Refused, Accepted
<1>3. r \in Calls
  BY <1>2 DEF Calls
<1>4. call' = [call EXCEPT ![a] = r]
  BY <1>1 DEF Refuse
<1> QED BY <1>2, <1>3, <1>4, CallsOnly

\* The answer to a call, of users as they are in a table.
LEMMA AcceptIs ==
  ASSUME SInv, NEW a \in Callers, call[a].pc \in {"sent", "looked"},
         NEW users, NEW profile \in Profiles,
         Given(profile.user, users), profile = Answered(profile.user, users)
  PROVE  Accept(a, profile) \in Calls /\ Accept(a, profile) \in Accepted /\ CallOfNow(Accept(a, profile), users)
<1>1. PICK r : r = Accept(a, profile)
  OBVIOUS
<1>2. r = [pc |-> "answered", ok |-> TRUE, kind |-> call[a].kind, causes |-> call[a].causes, profile |-> profile]
  BY <1>1 DEF Accept
<1>3. r \in Accepted /\ r.profile = profile
  BY <1>2, UnderWay DEF Accepted
<1> QED BY <1>1, <1>3 DEF Calls, CallOfNow

LEMMA NobodyIs ==
  ASSUME NEW users
  PROVE  /\ toAuthenticatedUser(Nobody) \in Profiles /\ toAuthenticatedUser(Nobody).user = Nobody
         /\ Given(Nobody, users) /\ toAuthenticatedUser(Nobody) = Answered(Nobody, users)
<1>1. "" \in Emails /\ "FREE" \in Plans /\ Nobody \in UserIds
  BY DEF Emails, Plans, UserIds
<1>2. toAuthenticatedUser(Nobody) = [user |-> Nobody, email |-> "", plan |-> "FREE"]
  BY DEF toAuthenticatedUser
<1>3. [user |-> Nobody, email |-> "", plan |-> "FREE"] \in Profiles
  BY <1>1 DEF Profiles
<1>4. Given(Nobody, users)
  BY DEF Given
<1>5. Answered(Nobody, users) = [user |-> Nobody, email |-> "", plan |-> "FREE"]
  BY DEF Answered
<1>6. toAuthenticatedUser(Nobody).user = Nobody
  <2>1. [user |-> Nobody, email |-> "", plan |-> "FREE"].user = Nobody
    OBVIOUS
  <2> QED BY <1>2, <2>1, Zenon
<1>7. toAuthenticatedUser(Nobody) \in Profiles
  BY <1>2, <1>3, Zenon
<1>8. toAuthenticatedUser(Nobody) = Answered(Nobody, users)
  BY <1>2, <1>5, Zenon
<1> QED BY <1>4, <1>6, <1>7, <1>8, Zenon

LEMMA LookUpStep ==
  ASSUME SInv, NEW a \in Callers, LookUp(a)
  PROVE  SInv'
<1>1. PICK c : c = call[a] /\ c.pc = "sent"
  BY DEF LookUp
<1>2. UNCHANGED <<account, cookie, session, me, page, going>>
  BY DEF LookUp
<1>3. CASE Refuse(a)
  BY <1>1, <1>2, <1>3, RefuseStep
<1>4. ASSUME NEW u \in findByEmail(c.email), call' = [call EXCEPT ![a] = Accept(a, toAuthenticatedUser(u))]
      PROVE  SInv'
  <2>1. u \in Accounts /\ Exists(u)
    BY <1>4 DEF findByEmail
  <2>2. PICK profile : profile = toAuthenticatedUser(u)
    OBVIOUS
  <2>3. profile = Answered(u, account) /\ profile.user = u /\ Given(u, account)
    BY <2>1, <2>2, AnsweredIs DEF toAuthenticatedUser, Exists, Given
  <2>4. profile \in Profiles
    BY <2>1, <2>3, AnsweredType DEF SInv, TypesInv, UserIds
  <2>5. PICK r : r = Accept(a, profile)
    OBVIOUS
  <2>6. r \in Calls /\ CallOfNow(r, account)
    BY <1>1, <2>3, <2>4, <2>5, AcceptIs
  <2>7. call' = [call EXCEPT ![a] = r]
    BY <1>4, <2>2, <2>5
  <2> QED BY <1>2, <2>6, <2>7, CallsOnly
<1>5. ASSUME call' = [call EXCEPT ![a] = Accept(a, toAuthenticatedUser(Nobody))]
      PROVE  SInv'
  <2>1. PICK r : r = Accept(a, toAuthenticatedUser(Nobody))
    OBVIOUS
  <2>2. r \in Calls /\ CallOfNow(r, account)
    BY <1>1, <2>1, NobodyIs, AcceptIs
  <2> QED BY <1>2, <1>5, <2>1, <2>2, CallsOnly
<1>6. ASSUME c.kind \in {"register", "update", "delete"}, call' = [call EXCEPT ![a].pc = "looked"]
      PROVE  SInv'
  <2>1. PICK r : r = [c EXCEPT !.pc = "looked"]
    OBVIOUS
  <2>2. c \in Signing \cup Leaving \cup Managing
    BY <1>1, UnderWay
  <2>3. CASE c \in Signing
    <3>1. r \in Signing
      BY <2>1, <2>3 DEF Signing
    <3>2. r \notin Accepted
      BY <3>1 DEF Signing, Accepted
    <3>3. call' = [call EXCEPT ![a] = r] /\ r \in Calls
      BY <1>1, <1>6, <2>1, <3>1 DEF Calls
    <3> QED BY <1>2, <3>2, <3>3, CallsOnly
  <2>4. CASE c \in Managing
    <3>1. r \in Managing
      BY <2>1, <2>4 DEF Managing
    <3>2. r \notin Accepted
      BY <3>1 DEF Managing, Accepted
    <3>3. call' = [call EXCEPT ![a] = r] /\ r \in Calls
      BY <1>1, <1>6, <2>1, <3>1 DEF Calls
    <3> QED BY <1>2, <3>2, <3>3, CallsOnly
  <2>5. c \notin Leaving
    BY <1>6 DEF Leaving
  <2> QED BY <2>2, <2>3, <2>4, <2>5
<1> QED BY <1>1, <1>3, <1>4, <1>5, <1>6 DEF LookUp

-----------------------------------------------------------------------------
(* UserIds that change, and the answers that reach a tab *)

\* A row that is written while all tabs are told: what has no cause was known of others.
LEMMA ToldStep ==
  ASSUME SInv, TypesInv', UNCHANGED cookie, NEW u \in Accounts, NEW row \in UserRows, row.state # "new",
         account' = [account EXCEPT ![u] = row],
         session' = Because("elsewhere", Tabs, session), me' = Because("elsewhere", Tabs, me),
         \A t \in Tabs : \/ CallOfNow(call'[t], account')
                         \/ /\ call'[t] \in Accepted => call[t] \in Accepted /\ call'[t].profile = call[t].profile
                            /\ call'[t] \in Accepted => call'[t].causes # {}
  PROVE  TimesInv'
<1>1. \A v \in UserIds : Given(v, account) => Given(v, account')
  BY DEF SInv, TypesInv, Given, UserIds
<1>2. "elsewhere" \in Causes
  BY DEF Causes
<1>3. session \in [Tabs -> {Unknown} \cup KnownSessions] /\ me \in [Tabs -> {None} \cup SentReads]
  BY DEF SInv, TypesInv
<1>4. Given(cookie, account')
  BY <1>1 DEF SInv, TypesInv, TimesInv
<1>5. ASSUME NEW t \in Tabs
      PROVE  SessionOfNow(session'[t], account', cookie)
  <2>1. session'[t] = Unknown \/ session'[t].causes # {}
    BY <1>2, <1>3, MarkedSessions
  <2>2. Unknown \notin KnownSessions
    BY DEF Unknown, KnownSessions
  <2> QED BY <2>1, <2>2 DEF SessionOfNow
<1>6. ASSUME NEW t \in Tabs
      PROVE  ReadOfNow(me'[t], account', cookie)
  <2>1. CASE me[t] = None
    <3>1. me'[t] = None /\ None \notin SentReads
      BY <1>2, <1>3, <2>1, MarkedReads DEF None, SentReads
    <3> QED BY <3>1 DEF ReadOfNow
  <2>2. CASE me[t] \in SentReads
    <3>1. me'[t].token = me[t].token /\ me'[t].causes # {}
      BY <1>2, <1>3, <2>2, MarkedReads
    <3>2. Given(me[t].token, account) /\ me[t].token \in UserIds
      BY <2>2 DEF SInv, TimesInv, ReadOfNow, SentReads
    <3> QED BY <1>1, <3>1, <3>2 DEF ReadOfNow
  <2> QED BY <1>3, <2>1, <2>2
<1>7. ASSUME NEW t \in Tabs
      PROVE  CallOfNow(call'[t], account')
  <2>1. CASE call'[t] \in Accepted /\ call[t] \in Accepted /\ call'[t].profile = call[t].profile /\ call'[t].causes # {}
    <3>1. Given(call[t].profile.user, account)
      BY <2>1 DEF SInv, TimesInv, CallOfNow
    <3>2. call[t].profile.user \in UserIds
      BY <2>1 DEF Accepted, Profiles
    <3> QED BY <1>1, <2>1, <3>1, <3>2 DEF CallOfNow
  <2>2. CASE call'[t] \notin Accepted
    BY <2>2 DEF CallOfNow
  <2> QED BY <2>1, <2>2
<1> QED BY <1>4, <1>5, <1>6, <1>7 DEF TimesInv

LEMMA ToldTypes ==
  ASSUME SInv
  PROVE  /\ Because("elsewhere", Tabs, session) \in [Tabs -> {Unknown} \cup KnownSessions]
         /\ Because("elsewhere", Tabs, me) \in [Tabs -> {None} \cup SentReads]
         /\ \A at : Because("elsewhere", at, call) \in [Callers -> Calls]
<1>1. "elsewhere" \in Causes
  BY DEF Causes
<1>2. /\ session \in [Tabs -> {Unknown} \cup KnownSessions] /\ me \in [Tabs -> {None} \cup SentReads]
      /\ call \in [Callers -> Calls]
  BY DEF SInv, TypesInv
<1> QED BY <1>1, <1>2, MarkedSessions, MarkedReads, MarkedCalls DEF MarkedFrom

LEMMA WriteUserStep ==
  ASSUME SInv, UNCHANGED <<cookie, page, going>>, NEW u \in Accounts, NEW row \in UserRows, row.state # "new",
         NEW a \in Callers, NEW answer \in Calls, WriteUser(u, row, a, answer), CallOfNow(answer, account')
  PROVE  SInv'
<1>0. PICK others : others = Tabs \ {a}
  OBVIOUS
<1>1. PICK marked : marked = Because("elsewhere", others, call)
  OBVIOUS
<1>2. /\ account' = [account EXCEPT ![u] = row] /\ call' = [marked EXCEPT ![a] = answer]
      /\ session' = Because("elsewhere", Tabs, session) /\ me' = Because("elsewhere", Tabs, me)
  BY <1>0, <1>1 DEF WriteUser
<1>3. call \in [Callers -> Calls] /\ "elsewhere" \in Causes
  BY DEF SInv, TypesInv, Causes
<1>4. /\ marked \in [Callers -> Calls]
      /\ \A b \in Callers : marked[b] \in Accepted =>
           /\ call[b] \in Accepted /\ marked[b].profile = call[b].profile
           /\ b \in Tabs \ {a} => marked[b].causes # {}
  <2>1. MarkedFrom(marked, call, others)
    BY <1>1, <1>3, MarkedCalls
  <2> QED BY <1>0, <2>1 DEF MarkedFrom
<1>5. call' \in [Callers -> Calls] /\ \A b \in Callers : call'[b] = IF b = a THEN answer ELSE marked[b]
  BY <1>2, <1>4
<1>6. account' \in [Accounts -> UserRows]
  BY <1>2 DEF SInv, TypesInv
<1>7. TypesInv'
  BY <1>2, <1>5, <1>6, ToldTypes DEF SInv, TypesInv
<1>8. ASSUME NEW t \in Tabs
      PROVE  \/ CallOfNow(call'[t], account')
             \/ /\ call'[t] \in Accepted => call[t] \in Accepted /\ call'[t].profile = call[t].profile
                /\ call'[t] \in Accepted => call'[t].causes # {}
  <2>1. t \in Callers
    BY DEF Callers
  <2> QED BY <1>4, <1>5, <2>1
<1> QED BY <1>2, <1>7, <1>8, ToldStep DEF SInv


\* A new user: nothing that was known was of it.
LEMMA NewUserTimes ==
  ASSUME SInv, TypesInv', UNCHANGED <<cookie, session, me>>,
         NEW u \in Accounts, account[u].state = "new", NEW row \in UserRows, row.state = "here",
         account' = [account EXCEPT ![u] = row],
         NEW a \in Callers, NEW answer \in Calls, call' = [call EXCEPT ![a] = answer],
         CallOfNow(answer, account')
  PROVE  TimesInv'
<1>1. account \in [Accounts -> UserRows] /\ call \in [Callers -> Calls] /\ cookie \in UserIds /\ u # Nobody
  BY SessionsAssumption DEF SInv, TypesInv
<1>2. ASSUME NEW v \in UserIds, Given(v, account)
      PROVE  Given(v, account') /\ Answered(v, account') = Answered(v, account)
  <2>1. v = Nobody \/ (v \in Accounts /\ v # u)
    BY <1>2 DEF Given, UserIds
  <2>2. v = Nobody \/ account'[v] = account[v]
    BY <1>1, <2>1
  <2> QED BY <1>2, <2>2 DEF Given, Answered
<1>3. Given(cookie, account') /\ Answered(cookie, account') = Answered(cookie, account)
  BY <1>1, <1>2 DEF SInv, TimesInv
<1>4. ASSUME NEW t \in Tabs
      PROVE  SessionOfNow(session[t], account', cookie)
  BY <1>3 DEF SInv, TimesInv, SessionOfNow
<1>5. ASSUME NEW t \in Tabs
      PROVE  ReadOfNow(me[t], account', cookie)
  <2>1. SUFFICES ASSUME me[t] \in SentReads PROVE ReadOfNow(me[t], account', cookie)
    BY DEF ReadOfNow
  <2>2. me[t].token \in UserIds
    BY <2>1 DEF SentReads
  <2> QED BY <1>2, <1>3, <2>2 DEF SInv, TimesInv, ReadOfNow
<1>6. ASSUME NEW t \in Tabs
      PROVE  CallOfNow(call'[t], account')
  <2>1. call'[t] = answer \/ call'[t] = call[t]
    BY <1>1 DEF Callers
  <2>2. CASE call'[t] = call[t] /\ call[t] \in Accepted
    <3>1. call[t].profile.user \in UserIds
      BY <2>2 DEF Accepted, Profiles
    <3>2. CallOfNow(call[t], account)
      BY DEF SInv, TimesInv
    <3> QED BY <1>2, <2>2, <3>1, <3>2 DEF CallOfNow
  <2>3. CASE call[t] \notin Accepted /\ call'[t] = call[t]
    BY <2>3 DEF CallOfNow
  <2> QED BY <2>1, <2>2, <2>3
<1> QED BY <1>3, <1>4, <1>5, <1>6 DEF TimesInv

\* What a call holds that was looked up.
LEMMA LookedUp ==
  ASSUME SInv, NEW a \in Callers, call[a].pc = "looked", call[a].kind \in {"register", "update", "delete"}
  PROVE  /\ call[a].email \in Emails /\ call[a].password \in Passwords
         /\ call[a].kind # "register" => call[a].user \in UserIds
<1>1. call[a] \in Signing \cup Leaving \cup Managing
  BY UnderWay
<1>2. CASE call[a] \in Signing
  BY <1>2 DEF Signing
<1>3. CASE call[a] \in Managing
  BY <1>3 DEF Managing
<1>4. CASE call[a] \in Leaving
  BY <1>4 DEF Leaving
<1> QED BY <1>1, <1>2, <1>3, <1>4

LEMMA CreateUserStep ==
  ASSUME SInv, NEW a \in Callers, CreateUser(a)
  PROVE  SInv'
<1>1. PICK c : c = call[a] /\ c.pc = "looked" /\ c.kind = "register"
  BY DEF CreateUser
<1>2. UNCHANGED <<cookie, session, me, page, going>>
  BY DEF CreateUser
<1>3. CASE Refuse(a) /\ UNCHANGED account
  BY <1>1, <1>2, <1>3, RefuseStep
<1>4. CASE ~(Refuse(a) /\ UNCHANGED account)
  <2>1. PICK row : row = [state |-> "here", email |-> c.email, password |-> c.password, plan |-> "FREE"]
    OBVIOUS
  <2>2. PICK u : u = CHOOSE x \in Accounts : account[x].state = "new"
    OBVIOUS
  <2>3. PICK profile : profile = [user |-> u, email |-> c.email, plan |-> "FREE"]
    OBVIOUS
  <2>4. /\ \E x \in Accounts : account[x].state = "new"
        /\ account' = [account EXCEPT ![u] = row] /\ call' = [call EXCEPT ![a] = Accept(a, profile)]
    BY <1>1, <1>4, <2>1, <2>2, <2>3 DEF CreateUser
  <2>5. u \in Accounts /\ account[u].state = "new" /\ u # Nobody
    BY <2>2, <2>4, SessionsAssumption
  <2>6. row \in UserRows /\ row.state = "here" /\ row.email = c.email /\ row.plan = "FREE"
    BY <1>1, <2>1, LookedUp DEF UserRows, Plans
  <2>7. profile \in Profiles /\ profile.user = u
    BY <1>1, <2>3, <2>5, LookedUp DEF Profiles, UserIds, Plans
  <2>8. account' \in [Accounts -> UserRows] /\ account'[u] = row
    BY <2>4, <2>5, <2>6 DEF SInv, TypesInv
  <2>9. profile = Answered(u, account') /\ Given(u, account')
    BY <2>3, <2>5, <2>6, <2>8 DEF Answered, Given
  <2>10. PICK r : r = Accept(a, profile)
    OBVIOUS
  <2>11. r \in Calls /\ CallOfNow(r, account')
    BY <1>1, <2>7, <2>9, <2>10, AcceptIs
  <2>12. call' = [call EXCEPT ![a] = r]
    BY <2>4, <2>10
  <2>13. TypesInv'
    BY <1>2, <2>8, <2>11, <2>12 DEF SInv, TypesInv
  <2>14. TimesInv'
    BY <1>2, <2>4, <2>5, <2>6, <2>11, <2>12, <2>13, NewUserTimes
  <2> QED BY <2>13, <2>14 DEF SInv
<1> QED BY <1>3, <1>4

LEMMA UpdateUserStep ==
  ASSUME SInv, NEW a \in Callers, UpdateUser(a)
  PROVE  SInv'
<1>1. PICK c : c = call[a] /\ c.pc = "looked" /\ c.kind = "update"
  BY DEF UpdateUser
<1>2. UNCHANGED <<cookie, page, going>>
  BY DEF UpdateUser
<1>3. CASE Refuse(a) /\ UNCHANGED <<account, session, me>>
  BY <1>1, <1>2, <1>3, RefuseStep
<1>4. CASE ~(Refuse(a) /\ UNCHANGED <<account, session, me>>)
  <2>1. PICK row : row = [account[c.user] EXCEPT !.email = c.email, !.password = c.password]
    OBVIOUS
  <2>2. PICK profile : profile = [user |-> c.user, email |-> c.email, plan |-> row.plan]
    OBVIOUS
  <2>3. Exists(c.user) /\ WriteUser(c.user, row, a, Accept(a, profile))
    BY <1>1, <1>4, <2>1, <2>2 DEF UpdateUser
  <2>4. c.user \in Accounts /\ account[c.user].state = "here" /\ account[c.user] \in UserRows
    BY <1>1, <2>3, LookedUp DEF Exists, UserIds, SInv, TypesInv
  <2>5. row \in UserRows /\ row.state = "here" /\ row.email = c.email
    BY <1>1, <2>1, <2>4, LookedUp DEF UserRows
  <2>6. account' \in [Accounts -> UserRows] /\ account'[c.user] = row
    BY <2>3, <2>4, <2>5 DEF SInv, TypesInv, WriteUser
  <2>7. profile \in Profiles /\ profile.user = c.user
    BY <1>1, <2>2, <2>4, <2>5, LookedUp DEF Profiles, UserRows, UserIds
  <2>8. c.user # Nobody
    BY <2>4, SessionsAssumption
  <2>9. profile = Answered(c.user, account') /\ Given(c.user, account')
    BY <2>2, <2>5, <2>6, <2>8 DEF Answered, Given
  <2>10. PICK r : r = Accept(a, profile)
    OBVIOUS
  <2>11. r \in Calls /\ CallOfNow(r, account')
    BY <1>1, <2>7, <2>9, <2>10, AcceptIs
  <2>12. WriteUser(c.user, row, a, r) /\ row.state # "new"
    BY <2>3, <2>5, <2>10
  <2> QED BY <1>2, <2>4, <2>5, <2>11, <2>12, WriteUserStep
<1> QED BY <1>3, <1>4

LEMMA DeleteUserStep ==
  ASSUME SInv, NEW a \in Callers, DeleteUser(a)
  PROVE  SInv'
<1>1. PICK c : c = call[a] /\ c.pc = "looked" /\ c.kind = "delete"
  BY DEF DeleteUser
<1>2. UNCHANGED <<cookie, page, going>>
  BY DEF DeleteUser
<1>3. CASE Refuse(a) /\ UNCHANGED <<account, session, me>>
  BY <1>1, <1>2, <1>3, RefuseStep
<1>4. CASE ~(Refuse(a) /\ UNCHANGED <<account, session, me>>)
  <2>1. PICK row : row = [account[c.user] EXCEPT !.state = "gone"]
    OBVIOUS
  <2>2. PICK r : r = Accept(a, toAuthenticatedUser(Nobody))
    OBVIOUS
  <2>3. Exists(c.user) /\ WriteUser(c.user, row, a, r)
    BY <1>1, <1>4, <2>1, <2>2 DEF DeleteUser
  <2>4. c.user \in Accounts /\ account[c.user] \in UserRows
    BY <1>1, <2>3, LookedUp DEF Exists, UserIds, SInv, TypesInv
  <2>5. row \in UserRows /\ row.state # "new"
    BY <2>1, <2>4 DEF UserRows
  <2>6. PICK users : users = account'
    OBVIOUS
  <2>7. r \in Calls /\ CallOfNow(r, users)
    BY <1>1, <2>2, NobodyIs, AcceptIs
  <2> QED BY <1>2, <2>3, <2>4, <2>5, <2>6, <2>7, WriteUserStep
<1> QED BY <1>3, <1>4

LEMMA PlanUpgradedStep ==
  ASSUME SInv, NEW u \in Accounts, PlanUpgraded(u)
  PROVE  SInv'
<1>1. PICK row : row = [account[u] EXCEPT !.plan = "PRO"]
  OBVIOUS
<1>2. /\ account' = [account EXCEPT ![u] = row] /\ UNCHANGED <<cookie, page, going>>
      /\ session' = Because("elsewhere", Tabs, session) /\ me' = Because("elsewhere", Tabs, me)
      /\ call' = Because("elsewhere", Tabs, call) /\ account[u].state = "here"
  BY <1>1 DEF PlanUpgraded, ChangedElsewhere, Exists
<1>3. account[u] \in UserRows
  BY DEF SInv, TypesInv
<1>4. row \in UserRows /\ row.state # "new"
  BY <1>1, <1>2, <1>3 DEF UserRows, Plans
<1>5. account' \in [Accounts -> UserRows]
  BY <1>2, <1>4 DEF SInv, TypesInv
<1>6. TypesInv'
  BY <1>2, <1>5, ToldTypes DEF SInv, TypesInv
<1>7. call \in [Callers -> Calls] /\ "elsewhere" \in Causes
  BY DEF SInv, TypesInv, Causes
<1>9. MarkedFrom(call', call, Tabs)
  BY <1>2, <1>7, MarkedCalls
<1>10. ASSUME NEW t \in Tabs
       PROVE  /\ call'[t] \in Accepted => call[t] \in Accepted /\ call'[t].profile = call[t].profile
              /\ call'[t] \in Accepted => call'[t].causes # {}
  <2>1. t \in Callers
    BY DEF Callers
  <2> QED BY <1>9, <2>1 DEF MarkedFrom
<1>11. TimesInv'
  BY <1>2, <1>4, <1>6, <1>10, ToldStep
<1> QED BY <1>6, <1>11 DEF SInv

LEMMA CookieExpiresStep ==
  ASSUME SInv, CookieExpires
  PROVE  SInv'
<1>1. /\ cookie' = Nobody /\ UNCHANGED <<account, call, page, going>>
      /\ session' = Because("elsewhere", Tabs, session) /\ me' = Because("elsewhere", Tabs, me)
  BY DEF CookieExpires, ChangedElsewhere
<1>2. TypesInv'
  BY <1>1, ToldTypes DEF SInv, TypesInv, UserIds
<1>3. "elsewhere" \in Causes /\ session \in [Tabs -> {Unknown} \cup KnownSessions] /\ me \in [Tabs -> {None} \cup SentReads]
  BY DEF SInv, TypesInv, Causes
<1>4. Given(Nobody, account)
  BY DEF Given
<1>5. ASSUME NEW t \in Tabs
      PROVE  SessionOfNow(session'[t], account, Nobody)
  <2>1. session'[t] = Unknown \/ session'[t].causes # {}
    BY <1>1, <1>3, MarkedSessions
  <2>2. Unknown \notin KnownSessions
    BY DEF Unknown, KnownSessions
  <2> QED BY <2>1, <2>2 DEF SessionOfNow
<1>6. ASSUME NEW t \in Tabs
      PROVE  ReadOfNow(me'[t], account, Nobody)
  <2>1. CASE me[t] = None
    <3>1. me'[t] = None /\ None \notin SentReads
      BY <1>1, <1>3, <2>1, MarkedReads DEF None, SentReads
    <3> QED BY <3>1 DEF ReadOfNow
  <2>2. CASE me[t] \in SentReads
    <3>1. me'[t].token = me[t].token /\ me'[t].causes # {}
      BY <1>1, <1>3, <2>2, MarkedReads
    <3>2. Given(me[t].token, account)
      BY <2>2 DEF SInv, TimesInv, ReadOfNow
    <3> QED BY <3>1, <3>2 DEF ReadOfNow
  <2> QED BY <1>3, <2>1, <2>2
<1>7. \A t \in Tabs : CallOfNow(call[t], account)
  BY DEF SInv, TimesInv
<1>8. TimesInv'
  BY <1>1, <1>4, <1>5, <1>6, <1>7 DEF TimesInv
<1> QED BY <1>2, <1>8 DEF SInv

\* The tab that signed in or out knows so; the others are told why they may not.
LEMMA SignedInOrOutStep ==
  ASSUME SInv, NEW t \in Tabs, SignedInOrOut(t)
  PROVE  SInv'
<1>1. PICK c : c = call[t] /\ c.pc = "answered" /\ c.ok
  BY DEF SignedInOrOut
<1>2. PICK known : known = Known(c.profile, TRUE, c.causes)
  OBVIOUS
<1>3. PICK told : told = Because("elsewhere", Tabs \ {t}, session)
  OBVIOUS
<1>4. PICK asked : asked = Because("elsewhere", Tabs \ {t}, me)
  OBVIOUS
<1>5. /\ cookie' = c.profile.user /\ session' = [told EXCEPT ![t] = known] /\ me' = Because("late", {t}, asked)
      /\ call' = [call EXCEPT ![t] = None] /\ UNCHANGED account
      /\ page' = [page EXCEPT ![t] = IF c.kind = "logout" THEN "home" ELSE Guard("app", c.profile.user)]
      /\ going' = [going EXCEPT ![t] = "nowhere"]
  BY <1>1, <1>2, <1>3, <1>4 DEF SignedInOrOut, SetSession
<1>6. /\ session \in [Tabs -> {Unknown} \cup KnownSessions] /\ me \in [Tabs -> {None} \cup SentReads]
      /\ call \in [Callers -> Calls] /\ t \in Callers /\ account \in [Accounts -> UserRows]
      /\ "elsewhere" \in Causes /\ "late" \in Causes
  BY DEF SInv, TypesInv, Causes, Callers
<1>7. c \in Accepted
  <2>1. c \in Calls
    BY <1>1, <1>6
  <2>2. c # None
    BY <1>1 DEF None
  <2>3. c \notin Signing
    BY <1>1 DEF Signing
  <2>4. c \notin Leaving
    BY <1>1 DEF Leaving
  <2>5. c \notin Managing
    BY <1>1 DEF Managing
  <2>6. c \notin Refused
    BY <1>1 DEF Refused
  <2> QED BY <2>1, <2>2, <2>3, <2>4, <2>5, <2>6 DEF Calls
<1>8. c.profile \in Profiles /\ c.profile.user \in UserIds /\ c.causes \in SUBSET Causes
  BY <1>7 DEF Accepted, Profiles
<1>9. Given(c.profile.user, account) /\ (c.causes = {} => c.profile = Answered(c.profile.user, account))
  BY <1>1, <1>7 DEF SInv, TimesInv, CallOfNow
<1>10. known \in KnownSessions /\ known.causes = c.causes /\ known.data = c.profile
  BY <1>2, <1>8 DEF Known, KnownSessions
<1>11. /\ told \in [Tabs -> {Unknown} \cup KnownSessions]
       /\ \A s \in Tabs : s # t => told[s] = Unknown \/ told[s].causes # {}
  <2>1. PICK others : others = Tabs \ {t}
    OBVIOUS
  <2>2. told = Because("elsewhere", others, session)
    BY <1>3, <2>1
  <2>3. /\ told \in [Tabs -> {Unknown} \cup KnownSessions]
        /\ \A s \in Tabs : s \in others => told[s] = Unknown \/ told[s].causes # {}
    BY <1>6, <2>2, MarkedSessions
  <2> QED BY <2>1, <2>3
<1>12. /\ asked \in [Tabs -> {None} \cup SentReads]
       /\ \A s \in Tabs : me[s] = None => asked[s] = None
       /\ \A s \in Tabs : me[s] \in SentReads =>
            asked[s] \in SentReads /\ asked[s].token = me[s].token /\ (s # t => asked[s].causes # {})
  <2>1. PICK others : others = Tabs \ {t}
    OBVIOUS
  <2>2. asked = Because("elsewhere", others, me)
    BY <1>4, <2>1
  <2>3. /\ asked \in [Tabs -> {None} \cup SentReads]
        /\ \A s \in Tabs : me[s] = None => asked[s] = None
        /\ \A s \in Tabs : me[s] \in SentReads =>
             /\ asked[s] \in SentReads /\ asked[s].token = me[s].token
             /\ s \in others \/ me[s].causes # {} => asked[s].causes # {}
    BY <1>6, <2>2, MarkedReads
  <2> QED BY <2>1, <2>3
<1>13. /\ me' \in [Tabs -> {None} \cup SentReads]
       /\ \A s \in Tabs : asked[s] = None => me'[s] = None
       /\ \A s \in Tabs : asked[s] \in SentReads =>
            /\ me'[s] \in SentReads /\ me'[s].token = asked[s].token
            /\ s = t \/ asked[s].causes # {} => me'[s].causes # {}
  <2>1. PICK here : here = {t}
    OBVIOUS
  <2>2. me' = Because("late", here, asked)
    BY <1>5, <2>1
  <2>3. /\ me' \in [Tabs -> {None} \cup SentReads]
        /\ \A s \in Tabs : asked[s] = None => me'[s] = None
        /\ \A s \in Tabs : asked[s] \in SentReads =>
             /\ me'[s] \in SentReads /\ me'[s].token = asked[s].token
             /\ s \in here \/ asked[s].causes # {} => me'[s].causes # {}
    BY <1>6, <1>12, <2>2, MarkedReads
  <2> QED BY <2>1, <2>3
<1>14. Guard("app", c.profile.user) \in Places
  BY GuardType
<1>15. TypesInv'
  <2>1. session' \in [Tabs -> {Unknown} \cup KnownSessions]
    BY <1>5, <1>10, <1>11
  <2>2. call' \in [Callers -> Calls]
    BY <1>5, <1>6 DEF Calls
  <2>3. page' \in [Tabs -> Places]
    BY <1>5, <1>14 DEF SInv, TypesInv, Places
  <2>4. going' \in [Tabs -> {"nowhere", "app", "login", "register", "return"}]
    BY <1>5 DEF SInv, TypesInv
  <2> QED BY <1>5, <1>6, <1>8, <1>13, <2>1, <2>2, <2>3, <2>4 DEF TypesInv
<1>16. ASSUME NEW s \in Tabs
       PROVE  SessionOfNow(session'[s], account, c.profile.user)
  <2>1. CASE s = t
    <3>1. session'[s] = known
      BY <1>5, <1>11, <2>1
    <3> QED BY <1>9, <1>10, <3>1 DEF SessionOfNow
  <2>2. CASE s # t
    <3>1. session'[s] = Unknown \/ session'[s].causes # {}
      BY <1>5, <1>11, <2>2
    <3>2. Unknown \notin KnownSessions
      BY DEF Unknown, KnownSessions
    <3> QED BY <3>1, <3>2 DEF SessionOfNow
  <2> QED BY <2>1, <2>2
<1>17. ASSUME NEW s \in Tabs
       PROVE  ReadOfNow(me'[s], account, c.profile.user)
  <2>1. CASE me[s] = None
    <3>1. me'[s] = None /\ None \notin SentReads
      BY <1>12, <1>13, <2>1 DEF None, SentReads
    <3> QED BY <3>1 DEF ReadOfNow
  <2>2. CASE me[s] \in SentReads
    <3>1. me'[s].token = me[s].token /\ me'[s].causes # {}
      BY <1>12, <1>13, <2>2
    <3>2. Given(me[s].token, account)
      BY <2>2 DEF SInv, TimesInv, ReadOfNow
    <3> QED BY <3>1, <3>2 DEF ReadOfNow
  <2> QED BY <1>6, <2>1, <2>2
<1>18. ASSUME NEW s \in Tabs
       PROVE  CallOfNow(call'[s], account)
  <2>1. call'[s] = None \/ call'[s] = call[s]
    BY <1>5, <1>6 DEF Callers
  <2>2. None \notin Accepted
    BY DEF None, Accepted
  <2> QED BY <2>1, <2>2 DEF SInv, TimesInv, CallOfNow
<1>19. TimesInv'
  BY <1>5, <1>9, <1>16, <1>17, <1>18 DEF TimesInv
<1> QED BY <1>15, <1>19 DEF SInv

-----------------------------------------------------------------------------
(* The sessions, always *)

LEMMA NextSessions == SInv /\ [SessionsNext]_sessionVars => SInv'
<1> SUFFICES ASSUME SInv, [SessionsNext]_sessionVars PROVE SInv'
  OBVIOUS
<1>1. ASSUME NEW t \in Tabs, NEW target \in {"app", "login", "register"}, Visit(t, target) PROVE SInv'
  BY <1>1, VisitStep
<1>2. ASSUME NEW t \in Tabs, VisitHome(t) \/ SessionLands(t) \/ SessionFails(t) \/ SessionStales(t) PROVE SInv'
  BY <1>2, VisitHomeStep, SessionLandsStep, SessionFailsStep, SessionStalesStep
<1>3. ASSUME NEW t \in Tabs, NEW c \in Credentials, SubmitCredentials(t, c) PROVE SInv'
  BY <1>3, SubmitStep
<1>4. ASSUME NEW t \in Tabs, handleLogout(t) \/ SignedInOrOut(t) PROVE SInv'
  BY <1>4, LogoutStep, SignedInOrOutStep
<1>5. ASSUME NEW t \in Tabs, LeaveForCheckout(t) \/ ReturnFromCheckout(t) PROVE SInv'
  BY <1>5, LeaveForCheckoutStep, ReturnFromCheckoutStep
<1>6. ASSUME NEW kind \in {"register", "update", "delete"}, NEW c \in Credentials,
             NEW u \in Accounts \cup {Nobody}, ClientCalls(kind, c, u)
      PROVE  SInv'
  BY <1>6, ClientStep DEF UserIds
<1>7. ASSUME NEW a \in Tabs \cup {Client}, LookUp(a) \/ CreateUser(a) \/ UpdateUser(a) \/ DeleteUser(a) \/ CallFails(a)
      PROVE  SInv'
  BY <1>7, LookUpStep, CreateUserStep, UpdateUserStep, DeleteUserStep, CallFailsStep DEF Callers
<1>8. ASSUME NEW u \in Accounts, PlanUpgraded(u) PROVE SInv'
  BY <1>8, PlanUpgradedStep
<1>9. CASE CookieExpires
  BY <1>9, CookieExpiresStep
<1>10. CASE UNCHANGED sessionVars
  <2>1. UNCHANGED <<account, cookie, session, me, call, page, going>>
    BY <1>10 DEF sessionVars
  <2> QED BY <2>1 DEF SInv, TypesInv, TimesInv
<1> QED BY <1>1, <1>2, <1>3, <1>4, <1>5, <1>6, <1>7, <1>8, <1>9, <1>10 DEF SessionsNext

LEMMA InvariantOfSessions == SessionsSpec => []SInv
<1> QED BY InitSessions, NextSessions, PTL DEF SessionsSpec

LEMMA SessionsTypes == TypesInv => SessionsTypeOK
<1> SUFFICES ASSUME TypesInv PROVE SessionsTypeOK
  OBVIOUS
<1>1. cookie \in Accounts \cup {Nobody}
  BY DEF TypesInv, UserIds
<1>2. \A u \in Accounts : account[u].state \in {"new", "here", "gone"}
  BY DEF TypesInv, UserRows
<1>3. ASSUME NEW t \in Tabs
      PROVE  /\ page[t] \in Places
             /\ session[t].pc \in {"known", "unknown"} /\ me[t].pc \in {"none", "sent"}
             /\ session[t].pc = "known" => session[t].data.user \in Accounts \cup {Nobody}
  <2>1. session[t] \in {Unknown} \cup KnownSessions /\ me[t] \in {None} \cup SentReads /\ page[t] \in Places
    BY DEF TypesInv
  <2>2. /\ session[t].pc \in {"known", "unknown"}
        /\ session[t].pc = "known" => session[t].data.user \in Accounts \cup {Nobody}
    BY <2>1 DEF Unknown, KnownSessions, Profiles, UserIds
  <2>3. me[t].pc \in {"none", "sent"}
    BY <2>1 DEF None, SentReads
  <2> QED BY <2>1, <2>2, <2>3
<1>4. ASSUME NEW a \in Tabs \cup {Client}
      PROVE  call[a].pc \in {"none", "sent", "looked", "answered"}
  <2>1. call[a] \in Calls
    BY DEF TypesInv, Callers
  <2>2. call[a] \in Signing \cup Leaving \cup Managing => call[a].pc \in {"sent", "looked"}
    BY DEF Signing, Leaving, Managing
  <2>3. call[a] \in Refused \cup Accepted => call[a].pc = "answered"
    BY DEF Refused, Accepted
  <2>4. None.pc = "none"
    BY DEF None
  <2> QED BY <2>1, <2>2, <2>3, <2>4 DEF Calls
<1> QED BY <1>1, <1>2, <1>3, <1>4 DEF SessionsTypeOK

\* Sessions, reads and calls have their types: the rows of users and what the tabs
\* keep of them, in handleSubmit, use-auth-session.ts and the router's guards.
THEOREM SessionsHaveTypes == SessionsSpec => []TypesInv
<1>1. SInv => TypesInv
  BY DEF SInv
<1> QED BY <1>1, InvariantOfSessions, PTL

\* The session a tab knows is that of the browser's cookie, as JwtStrategy.validate
\* and toAuthenticatedUser give it, unless one of the causes is named that the code
\* leaves: a change from elsewhere, or an /auth/me answered after the tab signed in
\* or out.
THEOREM SessionsOfTheirTime == SessionsSpec => []SessionsAreOfTheirTime
<1>1. SInv => SessionsAreOfTheirTime
  <2> SUFFICES ASSUME SInv, NEW t \in Tabs, session[t].pc = "known", session[t].causes = {}
               PROVE  session[t].data = toAuthenticatedUser(validate(cookie))
    BY DEF SessionsAreOfTheirTime
  <2>1. session[t] \in KnownSessions
    BY DEF SInv, TypesInv, Unknown
  <2>2. session[t].data = Answered(cookie, account)
    BY <2>1 DEF SInv, TimesInv, SessionOfNow
  <2> QED BY <2>2, AnsweredIs
<1> QED BY <1>1, InvariantOfSessions, PTL

-----------------------------------------------------------------------------
(* A page of a list: its form and its request *)

Requests == {"create", "update", "delete"}

\* The form is for the row that filled it; a request that is under way, or was
\* granted, is for the row that filled its form, unless it waited.
OfItsForm(r) ==
  r = [pc |-> r.pc, target |-> r.target, values |-> r.values, filledFrom |-> r.filledFrom,
       waited |-> r.waited, ok |-> r.ok]

UpdateInv(r) ==
  \/ r.pc \in {"idle", "refreshing"}
  \/ r.pc = "answered" /\ r.ok = FALSE
  \/ r.pc = "waiting" /\ OfItsForm(r) /\ r.waited = TRUE
  \/ r.pc \in {"sent", "answered"} /\ OfItsForm(r) /\ (r.waited = TRUE \/ r.target = r.filledFrom)

FormInv == form = [editing |-> form.editing, values |-> form.values, filledFrom |-> form.editing]

LInv ==
  /\ FormInv /\ online \in BOOLEAN
  /\ mutation = [o \in Requests |-> mutation[o]] /\ UpdateInv(mutation["update"])

\* What concerns other requests, and fills the form from one row, or empties it.
LEMMA FormFilled ==
  ASSUME NEW f, NEW e, NEW values, f = [editing |-> e, values |-> values, filledFrom |-> e]
  PROVE  f = [editing |-> f.editing, values |-> f.values, filledFrom |-> f.editing]
OBVIOUS

LEMMA OtherRequest ==
  ASSUME LInv, NEW o \in Requests \ {"update"}, NEW r, mutation' = [mutation EXCEPT ![o] = r], FormInv', UNCHANGED online
  PROVE  LInv'
BY DEF LInv, Requests

LEMMA UpdateRequest ==
  ASSUME LInv, NEW r, UpdateInv(r), mutation' = [mutation EXCEPT !["update"] = r], FormInv', UNCHANGED online
  PROVE  LInv'
<1>1. mutation'["update"] = r /\ mutation' = [o \in Requests |-> mutation'[o]]
  BY DEF LInv, Requests
<1> QED BY <1>1 DEF LInv

LEMMA Emptied ==
  ASSUME resetForm
  PROVE  FormInv'
<1>1. form' = [editing |-> NoId, values |-> defaultFormValues, filledFrom |-> NoId]
  BY DEF resetForm, Unfilled
<1> QED BY <1>1, FormFilled DEF FormInv

\* A request for the row of the form is sent for that row, or it waited.
LEMMA SentForItsRow ==
  ASSUME NEW r, OfItsForm(r), r.waited = TRUE \/ form.editing = r.filledFrom
  PROVE  UpdateInv(SendNow("update", r))
<1>1. CASE form.editing = NoId
  <2>1. SendNow("update", r) = [pc |-> "answered", ok |-> FALSE]
    BY <1>1 DEF SendNow
  <2> QED BY <2>1 DEF UpdateInv
<1>2. CASE form.editing # NoId
  <2>1. PICK s : s = SendNow("update", r)
    OBVIOUS
  <2>2. s = [r EXCEPT !.pc = "sent", !.target = form.editing]
    BY <1>2, <2>1 DEF SendNow
  <2>3. s = [pc |-> "sent", target |-> form.editing, values |-> r.values, filledFrom |-> r.filledFrom,
             waited |-> r.waited, ok |-> r.ok]
    BY <2>2 DEF OfItsForm
  <2>4. OfItsForm(s) /\ s.pc = "sent" /\ (s.waited = TRUE \/ s.target = s.filledFrom)
    BY <2>3 DEF OfItsForm
  <2> QED BY <2>1, <2>4 DEF UpdateInv
<1> QED BY <1>1, <1>2

LEMMA SubmitForm ==
  ASSUME LInv, handleSubmit
  PROVE  LInv'
<1>1. UNCHANGED <<form, online>> /\ FormInv'
  BY DEF handleSubmit, LInv, FormInv
<1>2. PICK r : r = [pc |-> "new", target |-> NoId, values |-> form.values,
                   filledFrom |-> form.filledFrom, waited |-> ~online, ok |-> FALSE]
  OBVIOUS
<1>3. CASE form.editing = NoId
  <2>1. Mutate("create", r)
    BY <1>2, <1>3 DEF handleSubmit
  <2>2. \E s : mutation' = [mutation EXCEPT !["create"] = s]
    BY <2>1 DEF Mutate
  <2> QED BY <1>1, <2>2, OtherRequest DEF Requests
<1>4. CASE form.editing # NoId
  <2>1. Mutate("update", r)
    BY <1>2, <1>4 DEF handleSubmit
  <2>2. OfItsForm(r) /\ r.filledFrom = form.editing /\ r.waited = ~online
    <3>1. form.filledFrom = form.editing
      BY DEF LInv, FormInv
    <3> QED BY <1>2, <3>1 DEF OfItsForm
  <2>3. CASE online
    <3>1. mutation' = [mutation EXCEPT !["update"] = SendNow("update", r)]
      BY <2>1, <2>3 DEF Mutate
    <3>2. UpdateInv(SendNow("update", r))
      BY <2>2, SentForItsRow
    <3> QED BY <1>1, <3>1, <3>2, UpdateRequest
  <2>4. CASE ~online
    <3>1. PICK s : s = [r EXCEPT !.pc = "waiting"]
      OBVIOUS
    <3>2. s = [pc |-> "waiting", target |-> r.target, values |-> r.values, filledFrom |-> r.filledFrom,
               waited |-> r.waited, ok |-> r.ok]
      BY <2>2, <3>1 DEF OfItsForm
    <3>3. s.pc = "waiting" /\ OfItsForm(s) /\ s.waited = r.waited
      BY <3>2 DEF OfItsForm
    <3>4. UpdateInv(s)
      BY <2>2, <2>4, <3>3 DEF UpdateInv
    <3>5. mutation' = [mutation EXCEPT !["update"] = s]
      BY <2>1, <2>4, <3>1 DEF Mutate
    <3> QED BY <1>1, <3>4, <3>5, UpdateRequest
  <2> QED BY <2>3, <2>4
<1> QED BY <1>3, <1>4

LEMMA BackOnline ==
  ASSUME LInv, GoOnline
  PROVE  LInv'
<1>1. online' = TRUE /\ UNCHANGED form /\ FormInv'
  BY DEF GoOnline, LInv, FormInv
<1>2. mutation' = [o \in Requests |-> IF mutation[o].pc = "waiting" THEN SendNow(o, mutation[o]) ELSE mutation[o]]
  <2>1. DOMAIN mutation = Requests
    BY DEF LInv
  <2> QED BY <2>1 DEF GoOnline
<1>3. PICK r : r = mutation["update"]
  OBVIOUS
<1>4. mutation'["update"] = IF r.pc = "waiting" THEN SendNow("update", r) ELSE r
  BY <1>2, <1>3 DEF Requests
<1>5. UpdateInv(r)
  BY <1>3 DEF LInv
<1>6. CASE r.pc = "waiting"
  <2>1. OfItsForm(r) /\ r.waited = TRUE
    BY <1>5, <1>6 DEF UpdateInv
  <2>2. UpdateInv(SendNow("update", r))
    BY <2>1, SentForItsRow
  <2>3. mutation'["update"] = SendNow("update", r)
    BY <1>4, <1>6
  <2>4. UpdateInv(mutation'["update"])
    BY <2>2, <2>3, Zenon
  <2> QED BY <1>1, <1>2, <2>4 DEF LInv
<1>7. CASE r.pc # "waiting"
  BY <1>1, <1>2, <1>4, <1>5, <1>7 DEF LInv
<1> QED BY <1>6, <1>7

LEMMA UpdateServed ==
  ASSUME LInv, ServeUpdateRow
  PROVE  LInv'
<1>1. UNCHANGED <<form, online>> /\ FormInv'
  BY DEF ServeUpdateRow, LInv, FormInv
<1>2. PICK r : r = mutation["update"] /\ r.pc = "sent"
  BY DEF ServeUpdateRow
<1>3. OfItsForm(r) /\ (r.waited = TRUE \/ r.target = r.filledFrom)
  BY <1>2 DEF LInv, UpdateInv
<1>4. PICK s \in {[r EXCEPT !.pc = "answered", !.ok = TRUE], [r EXCEPT !.pc = "answered"]} :
        mutation' = [mutation EXCEPT !["update"] = s]
  <2>1. \/ mutation' = [mutation EXCEPT !["update"] = [@ EXCEPT !.pc = "answered", !.ok = TRUE]]
        \/ mutation' = [mutation EXCEPT !["update"].pc = "answered"]
    BY DEF ServeUpdateRow
  <2>2. DOMAIN mutation = Requests
    BY DEF LInv
  <2> QED BY <1>2, <2>1, <2>2 DEF Requests
<1>5. \E ok : s = [pc |-> "answered", target |-> r.target, values |-> r.values, filledFrom |-> r.filledFrom,
                  waited |-> r.waited, ok |-> ok]
  BY <1>3, <1>4 DEF OfItsForm
<1>6. OfItsForm(s) /\ s.pc = "answered" /\ s.waited = r.waited /\ s.target = r.target /\ s.filledFrom = r.filledFrom
  BY <1>5 DEF OfItsForm
<1>7. UpdateInv(s)
  BY <1>3, <1>6 DEF UpdateInv
<1> QED BY <1>1, <1>4, <1>7, UpdateRequest

LEMMA OthersServed ==
  ASSUME LInv, ServeCreateRow \/ ServeDeleteRow
  PROVE  LInv'
<1>1. UNCHANGED <<form, online>> /\ FormInv'
  BY DEF ServeCreateRow, ServeDeleteRow, LInv, FormInv
<1>2. PICK o \in {"create", "delete"} : /\ DOMAIN mutation' = DOMAIN mutation
                                        /\ mutation' = [x \in DOMAIN mutation |-> mutation'[x]]
                                        /\ \A x \in DOMAIN mutation \ {o} : mutation'[x] = mutation[x]
  <2>1. CASE ServeCreateRow
    <3>1. \/ mutation' = [mutation EXCEPT !["create"].pc = "answered", !["create"].ok = TRUE]
          \/ mutation' = [mutation EXCEPT !["create"].pc = "answered"]
      BY <2>1 DEF ServeCreateRow
    <3> QED BY <3>1
  <2>2. CASE ServeDeleteRow
    <3>1. \E ok : mutation' = [mutation EXCEPT !["delete"].pc = "answered", !["delete"].ok = ok]
      BY <2>2 DEF ServeDeleteRow
    <3> QED BY <3>1
  <2> QED BY <2>1, <2>2
<1>3. DOMAIN mutation = Requests /\ "update" \in Requests
  BY DEF LInv, Requests
<1>4. mutation'["update"] = mutation["update"] /\ mutation' = [x \in Requests |-> mutation'[x]]
  BY <1>2, <1>3
<1> QED BY <1>1, <1>4 DEF LInv

LEMMA SettledKeeps ==
  ASSUME LInv, NEW o \in DOMAIN mutation, SettleMutation(o) \/ Refreshed(o)
  PROVE  LInv'
<1>1. UNCHANGED online /\ (resetForm \/ UNCHANGED form)
  BY DEF SettleMutation, Refreshed
<1>2. FormInv'
  BY <1>1, Emptied DEF LInv, FormInv
<1>3. PICK r : mutation' = [mutation EXCEPT ![o] = r] /\ r.pc \in {"idle", "refreshing"}
  <2>1. NoMutation.pc = "idle" /\ \A p : [pc |-> "refreshing", of |-> p].pc = "refreshing"
    BY DEF NoMutation
  <2> QED BY <2>1 DEF SettleMutation, Refreshed
<1>4. UpdateInv(r)
  BY <1>3 DEF UpdateInv
<1>5. o \in Requests
  BY DEF LInv
<1> QED BY <1>1, <1>2, <1>3, <1>4, <1>5, OtherRequest, UpdateRequest

LEMMA DeletionAsked ==
  ASSUME LInv, NEW i, AskDelete(i)
  PROVE  LInv'
<1>1. UNCHANGED <<form, online>> /\ FormInv'
  BY DEF AskDelete, LInv, FormInv
<1>2. \E r : mutation' = [mutation EXCEPT !["delete"] = r]
  BY DEF AskDelete, Mutate
<1> QED BY <1>1, <1>2, OtherRequest DEF Requests

LEMMA FormEdited ==
  ASSUME LInv, NEW i, NEW values, startEditing(i) \/ CancelEditing \/ TypeInForm(values)
  PROVE  LInv'
<1>1. UNCHANGED <<mutation, online>>
  BY DEF startEditing, CancelEditing, TypeInForm
<1>2. CASE startEditing(i)
  <2>1. form' = [editing |-> i, values |-> ShownItems[i], filledFrom |-> i]
    BY <1>2 DEF startEditing
  <2>2. FormInv'
    BY <2>1, FormFilled DEF FormInv
  <2> QED BY <1>1, <2>2 DEF LInv
<1>3. CASE CancelEditing
  <2>1. FormInv'
    BY <1>3, Emptied DEF CancelEditing
  <2> QED BY <1>1, <2>1 DEF LInv
<1>4. CASE TypeInForm(values)
  <2>1. form' = [form EXCEPT !.values = values]
    BY <1>4 DEF TypeInForm
  <2>2. form' = [editing |-> form.editing, values |-> values, filledFrom |-> form.editing]
    BY <2>1 DEF LInv, FormInv
  <2>3. FormInv'
    BY <2>2, FormFilled DEF FormInv
  <2> QED BY <1>1, <2>3 DEF LInv
<1> QED BY <1>2, <1>3, <1>4

LEMMA InitPage == ListInit => LInv
<1> SUFFICES ASSUME ListInit PROVE LInv
  OBVIOUS
<1>1. form = [editing |-> NoId, values |-> defaultFormValues, filledFrom |-> NoId]
  BY DEF ListInit, Unfilled
<1>2. FormInv
  BY <1>1, FormFilled DEF FormInv
<1>3. mutation = [o \in Requests |-> NoMutation] /\ online = TRUE
  BY DEF ListInit, Requests
<1>4. mutation["update"].pc = "idle"
  BY <1>3 DEF Requests, NoMutation
<1> QED BY <1>2, <1>3, <1>4 DEF LInv, UpdateInv

LEMMA NextPage == LInv /\ [ListNext]_listVars => LInv'
<1> SUFFICES ASSUME LInv, [ListNext]_listVars PROVE LInv'
  OBVIOUS
<1>1. CASE UNCHANGED <<form, mutation>> /\ (UNCHANGED online \/ online' = FALSE)
  BY <1>1 DEF LInv, FormInv
<1>2. CASE PreviousPage \/ NextListPage \/ GoOffline \/ OtherTab \/ (\E p \in Ids : Loads(p))
  BY <1>1, <1>2 DEF PreviousPage, NextListPage, GoOffline, OtherTab, Loads
<1>3. ASSUME NEW i \in Ids, startEditing(i) \/ AskDelete(i) PROVE LInv'
  BY <1>3, FormEdited, DeletionAsked
<1>4. ASSUME NEW values \in AnyForm, CancelEditing \/ TypeInForm(values) PROVE LInv'
  BY <1>4, FormEdited
<1>5. CASE handleSubmit
  BY <1>5, SubmitForm
<1>6. CASE GoOnline
  BY <1>6, BackOnline
<1>7. CASE ServeCreateRow \/ ServeUpdateRow \/ ServeDeleteRow
  BY <1>7, OthersServed, UpdateServed
<1>8. ASSUME NEW o \in DOMAIN mutation, SettleMutation(o) \/ Refreshed(o) PROVE LInv'
  BY <1>8, SettledKeeps
<1>9. CASE CancelEditing
  BY <1>9, FormEdited
<1>10. CASE UNCHANGED listVars
  BY <1>1, <1>10 DEF listVars
<1> QED BY <1>2, <1>3, <1>4, <1>5, <1>6, <1>7, <1>8, <1>9, <1>10 DEF ListNext

\* An update that was granted wrote the row that filled its form, on the pages of
\* alert contacts and of status pages (handleSubmit, startEditing and resetForm),
\* unless it waited while the browser was offline.
THEOREM SavesAreOfTheirRow == ListSpec => []SavesReachTheirRow
<1>1. LInv => SavesReachTheirRow
  BY DEF LInv, UpdateInv, SavesReachTheirRow
<1>2. ListSpec => []LInv
  BY InitPage, NextPage, PTL DEF ListSpec
<1> QED BY <1>1, <1>2, PTL

-----------------------------------------------------------------------------
(* A page of a list: its types *)

TableRows(forms) == [state : {"new", "here", "gone"}, row : forms]
RowsAreOf(forms) == table \in [Ids -> TableRows(forms)]

\* An answer shows rows of the table, as they are or were.
ItemsAre(answer, forms) ==
  DOMAIN answer.items \subseteq Ids /\ \A i \in DOMAIN answer.items : answer.items[i] \in forms
PagesAre(pages, forms) == \A p \in DOMAIN pages : ItemsAre(pages[p], forms)

\* A request that is to be served has what the form held.
AskIs(o, r, forms) ==
  \/ r.pc \in {"idle", "answered", "refreshing"}
  \/ /\ r.pc \in {"waiting", "sent"}
     /\ IF o = "delete" THEN r = [pc |-> r.pc, target |-> r.target, ok |-> r.ok]
        ELSE OfItsForm(r) /\ r.values \in forms
AsksAre(forms) == \A o \in Requests : AskIs(o, mutation[o], forms)
FormIs(forms) == form.values \in forms /\ form.editing \in Ids \cup {NoId}

LTypes ==
  /\ RowsAreOf(AnyForm) /\ PagesAre(lists, AnyForm) /\ PagesAre(loading, AnyForm)
  /\ listPage \in Nat \ {0}
  /\ FormIs(AnyForm) /\ AsksAre(AnyForm)

LEMMA SameForms == UNCHANGED site => AnyForm' = AnyForm
BY DEF AnyForm, ContactForms, StatusPageForms

LEMMA DefaultValues == defaultFormValues \in AnyForm
BY DEF defaultFormValues, AnyForm, ContactForms, StatusPageForms, Values

LEMMA PageIsOfTable ==
  ASSUME NEW forms, RowsAreOf(forms), NEW p
  PROVE  ItemsAre(PageOf(p), forms)
<1>1. PICK items : items \subseteq Existing /\ PageOf(p).items = [i \in items |-> table[i].row]
  BY DEF PageOf
<1>2. Existing \subseteq Ids /\ \A i \in Ids : table[i].row \in forms
  BY DEF Existing, RowsAreOf, TableRows
<1> QED BY <1>1, <1>2 DEF ItemsAre

LEMMA WithPageIs ==
  ASSUME NEW forms, NEW pages, PagesAre(pages, forms), NEW p, NEW answer, ItemsAre(answer, forms)
  PROVE  PagesAre(WithPage(pages, p, answer), forms)
<1>1. /\ DOMAIN WithPage(pages, p, answer) = DOMAIN pages \cup {p}
      /\ \A q \in DOMAIN pages \cup {p} :
           WithPage(pages, p, answer)[q] = IF q = p THEN answer ELSE pages[q]
  BY DEF WithPage
<1> QED BY <1>1 DEF PagesAre

\* What a step leaves alone.
LEMMA ListFrame ==
  ASSUME LTypes, UNCHANGED site
  PROVE  /\ UNCHANGED table => RowsAreOf(AnyForm)'
         /\ UNCHANGED lists => PagesAre(lists, AnyForm)'
         /\ UNCHANGED loading => PagesAre(loading, AnyForm)'
         /\ UNCHANGED form => FormIs(AnyForm)'
         /\ UNCHANGED mutation => AsksAre(AnyForm)'
<1>1. AnyForm' = AnyForm
  BY SameForms
<1>2. UNCHANGED table => RowsAreOf(AnyForm)'
  BY <1>1 DEF LTypes, RowsAreOf
<1>3. UNCHANGED lists => PagesAre(lists, AnyForm)'
  BY <1>1 DEF LTypes
<1>4. UNCHANGED loading => PagesAre(loading, AnyForm)'
  BY <1>1 DEF LTypes
<1>5. UNCHANGED form => FormIs(AnyForm)'
  BY <1>1 DEF LTypes, FormIs
<1>6. UNCHANGED mutation => AsksAre(AnyForm)'
  BY <1>1 DEF LTypes, AsksAre
<1> QED BY <1>2, <1>3, <1>4, <1>5, <1>6

LEMMA PagingTypes ==
  ASSUME LTypes, PreviousPage \/ NextListPage \/ \E p \in Ids : Loads(p)
  PROVE  LTypes'
<1>1. AnyForm' = AnyForm /\ UNCHANGED <<site, table, form, mutation>>
  BY SameForms DEF PreviousPage, NextListPage, Loads
<1>2. PICK forms : forms = AnyForm
  OBVIOUS
<1>3. RowsAreOf(forms) /\ PagesAre(lists, forms) /\ PagesAre(loading, forms) /\ listPage \in Nat \ {0}
  BY <1>2 DEF LTypes
<1>4. CASE PreviousPage \/ NextListPage
  <2>1. UNCHANGED lists /\ listPage' \in Nat \ {0} /\ \E p : LoadList(p)
    BY <1>3, <1>4 DEF PreviousPage, NextListPage
  <2>2. PagesAre(loading', forms)
    BY <1>3, <2>1, PageIsOfTable, WithPageIs DEF LoadList
  <2> QED BY <1>1, <1>2, <2>1, <2>2, ListFrame DEF LTypes
<1>5. ASSUME NEW p \in Ids, Loads(p)
      PROVE  LTypes'
  <2>1. PICK answer : /\ answer \in {loading[p], PageOf(p)} /\ p \in DOMAIN loading
                      /\ lists' = WithPage(lists, p, answer)
                      /\ loading' = [q \in DOMAIN loading \ {p} |-> loading[q]]
                      /\ UNCHANGED listPage
    BY <1>5 DEF Loads
  <2>2. ItemsAre(answer, forms)
    BY <1>3, <2>1, PageIsOfTable DEF PagesAre
  <2>3. PagesAre(lists', forms)
    BY <1>3, <2>1, <2>2, WithPageIs
  <2>4. PagesAre(loading', forms)
    BY <1>3, <2>1 DEF PagesAre
  <2> QED BY <1>1, <1>2, <1>3, <2>1, <2>3, <2>4, ListFrame DEF LTypes
<1> QED BY <1>4, <1>5

LEMMA FormTypesKept ==
  ASSUME LInv, LTypes,
         \/ \E i \in Ids : startEditing(i)
         \/ CancelEditing \/ \E values \in AnyForm : TypeInForm(values)
  PROVE  LTypes'
<1>1. AnyForm' = AnyForm /\ UNCHANGED <<site, table, listPage, lists, loading, mutation>>
  BY SameForms DEF startEditing, CancelEditing, TypeInForm
<1>2. PICK editing, values, from :
        /\ editing \in Ids \cup {NoId} /\ values \in AnyForm
        /\ form' = [editing |-> editing, values |-> values, filledFrom |-> from]
  <2>1. ASSUME NEW i \in Ids, startEditing(i)
        PROVE  \E values \in AnyForm : form' = [editing |-> i, values |-> values, filledFrom |-> i]
    <3>1. i \in DOMAIN ShownItems /\ form' = [editing |-> i, values |-> ShownItems[i], filledFrom |-> i]
      BY <2>1 DEF startEditing
    <3>2. CASE ListLoaded
      <4>1. ItemsAre(lists[listPage], AnyForm) /\ ShownItems = lists[listPage].items
        BY <3>2 DEF LTypes, PagesAre, ListLoaded, ShownItems
      <4> QED BY <3>1, <4>1 DEF ItemsAre
    <3>3. CASE ~ListLoaded
      BY <3>1, <3>3 DEF ShownItems
    <3> QED BY <3>2, <3>3
  <2>2. CASE CancelEditing
    BY <2>2, DefaultValues DEF CancelEditing, resetForm, Unfilled
  <2>3. ASSUME NEW values \in AnyForm, TypeInForm(values)
        PROVE  \E from : form' = [editing |-> form.editing, values |-> values, filledFrom |-> from]
    BY <2>3 DEF TypeInForm, LInv, FormInv
  <2>4. form.editing \in Ids \cup {NoId}
    BY DEF LTypes, FormIs
  <2> QED BY <2>1, <2>2, <2>3, <2>4
<1>3. FormIs(AnyForm)'
  BY <1>1, <1>2 DEF FormIs
<1> QED BY <1>1, <1>3, ListFrame DEF LTypes

\* One request changes.
LEMMA OneAsks ==
  ASSUME LInv, LTypes, UNCHANGED site, NEW o \in Requests, NEW r, AskIs(o, r, AnyForm),
         mutation' = [mutation EXCEPT ![o] = r]
  PROVE  AsksAre(AnyForm)'
<1>1. AnyForm' = AnyForm
  BY SameForms
<1>2. PICK forms : forms = AnyForm
  OBVIOUS
<1>3. \A x \in Requests : AskIs(x, mutation[x], forms)
  BY <1>2 DEF LTypes, AsksAre
<1>4. mutation' = [x \in Requests |-> IF x = o THEN r ELSE mutation[x]]
  BY DEF LInv
<1>5. \A x \in Requests : AskIs(x, mutation'[x], forms)
  BY <1>2, <1>3, <1>4
<1> QED BY <1>1, <1>2, <1>5 DEF AsksAre

LEMMA SendNowAsks ==
  ASSUME NEW o \in Requests, NEW forms, NEW r, NEW pc \in {"new", "waiting"},
         IF o = "delete" THEN r = [pc |-> pc, target |-> r.target, ok |-> r.ok]
         ELSE OfItsForm(r) /\ r.pc = pc /\ r.values \in forms
  PROVE  /\ AskIs(o, SendNow(o, r), forms)
         /\ AskIs(o, [r EXCEPT !.pc = "waiting"], forms)
<1>1. CASE o = "delete"
  <2>1. PICK target, ok : r = [pc |-> pc, target |-> target, ok |-> ok]
    BY <1>1
  <2>2. SendNow(o, r) = [pc |-> "sent", target |-> target, ok |-> ok]
    BY <1>1, <2>1 DEF SendNow
  <2>3. [r EXCEPT !.pc = "waiting"] = [pc |-> "waiting", target |-> target, ok |-> ok]
    BY <2>1
  <2> QED BY <1>1, <2>2, <2>3 DEF AskIs
<1>2. CASE o # "delete"
  <2>1. r = [pc |-> pc, target |-> r.target, values |-> r.values, filledFrom |-> r.filledFrom,
             waited |-> r.waited, ok |-> r.ok]
    BY <1>2 DEF OfItsForm
  <2>2. PICK target, values, from, waited, ok :
          /\ values \in forms
          /\ r = [pc |-> pc, target |-> target, values |-> values, filledFrom |-> from, waited |-> waited, ok |-> ok]
    BY <1>2, <2>1
  <2>3. ASSUME NEW s, NEW next \in {"sent", "waiting"}, NEW to,
               s = [pc |-> next, target |-> to, values |-> values, filledFrom |-> from, waited |-> waited, ok |-> ok]
        PROVE  AskIs(o, s, forms)
    <3>1. OfItsForm(s) /\ s.pc = next /\ s.values = values
      BY <2>3 DEF OfItsForm
    <3> QED BY <1>2, <2>2, <3>1 DEF AskIs
  <2>4. [r EXCEPT !.pc = "waiting"] =
          [pc |-> "waiting", target |-> target, values |-> values, filledFrom |-> from, waited |-> waited, ok |-> ok]
    BY <2>2
  <2>5. CASE o = "update" /\ form.editing = NoId
    BY <2>3, <2>4, <2>5 DEF SendNow, AskIs
  <2>6. CASE ~(o = "update" /\ form.editing = NoId)
    <3>1. \E to : SendNow(o, r) = [pc |-> "sent", target |-> to, values |-> values, filledFrom |-> from,
                                   waited |-> waited, ok |-> ok]
      BY <2>2, <2>6 DEF SendNow
    <3> QED BY <2>3, <2>4, <3>1
  <2> QED BY <2>5, <2>6
<1> QED BY <1>1, <1>2

LEMMA AskingTypes ==
  ASSUME LInv, LTypes, handleSubmit \/ \E i \in Ids : AskDelete(i)
  PROVE  LTypes'
<1>1. UNCHANGED <<site, table, listPage, lists, loading, form>>
  BY DEF handleSubmit, AskDelete
<1>2. PICK o, r :
        /\ o \in Requests
        /\ Mutate(o, r)
        /\ IF o = "delete" THEN r = [pc |-> "new", target |-> r.target, ok |-> r.ok]
           ELSE OfItsForm(r) /\ r.pc = "new" /\ r.values \in AnyForm
  <2>1. CASE handleSubmit
    <3>1. PICK r : r = [pc |-> "new", target |-> NoId, values |-> form.values,
                        filledFrom |-> form.filledFrom, waited |-> ~online, ok |-> FALSE]
      OBVIOUS
    <3>2. PICK o \in {"update", "create"} : Mutate(o, r)
      BY <2>1, <3>1 DEF handleSubmit
    <3>3. OfItsForm(r) /\ r.pc = "new" /\ r.values \in AnyForm
      BY <3>1 DEF LTypes, FormIs, OfItsForm
    <3> QED BY <3>2, <3>3 DEF Requests
  <2>2. ASSUME NEW i \in Ids, AskDelete(i)
        PROVE  \E r : Mutate("delete", r) /\ r = [pc |-> "new", target |-> r.target, ok |-> r.ok]
    <3>1. PICK r : r = [pc |-> "new", target |-> i, ok |-> FALSE]
      OBVIOUS
    <3>2. Mutate("delete", r)
      BY <2>2, <3>1 DEF AskDelete
    <3> QED BY <3>1, <3>2
  <2> QED BY <2>1, <2>2 DEF Requests
<1>3. AskIs(o, SendNow(o, r), AnyForm) /\ AskIs(o, [r EXCEPT !.pc = "waiting"], AnyForm)
  BY <1>2, SendNowAsks
<1>4. PICK s : mutation' = [mutation EXCEPT ![o] = s] /\ s = IF online THEN SendNow(o, r) ELSE [r EXCEPT !.pc = "waiting"]
  BY <1>2 DEF Mutate
<1>5. AskIs(o, s, AnyForm)
  BY <1>3, <1>4
<1>6. AsksAre(AnyForm)'
  BY <1>1, <1>2, <1>4, <1>5, OneAsks
<1> QED BY <1>1, <1>6, ListFrame DEF LTypes

LEMMA OnlineTypes ==
  ASSUME LInv, LTypes, GoOnline \/ GoOffline
  PROVE  LTypes'
<1>1. UNCHANGED <<site, table, listPage, lists, loading, form>> /\ AnyForm' = AnyForm
  BY SameForms DEF GoOnline, GoOffline
<1>2. CASE GoOffline
  BY <1>1, <1>2, ListFrame DEF GoOffline, LTypes
<1>3. CASE GoOnline
  <2>1. mutation' = [o \in Requests |-> IF mutation[o].pc = "waiting" THEN SendNow(o, mutation[o]) ELSE mutation[o]]
    <3>1. DOMAIN mutation = Requests
      BY DEF LInv
    <3> QED BY <1>3, <3>1 DEF GoOnline
  <2>2. PICK forms : forms = AnyForm
    OBVIOUS
  <2>3. ASSUME NEW o \in Requests
        PROVE  AskIs(o, mutation'[o], forms)
    <3>1. PICK r : r = mutation[o]
      OBVIOUS
    <3>2. AskIs(o, r, forms)
      BY <2>2, <3>1 DEF LTypes, AsksAre
    <3>3. CASE r.pc = "waiting"
      <4>1. AskIs(o, SendNow(o, r), forms)
        BY <3>2, <3>3, SendNowAsks DEF AskIs
      <4> QED BY <2>1, <3>1, <3>3, <4>1
    <3>4. CASE r.pc # "waiting"
      BY <2>1, <3>1, <3>2, <3>4
    <3> QED BY <3>3, <3>4
  <2>4. AsksAre(AnyForm)'
    BY <1>1, <2>2, <2>3 DEF AsksAre
  <2> QED BY <1>1, <2>4, ListFrame DEF LTypes
<1> QED BY <1>2, <1>3

\* The columns an update writes are those of a row.
LEMMA WrittenTypes ==
  ASSUME NEW f \in AnyForm, NEW row \in AnyForm
  PROVE  Written(f, row) \in AnyForm
<1>1. CASE site = "alerts"
  BY <1>1 DEF Written
<1>2. CASE site # "alerts"
  <2>1. f \in StatusPageForms /\ row \in StatusPageForms
    BY <1>2 DEF AnyForm
  <2>2. PICK description \in {"", "text"} : description = IF f.description = "" THEN row.description ELSE f.description
    BY <2>1 DEF StatusPageForms
  <2>3. Written(f, row) = [f EXCEPT !.description = description]
    BY <1>2, <2>1, <2>2 DEF Written, toStatusPagePayload, StatusPageForms
  <2>4. Written(f, row) \in StatusPageForms
    BY <2>1, <2>3 DEF StatusPageForms
  <2> QED BY <1>2, <2>4 DEF AnyForm
<1> QED BY <1>1, <1>2

LEMMA OneRow ==
  ASSUME LTypes, UNCHANGED site, NEW i, NEW state \in {"new", "here", "gone"}, NEW row \in AnyForm,
         table' = [table EXCEPT ![i] = [state |-> state, row |-> row]]
  PROVE  RowsAreOf(AnyForm)'
<1>1. PICK forms, r : forms = AnyForm /\ r = [state |-> state, row |-> row]
  OBVIOUS
<1>2. table \in [Ids -> TableRows(forms)] /\ r \in TableRows(forms) /\ AnyForm' = forms
  BY <1>1, SameForms DEF LTypes, RowsAreOf, TableRows
<1>3. table' = [table EXCEPT ![i] = r]
  BY <1>1
<1>4. table' \in [Ids -> TableRows(forms)]
  BY <1>2, <1>3
<1> QED BY <1>2, <1>4 DEF RowsAreOf

LEMMA ServingTypes ==
  ASSUME LInv, LTypes, ServeCreateRow \/ ServeUpdateRow \/ ServeDeleteRow
  PROVE  LTypes'
<1>1. UNCHANGED <<site, listPage, lists, loading, form>>
  BY DEF ServeCreateRow, ServeUpdateRow, ServeDeleteRow
<1>2. /\ AnyForm' = AnyForm
      /\ \A i \in Ids : table[i].row \in AnyForm /\ table[i] = [state |-> table[i].state, row |-> table[i].row]
                        /\ table[i].state \in {"new", "here", "gone"}
  BY <1>1, SameForms DEF LTypes, RowsAreOf, TableRows
<1>3. AsksAre(AnyForm)'
  <2>1. PICK o, s : o \in Requests /\ mutation' = [mutation EXCEPT ![o] = s] /\ s.pc = "answered"
    <3>1. mutation = [o \in Requests |-> mutation[o]]
      BY DEF LInv
    <3>2. CASE ServeCreateRow
      <4>1. PICK r : r = mutation["create"] /\ r.pc = "sent"
        BY <3>2 DEF ServeCreateRow
      <4>2. OfItsForm(r)
        BY <4>1 DEF LTypes, AsksAre, AskIs, Requests
      <4>3. PICK s \in {[r EXCEPT !.pc = "answered", !.ok = TRUE], [r EXCEPT !.pc = "answered"]} :
              mutation' = [mutation EXCEPT !["create"] = s]
        <5>1. \/ mutation' = [mutation EXCEPT !["create"].pc = "answered", !["create"].ok = TRUE]
              \/ mutation' = [mutation EXCEPT !["create"].pc = "answered"]
          BY <3>2 DEF ServeCreateRow
        <5> QED BY <3>1, <4>1, <5>1 DEF Requests
      <4>4. s.pc = "answered"
        BY <4>2, <4>3 DEF OfItsForm
      <4> QED BY <4>3, <4>4 DEF Requests
    <3>3. CASE ServeUpdateRow
      <4>1. PICK r : r = mutation["update"] /\ r.pc = "sent"
        BY <3>3 DEF ServeUpdateRow
      <4>2. OfItsForm(r)
        BY <4>1 DEF LTypes, AsksAre, AskIs, Requests
      <4>3. PICK s \in {[r EXCEPT !.pc = "answered", !.ok = TRUE], [r EXCEPT !.pc = "answered"]} :
              mutation' = [mutation EXCEPT !["update"] = s]
        <5>1. \/ mutation' = [mutation EXCEPT !["update"] = [@ EXCEPT !.pc = "answered", !.ok = TRUE]]
              \/ mutation' = [mutation EXCEPT !["update"].pc = "answered"]
          BY <3>3 DEF ServeUpdateRow
        <5> QED BY <3>1, <4>1, <5>1 DEF Requests
      <4>4. s.pc = "answered"
        BY <4>2, <4>3 DEF OfItsForm
      <4> QED BY <4>3, <4>4 DEF Requests
    <3>4. CASE ServeDeleteRow
      <4>1. PICK r : r = mutation["delete"] /\ r.pc = "sent"
        BY <3>4 DEF ServeDeleteRow
      <4>2. r = [pc |-> r.pc, target |-> r.target, ok |-> r.ok]
        BY <4>1 DEF LTypes, AsksAre, AskIs, Requests
      <4>3. PICK ok : mutation' = [mutation EXCEPT !["delete"].pc = "answered", !["delete"].ok = ok]
        BY <3>4 DEF ServeDeleteRow
      <4>4. PICK s : s = [r EXCEPT !.pc = "answered", !.ok = ok]
        OBVIOUS
      <4>5. mutation' = [mutation EXCEPT !["delete"] = s]
        BY <3>1, <4>1, <4>3, <4>4 DEF Requests
      <4>6. s.pc = "answered"
        BY <4>2, <4>4
      <4> QED BY <4>5, <4>6 DEF Requests
    <3> QED BY <3>2, <3>3, <3>4
  <2>2. AskIs(o, s, AnyForm)
    BY <2>1 DEF AskIs
  <2> QED BY <1>1, <2>1, <2>2, OneAsks
<1>4. RowsAreOf(AnyForm)'
  <2>1. CASE UNCHANGED table
    BY <1>1, <2>1, ListFrame
  <2>2. CASE ServeCreateRow /\ ~UNCHANGED table
    <3>1. PICK i \in Ids : table' = [table EXCEPT ![i] = [state |-> "here", row |-> mutation["create"].values]]
      BY <2>2 DEF ServeCreateRow
    <3>2. mutation["create"].values \in AnyForm
      BY <2>2 DEF ServeCreateRow, LTypes, AsksAre, AskIs, Requests
    <3> QED BY <1>1, <3>1, <3>2, OneRow
  <2>3. CASE ServeUpdateRow /\ ~UNCHANGED table
    <3>1. PICK i, f : i = mutation["update"].target /\ f = mutation["update"].values
      OBVIOUS
    <3>2. i \in Ids /\ table' = [table EXCEPT ![i].row = Written(f, table[i].row)]
      BY <2>3, <3>1 DEF ServeUpdateRow, Existing
    <3>3. f \in AnyForm
      BY <2>3, <3>1 DEF ServeUpdateRow, LTypes, AsksAre, AskIs, Requests
    <3>4. PICK row \in AnyForm : row = Written(f, table[i].row)
      BY <1>2, <3>2, <3>3, WrittenTypes
    <3>5. PICK old : old = table[i] /\ old = [state |-> old.state, row |-> old.row]
      BY <1>2, <3>2
    <3>6. [old EXCEPT !.row = row] = [state |-> old.state, row |-> row]
      BY <3>5
    <3>7. table' = [table EXCEPT ![i] = [state |-> old.state, row |-> row]]
      BY <3>2, <3>4, <3>5, <3>6
    <3>8. old.state \in {"new", "here", "gone"}
      BY <1>2, <3>2, <3>5
    <3> QED BY <1>1, <3>7, <3>8, OneRow
  <2>4. CASE ServeDeleteRow /\ ~UNCHANGED table
    <3>1. PICK i : i \in Ids /\ table' = [table EXCEPT ![i].state = "gone"]
      BY <2>4 DEF ServeDeleteRow, Existing
    <3>2. PICK old : old = table[i] /\ old = [state |-> old.state, row |-> old.row] /\ old.row \in AnyForm
      BY <1>2, <3>1
    <3>3. [old EXCEPT !.state = "gone"] = [state |-> "gone", row |-> old.row]
      BY <3>2
    <3>4. table' = [table EXCEPT ![i] = [state |-> "gone", row |-> old.row]]
      BY <3>1, <3>2, <3>3
    <3> QED BY <1>1, <3>2, <3>4, OneRow
  <2> QED BY <2>1, <2>2, <2>3, <2>4
<1> QED BY <1>1, <1>3, <1>4, ListFrame DEF LTypes

LEMMA SettlingTypes ==
  ASSUME LInv, LTypes, NEW o \in DOMAIN mutation, SettleMutation(o) \/ Refreshed(o)
  PROVE  LTypes'
<1>1. UNCHANGED <<site, table, listPage, lists>> /\ AnyForm' = AnyForm /\ o \in Requests
  BY SameForms DEF SettleMutation, Refreshed, LInv
<1>2. PICK r : mutation' = [mutation EXCEPT ![o] = r] /\ r.pc \in {"idle", "refreshing"}
  <2>1. NoMutation.pc = "idle" /\ \A p : [pc |-> "refreshing", of |-> p].pc = "refreshing"
    BY DEF NoMutation
  <2> QED BY <2>1 DEF SettleMutation, Refreshed
<1>3. AsksAre(AnyForm)'
  <2>1. AskIs(o, r, AnyForm)
    BY <1>2 DEF AskIs
  <2> QED BY <1>1, <1>2, <2>1, OneAsks
<1>4. FormIs(AnyForm)'
  <2>1. CASE UNCHANGED form
    BY <1>1, <2>1, ListFrame
  <2>2. CASE resetForm
    <3>1. form' = [editing |-> NoId, values |-> defaultFormValues, filledFrom |-> NoId]
      BY <2>2 DEF resetForm, Unfilled
    <3> QED BY <1>1, <3>1, DefaultValues DEF FormIs
  <2> QED BY <2>1, <2>2 DEF SettleMutation, Refreshed
<1>5. PagesAre(loading, AnyForm)'
  <2>1. CASE UNCHANGED loading
    BY <1>1, <2>1, ListFrame
  <2>2. CASE loading' = WithPage(loading, listPage, PageOf(listPage))
    <3>1. PICK forms : forms = AnyForm
      OBVIOUS
    <3>2. PagesAre(loading', forms)
      BY <2>2, <3>1, PageIsOfTable, WithPageIs DEF LTypes
    <3> QED BY <1>1, <3>1, <3>2
  <2> QED BY <2>1, <2>2 DEF SettleMutation, Refreshed
<1> QED BY <1>1, <1>3, <1>4, <1>5, ListFrame DEF LTypes

LEMMA OtherTabTypes ==
  ASSUME LTypes, OtherTab
  PROVE  LTypes'
<1>1. UNCHANGED <<site, listPage, lists, loading, form, mutation>> /\ AnyForm' = AnyForm
  BY SameForms DEF OtherTab
<1>2. \A i \in Ids : /\ table[i].row \in AnyForm /\ table[i].state \in {"new", "here", "gone"}
                     /\ table[i] = [state |-> table[i].state, row |-> table[i].row]
  BY DEF LTypes, RowsAreOf, TableRows
<1>3. ASSUME NEW i \in Existing, table' = [table EXCEPT ![i].state = "gone"]
      PROVE  RowsAreOf(AnyForm)'
  <2>1. PICK old : old = table[i] /\ old = [state |-> old.state, row |-> old.row] /\ old.row \in AnyForm
    BY <1>2 DEF Existing
  <2>2. [old EXCEPT !.state = "gone"] = [state |-> "gone", row |-> old.row]
    BY <2>1
  <2>3. table' = [table EXCEPT ![i] = [state |-> "gone", row |-> old.row]]
    BY <1>3, <2>1, <2>2
  <2> QED BY <1>1, <2>1, <2>3, OneRow
<1>4. ASSUME NEW m,
             table' = [i \in Ids |-> IF site = "status-pages" /\ i \in Existing
                                     THEN [table[i] EXCEPT !.row.monitorIds = @ \ {m}] ELSE table[i]]
      PROVE  RowsAreOf(AnyForm)'
  <2>1. PICK forms : forms = AnyForm
    OBVIOUS
  <2>2. ASSUME NEW i \in Ids, site = "status-pages"
        PROVE  [table[i] EXCEPT !.row.monitorIds = @ \ {m}] \in TableRows(forms)
    <3>1. forms = StatusPageForms
      BY <2>1, <2>2 DEF AnyForm
    <3>2. PICK state \in {"new", "here", "gone"}, row \in StatusPageForms : table[i] = [state |-> state, row |-> row]
      BY <1>2, <2>1, <3>1
    <3>3. PICK without : without = [row EXCEPT !.monitorIds = @ \ {m}]
      OBVIOUS
    <3>4. without \in StatusPageForms
      BY <3>2, <3>3 DEF StatusPageForms
    <3>5. [table[i] EXCEPT !.row.monitorIds = @ \ {m}] = [state |-> state, row |-> without]
      BY <3>2, <3>3
    <3> QED BY <3>1, <3>2, <3>4, <3>5 DEF TableRows
  <2>3. ASSUME NEW i \in Ids
        PROVE  table'[i] \in TableRows(forms)
    <3>1. table[i] \in TableRows(forms)
      BY <2>1 DEF LTypes, RowsAreOf
    <3> QED BY <1>4, <2>2, <3>1
  <2>4. table' \in [Ids -> TableRows(forms)]
    BY <1>4, <2>3
  <2> QED BY <1>1, <2>1, <2>4 DEF RowsAreOf
<1>5. RowsAreOf(AnyForm)'
  BY <1>3, <1>4 DEF OtherTab
<1> QED BY <1>1, <1>5, ListFrame DEF LTypes

LEMMA InitListTypes == ListInit => LTypes
<1> SUFFICES ASSUME ListInit PROVE LTypes
  OBVIOUS
<1>1. RowsAreOf(AnyForm)
  BY DEF ListInit, RowsAreOf, TableRows
<1>2. PagesAre(lists, AnyForm)
  BY DEF ListInit, PagesAre
<1>3. PagesAre(loading, AnyForm)
  <2>1. ItemsAre(PageOf(1), AnyForm)
    BY <1>1, PageIsOfTable
  <2> QED BY <2>1 DEF ListInit, PagesAre
<1>4. FormIs(AnyForm)
  <2>1. form = [editing |-> NoId, values |-> defaultFormValues, filledFrom |-> NoId]
    BY DEF ListInit, Unfilled
  <2> QED BY <2>1, DefaultValues DEF FormIs
<1>5. AsksAre(AnyForm)
  BY DEF ListInit, AsksAre, AskIs, Requests, NoMutation
<1>6. listPage \in Nat \ {0}
  BY DEF ListInit
<1> QED BY <1>1, <1>2, <1>3, <1>4, <1>5, <1>6 DEF LTypes

LEMMA NextListTypes == LInv /\ LTypes /\ [ListNext]_listVars => LTypes'
<1> SUFFICES ASSUME LInv, LTypes, [ListNext]_listVars PROVE LTypes'
  OBVIOUS
<1>1. CASE PreviousPage \/ NextListPage \/ \E p \in Ids : Loads(p)
  BY <1>1, PagingTypes
<1>2. CASE (\E i \in Ids : startEditing(i)) \/ CancelEditing \/ \E values \in AnyForm : TypeInForm(values)
  BY <1>2, FormTypesKept
<1>3. CASE handleSubmit \/ \E i \in Ids : AskDelete(i)
  BY <1>3, AskingTypes
<1>4. CASE GoOffline \/ GoOnline
  BY <1>4, OnlineTypes
<1>5. CASE ServeCreateRow \/ ServeUpdateRow \/ ServeDeleteRow
  BY <1>5, ServingTypes
<1>6. ASSUME NEW o \in DOMAIN mutation, SettleMutation(o) \/ Refreshed(o) PROVE LTypes'
  BY <1>6, SettlingTypes
<1>7. CASE OtherTab
  BY <1>7, OtherTabTypes
<1>8. CASE UNCHANGED listVars
  BY <1>8, ListFrame DEF listVars, LTypes
<1> QED BY <1>1, <1>2, <1>3, <1>4, <1>5, <1>6, <1>7, <1>8 DEF ListNext

LEMMA ListTypes == LInv /\ LTypes => ListTypeOK
<1> SUFFICES ASSUME LInv, LTypes PROVE ListTypeOK
  OBVIOUS
<1>1. \A i \in Ids : table[i].state \in {"new", "here", "gone"} /\ table[i].row \in AnyForm
  BY DEF LTypes, RowsAreOf, TableRows
<1>2. DOMAIN mutation = Requests
  BY DEF LInv
<1>3. \A o \in DOMAIN mutation : mutation[o].pc \in {"idle", "waiting", "sent", "answered", "refreshing"}
  BY <1>2 DEF LTypes, AsksAre, AskIs
<1> QED BY <1>1, <1>3 DEF LTypes, FormIs, ListTypeOK

-----------------------------------------------------------------------------
(* The console: what a tab was told *)

\* Each answer the tab has, or that is under way: the query, the answer, the sign-in.
SaidOf(held, underWay) ==
  {<<q, held[q].answer, held[q].login>> : q \in DOMAIN held}
  \cup {<<q, underWay[q].answer, underWay[q].login>> : q \in DOMAIN underWay}

\* Recorded checks: up without an error only, and a certificate that is up has its week.
CheckIs(check) ==
  /\ check.result \in Results /\ check.result.isUp \in BOOLEAN
  /\ (check.result.isUp <=> check.result.error = "none")
  /\ check.of = "SSL" /\ check.result.isUp => check.days >= WORKER_SSL_EXPIRY_THRESHOLD_DAYS

MonitorIs(r) ==
  /\ r = [state |-> r.state, owner |-> r.owner, row |-> r.row, check |-> r.check, checks |-> r.checks]
  /\ r.checks \in Nat /\ CheckIs(r.check)
  /\ \/ r.state = "new" /\ r.checks = 0 /\ r.owner = NoUser /\ r.row = Empty
     \/ r.state \in {"here", "gone"} /\ r.owner \in Users /\ r.row \in WrittenRows

AnswerIs(q, a) ==
  \/ a.kind = "none"
  \/ q = List /\ a.kind = "list" /\ a.data \subseteq Monitors
  \/ q # List /\ a.kind = "detail" /\ q[1] = "detail" /\ a.data \in WrittenRows
  \/ q # List /\ a.kind = "checks" /\ q[1] = "checks" /\ a.checks \in Nat /\ (a.checks # 0 => CheckIs(a.check))
  \/ q # List /\ a.kind = "stats" /\ q[1] = "stats" /\ a.checks \in Nat

\* Answers that tell of a check: which, and whether it was up.
Counts(a) == a.kind \in {"checks", "stats"} /\ a.checks # 0
SaysUp(a) == IF a.kind = "checks" THEN a.check.result.isUp ELSE a.currentStatus = "UP"

\* The monitors a is about are those of u.
Owns(q, a, rows, u) == IF q = List THEN \A m \in a.data : rows[m].owner = u ELSE rows[q[2]].owner = u

Told(q, a, login, rows, u, l) ==
  /\ q \in Queries /\ login \in Nat /\ login <= l /\ AnswerIs(q, a)
  /\ a.kind # "none" /\ login = l /\ u # NoUser => Owns(q, a, rows, u)
  /\ Counts(a) => /\ a.checks <= rows[q[2]].checks
                  /\ a.checks = rows[q[2]].checks => (SaysUp(a) <=> rows[q[2]].check.result.isUp)

\* Two answers that count as many checks of a monitor agree on the last.
Agree(p, a, q, b) ==
  p # List /\ q # List /\ p[2] = q[2] /\ Counts(a) /\ Counts(b) /\ a.checks = b.checks => (SaysUp(a) <=> SaysUp(b))

SaidInv(said, rows, u, l) ==
  /\ \A s \in said : Told(s[1], s[2], s[3], rows, u, l)
  /\ \A s, t \in said : Agree(s[1], s[2], t[1], t[2])

TableInv == monitor = [m \in Monitors |-> monitor[m]] /\ \A m \in Monitors : MonitorIs(monitor[m])

\* What is said now.
NowSaid(u, l) == {<<q, Answer(q, u), l>> : q \in Queries}

LEMMA QueryIs ==
  ASSUME NEW q \in Queries
  PROVE  \/ q = List /\ q[1] = "list"
         \/ q # List /\ q[2] \in Monitors /\ q[1] \in {"detail", "checks", "stats"}
<1>1. CASE q = List
  BY <1>1 DEF List
<1>2. CASE q \in {"detail", "checks", "stats"} \X Monitors
  BY <1>2 DEF List
<1> QED BY <1>1, <1>2 DEF Queries

LEMMA NowIs ==
  ASSUME TableInv, NEW q \in Queries, NEW u
  PROVE  /\ AnswerIs(q, Answer(q, u))
         /\ Answer(q, u).kind # "none" => Owns(q, Answer(q, u), monitor, u)
         /\ Counts(Answer(q, u)) => /\ q # List /\ Answer(q, u).checks = monitor[q[2]].checks
                                    /\ SaysUp(Answer(q, u)) <=> monitor[q[2]].check.result.isUp
<1>1. PICK a : a = Answer(q, u)
  OBVIOUS
<1>2. CASE q = List
  <2>1. a = [kind |-> "list", data |-> Owned(u)]
    BY <1>1, <1>2 DEF Answer, List
  <2>2. AnswerIs(q, a) /\ Owns(q, a, monitor, u) /\ ~Counts(a)
    BY <1>2, <2>1 DEF AnswerIs, Owns, Counts, Owned
  <2> QED BY <1>1, <2>2
<1>3. CASE q # List /\ q[2] \notin Owned(u)
  <2>1. q[1] # "list"
    BY <1>3, QueryIs
  <2>2. a = [kind |-> "none"]
    BY <1>1, <1>3, <2>1 DEF Answer
  <2>3. AnswerIs(q, a) /\ a.kind = "none" /\ ~Counts(a)
    BY <2>2 DEF AnswerIs, Counts
  <2> QED BY <1>1, <2>3
<1>4. CASE q # List /\ q[2] \in Owned(u)
  <2>1. q[2] \in Monitors /\ q[1] \in {"detail", "checks", "stats"} /\ Owns(q, a, monitor, u)
    BY <1>4, QueryIs DEF Owned, Owns
  <2>2. PICK r : r = monitor[q[2]] /\ MonitorIs(r) /\ r.state = "here"
    BY <1>4, <2>1 DEF TableInv, Owned, Here
  <2>3. r.row \in WrittenRows /\ r.checks \in Nat /\ CheckIs(r.check)
    BY <2>2 DEF MonitorIs
  <2>4. CASE q[1] = "detail"
    <3>1. a = [kind |-> "detail", data |-> r.row]
      BY <1>1, <1>4, <2>2, <2>4 DEF Answer
    <3>2. AnswerIs(q, a) /\ ~Counts(a)
      BY <1>4, <2>3, <2>4, <3>1 DEF AnswerIs, Counts
    <3> QED BY <1>1, <2>1, <3>2
  <2>5. CASE q[1] = "checks"
    <3>1. a = [kind |-> "checks", check |-> r.check, checks |-> r.checks]
      BY <1>1, <1>4, <2>2, <2>5 DEF Answer
    <3>2. AnswerIs(q, a) /\ (Counts(a) => a.checks = r.checks /\ (SaysUp(a) <=> r.check.result.isUp))
      BY <1>4, <2>3, <2>5, <3>1 DEF AnswerIs, Counts, SaysUp
    <3> QED BY <1>1, <1>4, <2>1, <2>2, <3>2
  <2>6. CASE q[1] = "stats"
    <3>1. a = [kind |-> "stats", checks |-> r.checks,
               currentStatus |-> IF r.checks = 0 THEN "UNKNOWN" ELSE IF r.check.result.isUp THEN "UP" ELSE "DOWN"]
      BY <1>1, <1>4, <2>2, <2>6 DEF Answer
    <3>2. AnswerIs(q, a) /\ (Counts(a) => a.checks = r.checks /\ (SaysUp(a) <=> r.check.result.isUp))
      BY <1>4, <2>3, <2>6, <3>1 DEF AnswerIs, Counts, SaysUp, CheckIs
    <3> QED BY <1>1, <1>4, <2>1, <2>2, <3>2
  <2> QED BY <2>1, <2>4, <2>5, <2>6
<1> QED BY <1>2, <1>3, <1>4

\* Whoever asks now is told what agrees with all that was said.
LEMMA SaidGrows ==
  ASSUME TableInv, NEW said, NEW u, NEW l \in Nat, SaidInv(said, monitor, u, l),
         NEW more, more \subseteq said \cup NowSaid(u, l)
  PROVE  SaidInv(more, monitor, u, l)
<1>1. ASSUME NEW s \in NowSaid(u, l)
      PROVE  /\ Told(s[1], s[2], s[3], monitor, u, l) /\ s[1] \in Queries
             /\ Counts(s[2]) => /\ s[2].checks = monitor[s[1][2]].checks
                                /\ SaysUp(s[2]) <=> monitor[s[1][2]].check.result.isUp
  <2>1. PICK q \in Queries : s = <<q, Answer(q, u), l>>
    BY DEF NowSaid
  <2>2. PICK a : a = Answer(q, u)
    OBVIOUS
  <2>3. s[1] = q /\ s[2] = a /\ s[3] = l
    BY <2>1, <2>2
  <2>4. /\ AnswerIs(q, a) /\ (a.kind # "none" => Owns(q, a, monitor, u))
        /\ Counts(a) => /\ q # List /\ a.checks = monitor[q[2]].checks
                        /\ SaysUp(a) <=> monitor[q[2]].check.result.isUp
    BY <2>2, NowIs
  <2>5. Counts(a) => a.checks \in Nat
    <3>1. q # List => q[2] \in Monitors
      BY QueryIs
    <3> QED BY <2>4, <3>1 DEF TableInv, MonitorIs
  <2>6. Told(q, a, l, monitor, u, l)
    BY <2>4, <2>5 DEF Told
  <2> QED BY <2>3, <2>4, <2>6
<1>2. ASSUME NEW s \in more
      PROVE  Told(s[1], s[2], s[3], monitor, u, l)
  BY <1>1 DEF SaidInv
<1>3. ASSUME NEW s \in more, NEW t \in more
      PROVE  Agree(s[1], s[2], t[1], t[2])
  <2>1. CASE s \in said /\ t \in said
    BY <2>1 DEF SaidInv
  <2>2. CASE s \in NowSaid(u, l) /\ t \in NowSaid(u, l)
    BY <1>1, <2>2 DEF Agree
  <2>3. CASE s \in said /\ t \in NowSaid(u, l)
    <3>1. Told(s[1], s[2], s[3], monitor, u, l)
      BY <1>2
    <3> QED BY <1>1, <2>3, <3>1 DEF Agree, Told
  <2>4. CASE t \in said /\ s \in NowSaid(u, l)
    <3>1. Told(t[1], t[2], t[3], monitor, u, l)
      BY <1>2
    <3> QED BY <1>1, <2>4, <3>1 DEF Agree, Told
  <2> QED BY <2>1, <2>2, <2>3, <2>4
<1> QED BY <1>2, <1>3 DEF SaidInv

\* Changes of the table that what was said survives: whoever owns a monitor keeps
\* it, and another latest check is another number of checks.
LEMMA SaidOnTable ==
  ASSUME NEW said, NEW u, NEW l, SaidInv(said, monitor, u, l), TableInv, NEW rows,
         \A m \in Monitors :
           /\ rows[m].owner = monitor[m].owner \/ monitor[m].owner = NoUser
           /\ \/ rows[m].checks = monitor[m].checks
                   /\ (monitor[m].checks # 0 => rows[m].check = monitor[m].check)
              \/ rows[m].checks = monitor[m].checks + 1
  PROVE  SaidInv(said, rows, u, l)
<1>1. ASSUME NEW s \in said
      PROVE  Told(s[1], s[2], s[3], rows, u, l)
  <2>1. PICK q, a, login : q = s[1] /\ a = s[2] /\ login = s[3]
    OBVIOUS
  <2>2. Told(q, a, login, monitor, u, l)
    BY <2>1 DEF SaidInv
  <2>3. q = List \/ q[2] \in Monitors
    BY <2>2, QueryIs DEF Told
  <2>4. a.kind # "none" /\ login = l /\ u # NoUser => Owns(q, a, rows, u)
    <3>1. CASE q = List /\ a.kind # "none"
      <4>1. a.data \subseteq Monitors
        BY <2>2, <3>1 DEF Told, AnswerIs
      <4> QED BY <2>2, <3>1, <4>1 DEF Told, Owns
    <3>2. CASE q # List
      BY <2>2, <2>3, <3>2 DEF Told, Owns
    <3> QED BY <3>1, <3>2
  <2>5. Counts(a) => /\ q # List /\ a.checks \in Nat /\ a.checks # 0
    BY <2>2 DEF Told, AnswerIs, Counts
  <2>6. Counts(a) => /\ a.checks <= rows[q[2]].checks
                     /\ a.checks = rows[q[2]].checks => (SaysUp(a) <=> rows[q[2]].check.result.isUp)
    <3>1. SUFFICES ASSUME Counts(a)
                   PROVE  /\ a.checks <= rows[q[2]].checks
                          /\ a.checks = rows[q[2]].checks => (SaysUp(a) <=> rows[q[2]].check.result.isUp)
      OBVIOUS
    <3>2. q[2] \in Monitors /\ monitor[q[2]].checks \in Nat
      BY <2>3, <2>5, <3>1 DEF TableInv, MonitorIs
    <3>3. /\ a.checks <= monitor[q[2]].checks
          /\ a.checks = monitor[q[2]].checks => (SaysUp(a) <=> monitor[q[2]].check.result.isUp)
      BY <2>2, <3>1 DEF Told
    <3> QED BY <2>5, <3>1, <3>2, <3>3
  <2> QED BY <2>1, <2>2, <2>4, <2>6 DEF Told
<1> QED BY <1>1 DEF SaidInv

\* Who signs in next was told nothing yet.
LEMMA SaidToAnother ==
  ASSUME NEW said, NEW u, NEW l \in Nat, SaidInv(said, monitor, u, l)
  PROVE  /\ SaidInv(said, monitor, NoUser, l)
         /\ \A v : SaidInv(said, monitor, v, l + 1)
<1>1. ASSUME NEW s \in said
      PROVE  /\ Told(s[1], s[2], s[3], monitor, NoUser, l)
             /\ \A v : Told(s[1], s[2], s[3], monitor, v, l + 1)
  <2>1. PICK q, a, login : q = s[1] /\ a = s[2] /\ login = s[3]
    OBVIOUS
  <2>2. Told(q, a, login, monitor, u, l)
    BY <2>1 DEF SaidInv
  <2>3. login \in Nat /\ login <= l /\ login # l + 1 /\ login <= l + 1
    BY <2>2 DEF Told
  <2> QED BY <2>1, <2>2, <2>3 DEF Told
<1> QED BY <1>1 DEF SaidInv

\* Sending adds what is said now.
LEMMA SendingSays ==
  ASSUME NEW held, NEW underWay, NEW queries, queries \subseteq Queries, NEW u, NEW l
  PROVE  /\ SaidOf(held, Sending(underWay, queries, u, l)) \subseteq SaidOf(held, underWay) \cup NowSaid(u, l)
         /\ DOMAIN Sending(underWay, queries, u, l) = queries \cup DOMAIN underWay
<1>1. PICK f : f = Sending(underWay, queries, u, l)
  OBVIOUS
<1>2. /\ DOMAIN f = queries \cup DOMAIN underWay
      /\ \A q \in queries : f[q].answer = Answer(q, u) /\ f[q].login = l
      /\ \A q \in DOMAIN underWay \ queries : f[q] = underWay[q]
  BY <1>1 DEF Sending
<1>3. ASSUME NEW q \in DOMAIN f
      PROVE  <<q, f[q].answer, f[q].login>> \in SaidOf(held, underWay) \cup NowSaid(u, l)
  <2>1. CASE q \in queries
    BY <1>2, <2>1 DEF NowSaid
  <2>2. CASE q \in DOMAIN underWay \ queries
    BY <1>2, <2>2 DEF SaidOf
  <2> QED BY <1>2, <2>1, <2>2
<1>4. SaidOf(held, f) \subseteq SaidOf(held, underWay) \cup NowSaid(u, l)
  BY <1>3 DEF SaidOf
<1> QED BY <1>1, <1>2, <1>4

IsGood(result) == result.isUp = TRUE /\ result.error = "none"
IsBad(result) == result.isUp = FALSE /\ result.error # "none"

LEMMA ResultIs ==
  ASSUME NEW up \in BOOLEAN, NEW code, NEW error, NEW found
  PROVE  /\ up /\ error = "none" => IsGood(Result(up, code, error, found))
         /\ ~up /\ error # "none" => IsBad(Result(up, code, error, found))
<1>1. up = TRUE \/ up = FALSE
  OBVIOUS
<1>2. Result(up, code, error, found).isUp = up /\ Result(up, code, error, found).error = error
  BY DEF Result
<1> QED BY <1>1, <1>2 DEF IsGood, IsBad

LEMMA ResultTypes ==
  ASSUME NEW row, row.type \in Types, NEW answer \in Answers
  PROVE  execute(row, answer) \in Results
<1>1. answer.code \in Nat /\ answer.certificate.kind \in {"none", "no date", "dated"}
  BY AnswersAssumption
<1>2. ASSUME NEW up \in BOOLEAN, NEW code \in Nat, NEW error \in Errors, NEW found \in {Absent, "yes", "no"}
      PROVE  Result(up, code, error, found) \in Results
  BY DEF Result, Results
<1>3. /\ Up \in Results
      /\ \A error \in Errors : Down(error) \in Results
  BY <1>2 DEF Up, Down, NoCode, Errors
<1>4. \A error : Down(normalizeErrorMessage(error)) \in Results
  BY <1>3 DEF normalizeErrorMessage, messageOf, Errors
<1>5. CASE row.type = "HTTP"
  <2>1. execute(row, answer) = executeHttpCheck(answer)
    BY <1>5 DEF execute
  <2>2. PICK up \in BOOLEAN : up = (answer.code < 400)
    <3> WITNESS (answer.code < 400) \in BOOLEAN
    <3> QED OBVIOUS
  <2>3. Result(up, answer.code, IF up THEN "none" ELSE "status", Absent) \in Results
    BY <1>1, <1>2 DEF Errors
  <2> QED BY <1>4, <2>1, <2>2, <2>3 DEF executeHttpCheck
<1>6. CASE row.type = "TCP"
  <2>1. execute(row, answer) \in {Down("timed out"), Down("failed"), Down("empty"), Up}
    BY <1>6 DEF execute, executeTcpCheck, Settled, messageOf
  <2> QED BY <1>3, <2>1 DEF Errors
<1>7. CASE row.type = "SSL"
  <2>1. execute(row, answer) \in {Down("timed out"), Down("failed"), Down("empty"), CertificateResult(answer.certificate)}
    BY <1>7 DEF execute, executeSslCheck, Settled, messageOf
  <2>2. CertificateResult(answer.certificate) \in
          {Down("unreadable"), Down("invalid date"), Down("expired"), Down("expires soon"), Up}
    BY <1>1 DEF CertificateResult
  <2> QED BY <1>3, <2>1, <2>2 DEF Errors
<1>8. CASE row.type = "KEYWORD"
  <2>1. execute(row, answer) = executeKeywordCheck(row, answer)
    BY <1>8 DEF execute
  <2>2. PICK up \in BOOLEAN :
          up = (answer.code < 400 /\ answer.hasKeyword = (row.keywordMustExist # "no"))
    OBVIOUS
  <2>3. PICK error \in Errors :
          error = CASE answer.code >= 400 -> "status"
                    [] answer.code < 400 /\ answer.hasKeyword = (row.keywordMustExist # "no") -> "none"
                    [] OTHER -> IF row.keywordMustExist # "no" THEN "keyword missing" ELSE "keyword found"
    BY DEF Errors
  <2>4. PICK found \in {Absent, "yes", "no"} : found = IF answer.hasKeyword THEN "yes" ELSE "no"
    OBVIOUS
  <2>5. answer.error = "none" => execute(row, answer) = Result(up, answer.code, error, found)
    BY <2>1, <2>2, <2>3, <2>4, Zenon DEF executeKeywordCheck
  <2>6. answer.error = "none" => execute(row, answer) \in Results
    BY <1>1, <1>2, <2>5
  <2> QED BY <1>4, <2>1, <2>6 DEF executeKeywordCheck
<1>9. CASE row.type = "HEARTBEAT"
  BY <1>3, <1>9 DEF execute
<1> QED BY <1>5, <1>6, <1>7, <1>8, <1>9 DEF Types

LEMMA NoCheckIs == CheckIs(NoCheck)
<1>1. Up \in Results /\ Up.isUp = TRUE /\ Up.error = "none"
  BY DEF Up, Result, Results, NoCode, Errors
<1> QED BY <1>1 DEF CheckIs, NoCheck, Absent

LEMMA CheckIsRecorded ==
  ASSUME NEW row, row.type \in Types, NEW answer \in Answers
  PROVE  CheckIs([result |-> execute(row, answer), of |-> row.type, days |-> answer.certificate.days])
<1>1. PICK result : result = execute(row, answer)
  OBVIOUS
<1>2. /\ answer.code \in Nat /\ answer.certificate.days \in Int
      /\ answer.certificate.kind \in {"none", "no date", "dated"}
  BY AnswersAssumption
<1>3. /\ IsGood(Up)
      /\ IsBad(Down("timed out")) /\ IsBad(Down("failed")) /\ IsBad(Down("empty")) /\ IsBad(Down("unreadable"))
      /\ IsBad(Down("invalid date")) /\ IsBad(Down("expired")) /\ IsBad(Down("expires soon"))
  BY ResultIs DEF Up, Down
<1>4. \A error : normalizeErrorMessage(error) \in {"timed out", "failed", "empty"}
  BY DEF normalizeErrorMessage, messageOf
<1>5. \/ IsGood(result) /\ (row.type = "SSL" => answer.certificate.days >= 7)
      \/ IsBad(result)
  <2>1. CASE row.type = "HTTP"
    <3>1. result = executeHttpCheck(answer)
      BY <1>1, <2>1 DEF execute
    <3>2. CASE answer.error # "none"
      <4>1. result \in {Down("timed out"), Down("failed"), Down("empty")}
        BY <1>4, <3>1, <3>2 DEF executeHttpCheck
      <4> QED BY <1>3, <4>1
    <3>3. CASE answer.error = "none"
      <4>1. PICK up \in BOOLEAN : up = (answer.code < 400)
        <5> WITNESS (answer.code < 400) \in BOOLEAN
        <5> QED OBVIOUS
      <4>2. result = Result(up, answer.code, IF up THEN "none" ELSE "status", Absent)
        BY <3>1, <3>3, <4>1 DEF executeHttpCheck
      <4> QED BY <2>1, <4>2, ResultIs
    <3> QED BY <3>2, <3>3
  <2>2. CASE row.type = "TCP"
    <3>1. result \in {Down("timed out"), Down("failed"), Down("empty"), Up}
      BY <1>1, <2>2 DEF execute, executeTcpCheck, Settled, messageOf
    <3> QED BY <1>3, <2>2, <3>1
  <2>3. CASE row.type = "SSL"
    <3>1. result \in {Down("timed out"), Down("failed"), Down("empty"), CertificateResult(answer.certificate)}
      BY <1>1, <2>3 DEF execute, executeSslCheck, Settled, messageOf
    <3>2. \/ CertificateResult(answer.certificate) \in
               {Down("unreadable"), Down("invalid date"), Down("expired"), Down("expires soon")}
          \/ CertificateResult(answer.certificate) = Up /\ answer.certificate.days >= 7
      BY <1>2 DEF CertificateResult, WORKER_SSL_EXPIRY_THRESHOLD_DAYS
    <3> QED BY <1>3, <2>3, <3>1, <3>2
  <2>4. CASE row.type = "KEYWORD"
    <3>1. result = executeKeywordCheck(row, answer)
      BY <1>1, <2>4 DEF execute
    <3>2. CASE answer.error # "none"
      <4>1. result \in {Down("timed out"), Down("failed"), Down("empty")}
        BY <1>4, <3>1, <3>2 DEF executeKeywordCheck
      <4> QED BY <1>3, <4>1
    <3>3. CASE answer.error = "none"
      <4>1. PICK up \in BOOLEAN : up = (answer.code < 400 /\ answer.hasKeyword = (row.keywordMustExist # "no"))
        OBVIOUS
      <4>2. PICK code \in Nat : code = answer.code
        BY <1>2
      <4> DEFINE found == IF answer.hasKeyword THEN "yes" ELSE "no"
      <4> DEFINE keyword == IF row.keywordMustExist # "no" THEN "keyword missing" ELSE "keyword found"
      <4>3. result = Result(up, code, CASE code >= 400 -> "status" [] code < 400 /\ up -> "none"
                                      [] OTHER -> keyword, found)
        BY <3>1, <3>3, <4>1, <4>2 DEF executeKeywordCheck
      <4>4. keyword # "none"
        OBVIOUS
      <4> HIDE DEF found, keyword
      <4>5. CASE code >= 400
        <5>1. ~(code < 400)
          BY <4>5
        <5>2. ~up
          BY <4>1, <4>2, <5>1
        <5>3. result = Result(up, code, "status", found)
          BY <4>3, <4>5, <5>1
        <5> QED BY <5>2, <5>3, ResultIs
      <4>6. CASE code < 400 /\ up
        <5>1. result = Result(up, code, "none", found)
          BY <4>3, <4>6
        <5> QED BY <2>4, <4>6, <5>1, ResultIs
      <4>7. CASE code < 400 /\ ~up
        <5>1. result = Result(up, code, keyword, found)
          BY <4>3, <4>7
        <5> QED BY <4>4, <4>7, <5>1, ResultIs
      <4> QED BY <4>5, <4>6, <4>7
    <3> QED BY <3>2, <3>3
  <2>5. CASE row.type = "HEARTBEAT"
    BY <1>1, <1>3, <2>5 DEF execute
  <2> QED BY <2>1, <2>2, <2>3, <2>4, <2>5 DEF Types
<1>6. result \in Results
  BY <1>1, ResultTypes
<1> QED BY <1>1, <1>5, <1>6 DEF CheckIs, IsGood, IsBad, WORKER_SSL_EXPIRY_THRESHOLD_DAYS

\* What the form sends, and of which types of monitors.
Sends(entered, type) == type = (IF entered.type = "HTTPS" THEN "HTTP" ELSE entered.type)
PayloadOf(payload, u, type) ==
  \E entered \in Forms :
    /\ payload = toCreateMonitorPayload(entered) /\ Sends(entered, type)
    /\ createMonitorSchema(entered, minMonitorIntervalSeconds[Plan[u]])

LEMMA PlanIs ==
  ASSUME NEW u \in Users
  PROVE  minMonitorIntervalSeconds[Plan[u]] \in {60, 300}
BY PlanAssumption DEF minMonitorIntervalSeconds

LEMMA PayloadIs ==
  ASSUME NEW payload, NEW u, NEW type, PayloadOf(payload, u, type)
  PROVE  /\ payload.type = type /\ type \in Types \ {"HEARTBEAT"} /\ payload.isActive = "yes"
         /\ payload.intervalSeconds \in Intervals
         /\ payload.url \in {"http", "https", "target", "tcp"}
         /\ IF type = "KEYWORD" THEN payload.keywordExpected = "text" /\ payload.keywordMustExist \in {"yes", "no"}
            ELSE KeywordFieldsAbsent(payload)
         /\ u \in Users => payload.intervalSeconds >= minMonitorIntervalSeconds[Plan[u]]
         /\ Valid(payload)
<1>1. PICK entered \in Forms : /\ payload = toCreateMonitorPayload(entered) /\ Sends(entered, type)
                            /\ createMonitorSchema(entered, minMonitorIntervalSeconds[Plan[u]])
  BY DEF PayloadOf
<1>2. /\ entered.type \in FormTypes /\ entered.url \in Texts /\ entered.intervalSeconds \in Intervals
      /\ entered.keywordExpected \in Keywords
  BY <1>1 DEF Forms
<1>3. /\ payload.type = type
      /\ payload.url = normalizeUrlByType(entered.type, entered.url)
      /\ payload.intervalSeconds = entered.intervalSeconds /\ payload.isActive = "yes"
      /\ IF entered.type = "KEYWORD"
         THEN payload.keywordExpected = entered.keywordExpected /\ payload.keywordMustExist \in {"yes", "no"}
         ELSE payload.keywordExpected = Absent /\ payload.keywordMustExist = Absent
  BY <1>1 DEF toCreateMonitorPayload, Sends
<1>4. /\ type \in {"HTTP", "TCP", "SSL", "KEYWORD"} /\ (type = "KEYWORD" <=> entered.type = "KEYWORD")
      /\ (type = "TCP" <=> entered.type = "TCP") /\ (type = "SSL" <=> entered.type = "SSL")
  BY <1>1, <1>2 DEF Sends, FormTypes
<1>5. /\ type = "TCP" => payload.url \in {"target", "tcp"}
      /\ type = "SSL" => payload.url = "https"
      /\ type \in {"HTTP", "KEYWORD"} => payload.url \in {"http", "https"}
  BY <1>1, <1>2, <1>3, <1>4 DEF createMonitorSchema, isTcpTarget, normalizeUrlByType
<1>6. type = "KEYWORD" => entered.keywordExpected = "text"
  BY <1>1, <1>4 DEF createMonitorSchema
<1>7. u \in Users => payload.intervalSeconds >= minMonitorIntervalSeconds[Plan[u]]
  BY <1>1, <1>3 DEF createMonitorSchema
<1>8. Valid(payload)
  BY <1>3, <1>4, <1>5 DEF Valid
<1> QED BY <1>2, <1>3, <1>4, <1>5, <1>6, <1>7, <1>8 DEF Types, KeywordFieldsAbsent

\* The API writes what it should, whatever it is sent of a form.
LEMMA PayloadWritten ==
  ASSUME NEW payload, NEW u \in Users, NEW type, PayloadOf(payload, u, type),
         NEW row \in WrittenRows \cup {Empty}
  PROVE  /\ Accepts(payload, Plan[u], row) => normalizeMonitorInput(payload, row) \in WrittenRows
         /\ normalizeMonitorInput(payload, row).type = type
         /\ row.type = type => Accepts(payload, Plan[u], row)
<1>1. /\ payload.type = type /\ type \in Types \ {"HEARTBEAT"} /\ payload.isActive = "yes"
      /\ payload.intervalSeconds \in Intervals
      /\ payload.url \in {"http", "https", "target", "tcp"}
      /\ IF type = "KEYWORD" THEN payload.keywordExpected = "text" /\ payload.keywordMustExist \in {"yes", "no"}
         ELSE KeywordFieldsAbsent(payload)
      /\ payload.intervalSeconds >= minMonitorIntervalSeconds[Plan[u]]
      /\ Valid(payload)
  BY PayloadIs
<1>2. /\ row.type \in Types \cup {Absent} /\ (row.type = "KEYWORD" \/ KeywordFieldsAbsent(row))
      /\ row.keywordExpected \in Keywords \cup {Absent} /\ row.keywordMustExist \in {Absent, "yes", "no"}
  BY DEF WrittenRows, Rows, Empty, KeywordFieldsAbsent
<1>3. PICK m : m = Merge(payload, row)
  OBVIOUS
<1>4. payload.intervalSeconds # 0 /\ payload.intervalSeconds \in Nat
  BY <1>1, IntervalsAssumption
<1>5. /\ m.type = type /\ m.url = payload.url /\ m.intervalSeconds = payload.intervalSeconds
      /\ m.isActive = "yes"
      /\ m.keywordExpected = Or(payload.keywordExpected, row.keywordExpected)
      /\ m.keywordMustExist = Or(payload.keywordMustExist, row.keywordMustExist)
  BY <1>1, <1>3, <1>4 DEF Merge, Or, Types, Absent
<1>6. /\ m.keywordExpected \in Keywords \cup {Absent} /\ m.keywordMustExist \in {Absent, "yes", "no"}
      /\ row.type = type => IF type = "KEYWORD" THEN m.keywordExpected = "text" /\ m.keywordMustExist # Absent
                            ELSE KeywordFieldsAbsent(m)
  BY <1>1, <1>2, <1>5 DEF Or, KeywordFieldsAbsent, Keywords, Absent
<1>7. Valid(m)
  BY <1>1, <1>5 DEF Valid
<1>8. row.type = type => Accepts(payload, Plan[u], row)
  BY <1>1, <1>3, <1>4, <1>5, <1>6, <1>7 DEF Accepts, Types, Absent
<1>9. PICK new : new = normalizeMonitorInput(payload, row)
  OBVIOUS
<1>10. new = [type |-> type, url |-> payload.url, keywordExpected |-> m.keywordExpected,
              keywordMustExist |-> m.keywordMustExist, intervalSeconds |-> payload.intervalSeconds,
              isActive |-> "yes", heartbeatToken |-> FALSE]
  BY <1>1, <1>3, <1>5, <1>9 DEF normalizeMonitorInput
<1>11. new \in Rows
  BY <1>1, <1>6, <1>10 DEF Rows, Urls
<1>12. Accepts(payload, Plan[u], row) => type = "KEYWORD" \/ KeywordFieldsAbsent(m)
  BY <1>3, <1>5 DEF Accepts
<1>13. Accepts(payload, Plan[u], row) => new \in WrittenRows
  BY <1>10, <1>11, <1>12 DEF WrittenRows, KeywordFieldsAbsent
<1> QED BY <1>8, <1>9, <1>10, <1>13

-----------------------------------------------------------------------------
(* The console: its invariant *)

HeldInv ==
  /\ DOMAIN cache \subseteq Queries /\ DOMAIN fetching \subseteq Queries
  /\ cache = [q \in DOMAIN cache |-> cache[q]]
  /\ \A q \in DOMAIN cache :
       /\ cache[q] = [answer |-> cache[q].answer, fresh |-> cache[q].fresh, login |-> cache[q].login]
       /\ cache[q].answer.kind # "none"

WhoInv ==
  /\ user \in Users \cup {NoUser} /\ logins \in Nat
  /\ route \in Monitors \cup {"login", "dashboard"}
  /\ user = NoUser => route = "login"

WritersInv ==
  /\ writers = [m \in Monitors |-> writers[m]]
  /\ \A m \in Monitors : /\ writers[m] \subseteq {monitor[m].owner}
                         /\ monitor[m].state = "new" => writers[m] = {}

\* An open editor holds a form of the monitor that filled it.
EditorInv ==
  /\ editor = [open |-> editor.open, form |-> editor.form, seen |-> editor.seen]
  /\ editor.open \in BOOLEAN /\ editor.form \in Forms
  /\ editor.open => Sends(editor.form, editor.seen.type)

CreatingInv ==
  /\ creating = [open |-> creating.open, form |-> creating.form]
  /\ creating.open \in BOOLEAN /\ creating.form \in Forms

\* What an update leaves.
EditedRows == {row \in WrittenRows : row.type # "HEARTBEAT"}

\* What is sent was taken for valid, and was good for the monitor that filled the form.
RequestIs(o, r) ==
  \/ r.pc = "idle"
  \/ /\ r.pc \in {"sent", "answered"} /\ r.user \in Users
     /\ r = [pc |-> r.pc, user |-> r.user, attached |-> r.attached, target |-> r.target, payload |-> r.payload,
             seen |-> r.seen, ok |-> r.ok, found |-> r.found, row |-> r.row]
     /\ o = "create" => PayloadOf(r.payload, r.user, r.payload.type)
     /\ o = "update" => /\ PayloadOf(r.payload, r.user, r.seen.type)
                        /\ r.pc = "answered" /\ r.found.type = r.seen.type => r.ok /\ r.row.type = r.found.type
                        /\ r.pc = "answered" /\ r.ok => r.row \in EditedRows

RequestInv == request = [o \in Mutations |-> request[o]] /\ \A o \in Mutations : RequestIs(o, request[o])

ToldInv == SaidInv(SaidOf(cache, fetching), monitor, user, logins)

ConsoleInv == /\ TableInv /\ ToldInv /\ HeldInv /\ WhoInv
              /\ WritersInv /\ EditorInv /\ CreatingInv /\ RequestInv

LEMMA CachedIs ==
  ASSUME ConsoleInv, NEW q \in DOMAIN cache
  PROVE  /\ q \in Queries /\ Told(q, cache[q].answer, cache[q].login, monitor, user, logins)
         /\ cache[q].answer.kind # "none"
         /\ q = List => cache[q].answer.data \subseteq Monitors
         /\ q # List => cache[q].answer.kind = q[1]
         /\ q # List /\ q[1] = "detail" => cache[q].answer.data \in WrittenRows
<1>1. PICK a, login : a = cache[q].answer /\ login = cache[q].login
  OBVIOUS
<1>2. q \in Queries /\ a.kind # "none"
  BY <1>1 DEF ConsoleInv, HeldInv
<1>3. <<q, a, login>> \in SaidOf(cache, fetching)
  BY <1>1 DEF SaidOf
<1>4. Told(q, a, login, monitor, user, logins)
  BY <1>3 DEF ConsoleInv, ToldInv, SaidInv
<1>5. AnswerIs(q, a)
  BY <1>4 DEF Told
<1>6. /\ q = List => a.data \subseteq Monitors
      /\ q # List => a.kind = q[1]
      /\ q # List /\ q[1] = "detail" => a.data \in WrittenRows
  BY <1>2, <1>5 DEF AnswerIs
<1> QED BY <1>1, <1>2, <1>4, <1>6

LEMMA UnderWayIs ==
  ASSUME ConsoleInv, NEW q \in DOMAIN fetching
  PROVE  /\ q \in Queries /\ <<q, fetching[q].answer, fetching[q].login>> \in SaidOf(cache, fetching)
         /\ fetching[q].answer.kind = "list" => fetching[q].answer.data \subseteq Monitors
<1>1. PICK a, login : a = fetching[q].answer /\ login = fetching[q].login
  OBVIOUS
<1>2. q \in Queries
  BY DEF ConsoleInv, HeldInv
<1>3. <<q, a, login>> \in SaidOf(cache, fetching)
  BY <1>1 DEF SaidOf
<1>4. AnswerIs(q, a)
  BY <1>3 DEF ConsoleInv, ToldInv, SaidInv, Told
<1>5. a.kind = "list" => a.data \subseteq Monitors
  BY <1>4 DEF AnswerIs
<1> QED BY <1>1, <1>2, <1>3, <1>5

LEMMA StatsAreQueries ==
  ASSUME NEW some, some \subseteq Monitors
  PROVE  WithHistory({Stats(m) : m \in some}) \subseteq Queries
BY DEF WithHistory, Stats, Queries

LEMMA ObservedAreQueries ==
  ASSUME ConsoleInv, NEW at \in Monitors \cup {"login", "dashboard"}
  PROVE  Observed(at) \subseteq Queries
<1>1. CASE at = "login"
  BY <1>1, PagesAssumption DEF Observed
<1>2. CASE at = "dashboard"
  <2>1. Listed \subseteq Monitors
    BY CachedIs DEF Listed, Cached
  <2>2. WithHistory({Stats(m) : m \in Listed}) \subseteq Queries
    BY <2>1, StatsAreQueries
  <2>3. Observed(at) = {List} \cup WithHistory({Stats(m) : m \in Listed})
    BY <1>2, PagesAssumption DEF Observed
  <2> QED BY <2>2, <2>3 DEF Queries
<1>3. CASE at \in Monitors
  <2>1. Observed(at) = {Detail(at)} \cup WithHistory({Checks(at), Stats(at)})
    BY <1>3, PagesAssumption DEF Observed
  <2> QED BY <1>3, <2>1 DEF Detail, Checks, Stats, WithHistory, Queries
<1> QED BY <1>1, <1>2, <1>3

LEMMA FormOfMonitor ==
  ASSUME NEW row \in WrittenRows, row.type # "HEARTBEAT"
  PROVE  toMonitorFormValues(row) \in Forms /\ Sends(toMonitorFormValues(row), row.type)
<1>1. /\ row.type \in {"HTTP", "SSL", "TCP", "KEYWORD"} /\ row.url \in Urls \cup {Absent}
      /\ row.keywordExpected \in Keywords \cup {Absent} /\ row.intervalSeconds \in Intervals
  BY DEF WrittenRows, Rows, Types
<1>2. getMonitorFormType(row) \in FormTypes
  BY <1>1 DEF getMonitorFormType, FormTypes
<1>3. row.type = IF getMonitorFormType(row) = "HTTPS" THEN "HTTP" ELSE getMonitorFormType(row)
  BY <1>1 DEF getMonitorFormType
<1>4. Or(row.url, "empty") \in Texts /\ Or(row.keywordExpected, "empty") \in Keywords
  BY <1>1 DEF Or, Texts, Urls, Keywords, Absent
<1> QED BY <1>1, <1>2, <1>3, <1>4 DEF toMonitorFormValues, Forms, Sends

LEMMA DefaultForm == getDefaultMonitorFormValues \in Forms
BY DefaultAssumption DEF getDefaultMonitorFormValues, Forms, FormTypes, Texts, Urls, Keywords

LEMMA EditableIs ==
  ASSUME ConsoleInv, isEditableMonitor
  PROVE  /\ user \in Users /\ route \in Monitors
         /\ Shown \in WrittenRows /\ Shown.type # "HEARTBEAT"
<1>1. Detail(route) # List /\ Detail(route)[1] = "detail"
  BY DEF Detail, List
<1>2. Shown \in WrittenRows
  BY <1>1, CachedIs DEF isEditableMonitor, Cached, Shown
<1>3. user \in Users
  BY PagesAssumption DEF isEditableMonitor, ConsoleInv, WhoInv
<1> QED BY <1>2, <1>3 DEF isEditableMonitor

-----------------------------------------------------------------------------
(* The console: its steps *)

LEMMA ConsoleFrame ==
  ASSUME ConsoleInv
  PROVE  /\ UNCHANGED monitor => TableInv'
         /\ UNCHANGED <<monitor, writers>> => WritersInv'
         /\ UNCHANGED <<monitor, user, logins, cache, fetching>> => ToldInv'
         /\ UNCHANGED <<cache, fetching>> => HeldInv'
         /\ UNCHANGED <<user, logins, route>> => WhoInv'
         /\ UNCHANGED editor => EditorInv'
         /\ UNCHANGED creating => CreatingInv'
         /\ UNCHANGED request => RequestInv'
<1>1. UNCHANGED monitor => TableInv'
  BY DEF ConsoleInv, TableInv
<1>2. UNCHANGED <<monitor, writers>> => WritersInv'
  BY DEF ConsoleInv, WritersInv
<1>3. UNCHANGED <<monitor, user, logins, cache, fetching>> => ToldInv'
  BY DEF ConsoleInv, ToldInv
<1>4. UNCHANGED <<cache, fetching>> => HeldInv'
  BY DEF ConsoleInv, HeldInv
<1>5. UNCHANGED <<user, logins, route>> => WhoInv'
  BY DEF ConsoleInv, WhoInv
<1>6. UNCHANGED editor => EditorInv'
  BY DEF ConsoleInv, EditorInv
<1>7. UNCHANGED creating => CreatingInv'
  BY DEF ConsoleInv, CreatingInv
<1>8. UNCHANGED request => RequestInv'
  BY DEF ConsoleInv, RequestInv
<1> QED BY <1>1, <1>2, <1>3, <1>4, <1>5, <1>6, <1>7, <1>8

\* Nothing is said but what was, and what is said now.
LEMMA ToldGrows ==
  ASSUME ConsoleInv, UNCHANGED <<monitor, user, logins>>,
         SaidOf(cache', fetching') \subseteq SaidOf(cache, fetching) \cup NowSaid(user, logins)
  PROVE  ToldInv'
<1>1. logins \in Nat /\ TableInv /\ SaidInv(SaidOf(cache, fetching), monitor, user, logins)
  BY DEF ConsoleInv, WhoInv, ToldInv
<1>2. PICK more : more = SaidOf(cache', fetching')
  OBVIOUS
<1>3. SaidInv(more, monitor, user, logins)
  BY <1>1, <1>2, SaidGrows
<1> QED BY <1>2, <1>3 DEF ToldInv

LEMMA LandKeeps ==
  ASSUME ConsoleInv, NEW q, Land(q)
  PROVE  ConsoleInv'
<1> DEFINE f == fetching[q]
           without == [x \in DOMAIN fetching \ {q} |-> fetching[x]]
           added == IF f.answer.kind = "list" /\ route = "dashboard"
                    THEN WithHistory({Stats(m) : m \in f.answer.data \ Listed}) ELSE {}
           sent == {x \in added : ~Fresh(x)} \ DOMAIN without
<1>1. /\ q \in DOMAIN fetching
      /\ cache' = IF f.answer.kind = "none" THEN [x \in DOMAIN cache \ {q} |-> cache[x]]
                  ELSE [x \in DOMAIN cache \cup {q} |->
                          IF x = q THEN [answer |-> f.answer, fresh |-> TRUE, login |-> f.login] ELSE cache[x]]
      /\ fetching' = Sending(without, sent, user, logins)
      /\ UNCHANGED <<monitor, user, logins, route, editor, creating, request, writers>>
  BY DEF Land
<1>2. q \in Queries /\ <<q, f.answer, f.login>> \in SaidOf(cache, fetching)
  BY <1>1, UnderWayIs
<1>3. sent \subseteq Queries
  <2>1. f.answer.kind = "list" => f.answer.data \subseteq Monitors
    BY <1>1, UnderWayIs
  <2>2. f.answer.kind = "list" => f.answer.data \ Listed \subseteq Monitors
    BY <2>1
  <2>3. added \subseteq Queries
    BY <2>2, StatsAreQueries
  <2> QED BY <2>3
<1>4. DOMAIN without = DOMAIN fetching \ {q} /\ \A x \in DOMAIN without : without[x] = fetching[x]
  OBVIOUS
<1>5. HeldInv
  BY DEF ConsoleInv
<1> HIDE DEF f, without, added, sent
<1>6. PICK a, login : a = f.answer /\ login = f.login
  OBVIOUS
<1>7. /\ DOMAIN cache' \subseteq DOMAIN cache \cup {q} /\ cache' = [x \in DOMAIN cache' |-> cache'[x]]
      /\ \A x \in DOMAIN cache' :
           \/ x \in DOMAIN cache /\ cache'[x] = cache[x]
           \/ x = q /\ cache'[x] = [answer |-> a, fresh |-> TRUE, login |-> login] /\ a.kind # "none"
  <2>1. CASE a.kind = "none"
    BY <1>1, <1>6, <2>1
  <2>2. CASE a.kind # "none"
    <3>1. cache' = [x \in DOMAIN cache \cup {q} |->
                      IF x = q THEN [answer |-> a, fresh |-> TRUE, login |-> login] ELSE cache[x]]
      BY <1>1, <1>6, <2>2
    <3> QED BY <2>2, <3>1
  <2> QED BY <2>1, <2>2
<1>8. /\ SaidOf(cache', fetching') \subseteq SaidOf(cache', without) \cup NowSaid(user, logins)
      /\ DOMAIN fetching' = sent \cup DOMAIN without
  BY <1>1, <1>3, SendingSays
<1>9. SaidOf(cache', without) \subseteq SaidOf(cache, fetching)
  <2>1. ASSUME NEW x \in DOMAIN cache'
        PROVE  <<x, cache'[x].answer, cache'[x].login>> \in SaidOf(cache, fetching)
    <3>1. CASE x \in DOMAIN cache /\ cache'[x] = cache[x]
      BY <3>1 DEF SaidOf
    <3>2. CASE x = q /\ cache'[x] = [answer |-> a, fresh |-> TRUE, login |-> login]
      BY <1>2, <1>6, <3>2
    <3> QED BY <1>7, <3>1, <3>2
  <2>2. ASSUME NEW x \in DOMAIN without
        PROVE  <<x, without[x].answer, without[x].login>> \in SaidOf(cache, fetching)
    BY <1>4 DEF SaidOf
  <2> QED BY <2>1, <2>2 DEF SaidOf
<1>10. HeldInv'
  BY <1>2, <1>3, <1>4, <1>5, <1>7, <1>8 DEF HeldInv
<1>11. ToldInv'
  BY <1>1, <1>8, <1>9, ToldGrows
<1> QED BY <1>1, <1>10, <1>11, ConsoleFrame DEF ConsoleInv

LEMMA ExpireKeeps ==
  ASSUME ConsoleInv, NEW q, Expire(q)
  PROVE  ConsoleInv'
<1>1. UNCHANGED <<monitor, user, logins, route, fetching, editor, creating, request, writers>>
  BY DEF Expire
<1>2. HeldInv
  BY DEF ConsoleInv
<1>3. /\ DOMAIN cache' \subseteq DOMAIN cache /\ cache' = [x \in DOMAIN cache' |-> cache'[x]]
      /\ \A x \in DOMAIN cache' :
           cache'[x] \in {cache[x], [answer |-> cache[x].answer, fresh |-> FALSE, login |-> cache[x].login]}
  <2>1. CASE cache' = [cache EXCEPT ![q].fresh = FALSE]
    <3>1. cache' = [x \in DOMAIN cache |-> IF x = q THEN [cache[q] EXCEPT !.fresh = FALSE] ELSE cache[x]]
      BY <1>2, <2>1 DEF HeldInv
    <3>2. q \in DOMAIN cache
      BY DEF Expire, Fresh, Cached
    <3>3. PICK c : c = cache[q]
      OBVIOUS
    <3>4. PICK answer, fresh, login : c = [answer |-> answer, fresh |-> fresh, login |-> login]
      BY <1>2, <3>2, <3>3 DEF HeldInv
    <3>5. PICK stale : stale = [c EXCEPT !.fresh = FALSE]
      OBVIOUS
    <3>6. stale = [answer |-> answer, fresh |-> FALSE, login |-> login] /\ c.answer = answer /\ c.login = login
      BY <3>4, <3>5
    <3> QED BY <3>1, <3>3, <3>5, <3>6
  <2>2. CASE cache' = [x \in DOMAIN cache \ {q} |-> cache[x]]
    BY <2>2
  <2> QED BY <2>1, <2>2 DEF Expire
<1>4. \A x \in DOMAIN cache' : cache'[x].answer = cache[x].answer /\ cache'[x].login = cache[x].login
  BY <1>3
<1>5. SaidOf(cache', fetching') \subseteq SaidOf(cache, fetching)
  BY <1>1, <1>3, <1>4 DEF SaidOf
<1>6. HeldInv'
  BY <1>1, <1>2, <1>3, <1>4 DEF HeldInv
<1>7. ToldInv'
  BY <1>1, <1>5, ToldGrows
<1> QED BY <1>1, <1>6, <1>7, ConsoleFrame DEF ConsoleInv

LEMMA RefreshKeeps ==
  ASSUME ConsoleInv, Refresh
  PROVE  ConsoleInv'
<1>1. /\ fetching' = Sending(fetching, {List}, user, logins)
      /\ UNCHANGED <<monitor, user, logins, route, cache, editor, creating, request, writers>>
  BY DEF Refresh
<1>2. {List} \subseteq Queries
  BY DEF Queries
<1>3. /\ SaidOf(cache', fetching') \subseteq SaidOf(cache, fetching) \cup NowSaid(user, logins)
      /\ DOMAIN fetching' = {List} \cup DOMAIN fetching
  BY <1>1, <1>2, SendingSays
<1>4. HeldInv'
  BY <1>1, <1>2, <1>3 DEF ConsoleInv, HeldInv
<1>5. ToldInv'
  BY <1>1, <1>3, ToldGrows
<1> QED BY <1>1, <1>4, <1>5, ConsoleFrame DEF ConsoleInv

\* Pages.
LEMMA ShowSays ==
  ASSUME ConsoleInv, NEW at \in Monitors \cup {"login", "dashboard"}, NEW u, NEW l,
         Show(at, u, l), UNCHANGED cache
  PROVE  /\ SaidOf(cache', fetching') \subseteq SaidOf(cache, fetching) \cup NowSaid(u, l)
         /\ HeldInv' /\ route' = at
<1> DEFINE sent == {q \in Observed(at) : ~Fresh(q)} \ DOMAIN fetching
<1>1. fetching' = Sending(fetching, sent, u, l) /\ route' = at
  BY DEF Show
<1>2. sent \subseteq Queries
  BY ObservedAreQueries
<1> HIDE DEF sent
<1>3. /\ SaidOf(cache', fetching') \subseteq SaidOf(cache, fetching) \cup NowSaid(u, l)
      /\ DOMAIN fetching' = sent \cup DOMAIN fetching
  BY <1>1, <1>2, SendingSays
<1> QED BY <1>1, <1>2, <1>3 DEF ConsoleInv, HeldInv

\* The state of a page is no matter of what its request asks for.
LEMMA AttachedOrNot ==
  ASSUME NEW o, NEW r, RequestIs(o, r), r.pc # "idle"
  PROVE  RequestIs(o, [r EXCEPT !.attached = FALSE])
<1>1. PICK s : s = [r EXCEPT !.attached = FALSE]
  OBVIOUS
<1>2. r = [pc |-> r.pc, user |-> r.user, attached |-> r.attached, target |-> r.target, payload |-> r.payload,
           seen |-> r.seen, ok |-> r.ok, found |-> r.found, row |-> r.row]
  BY DEF RequestIs
<1>3. s = [pc |-> r.pc, user |-> r.user, attached |-> FALSE, target |-> r.target, payload |-> r.payload,
           seen |-> r.seen, ok |-> r.ok, found |-> r.found, row |-> r.row]
  BY <1>1, <1>2
<1>4. RequestIs(o, s)
  BY <1>3 DEF RequestIs
<1> QED BY <1>1, <1>4

LEMMA DetachKeeps ==
  ASSUME ConsoleInv, Detach
  PROVE  RequestInv'
<1>1. request' = [o \in Mutations |-> request'[o]]
  BY DEF Detach
<1>2. ASSUME NEW o \in Mutations
      PROVE  RequestIs(o, request'[o])
  <2>1. RequestIs(o, request[o])
    BY DEF ConsoleInv, RequestInv
  <2>2. CASE request[o].pc = "idle"
    BY <2>2 DEF Detach, RequestIs, Idle
  <2>3. CASE request[o].pc # "idle"
    BY <2>1, <2>3, AttachedOrNot DEF Detach
  <2> QED BY <2>2, <2>3
<1> QED BY <1>1, <1>2 DEF RequestInv

LEMMA ClosedKeeps == editor' = Closed /\ creating' = ClosedForm => EditorInv' /\ CreatingInv'
<1>1. SUFFICES ASSUME editor' = Closed, creating' = ClosedForm
               PROVE  EditorInv' /\ CreatingInv'
  OBVIOUS
<1>2. EditorInv'
  BY <1>1, DefaultForm DEF EditorInv, Closed
<1>3. CreatingInv'
  BY <1>1, DefaultForm DEF CreatingInv, ClosedForm
<1> QED BY <1>2, <1>3

LEMMA GotoKeeps ==
  ASSUME ConsoleInv, NEW at, Goto(at)
  PROVE  ConsoleInv'
<1>1. /\ user # NoUser /\ MonitorPageState(at) /\ Show(at, user, logins)
      /\ UNCHANGED <<monitor, user, logins, cache, writers>>
      /\ at \in Listed \cup Owned(user) \cup {"dashboard"}
  BY DEF Goto
<1>2. at \in Monitors \cup {"login", "dashboard"}
  <2>1. Listed \subseteq Monitors /\ Owned(user) \subseteq Monitors
    BY CachedIs DEF Listed, Cached, Owned
  <2> QED BY <1>1, <2>1
<1>3. /\ SaidOf(cache', fetching') \subseteq SaidOf(cache, fetching) \cup NowSaid(user, logins)
      /\ HeldInv' /\ route' = at
  BY <1>1, <1>2, ShowSays
<1>4. ToldInv'
  BY <1>1, <1>3, ToldGrows
<1>5. WhoInv'
  BY <1>1, <1>2, <1>3 DEF ConsoleInv, WhoInv
<1>6. EditorInv' /\ CreatingInv' /\ RequestInv'
  <2>1. CASE UNCHANGED <<editor, creating, request>>
    BY <2>1, ConsoleFrame
  <2>2. CASE editor' = Closed /\ creating' = ClosedForm /\ Detach
    BY <2>2, ClosedKeeps, DetachKeeps
  <2> QED BY <1>1, <2>1, <2>2 DEF MonitorPageState
<1> QED BY <1>1, <1>3, <1>4, <1>5, <1>6, ConsoleFrame DEF ConsoleInv

LEMMA LogoutKeeps ==
  ASSUME ConsoleInv, Logout
  PROVE  ConsoleInv'
<1>1. /\ user' = NoUser /\ route' = "login" /\ editor' = Closed /\ creating' = ClosedForm /\ Detach
      /\ UNCHANGED <<monitor, logins, cache, fetching, writers>>
  BY DEF Logout
<1>2. WhoInv'
  BY <1>1 DEF ConsoleInv, WhoInv
<1>3. SaidInv(SaidOf(cache, fetching), monitor, NoUser, logins)
  BY SaidToAnother DEF ConsoleInv, ToldInv, WhoInv
<1>4. ToldInv'
  BY <1>1, <1>3 DEF ToldInv
<1>5. EditorInv' /\ CreatingInv' /\ RequestInv'
  BY <1>1, ClosedKeeps, DetachKeeps
<1> QED BY <1>1, <1>2, <1>4, <1>5, ConsoleFrame DEF ConsoleInv

LEMMA LoginKeeps ==
  ASSUME ConsoleInv, NEW u \in Users, Login(u)
  PROVE  ConsoleInv'
<1>1. /\ user' = u /\ logins' = logins + 1 /\ Show("dashboard", u, logins + 1)
      /\ UNCHANGED <<monitor, cache, editor, creating, request, writers>>
  BY DEF Login
<1>2. /\ SaidOf(cache', fetching') \subseteq SaidOf(cache, fetching) \cup NowSaid(u, logins + 1)
      /\ HeldInv' /\ route' = "dashboard"
  BY <1>1, ShowSays
<1>3. logins \in Nat /\ u # NoUser /\ TableInv
  BY UsersAssumption DEF ConsoleInv, WhoInv
<1>4. WhoInv'
  BY <1>1, <1>2, <1>3 DEF WhoInv
<1>5. SaidInv(SaidOf(cache, fetching), monitor, u, logins + 1)
  BY SaidToAnother DEF ConsoleInv, ToldInv, WhoInv
<1>6. PICK more : more = SaidOf(cache', fetching')
  OBVIOUS
<1>7. SaidInv(more, monitor, u, logins + 1)
  BY <1>2, <1>3, <1>5, <1>6, SaidGrows
<1>8. ToldInv'
  BY <1>1, <1>6, <1>7 DEF ToldInv
<1> QED BY <1>1, <1>2, <1>4, <1>8, ConsoleFrame DEF ConsoleInv

\* Forms.
LEMMA ToggleEditorKeeps ==
  ASSUME ConsoleInv, ToggleEditor
  PROVE  ConsoleInv'
<1>1. /\ isEditableMonitor
      /\ editor' = [open |-> ~editor.open, form |-> toMonitorFormValues(Shown), seen |-> Shown]
      /\ UNCHANGED <<monitor, user, logins, route, cache, fetching, creating, request, writers>>
  BY DEF ToggleEditor
<1>2. toMonitorFormValues(Shown) \in Forms /\ Sends(toMonitorFormValues(Shown), Shown.type)
  BY <1>1, EditableIs, FormOfMonitor
<1>3. PICK open, entered, seen : /\ open \in BOOLEAN /\ entered \in Forms /\ Sends(entered, seen.type)
                                  /\ editor' = [open |-> open, form |-> entered, seen |-> seen]
  BY <1>1, <1>2
<1>4. EditorInv'
  BY <1>3 DEF EditorInv
<1> QED BY <1>1, <1>4, ConsoleFrame DEF ConsoleInv

LEMMA UpdateEditFieldKeeps ==
  ASSUME ConsoleInv, NEW url \in Typed, updateEditField(url)
  PROVE  ConsoleInv'
<1>1. /\ editor.open /\ editor' = [editor EXCEPT !.form.url = url]
      /\ UNCHANGED <<monitor, user, logins, route, cache, fetching, creating, request, writers>>
  BY DEF updateEditField
<1>2. url \in Texts
  BY BoundsAssumption
<1>3. EditorInv
  BY DEF ConsoleInv
<1>4. PICK open, entered, seen : open \in BOOLEAN /\ editor = [open |-> open, form |-> entered, seen |-> seen]
  BY <1>3 DEF EditorInv
<1>5. entered \in Forms /\ Sends(entered, seen.type)
  BY <1>1, <1>3, <1>4 DEF EditorInv
<1>6. PICK typed : typed = [entered EXCEPT !.url = url]
  OBVIOUS
<1>7. typed \in Forms /\ typed.type = entered.type
  BY <1>2, <1>5, <1>6 DEF Forms
<1>8. editor' = [open |-> open, form |-> typed, seen |-> seen]
  BY <1>1, <1>4, <1>6
<1>9. EditorInv'
  BY <1>4, <1>5, <1>7, <1>8 DEF EditorInv, Sends
<1> QED BY <1>1, <1>9, ConsoleFrame DEF ConsoleInv

LEMMA CreateFormKeeps ==
  ASSUME ConsoleInv, ToggleCreateForm \/ \E entered \in Forms : updateField(entered)
  PROVE  ConsoleInv'
<1>1. UNCHANGED <<monitor, user, logins, route, cache, fetching, editor, request, writers>>
  BY DEF ToggleCreateForm, updateField
<1>2. CreatingInv
  BY DEF ConsoleInv
<1>3. PICK open \in BOOLEAN, entered \in Forms : creating = [open |-> open, form |-> entered]
  BY <1>2 DEF CreatingInv
<1>4. CreatingInv'
  <2>1. CASE ToggleCreateForm
    <3>1. creating' = [open |-> ~creating.open,
                       form |-> IF creating.open THEN creating.form ELSE getDefaultMonitorFormValues]
      BY <2>1 DEF ToggleCreateForm
    <3>2. PICK next \in BOOLEAN, filled \in Forms : creating' = [open |-> next, form |-> filled]
      BY <1>2, <3>1, DefaultForm DEF CreatingInv
    <3> QED BY <3>2 DEF CreatingInv
  <2>2. ASSUME NEW filled \in Forms, updateField(filled)
        PROVE  CreatingInv'
    <3>1. creating' = [creating EXCEPT !.form = filled]
      BY <2>2 DEF updateField
    <3>2. creating' = [open |-> open, form |-> filled]
      BY <1>3, <3>1
    <3> QED BY <3>2 DEF CreatingInv
  <2> QED BY <2>1, <2>2
<1> QED BY <1>1, <1>4, ConsoleFrame DEF ConsoleInv

LEMMA SendKeeps ==
  ASSUME ConsoleInv, NEW o \in Mutations, NEW r, RequestIs(o, r), Send(o, r)
  PROVE  RequestInv'
<1>1. request = [x \in Mutations |-> request[x]] /\ \A x \in Mutations : RequestIs(x, request[x])
  BY DEF ConsoleInv, RequestInv
<1>2. request' = [x \in Mutations |-> IF x = o THEN r ELSE request[x]]
  BY <1>1 DEF Send
<1> QED BY <1>1, <1>2 DEF RequestInv

LEMMA AskingIs ==
  ASSUME user \in Users, NEW payload, NEW seen, NEW r,
         r = [pc |-> "sent", user |-> user, attached |-> TRUE, target |-> route, payload |-> payload,
              seen |-> seen, ok |-> FALSE, found |-> Empty, row |-> Empty]
  PROVE  /\ PayloadOf(payload, user, payload.type) => RequestIs("create", r)
         /\ PayloadOf(payload, user, seen.type) => RequestIs("update", r)
         /\ RequestIs("delete", r) /\ RequestIs("restart", r)
<1>1. r.pc = "sent" /\ r.user = user /\ r.payload = payload /\ r.seen = seen
  OBVIOUS
<1>2. r = [pc |-> r.pc, user |-> r.user, attached |-> r.attached, target |-> r.target, payload |-> r.payload,
           seen |-> r.seen, ok |-> r.ok, found |-> r.found, row |-> r.row]
  OBVIOUS
<1>3. r.pc \in {"sent", "answered"} /\ r.user \in Users /\ r.pc # "answered"
  BY <1>1
<1>4. RequestIs("delete", r) /\ RequestIs("restart", r)
  BY <1>2, <1>3 DEF RequestIs
<1>5. PayloadOf(payload, user, payload.type) => RequestIs("create", r)
  BY <1>1, <1>2, <1>3 DEF RequestIs
<1>6. PayloadOf(payload, user, seen.type) => RequestIs("update", r)
  BY <1>1, <1>2, <1>3 DEF RequestIs
<1> QED BY <1>4, <1>5, <1>6

LEMMA AcceptedForm ==
  ASSUME NEW entered \in Forms, user \in Users, createMonitorSchema(entered, MinInterval), NEW type, Sends(entered, type)
  PROVE  PayloadOf(toCreateMonitorPayload(entered), user, type)
<1>1. MinInterval = minMonitorIntervalSeconds[Plan[user]]
  BY UsersAssumption DEF MinInterval
<1> QED BY <1>1 DEF PayloadOf

LEMMA SubmitKeeps ==
  ASSUME ConsoleInv, handleMonitorUpdate \/ deleteMonitor \/ restartMonitor \/ handleMonitorSubmit
  PROVE  ConsoleInv'
<1>1. UNCHANGED <<monitor, user, logins, route, cache, fetching, editor, creating, writers>>
  BY DEF handleMonitorUpdate, deleteMonitor, restartMonitor, handleMonitorSubmit
<1>2. user \in Users
  <2>1. isEditableMonitor \/ route = "dashboard"
    BY DEF handleMonitorUpdate, deleteMonitor, restartMonitor, handleMonitorSubmit
  <2> QED BY <2>1, EditableIs DEF ConsoleInv, WhoInv
<1>3. PICK asking : asking = Asking
  OBVIOUS
<1>4. asking = [pc |-> "sent", user |-> user, attached |-> TRUE, target |-> route, payload |-> Empty,
                seen |-> Empty, ok |-> FALSE, found |-> Empty, row |-> Empty]
  BY <1>3 DEF Asking
<1>5. RequestInv'
  <2>1. CASE handleMonitorUpdate
    <3>1. PICK payload, r : payload = toCreateMonitorPayload(editor.form)
                            /\ r = [asking EXCEPT !.payload = payload, !.seen = editor.seen]
      OBVIOUS
    <3>2. Send("update", r) /\ editor.open /\ createMonitorSchema(editor.form, MinInterval)
      BY <1>3, <2>1, <3>1 DEF handleMonitorUpdate
    <3>3. editor.form \in Forms /\ Sends(editor.form, editor.seen.type)
      BY <3>2 DEF ConsoleInv, EditorInv
    <3>4. PayloadOf(payload, user, editor.seen.type)
      BY <1>2, <3>1, <3>2, <3>3, AcceptedForm
    <3>5. r = [pc |-> "sent", user |-> user, attached |-> TRUE, target |-> route, payload |-> payload,
               seen |-> editor.seen, ok |-> FALSE, found |-> Empty, row |-> Empty]
      BY <1>4, <3>1
    <3>6. RequestIs("update", r)
      BY <1>2, <3>4, <3>5, AskingIs
    <3> QED BY <3>2, <3>6, SendKeeps DEF Mutations
  <2>2. CASE deleteMonitor
    <3>1. Send("delete", asking)
      BY <1>3, <2>2 DEF deleteMonitor
    <3>2. RequestIs("delete", asking)
      BY <1>2, <1>4, AskingIs
    <3> QED BY <3>1, <3>2, SendKeeps DEF Mutations
  <2>3. CASE restartMonitor
    <3>1. Send("restart", asking)
      BY <1>3, <2>3 DEF restartMonitor
    <3>2. RequestIs("restart", asking)
      BY <1>2, <1>4, AskingIs
    <3> QED BY <3>1, <3>2, SendKeeps DEF Mutations
  <2>4. CASE handleMonitorSubmit
    <3>1. PICK payload, r : payload = toCreateMonitorPayload(creating.form)
                            /\ r = [asking EXCEPT !.payload = payload]
      OBVIOUS
    <3>2. r = [pc |-> "sent", user |-> user, attached |-> TRUE, target |-> route, payload |-> payload,
               seen |-> Empty, ok |-> FALSE, found |-> Empty, row |-> Empty]
      BY <1>4, <3>1
    <3>3. Send("create", r) /\ createMonitorSchema(creating.form, MinInterval)
      BY <1>3, <2>4, <3>1 DEF handleMonitorSubmit
    <3>4. creating.form \in Forms
      BY DEF ConsoleInv, CreatingInv
    <3>5. Sends(creating.form, payload.type)
      BY <3>1 DEF Sends, toCreateMonitorPayload
    <3>6. PayloadOf(payload, user, payload.type)
      BY <1>2, <3>1, <3>3, <3>4, <3>5, AcceptedForm
    <3>7. RequestIs("create", r)
      BY <1>2, <3>2, <3>6, AskingIs
    <3> QED BY <3>3, <3>7, SendKeeps DEF Mutations
  <2> QED BY <2>1, <2>2, <2>3, <2>4
<1> QED BY <1>1, <1>5, ConsoleFrame DEF ConsoleInv

\* Requests.
LEMMA RespondKeeps ==
  ASSUME ConsoleInv, NEW o \in Mutations, request[o].pc = "sent", NEW ok, NEW found, NEW row,
         Respond(o, ok, found, row),
         o = "update" /\ found.type = request[o].seen.type => ok /\ row.type = found.type,
         o = "update" /\ ok => row \in EditedRows
  PROVE  RequestInv'
<1>1. request = [x \in Mutations |-> request[x]] /\ \A x \in Mutations : RequestIs(x, request[x])
  BY DEF ConsoleInv, RequestInv
<1>2. PICK r : r = request[o]
  OBVIOUS
<1>3. PICK s : s = [r EXCEPT !.pc = "answered", !.ok = ok, !.found = found, !.row = row]
  OBVIOUS
<1>4. request' = [x \in Mutations |-> IF x = o THEN s ELSE request[x]]
  BY <1>1, <1>2, <1>3 DEF Respond
<1>5. /\ RequestIs(o, r) /\ r.pc = "sent" /\ r.user \in Users
      /\ r = [pc |-> r.pc, user |-> r.user, attached |-> r.attached, target |-> r.target, payload |-> r.payload,
              seen |-> r.seen, ok |-> r.ok, found |-> r.found, row |-> r.row]
  BY <1>1, <1>2 DEF RequestIs
<1>6. s = [pc |-> "answered", user |-> r.user, attached |-> r.attached, target |-> r.target,
           payload |-> r.payload, seen |-> r.seen, ok |-> ok, found |-> found, row |-> row]
  BY <1>3, <1>5
<1>7. /\ s.pc = "answered" /\ s.user = r.user /\ s.payload = r.payload /\ s.seen = r.seen
      /\ s.ok = ok /\ s.found = found /\ s.row = row
      /\ s = [pc |-> s.pc, user |-> s.user, attached |-> s.attached, target |-> s.target, payload |-> s.payload,
              seen |-> s.seen, ok |-> s.ok, found |-> s.found, row |-> s.row]
  BY <1>6
<1>8. /\ o = "create" => PayloadOf(r.payload, r.user, r.payload.type)
      /\ o = "update" => PayloadOf(r.payload, r.user, r.seen.type)
  BY <1>5 DEF RequestIs
<1>9. o = "update" /\ found.type = r.seen.type => ok /\ row.type = found.type
  BY <1>2
<1>10. RequestIs(o, s)
  BY <1>5, <1>7, <1>8, <1>9 DEF RequestIs
<1> QED BY <1>1, <1>4, <1>10 DEF RequestInv

\* A monitor changes, and who changed it is its owner.
LEMMA MonitorChanges ==
  ASSUME ConsoleInv, UNCHANGED <<user, logins, cache, fetching>>, NEW m \in Monitors, NEW r, NEW w,
         monitor' = [monitor EXCEPT ![m] = r], MonitorIs(r), r.state # "new",
         r.owner = monitor[m].owner \/ monitor[m].state = "new",
         \/ r.checks = monitor[m].checks /\ (monitor[m].checks # 0 => r.check = monitor[m].check)
         \/ r.checks = monitor[m].checks + 1,
         writers' = [x \in Monitors |-> IF x = m THEN w ELSE writers[x]], w \subseteq {r.owner}
  PROVE  TableInv' /\ ToldInv' /\ WritersInv'
<1>1. TableInv /\ ToldInv /\ WritersInv
  BY DEF ConsoleInv
<1>2. PICK rows : rows = monitor'
  OBVIOUS
<1>3. /\ rows = [x \in Monitors |-> rows[x]]
      /\ rows[m] = r /\ \A x \in Monitors \ {m} : rows[x] = monitor[x]
  BY <1>1, <1>2 DEF TableInv
<1>4. \A x \in Monitors : MonitorIs(rows[x])
  BY <1>1, <1>3 DEF TableInv
<1>5. monitor[m].state = "new" => monitor[m].owner = NoUser
  BY <1>1 DEF TableInv, MonitorIs
<1>6. SaidInv(SaidOf(cache, fetching), rows, user, logins)
  BY <1>1, <1>3, <1>5, SaidOnTable DEF ToldInv
<1>7. WritersInv'
  BY <1>1, <1>2, <1>3 DEF WritersInv
<1>8. TableInv'
  BY <1>2, <1>3, <1>4 DEF TableInv
<1>9. ToldInv'
  BY <1>2, <1>6 DEF ToldInv
<1> QED BY <1>7, <1>8, <1>9

\* The fields of a monitor there is.
LEMMA HereIs ==
  ASSUME ConsoleInv, NEW m \in Monitors, Here(m), NEW state \in {"here", "gone"}, NEW row \in WrittenRows
  PROVE  /\ monitor[m].row \in WrittenRows /\ monitor[m].owner \in Users
         /\ \E r : /\ r = [monitor[m] EXCEPT !.state = state, !.row = row]
                   /\ MonitorIs(r) /\ r.state = state /\ r.owner = monitor[m].owner
                   /\ r.checks = monitor[m].checks /\ r.check = monitor[m].check
         /\ writers = [x \in Monitors |-> IF x = m THEN writers[m] ELSE writers[x]]
         /\ writers[m] \subseteq {monitor[m].owner}
<1>1. MonitorIs(monitor[m]) /\ monitor[m].state = "here"
  BY DEF ConsoleInv, TableInv, Here
<1>2. PICK old : old = monitor[m]
  OBVIOUS
<1>3. /\ old = [state |-> old.state, owner |-> old.owner, row |-> old.row, check |-> old.check, checks |-> old.checks]
      /\ old.checks \in Nat /\ CheckIs(old.check)
      /\ old.row \in WrittenRows /\ old.owner \in Users
  BY <1>1, <1>2 DEF MonitorIs
<1>4. PICK r : r = [old EXCEPT !.state = state, !.row = row]
  OBVIOUS
<1>5. r = [state |-> state, owner |-> old.owner, row |-> row, check |-> old.check, checks |-> old.checks]
  BY <1>3, <1>4
<1>6. MonitorIs(r)
  BY <1>3, <1>5 DEF MonitorIs
<1>7. r.state = state /\ r.owner = old.owner /\ r.checks = old.checks /\ r.check = old.check
  BY <1>5
<1>8. writers = [x \in Monitors |-> writers[x]] /\ writers[m] \subseteq {monitor[m].owner}
  BY DEF ConsoleInv, WritersInv
<1>9. writers = [x \in Monitors |-> IF x = m THEN writers[m] ELSE writers[x]]
  BY <1>8
<1> QED BY <1>2, <1>3, <1>4, <1>6, <1>7, <1>8, <1>9

LEMMA ServeCreateKeeps ==
  ASSUME ConsoleInv, ServeCreate
  PROVE  ConsoleInv'
<1>1. PICK r : r = request["create"]
  OBVIOUS
<1>2. /\ r.pc = "sent"
      /\ UNCHANGED <<user, logins, route, cache, fetching, editor, creating, writers>>
  BY <1>1 DEF ServeCreate
<1>3. r.user \in Users /\ PayloadOf(r.payload, r.user, r.payload.type)
  BY <1>1, <1>2 DEF ConsoleInv, RequestInv, RequestIs, Mutations
<1>4. RequestInv'
  <2>1. \E ok : Respond("create", ok, Empty, Empty)
    BY DEF ServeCreate
  <2> QED BY <1>1, <1>2, <2>1, RespondKeeps DEF Mutations
<1>5. CASE UNCHANGED monitor
  BY <1>2, <1>4, <1>5, ConsoleFrame DEF ConsoleInv
<1>6. CASE Accepts(r.payload, Plan[r.user], Empty)
  <2>1. PICK m \in Monitors :
          /\ monitor[m].state = "new"
          /\ monitor' = [monitor EXCEPT ![m] = [NewRow EXCEPT !.state = "here", !.owner = r.user,
                                                !.row = normalizeMonitorInput(r.payload, Empty)]]
    BY <1>1, <1>6 DEF ServeCreate
  <2>2. PICK row \in WrittenRows : row = normalizeMonitorInput(r.payload, Empty)
    BY <1>3, <1>6, PayloadWritten
  <2>3. PICK new : new = [NewRow EXCEPT !.state = "here", !.owner = r.user, !.row = row]
    OBVIOUS
  <2>4. new = [state |-> "here", owner |-> r.user, row |-> row, check |-> NoCheck, checks |-> 0]
    BY <2>3 DEF NewRow
  <2>5. MonitorIs(new) /\ new.state # "new" /\ new.checks = 0
    BY <1>3, <2>4, NoCheckIs DEF MonitorIs
  <2>6. monitor[m].checks = 0 /\ monitor' = [monitor EXCEPT ![m] = new]
    <3>1. MonitorIs(monitor[m])
      BY DEF ConsoleInv, TableInv
    <3> QED BY <1>3, <2>1, <2>2, <2>3, <3>1, UsersAssumption DEF MonitorIs
  <2>7. writers' = [x \in Monitors |-> IF x = m THEN {} ELSE writers[x]]
    <3>1. writers = [x \in Monitors |-> writers[x]] /\ writers[m] = {}
      BY <2>1 DEF ConsoleInv, WritersInv
    <3> QED BY <1>2, <3>1
  <2>8. TableInv' /\ ToldInv' /\ WritersInv'
    <3>1. new.checks = monitor[m].checks /\ (monitor[m].checks # 0 => new.check = monitor[m].check)
      BY <2>5, <2>6
    <3>2. PICK none : none = {}
      OBVIOUS
    <3>3. writers' = [x \in Monitors |-> IF x = m THEN none ELSE writers[x]]
      BY <2>7, <3>2
    <3>4. UNCHANGED <<user, logins, cache, fetching>>
      BY <1>2
    <3>5. none \subseteq {new.owner}
      BY <3>2
    <3> QED BY <2>1, <2>5, <2>6, <3>1, <3>3, <3>4, <3>5, MonitorChanges
  <2> QED BY <1>2, <1>4, <2>8, ConsoleFrame DEF ConsoleInv
<1> QED BY <1>1, <1>5, <1>6 DEF ServeCreate

LEMMA ServeUpdateKeeps ==
  ASSUME ConsoleInv, ServeUpdate
  PROVE  ConsoleInv'
<1>1. PICK r, m : r = request["update"] /\ m = r.target
  OBVIOUS
<1> DEFINE granted == m \in Owned(r.user) /\ Accepts(r.payload, Plan[r.user], monitor[m].row)
           row == normalizeMonitorInput(r.payload, monitor[m].row)
<1>2. /\ r.pc = "sent"
      /\ UNCHANGED <<user, logins, route, cache, fetching, editor, creating>>
      /\ IF granted
         THEN /\ monitor' = [monitor EXCEPT ![m].row = row]
              /\ writers' = [writers EXCEPT ![m] = @ \cup {r.user}]
              /\ Respond("update", TRUE, monitor[m].row, row)
         ELSE /\ Respond("update", FALSE, IF m \in Owned(r.user) THEN monitor[m].row ELSE Empty, Empty)
              /\ UNCHANGED <<monitor, writers>>
  BY <1>1 DEF ServeUpdate
<1>3. r.user \in Users /\ PayloadOf(r.payload, r.user, r.seen.type)
  BY <1>1, <1>2 DEF ConsoleInv, RequestInv, RequestIs, Mutations
<1>4. r.seen.type \in Types \ {"HEARTBEAT"}
  BY <1>3, PayloadIs
<1>5. m \in Owned(r.user) =>
        /\ m \in Monitors /\ Here(m) /\ monitor[m].owner = r.user /\ monitor[m].row \in WrittenRows
        /\ Accepts(r.payload, Plan[r.user], monitor[m].row) => row \in WrittenRows
        /\ row.type = r.seen.type
        /\ monitor[m].row.type = r.seen.type => Accepts(r.payload, Plan[r.user], monitor[m].row)
  <2>1. SUFFICES ASSUME m \in Owned(r.user)
                 PROVE  /\ m \in Monitors /\ Here(m) /\ monitor[m].owner = r.user /\ monitor[m].row \in WrittenRows
                        /\ Accepts(r.payload, Plan[r.user], monitor[m].row) => row \in WrittenRows
                        /\ row.type = r.seen.type
                        /\ monitor[m].row.type = r.seen.type => Accepts(r.payload, Plan[r.user], monitor[m].row)
    OBVIOUS
  <2>2. m \in Monitors /\ Here(m) /\ monitor[m].owner = r.user
    BY <2>1 DEF Owned
  <2>3. monitor[m].row \in WrittenRows
    BY <2>2 DEF ConsoleInv, TableInv, MonitorIs, Here
  <2> QED BY <1>3, <2>2, <2>3, PayloadWritten
<1> HIDE DEF granted, row
<1>6. CASE granted
  <2>1. /\ m \in Monitors /\ Here(m) /\ monitor[m].owner = r.user /\ row \in WrittenRows
        /\ row.type = r.seen.type
    BY <1>5, <1>6 DEF granted
  <2>2. PICK new : /\ new = [monitor[m] EXCEPT !.state = "here", !.row = row]
                   /\ MonitorIs(new) /\ new.state = "here" /\ new.owner = monitor[m].owner
                   /\ new.checks = monitor[m].checks /\ new.check = monitor[m].check
    BY <2>1, HereIs
  <2>3. monitor' = [monitor EXCEPT ![m] = new]
    <3>1. MonitorIs(monitor[m]) /\ monitor[m].state = "here"
      BY <2>1 DEF ConsoleInv, TableInv, Here
    <3>2. PICK old, edited : old = monitor[m] /\ edited = [old EXCEPT !.row = row]
      OBVIOUS
    <3>3. edited = new
      BY <2>2, <3>1, <3>2 DEF MonitorIs
    <3> QED BY <1>2, <1>6, <3>2, <3>3
  <2>4. RequestInv'
    <3>1. Respond("update", TRUE, monitor[m].row, row)
      BY <1>2, <1>6
    <3>2. row \in EditedRows
      BY <1>4, <2>1 DEF EditedRows
    <3> QED BY <1>1, <1>2, <2>1, <3>1, <3>2, RespondKeeps DEF Mutations
  <2>5. writers' = [x \in Monitors |-> IF x = m THEN writers[m] \cup {r.user} ELSE writers[x]]
    BY <1>2, <1>6 DEF ConsoleInv, WritersInv
  <2>6. writers[m] \cup {r.user} \subseteq {new.owner}
    BY <2>1, <2>2 DEF ConsoleInv, WritersInv
  <2>7. TableInv' /\ ToldInv' /\ WritersInv'
    BY <1>2, <2>1, <2>2, <2>3, <2>5, <2>6, MonitorChanges
  <2> QED BY <1>2, <2>4, <2>7, ConsoleFrame DEF ConsoleInv
<1>7. CASE ~granted
  <2>1. PICK found : /\ Respond("update", FALSE, found, Empty) /\ UNCHANGED <<monitor, writers>>
                     /\ found = IF m \in Owned(r.user) THEN monitor[m].row ELSE Empty
    BY <1>2, <1>7
  <2>2. found.type # r.seen.type
    BY <1>4, <1>5, <1>7, <2>1 DEF granted, Empty, Types, Absent
  <2>3. RequestInv'
    BY <1>1, <1>2, <2>1, <2>2, RespondKeeps DEF Mutations
  <2> QED BY <1>2, <2>1, <2>3, ConsoleFrame DEF ConsoleInv
<1> QED BY <1>6, <1>7

LEMMA ServeDeleteKeeps ==
  ASSUME ConsoleInv, ServeDelete
  PROVE  ConsoleInv'
<1>1. PICK r, m : r = request["delete"] /\ m = r.target
  OBVIOUS
<1>2. /\ r.pc = "sent" /\ Respond("delete", m \in Owned(r.user), Empty, Empty)
      /\ UNCHANGED <<user, logins, route, cache, fetching, editor, creating>>
      /\ IF m \in Owned(r.user) THEN /\ monitor' = [monitor EXCEPT ![m].state = "gone"]
                                     /\ writers' = [writers EXCEPT ![m] = @ \cup {r.user}]
         ELSE UNCHANGED <<monitor, writers>>
  BY <1>1 DEF ServeDelete
<1>3. RequestInv'
  BY <1>1, <1>2, RespondKeeps DEF Mutations
<1>4. CASE m \in Owned(r.user)
  <2>1. m \in Monitors /\ Here(m) /\ monitor[m].owner = r.user
    BY <1>4 DEF Owned
  <2>2. MonitorIs(monitor[m]) /\ monitor[m].row \in WrittenRows
    BY <2>1 DEF ConsoleInv, TableInv, Here, MonitorIs
  <2>3. PICK row \in WrittenRows : row = monitor[m].row
    BY <2>2
  <2>4. PICK new : /\ new = [monitor[m] EXCEPT !.state = "gone", !.row = row]
                   /\ MonitorIs(new) /\ new.state = "gone" /\ new.owner = monitor[m].owner
                   /\ new.checks = monitor[m].checks /\ new.check = monitor[m].check
    BY <2>1, HereIs
  <2>5. monitor' = [monitor EXCEPT ![m] = new]
    <3>1. PICK old, gone : old = monitor[m] /\ gone = [old EXCEPT !.state = "gone"]
      OBVIOUS
    <3>2. gone = new
      BY <2>2, <2>3, <2>4, <3>1 DEF MonitorIs
    <3> QED BY <1>2, <1>4, <3>1, <3>2
  <2>6. writers' = [x \in Monitors |-> IF x = m THEN writers[m] \cup {r.user} ELSE writers[x]]
    BY <1>2, <1>4 DEF ConsoleInv, WritersInv
  <2>7. writers[m] \cup {r.user} \subseteq {new.owner}
    BY <2>1, <2>4 DEF ConsoleInv, WritersInv
  <2>8. TableInv' /\ ToldInv' /\ WritersInv'
    BY <1>2, <2>1, <2>4, <2>5, <2>6, <2>7, MonitorChanges
  <2> QED BY <1>2, <1>3, <2>8, ConsoleFrame DEF ConsoleInv
<1>5. CASE m \notin Owned(r.user)
  BY <1>2, <1>3, <1>5, ConsoleFrame DEF ConsoleInv
<1> QED BY <1>4, <1>5

LEMMA ServeRestartKeeps ==
  ASSUME ConsoleInv, ServeRestart
  PROVE  ConsoleInv'
<1>1. /\ request["restart"].pc = "sent" /\ \E ok : Respond("restart", ok, Empty, Empty)
      /\ UNCHANGED <<monitor, user, logins, route, cache, fetching, editor, creating, writers>>
  BY DEF ServeRestart
<1>2. RequestInv'
  BY <1>1, RespondKeeps DEF Mutations
<1> QED BY <1>1, <1>2, ConsoleFrame DEF ConsoleInv

\* What is dropped or taken for old was said all the same.
LEMMA InvalidateKeeps ==
  ASSUME ConsoleInv, NEW at \in Monitors \cup {"login", "dashboard"}, Invalidate(at),
         UNCHANGED <<monitor, user, logins>>
  PROVE  ToldInv' /\ HeldInv'
<1> DEFINE rest == [q \in DOMAIN fetching \ (Observed(at) \cap DOMAIN cache) |-> fetching[q]]
           sent == Observed(at) \ (DOMAIN fetching \ DOMAIN cache)
<1>1. /\ cache' = [q \in DOMAIN cache |-> [cache[q] EXCEPT !.fresh = FALSE]]
      /\ fetching' = Sending(rest, sent, user, logins)
  BY DEF Invalidate
<1>2. sent \subseteq Queries
  BY ObservedAreQueries
<1>3. DOMAIN rest \subseteq DOMAIN fetching /\ \A q \in DOMAIN rest : rest[q] = fetching[q]
  OBVIOUS
<1> HIDE DEF rest, sent
<1>4. ASSUME NEW q \in DOMAIN cache
      PROVE  /\ cache'[q] = [answer |-> cache[q].answer, fresh |-> FALSE, login |-> cache[q].login]
             /\ cache'[q].answer = cache[q].answer /\ cache'[q].login = cache[q].login
  <2>1. PICK c, stale : c = cache[q] /\ stale = cache'[q]
    OBVIOUS
  <2>2. PICK answer, fresh, login : c = [answer |-> answer, fresh |-> fresh, login |-> login]
    BY <2>1 DEF ConsoleInv, HeldInv
  <2>3. stale = [c EXCEPT !.fresh = FALSE]
    BY <1>1, <2>1
  <2>4. stale = [answer |-> answer, fresh |-> FALSE, login |-> login] /\ c.answer = answer /\ c.login = login
    BY <2>2, <2>3
  <2> QED BY <2>1, <2>4
<1>5. /\ SaidOf(cache', fetching') \subseteq SaidOf(cache', rest) \cup NowSaid(user, logins)
      /\ DOMAIN fetching' = sent \cup DOMAIN rest
  BY <1>1, <1>2, SendingSays
<1>6. DOMAIN cache' = DOMAIN cache /\ cache' = [q \in DOMAIN cache' |-> cache'[q]]
  BY <1>1
<1>7. \A q \in DOMAIN cache : cache'[q].answer = cache[q].answer /\ cache'[q].login = cache[q].login
  BY <1>4
<1>8. SaidOf(cache', rest) \subseteq SaidOf(cache, fetching)
  BY <1>3, <1>6, <1>7 DEF SaidOf
<1>9. ToldInv'
  BY <1>5, <1>8, ToldGrows
<1>10. HeldInv'
  BY <1>2, <1>3, <1>4, <1>5, <1>6, <1>7 DEF ConsoleInv, HeldInv
<1> QED BY <1>9, <1>10

LEMMA SettleKeeps ==
  ASSUME ConsoleInv, NEW o \in Mutations, Settle(o)
  PROVE  ConsoleInv'
<1>1. PICK r, mine, away : /\ r = request[o] /\ mine = (r.ok /\ r.attached)
                           /\ away = (o = "delete" /\ r.ok /\ user # NoUser)
  OBVIOUS
<1>2. /\ \/ editor' \in {Closed, editor}
         \/ /\ o = "update" /\ r.ok
            /\ editor' = [open |-> FALSE, form |-> toMonitorFormValues(r.row), seen |-> r.row]
      /\ creating' \in {ClosedForm, creating}
      /\ UNCHANGED <<monitor, user, logins, writers>>
  BY <1>1 DEF Settle
<1>3. EditorInv'
  <2>1. CASE editor' = editor
    BY <2>1, ConsoleFrame
  <2>2. CASE editor' = Closed
    BY <2>2, DefaultForm DEF EditorInv, Closed
  <2>3. CASE o = "update" /\ r.ok /\ editor' = [open |-> FALSE, form |-> toMonitorFormValues(r.row), seen |-> r.row]
    <3>1. RequestIs(o, r) /\ r.pc = "answered"
      BY <1>1 DEF ConsoleInv, RequestInv, Settle
    <3>2. r.row \in WrittenRows /\ r.row.type # "HEARTBEAT"
      BY <2>3, <3>1 DEF RequestIs, EditedRows
    <3>3. toMonitorFormValues(r.row) \in Forms
      BY <3>2, FormOfMonitor
    <3> QED BY <2>3, <3>3 DEF EditorInv
  <2> QED BY <1>2, <2>1, <2>2, <2>3
<1>4. CreatingInv'
  <2>1. CASE creating' = creating
    BY <2>1, ConsoleFrame
  <2>2. CASE creating' = ClosedForm
    BY <2>2, DefaultForm DEF CreatingInv, ClosedForm
  <2> QED BY <1>2, <2>1, <2>2
<1>5. RequestInv'
  <2>1. PICK others :
          request' = [x \in Mutations |-> IF x = o THEN Idle
                        ELSE IF others /\ request[x].pc # "idle"
                        THEN [request[x] EXCEPT !.attached = FALSE] ELSE request[x]]
    BY <1>1 DEF Settle
  <2>3. ASSUME NEW x \in Mutations
        PROVE  RequestIs(x, request'[x])
    <3>1. RequestIs(x, request[x])
      BY DEF ConsoleInv, RequestInv
    <3>2. CASE x # o /\ others /\ request[x].pc # "idle"
      BY <2>1, <3>1, <3>2, AttachedOrNot
    <3>3. CASE x = o
      BY <2>1, <3>3 DEF RequestIs, Idle
    <3>4. CASE x # o /\ ~(others /\ request[x].pc # "idle")
      BY <2>1, <3>1, <3>4
    <3> QED BY <3>2, <3>3, <3>4
  <2>4. request' = [x \in Mutations |-> request'[x]]
    BY <2>1
  <2> QED BY <2>3, <2>4 DEF RequestInv
<1>6. WhoInv' /\ ToldInv' /\ HeldInv'
  <2>1. /\ IF r.ok THEN Invalidate(IF away THEN "dashboard" ELSE route) ELSE UNCHANGED <<cache, fetching>>
        /\ route' = IF away THEN "dashboard" ELSE route
    BY <1>1 DEF Settle
  <2>2. WhoInv'
    <3>1. away => user # NoUser
      BY <1>1
    <3> QED BY <1>2, <2>1, <3>1 DEF ConsoleInv, WhoInv
  <2>3. CASE r.ok
    <3>1. PICK at \in Monitors \cup {"login", "dashboard"} : Invalidate(at)
      BY <2>1, <2>3 DEF ConsoleInv, WhoInv
    <3> QED BY <1>2, <2>2, <3>1, InvalidateKeeps
  <2>4. CASE ~r.ok
    BY <1>2, <2>1, <2>2, <2>4, ConsoleFrame
  <2> QED BY <2>3, <2>4
<1> QED BY <1>2, <1>3, <1>4, <1>5, <1>6, ConsoleFrame DEF ConsoleInv

\* The world.
LEMMA ElsewhereKeeps ==
  ASSUME ConsoleInv, NEW m \in Monitors, Elsewhere(m)
  PROVE  ConsoleInv'
<1>1. /\ Here(m) /\ UNCHANGED <<user, logins, route, cache, fetching, editor, creating, request, writers>>
      /\ \/ \E row \in OtherRows : monitor' = [monitor EXCEPT ![m].row = row]
         \/ monitor' = [monitor EXCEPT ![m].state = "gone"]
  BY DEF Elsewhere, tab
<1>2. MonitorIs(monitor[m]) /\ monitor[m].row \in WrittenRows /\ monitor[m].state = "here"
  BY <1>1 DEF ConsoleInv, TableInv, Here, MonitorIs
<1>3. PICK old : old = monitor[m]
  OBVIOUS
<1>4. PICK state, row :
        /\ state \in {"here", "gone"} /\ row \in WrittenRows
        /\ monitor' = [monitor EXCEPT ![m] = [old EXCEPT !.state = state, !.row = row]]
  <2>1. ASSUME NEW row \in OtherRows, monitor' = [monitor EXCEPT ![m].row = row]
        PROVE  monitor' = [monitor EXCEPT ![m] = [old EXCEPT !.state = "here", !.row = row]]
    <3>1. PICK next : next = [old EXCEPT !.row = row]
      OBVIOUS
    <3>2. next = [old EXCEPT !.state = "here", !.row = row]
      BY <1>2, <1>3, <3>1 DEF MonitorIs
    <3> QED BY <1>3, <2>1, <3>1, <3>2
  <2>2. ASSUME monitor' = [monitor EXCEPT ![m].state = "gone"]
        PROVE  monitor' = [monitor EXCEPT ![m] = [old EXCEPT !.state = "gone", !.row = old.row]]
    <3>1. PICK next : next = [old EXCEPT !.state = "gone"]
      OBVIOUS
    <3>2. next = [old EXCEPT !.state = "gone", !.row = old.row]
      BY <1>2, <1>3, <3>1 DEF MonitorIs
    <3> QED BY <1>3, <2>2, <3>1, <3>2
  <2>3. old.row \in WrittenRows /\ OtherRows \subseteq WrittenRows
    BY <1>2, <1>3, BoundsAssumption
  <2> QED BY <1>1, <2>1, <2>2, <2>3
<1>5. PICK new : /\ new = [old EXCEPT !.state = state, !.row = row]
                 /\ MonitorIs(new) /\ new.state # "new" /\ new.owner = monitor[m].owner
                 /\ new.checks = monitor[m].checks /\ new.check = monitor[m].check
  <2>1. PICK new : new = [old EXCEPT !.state = state, !.row = row]
    OBVIOUS
  <2>2. /\ old = [state |-> old.state, owner |-> old.owner, row |-> old.row, check |-> old.check, checks |-> old.checks]
        /\ old.checks \in Nat /\ CheckIs(old.check) /\ old.owner \in Users
    BY <1>2, <1>3 DEF MonitorIs
  <2>3. new = [state |-> state, owner |-> old.owner, row |-> row, check |-> old.check, checks |-> old.checks]
    BY <2>1, <2>2
  <2>4. MonitorIs(new) /\ new.state # "new"
    BY <1>4, <2>2, <2>3 DEF MonitorIs
  <2> QED BY <1>3, <2>1, <2>3, <2>4
<1>6. PICK w : w = writers[m] /\ w \subseteq {new.owner}
               /\ writers = [x \in Monitors |-> IF x = m THEN w ELSE writers[x]]
  BY <1>5 DEF ConsoleInv, WritersInv
<1>7. monitor' = [monitor EXCEPT ![m] = new]
  BY <1>3, <1>4, <1>5
<1>8. TableInv' /\ ToldInv' /\ WritersInv'
  <2>1. UNCHANGED <<user, logins, cache, fetching>>
    BY <1>1
  <2>2. writers' = [x \in Monitors |-> IF x = m THEN w ELSE writers[x]] /\ w \subseteq {new.owner}
    BY <1>1, <1>6
  <2>3. new.checks = monitor[m].checks /\ (monitor[m].checks # 0 => new.check = monitor[m].check)
    BY <1>5
  <2>4. MonitorIs(new) /\ new.state # "new" /\ new.owner = monitor[m].owner
    BY <1>5
  <2> QED BY <1>7, <2>1, <2>2, <2>3, <2>4, MonitorChanges
<1> QED BY <1>1, <1>8, ConsoleFrame DEF ConsoleInv

LEMMA CheckKeeps ==
  ASSUME ConsoleInv, NEW m \in Monitors, Check(m)
  PROVE  ConsoleInv'
<1>1. /\ Here(m) /\ UNCHANGED <<user, logins, route, cache, fetching, editor, creating, request, writers>>
  BY DEF Check, tab
<1>2. PICK old : old = monitor[m]
  OBVIOUS
<1>3. /\ old = [state |-> old.state, owner |-> old.owner, row |-> old.row, check |-> old.check, checks |-> old.checks]
      /\ old.checks \in Nat /\ old.owner \in Users /\ old.row \in WrittenRows /\ old.state = "here"
  BY <1>1, <1>2 DEF ConsoleInv, TableInv, Here, MonitorIs
<1>4. PICK check : /\ CheckIs(check)
                   /\ monitor' = [monitor EXCEPT ![m] = [old EXCEPT !.checks = @ + 1, !.check = check]]
  <2>1. PICK answer \in Answers :
          monitor' = [monitor EXCEPT ![m].checks = @ + 1,
                        ![m].check = [result |-> execute(monitor[m].row, answer), of |-> monitor[m].row.type,
                                      days |-> answer.certificate.days]]
    BY DEF Check
  <2>2. PICK check : check = [result |-> execute(old.row, answer), of |-> old.row.type,
                              days |-> answer.certificate.days]
    OBVIOUS
  <2>3. CheckIs(check)
    BY <1>3, <2>2, CheckIsRecorded DEF WrittenRows, Rows
  <2>4. monitor = [x \in Monitors |-> monitor[x]]
    BY DEF ConsoleInv, TableInv
  <2>5. monitor' = [monitor EXCEPT ![m] = [old EXCEPT !.checks = @ + 1, !.check = check]]
    BY <1>2, <1>3, <2>1, <2>2, <2>4
  <2> QED BY <2>3, <2>5
<1>5. PICK new : new = [old EXCEPT !.checks = @ + 1, !.check = check]
  OBVIOUS
<1>6. new = [state |-> "here", owner |-> old.owner, row |-> old.row, check |-> check, checks |-> old.checks + 1]
  BY <1>3, <1>5
<1>7. MonitorIs(new) /\ new.state = "here" /\ new.owner = monitor[m].owner /\ new.checks = monitor[m].checks + 1
  BY <1>2, <1>3, <1>4, <1>6 DEF MonitorIs
<1>8. PICK w : w = writers[m] /\ w \subseteq {new.owner}
               /\ writers = [x \in Monitors |-> IF x = m THEN w ELSE writers[x]]
  BY <1>7 DEF ConsoleInv, WritersInv
<1>9. monitor' = [monitor EXCEPT ![m] = new]
  BY <1>4, <1>5
<1>10. TableInv' /\ ToldInv' /\ WritersInv'
  BY <1>1, <1>7, <1>8, <1>9, MonitorChanges
<1> QED BY <1>1, <1>10, ConsoleFrame DEF ConsoleInv

-----------------------------------------------------------------------------
(* The console: its theorems *)

LEMMA ConsoleInit == Init => ConsoleInv
<1>1. SUFFICES ASSUME Init
               PROVE  ConsoleInv
  OBVIOUS
<1>2. TableInv
  <2>1. monitor = [m \in Monitors |-> monitor[m]]
    BY <1>1 DEF Init
  <2>2. ASSUME NEW m \in Monitors
        PROVE  MonitorIs(monitor[m])
    <3>1. \/ monitor[m] = NewRow
          \/ monitor[m] \in [state : {"here", "gone"}, owner : Users, row : WrittenRows, check : {NoCheck}, checks : {0}]
      BY <1>1 DEF Init
    <3>2. CASE monitor[m] = NewRow
      BY <3>2, NoCheckIs DEF NewRow, MonitorIs
    <3>3. CASE monitor[m] \in [state : {"here", "gone"}, owner : Users, row : WrittenRows,
                               check : {NoCheck}, checks : {0}]
      BY <3>3, NoCheckIs DEF MonitorIs
    <3> QED BY <3>1, <3>2, <3>3
  <2> QED BY <2>1, <2>2 DEF TableInv
<1>3. WhoInv
  BY <1>1, UsersAssumption DEF Init, WhoInv
<1>4. WritersInv
  BY <1>1 DEF Init, WritersInv
<1>5. EditorInv /\ CreatingInv
  <2>1. EditorInv
    BY <1>1, DefaultForm DEF Init, EditorInv, Closed
  <2>2. CreatingInv
    BY <1>1, DefaultForm DEF Init, CreatingInv, ClosedForm
  <2> QED BY <2>1, <2>2
<1>6. RequestInv
  BY <1>1 DEF Init, RequestInv, RequestIs, Idle
<1>7. PICK held \in SUBSET {q \in Queries : user # NoUser /\ Answer(q, user).kind # "none"} :
        cache = [q \in held |-> [answer |-> Answer(q, user), fresh |-> TRUE, login |-> logins]]
  BY <1>1 DEF Init
<1>8. /\ cache = [q \in DOMAIN cache |-> cache[q]] /\ DOMAIN cache \subseteq Queries
      /\ \A q \in DOMAIN cache :
           /\ cache[q] = [answer |-> Answer(q, user), fresh |-> TRUE, login |-> logins]
           /\ Answer(q, user).kind # "none"
  BY <1>7
<1>9. \A q \in DOMAIN cache :
        /\ cache[q] = [answer |-> cache[q].answer, fresh |-> cache[q].fresh, login |-> cache[q].login]
        /\ cache[q].answer = Answer(q, user) /\ cache[q].login = logins
  BY <1>8
<1>10. Listed \subseteq Monitors
  <2>1. CASE Cached(List)
    <3>1. cache[List].answer = Answer(List, user)
      BY <1>9, <2>1 DEF Cached
    <3>2. Answer(List, user).data = Owned(user)
      BY DEF Answer, List
    <3> QED BY <2>1, <3>1, <3>2 DEF Listed, Owned
  <2>2. CASE ~Cached(List)
    BY <2>2 DEF Listed
  <2> QED BY <2>1, <2>2
<1>11. Observed(route) \subseteq Queries
  <2>1. CASE route = "login"
    BY <2>1, PagesAssumption DEF Observed
  <2>2. CASE route = "dashboard"
    <3>1. WithHistory({Stats(m) : m \in Listed}) \subseteq Queries
      BY <1>10, StatsAreQueries
    <3>2. Observed(route) = {List} \cup WithHistory({Stats(m) : m \in Listed})
      BY <2>2, PagesAssumption DEF Observed
    <3> QED BY <3>1, <3>2 DEF Queries
  <2>3. CASE route \in Monitors
    <3>1. Observed(route) = {Detail(route)} \cup WithHistory({Checks(route), Stats(route)})
      BY <2>3, PagesAssumption DEF Observed
    <3> QED BY <2>3, <3>1 DEF Detail, Checks, Stats, WithHistory, Queries
  <2> QED BY <1>3, <2>1, <2>2, <2>3 DEF WhoInv
<1>12. PICK sent : sent = {q \in Observed(route) : ~Cached(q)}
  OBVIOUS
<1>13. /\ SaidOf(cache, fetching) \subseteq SaidOf(cache, <<>>) \cup NowSaid(user, logins)
       /\ DOMAIN fetching = sent \cup DOMAIN <<>>
  <2>1. sent \subseteq Queries /\ fetching = Sending(<<>>, sent, user, logins)
    BY <1>1, <1>11, <1>12 DEF Init
  <2> QED BY <2>1, SendingSays
<1>14. DOMAIN <<>> = {}
  OBVIOUS
<1>15. SaidOf(cache, <<>>) \subseteq NowSaid(user, logins)
  BY <1>8, <1>9, <1>14 DEF SaidOf, NowSaid
<1>16. HeldInv
  <2>1. DOMAIN fetching \subseteq Queries
    BY <1>11, <1>12, <1>13, <1>14
  <2>2. \A q \in DOMAIN cache : cache[q].answer.kind # "none"
    BY <1>8, <1>9
  <2> QED BY <1>8, <1>9, <2>1, <2>2 DEF HeldInv
<1>17. ToldInv
  <2>1. PICK none, more : none = {} /\ more = SaidOf(cache, fetching)
    OBVIOUS
  <2>2. SaidInv(none, monitor, user, logins)
    BY <2>1 DEF SaidInv
  <2>3. more \subseteq none \cup NowSaid(user, logins)
    BY <1>13, <1>15, <2>1
  <2>4. SaidInv(more, monitor, user, logins)
    BY <1>2, <1>3, <2>2, <2>3, SaidGrows DEF WhoInv
  <2> QED BY <2>1, <2>4 DEF ToldInv
<1> QED BY <1>2, <1>3, <1>4, <1>5, <1>6, <1>16, <1>17 DEF ConsoleInv

LEMMA ConsoleStep == ConsoleInv /\ [Next]_vars => ConsoleInv'
<1>1. SUFFICES ASSUME ConsoleInv, [Next]_vars
               PROVE  ConsoleInv'
  OBVIOUS
<1>2. CASE UNCHANGED vars
  BY <1>1, <1>2, ConsoleFrame DEF vars, tab, ConsoleInv
<1>3. CASE \E q \in Queries : Land(q) \/ Expire(q)
  BY <1>1, <1>3, LandKeeps, ExpireKeeps
<1>4. CASE Refresh \/ Logout \/ ToggleEditor \/ ToggleCreateForm
  BY <1>1, <1>4, RefreshKeeps, LogoutKeeps, ToggleEditorKeeps, CreateFormKeeps
<1>5. CASE \/ \E at \in Monitors \cup {"dashboard"} : Goto(at)
           \/ \E u \in Users : Login(u)
  BY <1>1, <1>5, GotoKeeps, LoginKeeps
<1>6. CASE \/ \E url \in Typed : updateEditField(url)
           \/ \E entered \in Forms : updateField(entered)
  BY <1>1, <1>6, UpdateEditFieldKeeps, CreateFormKeeps
<1>7. CASE handleMonitorUpdate \/ deleteMonitor \/ restartMonitor \/ handleMonitorSubmit
  BY <1>1, <1>7, SubmitKeeps
<1>8. CASE ServeCreate \/ ServeUpdate \/ ServeDelete \/ ServeRestart
  BY <1>1, <1>8, ServeCreateKeeps, ServeUpdateKeeps, ServeDeleteKeeps, ServeRestartKeeps
<1>9. CASE \/ \E o \in Mutations : Settle(o)
           \/ \E m \in Monitors : Elsewhere(m) \/ Check(m)
  BY <1>1, <1>9, SettleKeeps, ElsewhereKeeps, CheckKeeps
<1> QED BY <1>1, <1>2, <1>3, <1>4, <1>5, <1>6, <1>7, <1>8, <1>9 DEF Next

LEMMA ConsoleInvariant == Spec => []ConsoleInv
<1> QED BY ConsoleInit, ConsoleStep, PTL DEF Spec

LEMMA ConsoleTypes == ConsoleInv => ConsoleTypeOK
<1> SUFFICES ASSUME ConsoleInv PROVE ConsoleTypeOK
  OBVIOUS
<1>1. ASSUME NEW m \in Monitors
      PROVE  /\ monitor[m].state \in {"new", "here", "gone"} /\ monitor[m].owner \in Users \cup {NoUser}
             /\ monitor[m].row \in Rows \cup {Empty} /\ monitor[m].check.result \in Results
             /\ writers[m] \subseteq Users
  <2>1. MonitorIs(monitor[m]) /\ monitor[m].check.result \in Results
    BY DEF ConsoleInv, TableInv, MonitorIs, CheckIs
  <2>2. writers[m] \subseteq {monitor[m].owner} /\ (monitor[m].state = "new" => writers[m] = {})
    BY DEF ConsoleInv, WritersInv
  <2> QED BY <2>1, <2>2 DEF MonitorIs, WrittenRows
<1>2. writers \in [Monitors -> SUBSET Users]
  BY <1>1 DEF ConsoleInv, WritersInv
<1>3. /\ user \in Users \cup {NoUser} /\ logins \in Nat
      /\ route \in Monitors \cup {"login", "dashboard"}
      /\ DOMAIN cache \subseteq Queries /\ DOMAIN fetching \subseteq Queries
  BY DEF ConsoleInv, WhoInv, HeldInv
<1>4. /\ editor.open \in BOOLEAN /\ editor.form \in Forms
      /\ creating.open \in BOOLEAN /\ creating.form \in Forms
  BY DEF ConsoleInv, EditorInv, CreatingInv
<1>5. \A o \in Mutations : request[o].pc \in {"idle", "sent", "answered"}
  BY DEF ConsoleInv, RequestInv, RequestIs
<1> QED BY <1>1, <1>2, <1>3, <1>4, <1>5 DEF ConsoleTypeOK

\* Whoever signs in and out, and whatever is clicked while requests and answers are
\* under way, no monitor is changed but by its owner, and what the page shows is of
\* the one signed in, or nothing was asked for since.
THEOREM OthersAreOnlySeen == Spec => []OthersMonitorsAreOnlySeen
<1>1. ConsoleInv => OthersMonitorsAreOnlySeen
  <2>1. SUFFICES ASSUME ConsoleInv
                 PROVE  OthersMonitorsAreOnlySeen
    OBVIOUS
  <2>2. ASSUME user # NoUser, NEW q \in DOMAIN cache
        PROVE  \/ (IF q = List THEN cache[q].answer.data ELSE {q[2]}) \subseteq {m \in Monitors : monitor[m].owner = user}
               \/ cache[q].login < logins
    <3>1. PICK a, login : a = cache[q].answer /\ login = cache[q].login
      OBVIOUS
    <3>2. /\ q \in Queries /\ Told(q, a, login, monitor, user, logins) /\ a.kind # "none"
          /\ q = List => a.data \subseteq Monitors
      BY <2>1, <3>1, CachedIs
    <3>3. login \in Nat /\ login <= logins /\ logins \in Nat
      BY <2>1, <3>2 DEF Told, ConsoleInv, WhoInv
    <3>4. login = logins => Owns(q, a, monitor, user)
      BY <2>2, <3>2 DEF Told
    <3>5. q # List => q[2] \in Monitors
      BY <3>2, QueryIs
    <3> QED BY <3>1, <3>2, <3>3, <3>4, <3>5 DEF Owns
  <2>3. \A m \in Monitors : writers[m] \subseteq {monitor[m].owner}
    BY <2>1 DEF ConsoleInv, WritersInv
  <2> QED BY <2>2, <2>3 DEF OthersMonitorsAreOnlySeen
<1> QED BY <1>1, ConsoleInvariant, PTL

\* Whatever a monitor's editor was opened on and whatever is typed into it, saving
\* it is accepted, and leaves the monitor its type, unless it had another when the
\* save arrived.
THEOREM SavesAreAccepted == Spec => []SavesHaveTheirMonitor
<1>1. ConsoleInv => SavesHaveTheirMonitor
  BY DEF ConsoleInv, RequestInv, RequestIs, Mutations, SavesHaveTheirMonitor
<1> QED BY <1>1, ConsoleInvariant, PTL

\* The label of a certificate is that of the latest check, whichever of the checks
\* and of the statistics was asked for, or arrived, first; with both of one moment
\* it is unknown only after a check that failed with an error without a text.
THEOREM LabelsHaveTheirCheck == Spec => []CertificateLabelHasItsCheck
<1>1. ConsoleInv => CertificateLabelHasItsCheck
  <2>1. SUFFICES ASSUME ConsoleInv, route \in Monitors, Cached(Checks(route))
                 PROVE  LET shown == cache[Checks(route)].answer IN
                        /\ CertificateLabel = "Healthy" => shown.check.of # "SSL" \/ shown.check.days >= 7
                        /\ CertificateLabel = "Unknown" =>
                             \/ shown.checks = 0 \/ ~Cached(Stats(route))
                             \/ cache[Stats(route)].answer.checks # shown.checks
                             \/ shown.check.result.error = "empty"
    BY DEF CertificateLabelHasItsCheck
  <2>2. PICK shown, check, stats, currentStatus :
          /\ shown = cache[Checks(route)].answer /\ check = shown.check
          /\ stats = cache[Stats(route)].answer
          /\ currentStatus = IF Cached(Stats(route)) THEN stats.currentStatus ELSE "UNKNOWN"
    OBVIOUS
  <2>3. /\ Checks(route) # List /\ Checks(route)[1] = "checks" /\ Checks(route)[2] = route
        /\ Stats(route) # List /\ Stats(route)[1] = "stats" /\ Stats(route)[2] = route
    BY DEF Checks, Stats, List
  <2>4. /\ shown.kind = "checks" /\ Told(Checks(route), shown, cache[Checks(route)].login, monitor, user, logins)
        /\ Cached(Stats(route)) => stats.kind = "stats"
    BY <2>1, <2>2, <2>3, CachedIs DEF Cached
  <2>5. shown.checks \in Nat /\ (shown.checks # 0 => CheckIs(check))
    BY <2>2, <2>3, <2>4 DEF Told, AnswerIs
  <2>6. Cached(Stats(route)) => Agree(Checks(route), shown, Stats(route), stats)
    <3>1. SUFFICES ASSUME Cached(Stats(route))
                   PROVE  Agree(Checks(route), shown, Stats(route), stats)
      OBVIOUS
    <3>2. PICK p, q, l, k : p = Checks(route) /\ q = Stats(route) /\ l = cache[p].login /\ k = cache[q].login
      OBVIOUS
    <3>3. <<p, shown, l>> \in SaidOf(cache, fetching) /\ <<q, stats, k>> \in SaidOf(cache, fetching)
      BY <2>1, <2>2, <3>1, <3>2 DEF SaidOf, Cached
    <3> QED BY <2>1, <3>2, <3>3 DEF ConsoleInv, ToldInv, SaidInv
  <2>7. Cached(Stats(route)) /\ stats.checks = shown.checks /\ shown.checks # 0 =>
          (check.result.isUp <=> stats.currentStatus = "UP")
    BY <2>2, <2>3, <2>4, <2>6 DEF Agree, Counts, SaysUp
  <2>8. CertificateLabel =
          IF shown.checks = 0 THEN "Unknown"
          ELSE CASE check.result.error = "expired" -> "Expired"
                 [] check.result.error = "expires soon" -> "Expiring Soon"
                 [] check.result.isUp /\ currentStatus = "UP" -> "Healthy"
                 [] check.result.error \notin {"expired", "expires soon", "none", "empty"} -> "Needs Review"
                 [] OTHER -> "Unknown"
    BY <2>1, <2>2 DEF CertificateLabel
  <2>9. CASE shown.checks = 0
    BY <2>2, <2>8, <2>9
  <2>10. CASE shown.checks # 0 /\ check.result.isUp
    <3>1. check.result.error = "none" /\ (check.of = "SSL" => check.days >= 7)
      BY <2>5, <2>10 DEF CheckIs, WORKER_SSL_EXPIRY_THRESHOLD_DAYS
    <3>2. CASE currentStatus = "UP"
      <4>1. CertificateLabel = "Healthy"
        BY <2>8, <2>10, <3>1, <3>2
      <4> QED BY <2>2, <3>1, <4>1
    <3>3. CASE currentStatus # "UP"
      <4>1. CertificateLabel = "Unknown"
        BY <2>8, <2>10, <3>1, <3>3
      <4>2. ~Cached(Stats(route)) \/ stats.checks # shown.checks
        BY <2>2, <2>7, <2>10, <3>3
      <4> QED BY <2>2, <4>1, <4>2
    <3> QED BY <3>2, <3>3
  <2>11. CASE shown.checks # 0 /\ ~check.result.isUp
    <3>1. check.result.error # "none"
      BY <2>5, <2>11 DEF CheckIs
    <3>2. CASE check.result.error = "empty"
      <4>1. CertificateLabel = "Unknown"
        BY <2>8, <2>11, <3>2
      <4> QED BY <2>2, <3>2, <4>1
    <3>3. CASE check.result.error # "empty"
      <4>1. CertificateLabel \in {"Expired", "Expiring Soon", "Needs Review"}
        BY <2>8, <2>11, <3>1, <3>3
      <4> QED BY <4>1
    <3> QED BY <3>2, <3>3
  <2> QED BY <2>9, <2>10, <2>11
<1> QED BY <1>1, ConsoleInvariant, PTL

-----------------------------------------------------------------------------
(* A browser: its types *)

\* A behaviour of the browser is one of each of its parts.
LEMMA BrowserParts ==
  /\ MCSpec => Spec
  /\ MCSpec => SessionsSpec
  /\ MCSpec => ListInit /\ [][ListNext]_listVars
<1>1. MCInit => Init /\ ListInit /\ SessionsInit
  BY DEF MCInit
<1>2. [MCNext]_<<vars, listVars, sessionVars>> => [Next]_vars
  BY DEF MCNext
<1>3. [MCNext]_<<vars, listVars, sessionVars>> => [ListNext]_listVars
  BY DEF MCNext
<1>4. [MCNext]_<<vars, listVars, sessionVars>> => [SessionsNext]_sessionVars
  BY DEF MCNext
<1> QED BY <1>1, <1>2, <1>3, <1>4, PTL DEF MCSpec, Spec, SessionsSpec

\* Whatever is clicked, typed and answered, and in whichever order, a form holds
\* values that its fields can show, also after it was filled from a monitor or from
\* a row of a list (toMonitorFormValues, startEditing); what is saved of it is a
\* row (normalizeMonitorInput, toStatusPagePayload), every check a result of
\* MonitorCheckExecutorService, and every page one of the router's.
THEOREM PagesHaveTypes == MCSpec => []TypesOK
<1>1. Spec => []ConsoleTypeOK
  BY ConsoleInvariant, ConsoleTypes, PTL
<1>2. SessionsSpec => []SessionsTypeOK
  BY SessionsHaveTypes, SessionsTypes, PTL
<1>3. ListInit /\ [][ListNext]_listVars => []ListTypeOK
  BY InitPage, NextPage, InitListTypes, NextListTypes, ListTypes, PTL
<1>4. ConsoleTypeOK /\ ListTypeOK /\ SessionsTypeOK => TypesOK
  BY DEF TypesOK
<1> QED BY <1>1, <1>2, <1>3, <1>4, BrowserParts, PTL
=============================================================================
