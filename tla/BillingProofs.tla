---------------------------- MODULE BillingProofs ----------------------------
(***************************************************************************)
(* Payments: what Account shows of billing on a small instance, for every  *)
(* value of the constants.  Whatever else the API does, a step is one of   *)
(* billing, a user who leaves, a crash, or nothing to billing at all.      *)
(***************************************************************************)
EXTENDS Account, FiniteSetTheorems, TLAPS

\* The steps that change what billing keeps.
Step ==
  \/ BillingStep
  \/ \E u \in Users : LeaveBilling(u)
  \/ CrashBilling
  \/ UNCHANGED userVars

RowTypes ==
  /\ user \in [Users -> [state : {"new", "here", "gone"}, email : Emails \cup {NoEmail}, plan : Plans]]
  /\ checkout \subseteq Users
  /\ event \in [Webhooks -> [activates : BOOLEAN, user : Users \cup {NoUser},
                             email : Emails \cup {NoEmail}, issued : BOOLEAN]]
  /\ delivery \in [Webhooks -> [Deliveries ->
       [pc : {"idle", "look", "resolve", "upgrade", "record"}, user : Users \cup {NoUser}]]]
  /\ processed \subseteq Webhooks /\ unknown \subseteq Webhooks
  /\ upgrades \in [Webhooks -> SUBSET Users]
  /\ early \in [Webhooks -> 0..2]

\* A webhook has had the effect its event asks for.
Effect(w) ==
  event[w].activates =>
    IF event[w].user # NoUser THEN user[event[w].user].plan = "PRO" \/ user[event[w].user].state = "gone"
    ELSE (\E u \in upgrades[w] : user[u].plan = "PRO") \/ w \in unknown

Known ==
  /\ \A u \in Users : user[u].state = "new" => user[u].plan = "FREE"
  /\ \A u \in checkout : user[u].state # "new"
  /\ \A w \in Webhooks : event[w].user # NoUser => user[event[w].user].state # "new"

Underway(w, d) ==
  /\ delivery[w][d].pc # "idle" => event[w].issued
  /\ delivery[w][d].pc \in {"resolve", "upgrade"} => event[w].activates
  /\ delivery[w][d].pc = "upgrade" =>
       /\ delivery[w][d].user \in Users
       /\ event[w].user # NoUser => delivery[w][d].user = event[w].user
  /\ delivery[w][d].pc = "record" => Effect(w)

Paid(w) ==
  /\ w \in processed => event[w].issued /\ Effect(w)
  /\ \A d \in Deliveries : Underway(w, d)
  /\ ~event[w].issued => upgrades[w] = {} /\ event[w].user = NoUser
  /\ event[w].user # NoUser => upgrades[w] \subseteq {event[w].user}

\* A delivery that may still upgrade somebody, or record that it has.
Acts(w, d) == delivery[w][d].pc \in {"resolve", "upgrade", "record"} \/ (delivery[w][d].pc = "look" /\ w \notin processed)
Before(w, d) == delivery[w][d].pc \in {"resolve", "upgrade"} \/ (delivery[w][d].pc = "look" /\ w \notin processed)

Once(w) ==
  /\ early[w] = 0 => /\ \A d \in Deliveries : ~Acts(w, d)
                     /\ w \notin processed => upgrades[w] = {}
  /\ early[w] <= 1 => /\ \A d, e \in Deliveries : Acts(w, d) /\ Acts(w, e) => d = e
                      /\ \A d \in Deliveries : Before(w, d) => upgrades[w] = {}
                      /\ \A u, v \in upgrades[w] : u = v

PInv == RowTypes /\ Known /\ (\A w \in Webhooks : Paid(w)) /\ (\A w \in Webhooks : Once(w))

-----------------------------------------------------------------------------

LEMMA NextIsStep == [Next]_vars => Step
<1> SUFFICES ASSUME [Next]_vars PROVE Step
  OBVIOUS
<1>1. CASE UNCHANGED vars
  BY <1>1 DEF vars, Step
<1>2. CASE BillingStep
  BY <1>2 DEF Step
<1>3. ASSUME NEW u \in Users, DeleteUser(u) PROVE Step
  BY <1>3 DEF DeleteUser, Step
<1>4. CASE Crash
  BY <1>4 DEF Crash, Step
<1>5. ASSUME NEW m \in Monitors, DeleteMonitor(m) PROVE Step
  BY <1>5 DEF DeleteMonitor, Step
<1>6. ASSUME NEW c \in Contacts, DeleteContact(c) PROVE Step
  BY <1>6 DEF DeleteContact, Step
<1>7. ASSUME NEW p \in Pages, DeletePage(p) PROVE Step
  BY <1>7 DEF DeletePage, Step
<1>8. ASSUME NEW r \in Requests, HandleRequest(r) PROVE Step
  <2>1. UNCHANGED <<userVars, left>>
    BY <1>8 DEF HandleRequest, Count, CreateMonitor, CreateContact, LoadMonitor, WriteMonitor,
                LoadPage, CheckPage, WritePage
  <2> QED
    BY <2>1 DEF Step
<1>9. ASSUME NEW r \in Requests, NEW u \in Users, NEW input, NEW k \in Kinds, StartCreate(r, u, k, input) PROVE Step
  BY <1>9 DEF StartCreate, Step, Kinds
<1>10. ASSUME NEW r \in Requests, NEW u \in Users, NEW m, NEW input, StartUpdate(r, u, m, input) PROVE Step
  BY <1>10 DEF StartUpdate, Step
<1>11. ASSUME NEW r \in Requests, NEW u \in Users, NEW p, NEW input, StartPage(r, u, p, input) PROVE Step
  BY <1>11 DEF StartPage, Step
<1> QED
  BY <1>1, <1>2, <1>3, <1>4, <1>5, <1>6, <1>7, <1>8, <1>9, <1>10, <1>11 DEF Next, Kinds

LEMMA InitPaid == Init => PInv
<1> SUFFICES ASSUME Init PROVE PInv
  OBVIOUS
<1> USE NobodyAssumption DEF Init, UsersInit, BillingInit, NoEvent, Idle
<1>1. RowTypes
  BY DEF RowTypes, Plans
<1>2. Known
  BY DEF Known
<1>3. ASSUME NEW w \in Webhooks PROVE Paid(w)
  BY DEF Paid, Underway
<1>4. ASSUME NEW w \in Webhooks PROVE Once(w)
  BY DEF Once, Acts, Before
<1> QED
  BY <1>1, <1>2, <1>3, <1>4 DEF PInv

\* Nobody comes back or falls to FREE, and what a webhook did stays done.
Onward ==
  /\ \A u \in Users : /\ user[u].state = "gone" => user'[u].state = "gone"
                      /\ user[u].plan = "PRO" => user'[u].plan = "PRO"
  /\ unknown \subseteq unknown'
  /\ \A w \in Webhooks : upgrades[w] \subseteq upgrades'[w]

LEMMA EffectStays ==
  ASSUME RowTypes, Onward, NEW w \in Webhooks, Effect(w), event'[w] = event[w]
  PROVE  Effect(w)'
<1>1. event[w].user \in Users \cup {NoUser} /\ upgrades[w] \subseteq Users
  BY DEF RowTypes
<1>2. Effect(w)' <=>
        (event[w].activates =>
           IF event[w].user # NoUser
           THEN user'[event[w].user].plan = "PRO" \/ user'[event[w].user].state = "gone"
           ELSE (\E u \in upgrades'[w] : user'[u].plan = "PRO") \/ w \in unknown')
  BY DEF Effect
<1>3. CASE event[w].user # NoUser
  BY <1>1, <1>2, <1>3 DEF Effect, Onward
<1>4. CASE event[w].user = NoUser /\ event[w].activates /\ w \notin unknown
  <2>1. PICK u \in upgrades[w] : user[u].plan = "PRO"
    BY <1>4 DEF Effect
  <2>2. u \in upgrades'[w] /\ user'[u].plan = "PRO"
    BY <1>1, <2>1 DEF Onward
  <2> QED
    BY <1>2, <1>4, <2>2
<1>5. CASE event[w].user = NoUser /\ (~event[w].activates \/ w \in unknown)
  BY <1>2, <1>5 DEF Onward
<1> QED
  BY <1>3, <1>4, <1>5

\* Registrations, changes of address, checkouts, departures.
LEMMA UsersStep ==
  ASSUME PInv, UNCHANGED billingVars, Onward, RowTypes', Known'
  PROVE  PInv'
<1>1. ASSUME NEW w \in Webhooks PROVE Paid(w)'
  <2>1. Paid(w) /\ RowTypes
    BY DEF PInv
  <2>2. Effect(w) => Effect(w)'
    BY <2>1, EffectStays DEF billingVars
  <2>3. ASSUME NEW d \in Deliveries PROVE Underway(w, d)'
    BY <2>1, <2>2 DEF Paid, Underway, billingVars
  <2> QED
    BY <2>1, <2>2, <2>3 DEF Paid, billingVars
<1>2. ASSUME NEW w \in Webhooks PROVE Once(w)'
  BY DEF PInv, Once, Acts, Before, billingVars
<1> QED
  BY <1>1, <1>2 DEF PInv

LEMMA RegisterStep ==
  ASSUME PInv, NEW u \in Users, NEW email \in Emails, Register(u, email)
  PROVE  PInv'
<1>1. RowTypes'
  BY DEF PInv, RowTypes, Register, billingVars, Plans
<1>2. Known' /\ Onward
  <2> USE DEF PInv, RowTypes, Known, Register, billingVars, Onward
  <2>1. Known'
    BY NobodyAssumption
  <2>2. Onward
    OBVIOUS
  <2> QED
    BY <2>1, <2>2
<1> QED
  BY <1>1, <1>2, UsersStep DEF Register

LEMMA UpdateUserStep ==
  ASSUME PInv, NEW u \in Users, NEW email \in Emails, UpdateUser(u, email)
  PROVE  PInv'
<1>1. RowTypes'
  BY DEF PInv, RowTypes, UpdateUser, billingVars, Plans
<1>2. Known' /\ Onward
  BY NobodyAssumption DEF PInv, RowTypes, Known, UpdateUser, billingVars, Onward
<1> QED
  BY <1>1, <1>2, UsersStep DEF UpdateUser

LEMMA LeaveStep ==
  ASSUME PInv, NEW u \in Users, LeaveBilling(u)
  PROVE  PInv'
<1>1. RowTypes'
  BY DEF PInv, RowTypes, LeaveBilling, billingVars, Plans
<1>2. Known' /\ Onward
  BY NobodyAssumption DEF PInv, RowTypes, Known, LeaveBilling, billingVars, Onward
<1> QED
  BY <1>1, <1>2, UsersStep DEF LeaveBilling

LEMMA CheckoutStep ==
  ASSUME PInv, NEW u \in Users, CreateCheckout(u)
  PROVE  PInv'
<1>1. RowTypes'
  BY DEF PInv, RowTypes, CreateCheckout, billingVars
<1>2. Known' /\ Onward
  BY DEF PInv, RowTypes, Known, CreateCheckout, Here, billingVars, Onward
<1> QED
  BY <1>1, <1>2, UsersStep DEF CreateCheckout

-----------------------------------------------------------------------------

\* A webhook whose event, deliveries and effects a step leaves alone.
LEMMA OtherWebhook ==
  ASSUME PInv, Onward, NEW w \in Webhooks,
         event'[w] = event[w], delivery'[w] = delivery[w], upgrades'[w] = upgrades[w], early'[w] = early[w],
         w \in processed' <=> w \in processed
  PROVE  Paid(w)' /\ Once(w)'
<1>1. Paid(w) /\ Once(w) /\ RowTypes
  BY DEF PInv
<1>2. Effect(w) => Effect(w)'
  BY <1>1, EffectStays
<1>3. ASSUME NEW d \in Deliveries PROVE Underway(w, d)'
  BY <1>1, <1>2 DEF Paid, Underway
<1>4. Paid(w)'
  BY <1>1, <1>2, <1>3 DEF Paid
<1>5. Once(w)'
  BY <1>1 DEF Once, Acts, Before
<1> QED
  BY <1>4, <1>5

LEMMA IssueStep ==
  ASSUME PInv, NEW w \in Webhooks, NEW e \in Events, Issue(w, e)
  PROVE  PInv'
<1> USE DEF PInv
<1>1. /\ event' = [event EXCEPT ![w] = Issued(e)] /\ ~event[w].issued
      /\ e.user \in checkout \cup {NoUser} /\ e.activates \in BOOLEAN
      /\ e.user \in Users \cup {NoUser} /\ e.email \in Emails \cup {NoEmail}
      /\ UNCHANGED <<user, checkout, delivery, processed, upgrades, unknown, early>>
  BY DEF Issue, Events
<1>2. RowTypes'
  BY <1>1 DEF RowTypes, Issued
<1>3. Known'
  <2>1. e.user # NoUser => e.user \in checkout
    BY <1>1
  <2> QED
    BY <1>1, <2>1 DEF Known, RowTypes, Issued
<1>4. Onward
  BY <1>1 DEF Onward
<1>5. ASSUME NEW x \in Webhooks, x # w PROVE Paid(x)' /\ Once(x)'
  BY <1>1, <1>4, <1>5, OtherWebhook DEF RowTypes
<1>6. Paid(w)'
  <2>1. w \notin processed /\ upgrades[w] = {} /\ \A d \in Deliveries : delivery[w][d].pc = "idle"
    BY <1>1 DEF Paid, Underway
  <2>2. ASSUME NEW d \in Deliveries PROVE Underway(w, d)'
    BY <1>1, <2>1 DEF Underway
  <2> QED
    BY <1>1, <2>1, <2>2 DEF Paid, RowTypes, Issued
<1>7. Once(w)'
  BY <1>1 DEF Once, Acts, Before
<1> QED
  BY <1>2, <1>3, <1>5, <1>6, <1>7

\* What a delivery's step leaves to show: about its own webhook only.
LEMMA DeliveryStep ==
  ASSUME PInv, NEW w \in Webhooks, NEW d \in Deliveries, Onward, RowTypes', Known',
         UNCHANGED event,
         \A x \in Webhooks \ {w} : /\ delivery'[x] = delivery[x] /\ upgrades'[x] = upgrades[x]
                                   /\ early'[x] = early[x] /\ (x \in processed' <=> x \in processed),
         \A c \in Deliveries \ {d} : delivery'[w][c] = delivery[w][c],
         event[w].issued,
         w \in processed' => w \in processed \/ Effect(w)',
         upgrades'[w] \subseteq upgrades[w] \cup (IF event[w].user = NoUser THEN Users ELSE {event[w].user}),
         Underway(w, d)', Once(w)'
  PROVE  PInv'
<1> USE DEF PInv
<1>1. ASSUME NEW x \in Webhooks, x # w PROVE Paid(x)' /\ Once(x)'
  BY <1>1, OtherWebhook
<1>2. Effect(w) => Effect(w)'
  BY EffectStays
<1>3. ASSUME NEW c \in Deliveries, c # d PROVE Underway(w, c)'
  <2>1. Underway(w, c) /\ delivery'[w][c] = delivery[w][c]
    BY <1>3 DEF Paid
  <2> QED
    BY <1>2, <2>1 DEF Underway
<1>4. Paid(w)'
  <2>1. w \in processed' => Effect(w)'
    BY <1>2 DEF Paid
  <2>2. event[w].user # NoUser => upgrades'[w] \subseteq {event[w].user}
    BY DEF Paid
  <2> QED
    BY <1>3, <2>1, <2>2 DEF Paid
<1> QED
  BY <1>1, <1>4

\* What To and a step's frame say of the other webhooks and deliveries.
LEMMA ToOne ==
  ASSUME RowTypes, NEW w \in Webhooks, NEW d \in Deliveries, NEW pc, NEW u, To(w, d, pc, u)
  PROVE  /\ delivery'[w][d] = [pc |-> pc, user |-> u]
         /\ \A c \in Deliveries \ {d} : delivery'[w][c] = delivery[w][c]
         /\ \A x \in Webhooks \ {w} : delivery'[x] = delivery[x]
BY DEF RowTypes, To

DeliveryTypes == delivery \in [Webhooks -> [Deliveries ->
  [pc : {"idle", "look", "resolve", "upgrade", "record"}, user : Users \cup {NoUser}]]]

LEMMA ToTyped ==
  ASSUME RowTypes, NEW w \in Webhooks, NEW d \in Deliveries,
         NEW pc \in {"idle", "look", "resolve", "upgrade", "record"}, NEW u \in Users \cup {NoUser},
         To(w, d, pc, u)
  PROVE  DeliveryTypes'
<1> DEFINE row == [pc |-> pc, user |-> u]
<1>1. row \in [pc : {"idle", "look", "resolve", "upgrade", "record"}, user : Users \cup {NoUser}]
  OBVIOUS
<1>2. delivery' = [delivery EXCEPT ![w][d] = row]
  BY DEF To
<1> HIDE DEF row
<1> QED
  BY <1>1, <1>2 DEF RowTypes, DeliveryTypes

LEMMA ToIdle ==
  ASSUME RowTypes, NEW w \in Webhooks, NEW d \in Deliveries, To(w, d, "idle", NoUser)
  PROVE  Underway(w, d)'
<1>1. delivery'[w][d] = [pc |-> "idle", user |-> NoUser]
  BY ToOne
<1>2. delivery'[w][d].pc = "idle"
  BY <1>1
<1> QED
  BY <1>2 DEF Underway

\* A step that neither upgrades nor begins a delivery leaves fewer to act.
LEMMA OnceStays ==
  ASSUME PInv, NEW w \in Webhooks, early'[w] = early[w], upgrades'[w] = upgrades[w],
         w \in processed => w \in processed',
         \A c \in Deliveries : (Acts(w, c)' => Acts(w, c)) /\ (Before(w, c)' => Before(w, c))
  PROVE  Once(w)'
<1>1. Once(w)
  BY DEF PInv
<1> QED
  BY <1>1 DEF Once

LEMMA DeliverStep ==
  ASSUME PInv, NEW w \in Webhooks, NEW d \in Deliveries, Deliver(w, d)
  PROVE  PInv'
<1> USE DEF PInv
<1>1. /\ event[w].issued /\ delivery[w][d].pc = "idle" /\ To(w, d, "look", NoUser)
      /\ early' = [early EXCEPT ![w] = IF w \notin processed /\ @ < 2 THEN @ + 1 ELSE @]
      /\ UNCHANGED <<user, checkout, event, processed, upgrades, unknown>>
  BY DEF Deliver
<1>2. delivery'[w][d] = [pc |-> "look", user |-> NoUser] /\ \A c \in Deliveries \ {d} : delivery'[w][c] = delivery[w][c]
  BY <1>1, ToOne
<1>3. RowTypes' /\ Known' /\ Onward
  <2>0. RowTypes /\ DeliveryTypes'
    BY <1>1, ToTyped
  <2>1. RowTypes'
    BY <1>1, <2>0 DEF RowTypes, DeliveryTypes
  <2> QED
    BY <1>1, <2>1 DEF Known, Onward
<1>4. Underway(w, d)'
  BY <1>1, <1>2 DEF Underway
<1>5. Once(w)'
  <2>1. early[w] \in 0..2 /\ early'[w] = IF w \notin processed /\ early[w] < 2 THEN early[w] + 1 ELSE early[w]
    BY <1>1 DEF RowTypes
  <2>2. CASE w \in processed
    <3>1. ASSUME NEW c \in Deliveries PROVE (Acts(w, c)' => Acts(w, c)) /\ (Before(w, c)' => Before(w, c))
      BY <1>1, <1>2, <2>2 DEF Acts, Before
    <3> QED
      BY <1>1, <2>1, <2>2, <3>1, OnceStays
  <2>3. CASE w \notin processed
    <3>1. early'[w] # 0
      BY <2>1, <2>3
    <3>2. ASSUME early'[w] <= 1
          PROVE  /\ \A c, e \in Deliveries : Acts(w, c)' /\ Acts(w, e)' => c = e
                 /\ upgrades'[w] = {}
      <4>1. early[w] = 0
        BY <2>1, <2>3, <3>2
      <4>2. (\A c \in Deliveries : ~Acts(w, c)) /\ upgrades[w] = {}
        BY <2>3, <4>1 DEF Once
      <4>3. \A c \in Deliveries : Acts(w, c)' => c = d
        BY <1>1, <1>2, <4>2 DEF Acts
      <4> QED
        BY <1>1, <4>2, <4>3
    <3> QED
      BY <3>1, <3>2 DEF Once
  <2> QED
    BY <2>2, <2>3
<1> QED
  <2>1. \A x \in Webhooks \ {w} : /\ delivery'[x] = delivery[x] /\ upgrades'[x] = upgrades[x]
                                  /\ early'[x] = early[x] /\ (x \in processed' <=> x \in processed)
    BY <1>1, ToOne DEF RowTypes
  <2> QED
    BY <1>1, <1>2, <1>3, <1>4, <1>5, <2>1, DeliveryStep

\* Look, Resolve, Record, a failed query, an upgrade that throws.
LEMMA QuietStep ==
  ASSUME PInv, NEW w \in Webhooks, NEW d \in Deliveries,
         NEW pc \in {"idle", "resolve", "upgrade", "record"}, NEW u \in Users \cup {NoUser},
         To(w, d, pc, u), delivery[w][d].pc # "idle",
         UNCHANGED <<user, checkout, event, upgrades, early>>,
         processed \subseteq processed', processed' \subseteq processed \cup {w},
         w \in processed' => w \in processed \/ Effect(w)',
         unknown \subseteq unknown', unknown' \subseteq Webhooks,
         Underway(w, d)',
         pc # "idle" => Acts(w, d),
         pc \in {"resolve", "upgrade"} => Before(w, d)
  PROVE  PInv'
<1> USE DEF PInv
<1>1. delivery'[w][d] = [pc |-> pc, user |-> u] /\ \A c \in Deliveries \ {d} : delivery'[w][c] = delivery[w][c]
  BY ToOne
<1>2. RowTypes' /\ Known' /\ Onward
  <2>1. RowTypes
    OBVIOUS
  <2>2. DeliveryTypes'
    BY <2>1, ToTyped
  <2>3. RowTypes'
    BY <2>1, <2>2 DEF RowTypes, DeliveryTypes
  <2>4. Known' /\ Onward
    BY DEF Known, Onward
  <2> QED
    BY <2>3, <2>4
<1>3. Once(w)'
  <2>1. ASSUME NEW c \in Deliveries PROVE (Acts(w, c)' => Acts(w, c)) /\ (Before(w, c)' => Before(w, c))
    BY <1>1 DEF Acts, Before
  <2> QED
    BY <2>1, OnceStays
<1>4. \A x \in Webhooks \ {w} : /\ delivery'[x] = delivery[x] /\ upgrades'[x] = upgrades[x]
                                /\ early'[x] = early[x] /\ (x \in processed' <=> x \in processed)
  BY ToOne
<1>5. event[w].issued
  BY DEF Paid, Underway
<1> QED
  BY <1>1, <1>2, <1>3, <1>4, <1>5, DeliveryStep

LEMMA LookStep ==
  ASSUME PInv, NEW w \in Webhooks, NEW d \in Deliveries, Look(w, d)
  PROVE  PInv'
<1> USE DEF PInv
<1> DEFINE pc == IF w \in processed THEN "idle" ELSE IF event[w].activates THEN "resolve" ELSE "record"
<1>1. /\ delivery[w][d].pc = "look" /\ To(w, d, pc, NoUser)
      /\ UNCHANGED <<user, checkout, event, processed, upgrades, unknown, early>>
  BY DEF Look
<1>2. delivery'[w][d] = [pc |-> pc, user |-> NoUser]
  BY <1>1, ToOne
<1>3. Underway(w, d) /\ Paid(w)
  BY DEF Paid
<1>4. Underway(w, d)'
  <2>1. event[w].issued /\ event'[w] = event[w]
    BY <1>1, <1>3 DEF Underway
  <2>2. pc = "record" => Effect(w)'
    BY <1>1 DEF Effect
  <2> QED
    BY <1>2, <2>1, <2>2 DEF Underway
<1>5. pc # "idle" => Before(w, d) /\ Acts(w, d)
  BY <1>1 DEF Before, Acts
<1> QED
  <2>1. pc \in {"idle", "resolve", "record"}
    OBVIOUS
  <2> HIDE DEF pc
  <2>2. unknown \subseteq Webhooks
    BY DEF RowTypes
  <2> QED
    BY <1>1, <1>4, <1>5, <2>1, <2>2, QuietStep

LEMMA ResolveStep ==
  ASSUME PInv, NEW w \in Webhooks, NEW d \in Deliveries, Resolve(w, d)
  PROVE  PInv'
<1> USE DEF PInv
<1> DEFINE u == resolveUserForWebhook(event[w])
           pc == IF u = NoUser THEN "record" ELSE "upgrade"
<1>1. /\ delivery[w][d].pc = "resolve" /\ To(w, d, pc, u)
      /\ unknown' = IF u = NoUser THEN unknown \cup {w} ELSE unknown
      /\ UNCHANGED <<user, checkout, event, processed, upgrades, early>>
  BY DEF Resolve
<1>2. Paid(w) /\ Underway(w, d)
  BY DEF Paid
<1>3. u \in Users \cup {NoUser} /\ (event[w].user # NoUser => u \in {event[w].user, NoUser})
  BY DEF RowTypes, resolveUserForWebhook, Holder, Taken
<1>4. event[w].issued /\ event[w].activates
  BY <1>1, <1>2 DEF Underway
<1>5. u = NoUser => Effect(w)'
  <2>1. CASE event[w].user # NoUser
    <3>1. event[w].user \in Users /\ user[event[w].user].state \in {"new", "here", "gone"}
      BY <2>1 DEF RowTypes
    <3>2. user[event[w].user].state # "new"
      BY <2>1 DEF Known
    <3>3. u = NoUser => user[event[w].user].state = "gone"
      BY <2>1, <3>1, <3>2, NobodyAssumption DEF resolveUserForWebhook, Here
    <3> QED
      BY <1>1, <2>1, <3>3 DEF Effect
  <2>2. CASE event[w].user = NoUser
    BY <1>1, <2>2 DEF Effect
  <2> QED
    BY <2>1, <2>2
<1> HIDE DEF u
<1>6. Underway(w, d)'
  <2>1. delivery'[w][d] = [pc |-> pc, user |-> u]
    BY <1>1, ToOne
  <2>2. u # NoUser => u \in Users /\ (event[w].user # NoUser => u = event[w].user)
    BY <1>3
  <2> QED
    BY <1>1, <1>4, <1>5, <2>1, <2>2 DEF Underway
<1>7. Before(w, d) /\ Acts(w, d)
  BY <1>1 DEF Before, Acts
<1>8. unknown \subseteq unknown' /\ unknown' \subseteq Webhooks
  BY <1>1 DEF RowTypes
<1> QED
  <2>1. pc \in {"record", "upgrade"}
    OBVIOUS
  <2> HIDE DEF pc
  <2> QED
    BY <1>1, <1>3, <1>6, <1>7, <1>8, <2>1, QuietStep

LEMMA RecordStep ==
  ASSUME PInv, NEW w \in Webhooks, NEW d \in Deliveries, Record(w, d)
  PROVE  PInv'
<1> USE DEF PInv
<1>1. /\ delivery[w][d].pc = "record" /\ To(w, d, "idle", NoUser)
      /\ processed' = processed \cup {w}
      /\ UNCHANGED <<user, checkout, event, upgrades, unknown, early>>
  BY DEF Record
<1>2. Effect(w)
  BY <1>1 DEF Paid, Underway
<1>3. Effect(w)'
  BY <1>1, <1>2 DEF Effect
<1>4. Underway(w, d)'
  BY <1>1, ToIdle
<1>5. unknown \subseteq Webhooks
  BY DEF RowTypes
<1> QED
  BY <1>1, <1>3, <1>4, <1>5, QuietStep

LEMMA DeliveryFailsStep ==
  ASSUME PInv, NEW w \in Webhooks, NEW d \in Deliveries, DeliveryFails(w, d)
  PROVE  PInv'
<1> USE DEF PInv
<1>1. /\ delivery[w][d].pc # "idle" /\ To(w, d, "idle", NoUser)
      /\ UNCHANGED <<user, checkout, event, processed, upgrades, unknown, early>>
  BY DEF DeliveryFails
<1>2. Underway(w, d)'
  BY <1>1, ToIdle
<1>3. unknown \subseteq Webhooks
  BY DEF RowTypes
<1> QED
  BY <1>1, <1>2, <1>3, QuietStep

LEMMA UpgradedTyped ==
  ASSUME NEW S, NEW E, NEW f \in [Users -> [state : S, email : E, plan : Plans]], NEW u \in Users
  PROVE  [f EXCEPT ![u].plan = "PRO"] \in [Users -> [state : S, email : E, plan : Plans]]
BY DEF Plans

LEMMA UpgradeStep ==
  ASSUME PInv, NEW w \in Webhooks, NEW d \in Deliveries, Upgrade(w, d)
  PROVE  PInv'
<1> USE DEF PInv
<1> DEFINE u == delivery[w][d].user
<1>1. delivery[w][d].pc = "upgrade" /\ UNCHANGED <<checkout, event, processed, unknown, early>>
  BY DEF Upgrade
<1>2. Paid(w) /\ Underway(w, d) /\ Once(w)
  BY DEF Paid
<1>3. event[w].issued /\ event[w].activates /\ u \in Users /\ (event[w].user # NoUser => u = event[w].user)
  BY <1>1, <1>2 DEF Underway
<1>4. Before(w, d) /\ Acts(w, d)
  BY <1>1 DEF Before, Acts
<1>5. CASE ~Here(u)
  <2>1. To(w, d, "idle", NoUser) /\ UNCHANGED <<user, upgrades>>
    BY <1>5 DEF Upgrade
  <2>2. Underway(w, d)'
    BY <2>1, ToIdle
  <2>3. unknown \subseteq Webhooks
    BY DEF RowTypes
  <2> QED
    BY <1>1, <1>4, <2>1, <2>2, <2>3, QuietStep
<1>6. CASE Here(u)
  <2>1. /\ user' = [user EXCEPT ![u].plan = "PRO"]
        /\ upgrades' = [upgrades EXCEPT ![w] = @ \cup {u}]
        /\ To(w, d, "record", u)
    BY <1>6 DEF Upgrade
  <2> HIDE DEF u
  <2>2. /\ delivery'[w][d] = [pc |-> "record", user |-> u]
        /\ \A c \in Deliveries \ {d} : delivery'[w][c] = delivery[w][c]
    BY <2>1, ToOne
  <2>0. RowTypes /\ DeliveryTypes'
    BY <1>3, <2>1, ToTyped
  <2>3. RowTypes'
    <3>1. user' \in [Users -> [state : {"new", "here", "gone"}, email : Emails \cup {NoEmail}, plan : Plans]]
      BY <1>3, <2>0, <2>1, UpgradedTyped DEF RowTypes
    <3>2. upgrades' \in [Webhooks -> SUBSET Users]
      BY <1>3, <2>0, <2>1 DEF RowTypes
    <3> QED
      BY <1>1, <2>0, <3>1, <3>2 DEF RowTypes, DeliveryTypes
  <2>4. Known' /\ Onward
    <3>1. user[u].state # "new"
      BY <1>6 DEF Here
    <3>2. Known'
      BY <1>1, <1>3, <2>1, <3>1 DEF Known, RowTypes
    <3>3. Onward
      BY <1>1, <1>3, <2>1, <3>1 DEF Onward, RowTypes
    <3> QED
      BY <3>2, <3>3
  <2>5. upgrades'[w] = upgrades[w] \cup {u} /\ user'[u].plan = "PRO"
    BY <1>3, <2>1 DEF RowTypes
  <2>6. Effect(w)'
    BY <1>1, <1>3, <2>5 DEF Effect
  <2>7. Underway(w, d)'
    BY <1>1, <1>3, <2>2, <2>6 DEF Underway
  <2>8. Once(w)'
    <3>1. early[w] # 0
      BY <1>2, <1>4 DEF Once
    <3>2. ASSUME early[w] <= 1
          PROVE  /\ \A c, e \in Deliveries : Acts(w, c)' /\ Acts(w, e)' => c = e
                 /\ \A c \in Deliveries : ~Before(w, c)'
                 /\ \A x, v \in upgrades'[w] : x = v
      <4>1. \A c \in Deliveries : Acts(w, c) => c = d
        BY <1>2, <1>4, <3>2 DEF Once
      <4>2. upgrades[w] = {}
        BY <1>2, <1>4, <3>2 DEF Once
      <4>3. \A c \in Deliveries : Acts(w, c)' => c = d
        BY <1>1, <2>2, <4>1 DEF Acts
      <4>4. \A c \in Deliveries : ~Before(w, c)'
        BY <1>1, <2>2, <4>1 DEF Acts, Before
      <4> QED
        BY <2>5, <4>2, <4>3, <4>4
    <3> QED
      BY <1>1, <3>1, <3>2 DEF Once
  <2>9. upgrades'[w] \subseteq upgrades[w] \cup (IF event[w].user = NoUser THEN Users ELSE {event[w].user})
    BY <1>3, <2>5
  <2>10. \A x \in Webhooks \ {w} : /\ delivery'[x] = delivery[x] /\ upgrades'[x] = upgrades[x]
                                   /\ early'[x] = early[x] /\ (x \in processed' <=> x \in processed)
    <3>1. RowTypes /\ \A x \in Webhooks \ {w} : delivery'[x] = delivery[x]
      BY <2>1, ToOne
    <3> QED
      BY <1>1, <2>1, <3>1 DEF RowTypes
  <2> QED
    BY <1>1, <1>3, <2>2, <2>3, <2>4, <2>7, <2>8, <2>9, <2>10, DeliveryStep
<1> QED
  BY <1>5, <1>6

LEMMA CrashStep ==
  ASSUME PInv, CrashBilling
  PROVE  PInv'
<1> USE DEF PInv
<1>1. /\ delivery' = [w \in Webhooks |-> [d \in Deliveries |-> Idle]]
      /\ UNCHANGED <<user, checkout, event, processed, upgrades, unknown, early>>
  BY DEF CrashBilling
<1>2. RowTypes' /\ Known'
  <2>1. Idle \in [pc : {"idle", "look", "resolve", "upgrade", "record"}, user : Users \cup {NoUser}]
    BY DEF Idle
  <2> QED
    BY <1>1, <2>1 DEF RowTypes, Known
<1>3. ASSUME NEW w \in Webhooks PROVE Paid(w)' /\ Once(w)'
  <2>1. Paid(w) /\ \A d \in Deliveries : delivery'[w][d].pc = "idle"
    BY <1>1 DEF Idle
  <2>2. \A d \in Deliveries : Underway(w, d)'
    BY <2>1 DEF Underway
  <2>3. Effect(w) => Effect(w)'
    BY <1>1 DEF Effect
  <2>4. Paid(w)'
    BY <1>1, <2>1, <2>2, <2>3 DEF Paid
  <2>5. \A d \in Deliveries : ~Acts(w, d)' /\ ~Before(w, d)'
    BY <2>1 DEF Acts, Before
  <2>6. Once(w)'
    BY <1>1, <2>5, OnceStays
  <2> QED
    BY <2>4, <2>6
<1> QED
  BY <1>2, <1>3

-----------------------------------------------------------------------------

LEMMA PaidStep == PInv /\ [Next]_vars => PInv'
<1> SUFFICES ASSUME PInv, Step PROVE PInv'
  BY NextIsStep
<1>1. CASE UNCHANGED userVars
  <2>1. Onward
    BY <1>1 DEF userVars, billingVars, Onward
  <2>2. RowTypes' /\ Known'
    BY <1>1 DEF userVars, billingVars, PInv, RowTypes, Known
  <2> QED
    BY <1>1, <2>1, <2>2, UsersStep DEF userVars
<1>2. CASE CrashBilling
  BY <1>2, CrashStep
<1>3. ASSUME NEW u \in Users, LeaveBilling(u) PROVE PInv'
  BY <1>3, LeaveStep
<1>4. CASE BillingStep
  BY <1>4, CheckoutStep, RegisterStep, UpdateUserStep, IssueStep, DeliverStep, LookStep, ResolveStep,
     UpgradeStep, RecordStep, DeliveryFailsStep DEF BillingStep, HandleDelivery
<1> QED
  BY <1>1, <1>2, <1>3, <1>4 DEF Step

LEMMA AlwaysPaid == Spec => []PInv
  BY InitPaid, PaidStep, PTL DEF Spec

\* A payment that is recorded, and so never delivered again, has had its effect,
\* for any number of users, webhooks, overlapping deliveries, crashes and failures.
THEOREM RecordedPaymentsKeepTheirPromise == Spec => []RecordedPaymentsTookEffect
<1>1. ASSUME PInv PROVE RecordedPaymentsTookEffect
  <2>1. ASSUME NEW w \in processed PROVE Effect(w)
    <3>1. w \in Webhooks
      BY <1>1 DEF PInv, RowTypes
    <3> QED
      BY <1>1, <3>1 DEF PInv, Paid
  <2> QED
    BY <2>1 DEF Effect, RecordedPaymentsTookEffect, Here
<1> QED
  BY <1>1, AlwaysPaid, PTL

\* A payment upgrades the user it names and nobody else, and one that names nobody
\* upgrades two users only if two deliveries began before it was recorded.
THEOREM PaymentsUpgradeOneUserOnly == Spec => []PaymentsUpgradeOneUser
<1>1. ASSUME PInv PROVE PaymentsUpgradeOneUser
  <2> SUFFICES ASSUME NEW w \in Webhooks
               PROVE  /\ event[w].user # NoUser => upgrades[w] \subseteq {event[w].user}
                      /\ Cardinality(upgrades[w]) > 1 => early[w] > 1
    BY DEF PaymentsUpgradeOneUser
  <2>1. Paid(w) /\ Once(w) /\ early[w] \in 0..2
    BY <1>1 DEF PInv, RowTypes
  <2>2. ASSUME early[w] <= 1 PROVE Cardinality(upgrades[w]) \in {0, 1}
    <3>1. CASE upgrades[w] = {}
      BY <3>1, FS_EmptySet
    <3>2. ASSUME NEW u \in upgrades[w] PROVE Cardinality(upgrades[w]) = 1
      <4>1. upgrades[w] = {u}
        BY <2>1, <2>2, <3>2 DEF Once
      <4>2. Cardinality({u}) = 1
        BY FS_Singleton
      <4> QED
        BY <4>1, <4>2
    <3> QED
      BY <3>1, <3>2
  <2>3. Cardinality(upgrades[w]) > 1 => early[w] > 1
    <3>1. CASE early[w] = 2
      BY <3>1
    <3>2. CASE early[w] <= 1
      BY <2>2, <3>2
    <3> QED
      BY <2>1, <3>1, <3>2
  <2> QED
    BY <2>1, <2>3 DEF Paid
<1> QED
  BY <1>1, AlwaysPaid, PTL
=============================================================================
