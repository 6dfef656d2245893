------------------------------- MODULE Billing -------------------------------
(***************************************************************************)
(* Users and how they come to the PRO plan: a checkout is opened with the  *)
(* payment provider, and the provider's webhooks activate the plan.        *)
(* The provider delivers a webhook again until it is answered with         *)
(* success, and may deliver it twice at once.                              *)
(*                                                                         *)
(* Every await of a delivery is an action.  A registration or a change of  *)
(* address is one action: its look-up can only refuse it, and the unique   *)
(* index decides when it is written.                                       *)
(***************************************************************************)
EXTENDS Integers, FiniteSets

CONSTANTS
  Users,        \* ids of users, each used once
  Emails,
  Webhooks,     \* webhook ids of the provider
  Deliveries,   \* deliveries of a webhook at the same time
  NoUser,       \* no metadata, or nobody found
  NoEmail,
  MaxOperations,  \* bound: operations of each kind in a behaviour
  MaxFailures     \* bound: crashes, failing queries

ASSUME NobodyAssumption == NoUser \notin Users /\ NoEmail \notin Emails
ASSUME OperationsAssumption == MaxOperations \in Nat /\ MaxFailures \in Nat

VARIABLES
  user,       \* the rows of users
  checkout,   \* users who opened a checkout
  event,      \* what the provider has issued under a webhook id
  delivery,   \* the deliveries being handled
  processed,  \* the rows of billingWebhookEvent
  upgrades,   \* ghost: the users a webhook has upgraded
  unknown,    \* ghost: webhooks whose user was looked for and not found
  early,      \* ghost: deliveries begun before the webhook was recorded, up to 2
  left,       \* what may still be asked for in this behaviour
  failures

billingVars == <<event, delivery, processed, upgrades, unknown, early>>
userVars == <<user, checkout, billingVars, failures>>

Plans == {"FREE", "PRO"}
Operations == {"register", "email", "leave", "pay", "monitor", "contact", "update", "page", "delete"}
Events == [activates : BOOLEAN, user : Users \cup {NoUser}, email : Emails \cup {NoEmail}]
NoEvent == [activates |-> FALSE, user |-> NoUser, email |-> NoEmail, issued |-> FALSE]
Issued(e) == [activates |-> e.activates, user |-> e.user, email |-> e.email, issued |-> TRUE]
Idle == [pc |-> "idle", user |-> NoUser]

Here(u) == user[u].state = "here"

BillingInit ==
  /\ event = [w \in Webhooks |-> NoEvent]
  /\ delivery = [w \in Webhooks |-> [d \in Deliveries |-> Idle]]
  /\ processed = {}
  /\ upgrades = [w \in Webhooks |-> {}]
  /\ unknown = {}
  /\ early = [w \in Webhooks |-> 0]

UsersInit ==
  /\ user = [u \in Users |-> [state |-> "new", email |-> NoEmail, plan |-> "FREE"]]
  /\ checkout = {}
  /\ failures = 0
  /\ left \in [Operations -> 0..MaxOperations]

Ask(operation) ==
  /\ left[operation] > 0
  /\ left' = [left EXCEPT ![operation] = @ - 1]

-----------------------------------------------------------------------------
(* Users *)

Taken(email) == \E u \in Users : Here(u) /\ user[u].email = email

Register(u, email) ==
  /\ user[u].state = "new" /\ ~Taken(email)
  /\ Ask("register")
  /\ user' = [user EXCEPT ![u] = [state |-> "here", email |-> email, plan |-> "FREE"]]
  /\ UNCHANGED <<checkout, billingVars, failures>>

UpdateUser(u, email) ==
  /\ Here(u) /\ ~Taken(email)
  /\ Ask("email")
  /\ user' = [user EXCEPT ![u].email = email]
  /\ UNCHANGED <<checkout, billingVars, failures>>

LeaveBilling(u) ==
  /\ Here(u)
  /\ Ask("leave")
  /\ user' = [user EXCEPT ![u] = [state |-> "gone", email |-> NoEmail, plan |-> @.plan]]
  /\ UNCHANGED <<checkout, billingVars, failures>>

\* The session carries the user's id in its metadata.
CreateCheckout(u) ==
  /\ Here(u) /\ user[u].plan # "PRO" /\ u \notin checkout
  /\ checkout' = checkout \cup {u}
  /\ UNCHANGED <<user, billingVars, left, failures>>

-----------------------------------------------------------------------------
(* Webhooks *)

\* The provider issues an event: of a checkout, with the customer's address
\* whatever it is, or of a subscription made elsewhere, without metadata.
Issue(w, e) ==
  /\ ~event[w].issued
  /\ e.user \in checkout \cup {NoUser}
  /\ Ask("pay")
  /\ event' = [event EXCEPT ![w] = Issued(e)]
  /\ UNCHANGED <<user, checkout, delivery, processed, upgrades, unknown, early, failures>>

To(w, d, pc, u) == delivery' = [delivery EXCEPT ![w][d] = [pc |-> pc, user |-> u]]

Deliver(w, d) ==
  /\ event[w].issued /\ delivery[w][d].pc = "idle"
  /\ To(w, d, "look", NoUser)
  /\ early' = [early EXCEPT ![w] = IF w \notin processed /\ @ < 2 THEN @ + 1 ELSE @]
  /\ UNCHANGED <<user, checkout, event, processed, upgrades, unknown, left, failures>>

\* Mutant of Look: a webhook that was processed is processed again.
LookNowhere(w, d) ==
  /\ delivery[w][d].pc = "look"
  /\ To(w, d, IF event[w].activates THEN "resolve" ELSE "record", NoUser)
  /\ UNCHANGED <<user, checkout, event, processed, upgrades, unknown, early, left, failures>>

\* Mutant of Look: the webhook is recorded before it is processed.
LookAndRecord(w, d) ==
  /\ delivery[w][d].pc = "look"
  /\ To(w, d, IF w \in processed \/ ~event[w].activates THEN "idle" ELSE "resolve", NoUser)
  /\ processed' = processed \cup {w}
  /\ UNCHANGED <<user, checkout, event, upgrades, unknown, early, left, failures>>

\* findProcessedWebhookById; an event that does not activate PRO is only recorded.
Look(w, d) ==
  /\ delivery[w][d].pc = "look"
  /\ To(w, d, IF w \in processed THEN "idle"
              ELSE IF event[w].activates THEN "resolve" ELSE "record", NoUser)
  /\ UNCHANGED <<user, checkout, event, processed, upgrades, unknown, early, left, failures>>

Holder(email) == IF Taken(email) THEN CHOOSE u \in Users : Here(u) /\ user[u].email = email ELSE NoUser

\* The metadata's user, found or not; the customer's address without metadata.
resolveUserForWebhook(e) ==
  IF e.user # NoUser THEN IF Here(e.user) THEN e.user ELSE NoUser ELSE Holder(e.email)

\* Mutant of Resolve: nobody found is an error.
ResolveOrThrow(w, d) ==
  LET u == resolveUserForWebhook(event[w]) IN
  /\ delivery[w][d].pc = "resolve"
  /\ To(w, d, IF u = NoUser THEN "idle" ELSE "upgrade", u)
  /\ UNCHANGED <<user, checkout, event, processed, upgrades, unknown, early, left, failures>>

\* Nobody found: the event is recorded, without effect.
Resolve(w, d) ==
  LET u == resolveUserForWebhook(event[w]) IN
  /\ delivery[w][d].pc = "resolve"
  /\ To(w, d, IF u = NoUser THEN "record" ELSE "upgrade", u)
  /\ unknown' = IF u = NoUser THEN unknown \cup {w} ELSE unknown
  /\ UNCHANGED <<user, checkout, event, processed, upgrades, early, left, failures>>

\* updatePlanForBilling; it throws when the user was deleted meanwhile.
Upgrade(w, d) ==
  LET u == delivery[w][d].user IN
  /\ delivery[w][d].pc = "upgrade"
  /\ IF Here(u)
     THEN /\ user' = [user EXCEPT ![u].plan = "PRO"]
          /\ upgrades' = [upgrades EXCEPT ![w] = @ \cup {u}]
          /\ To(w, d, "record", u)
     ELSE /\ To(w, d, "idle", NoUser)
          /\ UNCHANGED <<user, upgrades>>
  /\ UNCHANGED <<checkout, event, processed, unknown, early, left, failures>>

\* createProcessedWebhookEvent; the unique id refuses a second row.
Record(w, d) ==
  /\ delivery[w][d].pc = "record"
  /\ processed' = processed \cup {w}
  /\ To(w, d, "idle", NoUser)
  /\ UNCHANGED <<user, checkout, event, upgrades, unknown, early, left, failures>>

\* A query fails: the answer is an error.
DeliveryFails(w, d) ==
  /\ delivery[w][d].pc # "idle" /\ failures < MaxFailures
  /\ failures' = failures + 1
  /\ To(w, d, "idle", NoUser)
  /\ UNCHANGED <<user, checkout, event, processed, upgrades, unknown, early, left>>

\* The API process dies, with every delivery it was handling.
CrashBilling ==
  /\ failures < MaxFailures
  /\ failures' = failures + 1
  /\ delivery' = [w \in Webhooks |-> [d \in Deliveries |-> Idle]]
  /\ UNCHANGED <<user, checkout, event, processed, upgrades, unknown, early, left>>

HandleDelivery(w, d) == Look(w, d) \/ Resolve(w, d) \/ Upgrade(w, d) \/ Record(w, d)

\* Every step that concerns billing alone.
BillingStep ==
  \/ \E u \in Users :
       \/ CreateCheckout(u)
       \/ \E email \in Emails : Register(u, email) \/ UpdateUser(u, email)
  \/ \E w \in Webhooks :
       \/ \E e \in Events : Issue(w, e)
       \/ \E d \in Deliveries : Deliver(w, d) \/ HandleDelivery(w, d) \/ DeliveryFails(w, d)

-----------------------------------------------------------------------------
(* Properties *)

BillingTypeOK ==
  /\ user \in [Users -> [state : {"new", "here", "gone"}, email : Emails \cup {NoEmail}, plan : Plans]]
  /\ checkout \subseteq Users
  /\ \A w \in Webhooks : event[w] = NoEvent \/ \E e \in Events : event[w] = Issued(e)
  /\ delivery \in [Webhooks -> [Deliveries ->
       [pc : {"idle", "look", "resolve", "upgrade", "record"}, user : Users \cup {NoUser}]]]
  /\ processed \subseteq Webhooks /\ unknown \subseteq Webhooks
  /\ upgrades \in [Webhooks -> SUBSET Users]
  /\ early \in [Webhooks -> 0..2]
  /\ left \in [Operations -> 0..MaxOperations]
  /\ failures \in 0..MaxFailures

\* A payment that is recorded has had its effect: the user it names is PRO, or
\* is gone; a payment that names nobody has made somebody PRO, or its address was
\* looked for and nobody had it.  The webhook is never delivered again, so what
\* it has not done by now is lost.
RecordedPaymentsTookEffect ==
  \A w \in processed : LET e == event[w] IN
    e.activates =>
      IF e.user # NoUser THEN user[e.user].plan = "PRO" \/ ~Here(e.user)
      ELSE (\E u \in upgrades[w] : user[u].plan = "PRO") \/ w \in unknown

\* A payment upgrades one user: the one who opened the checkout, whatever address
\* the provider has, or else the holder of the address.  An address that changes
\* hands lets a payment upgrade a second user only when another delivery began
\* before the first was recorded; never once it is recorded.
PaymentsUpgradeOneUser ==
  \A w \in Webhooks :
    /\ event[w].user # NoUser => upgrades[w] \subseteq {event[w].user}
    /\ Cardinality(upgrades[w]) > 1 => early[w] > 1

\* Every event of the provider is processed in the end, whatever crashes, fails or
\* is deleted before.
PaymentsAreSettled == \A w \in Webhooks : event[w].issued ~> w \in processed
=============================================================================
