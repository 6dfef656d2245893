--------------------------- MODULE MCNotifications ---------------------------
(* A finite instance of Notifications.  Contacts and pages share nothing but   *)
(* the changes of the incidents, and alert jobs share nothing but the worker:  *)
(* a behaviour has two contacts and one change to come, or one contact and     *)
(* two, or no contacts and a page.                                             *)
EXTENDS Notifications

CONSTANTS c1, c2

TwoContacts == {<<Contact(c1, t), Contact(c2, u)>> : t, u \in Types}

OneChange == contacts \in TwoContacts /\ check = Success(MaxChecks - 1)
TwoChanges == contacts = <<Contact(c1, "WEBHOOK")>> /\ check = Success(MaxChecks - 2)

WithContacts == (OneChange \/ TwoChanges) /\ heartbeat /\ connects = MaxConnects /\ edits = 0
WithPages == contacts = <<>> /\ check = Success(0) /\ connects = 0 /\ edits = MaxEdits

MCInit == /\ Unstarted
          /\ WithContacts \/ WithPages

MCSpec == MCInit /\ [][Next]_vars /\ Fairness
=============================================================================
