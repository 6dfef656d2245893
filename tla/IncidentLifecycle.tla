------------------------- MODULE IncidentLifecycle -------------------------
(***************************************************************************)
(* What incident handling promises of each monitor, whatever detects the   *)
(* outage: at most one incident is open, its opening and its resolution    *)
(* are each announced at most once and in that order, and an announcement  *)
(* not yet made is made before the next event or never.  openIncident-     *)
(* ForMonitor and resolveOpenIncidentForMonitor are the code that has to   *)
(* keep this promise.                                                      *)
(***************************************************************************)
EXTENDS Integers, Sequences

CONSTANT Monitors

VARIABLES
  known,     \* the monitors not deleted
  current,   \* per monitor: the id of its open incident, 0 when it has none
  opened,    \* incidents opened so far
  owed,      \* per monitor: the announcement of its last event, until made
  told       \* per monitor: the announcements made, in order

lifecycleVars == <<known, current, opened, owed, told>>

Events == {"MONITOR_DOWN", "MONITOR_RECOVERED"}
Announcement == [event : Events, incident : Nat]
NothingOwed == [event |-> "NONE", incident |-> 0]

TypeOK ==
  /\ known \subseteq Monitors
  /\ current \in [Monitors -> Nat]
  /\ opened \in Nat
  /\ owed \in [Monitors -> Announcement \cup {NothingOwed}]
  /\ told \in [Monitors -> Seq(Announcement)]

Init ==
  /\ known = Monitors
  /\ current = [m \in Monitors |-> 0]
  /\ opened = 0
  /\ owed = [m \in Monitors |-> NothingOwed]
  /\ told = [m \in Monitors |-> <<>>]

Open(m) ==
  /\ m \in known /\ current[m] = 0 /\ owed[m] = NothingOwed
  /\ opened' = opened + 1
  /\ current' = [current EXCEPT ![m] = opened + 1]
  /\ owed' = [owed EXCEPT ![m] = [event |-> "MONITOR_DOWN", incident |-> opened + 1]]
  /\ UNCHANGED <<known, told>>

Resolve(m) ==
  /\ m \in known /\ current[m] # 0 /\ owed[m] = NothingOwed
  /\ current' = [current EXCEPT ![m] = 0]
  /\ owed' = [owed EXCEPT ![m] = [event |-> "MONITOR_RECOVERED", incident |-> current[m]]]
  /\ UNCHANGED <<known, opened, told>>

Announce(m) ==
  /\ m \in known /\ owed[m] # NothingOwed
  /\ told' = [told EXCEPT ![m] = Append(@, owed[m])]
  /\ owed' = [owed EXCEPT ![m] = NothingOwed]
  /\ UNCHANGED <<known, current, opened>>

\* The announcement is lost in a failure, or nobody is there to receive it.
Drop(m) ==
  /\ owed[m] # NothingOwed
  /\ owed' = [owed EXCEPT ![m] = NothingOwed]
  /\ UNCHANGED <<known, current, opened, told>>

\* The monitor is deleted, and its incidents with it.
Forget(m) ==
  /\ m \in known
  /\ known' = known \ {m}
  /\ current' = [current EXCEPT ![m] = 0]
  /\ UNCHANGED <<opened, owed, told>>

Next == \E m \in Monitors : Open(m) \/ Resolve(m) \/ Announce(m) \/ Drop(m) \/ Forget(m)

Spec == Init /\ [][Next]_lifecycleVars
=============================================================================
