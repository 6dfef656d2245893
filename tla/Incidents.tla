----------------------------- MODULE Incidents -----------------------------
(***************************************************************************)
(* The incidents table and the queries IncidentsRepository runs on it.     *)
(* A row is a record; the table is a set of rows with distinct ids.  Each  *)
(* operator is one statement that PostgreSQL executes atomically: what is  *)
(* NOT atomic (reading for an open incident and then creating one) is left *)
(* to the modules that call them.                                          *)
(***************************************************************************)
EXTENDS Integers

\* The SQL NULL of confirmedAt, resolvedAt and lastCheckedAt.
NoTime == -1

\* The instants a row can hold, NULL included.
TimeOrNull == Nat \cup {NoTime}

\* The rows of the table for monitors of the set M.
IncidentRows(M) ==
  [id : Nat, monitor : M, startedAt : Nat, confirmedAt : Nat, resolvedAt : TimeOrNull]

\* The unresolved incidents of monitor m.
OpenIncidents(rows, m) == {i \in rows : i.monitor = m /\ i.resolvedAt = NoTime}

\* findFirst({resolvedAt: null}, orderBy startedAt desc): the rows the query
\* may return, any of the newest ones; the empty set is its null.
FindOpen(rows, m) ==
  {i \in OpenIncidents(rows, m) :
      \A j \in OpenIncidents(rows, m) : j.startedAt <= i.startedAt}

\* INSERT of a row under a fresh id.
WithIncident(rows, id, m, started, confirmed) ==
  rows \cup {[id |-> id, monitor |-> m, startedAt |-> started,
              confirmedAt |-> confirmed, resolvedAt |-> NoTime]}

\* UPDATE of resolvedAt by id, whatever resolvedAt was before.
WithResolved(rows, id, at) ==
  {IF i.id = id THEN [i EXCEPT !.resolvedAt = at] ELSE i : i \in rows}

\* The rows left when monitor m is deleted: incidents cascade with it.
WithoutMonitor(rows, m) == {i \in rows : i.monitor # m}
=============================================================================
