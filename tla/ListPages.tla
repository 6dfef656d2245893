------------------------------ MODULE ListPages ------------------------------
(***************************************************************************)
(* The pages of alert contacts and of status pages: a list shown page by   *)
(* page, and one form that creates a row, or edits the row it was filled   *)
(* from.  The two differ in what a form holds, in the plan's limit, and in *)
(* what a deletion does to the form.                                       *)
(*                                                                         *)
(* While the browser is offline, a request waits; when it is sent, the     *)
(* page says again which row it is for.  The API answers in one step       *)
(* (Account has the steps), and the answer reaches the page later.         *)
(***************************************************************************)
EXTENDS Naturals, FiniteSets

CONSTANTS
  Ids,               \* ids of rows, a range of numbers: the order of creation
  NoId,
  Slugs,
  ShownMonitors,     \* monitors a status page may show
  maxAlertContacts,  \* the limit of the plan
  PAGE_SIZE

ASSUME ListPagesAssumption == Ids \subseteq Nat \ {0} /\ NoId \notin Ids /\ PAGE_SIZE \in Nat \ {0}

Sites == {"alerts", "status-pages"}

VARIABLES
  site,      \* the page this behaviour is about
  table,     \* per id, whether the row is new, here or gone, and the row
  alive,     \* the monitors there are
  listPage,  \* the page of the list that is shown
  lists,     \* per page of the list with data: its items and the total
  loading,   \* per page of the list being fetched: the answer
  form,      \* the form, the row it is for, and ghost: the row that filled it
  mutation,  \* per request, what it asks and how far it is
  online,    \* the browser is online
  steps      \* bound: what may still be done how often

listVars == <<site, table, alive, listPage, lists, loading, form, mutation, online, steps>>

Do(step) == steps[step] > 0 /\ steps' = [steps EXCEPT ![step] = @ - 1]

-----------------------------------------------------------------------------
(* Forms *)

\* What the values of contacts tell apart.
Values == {"", "email", "phone", "url"}
ContactForms == [type : {"EMAIL", "SMS", "WEBHOOK"}, value : Values]
StatusPageForms == [slug : Slugs \cup {""}, description : {"", "text"}, monitorIds : SUBSET ShownMonitors]
AnyForm == IF site = "alerts" THEN ContactForms ELSE StatusPageForms

defaultFormValues ==
  IF site = "alerts" THEN [type |-> "EMAIL", value |-> ""]
  ELSE [slug |-> "", description |-> "", monitorIds |-> {}]

\* The API's rules for contacts are those of the form.
alertContactSchema(f) ==
  f.value = CASE f.type = "EMAIL" -> "email" [] f.type = "SMS" -> "phone" [] f.type = "WEBHOOK" -> "url"
statusPageSchema(f) == f.slug # ""
ValidForm(f) == IF site = "alerts" THEN alertContactSchema(f) ELSE statusPageSchema(f)

\* An empty description is not sent, and what is not sent stays.
toStatusPagePayload(f, row) == [f EXCEPT !.description = IF @ = "" THEN row.description ELSE @]
Written(f, row) == IF site = "alerts" THEN f ELSE toStatusPagePayload(f, row)

Unfilled == [editing |-> NoId, values |-> defaultFormValues, filledFrom |-> NoId]

\* Mutant of resetForm: the row stays the one edited.
resetFields == form' = [form EXCEPT !.values = defaultFormValues, !.filledFrom = NoId]

resetForm == form' = Unfilled

-----------------------------------------------------------------------------
(* Lists *)

Existing == {i \in Ids : table[i].state = "here"}

\* findMany, newest first, and count: in one step, which hides that the two differ
\* when a row is created or deleted in between.
PageOf(p) ==
  LET Newer(i) == Cardinality({j \in Existing : j > i})
      items == {i \in Existing : (p - 1) * PAGE_SIZE <= Newer(i) /\ Newer(i) < p * PAGE_SIZE}
  IN [items |-> [i \in items |-> table[i].row], total |-> Cardinality(Existing)]

ListLoaded == listPage \in DOMAIN lists
ShownItems == IF ListLoaded THEN lists[listPage].items ELSE <<>>
totalPages == (lists[listPage].total + PAGE_SIZE - 1) \div PAGE_SIZE

\* The query of page p has this answer now.
WithPage(pages, p, answer) == [q \in DOMAIN pages \cup {p} |-> IF q = p THEN answer ELSE pages[q]]

\* Fetched when it is shown, unless it has been within the minute.
LoadList(p) ==
  \/ loading' = WithPage(loading, p, PageOf(p))
  \/ p \in DOMAIN lists /\ UNCHANGED loading

PreviousPage ==
  /\ ListLoaded /\ listPage > 1 /\ Do("page")
  /\ listPage' = listPage - 1 /\ LoadList(listPage')
  /\ UNCHANGED <<site, table, alive, lists, form, mutation, online>>

NextListPage ==
  /\ ListLoaded /\ listPage < totalPages /\ Do("page")
  /\ listPage' = listPage + 1 /\ LoadList(listPage')
  /\ UNCHANGED <<site, table, alive, lists, form, mutation, online>>

\* The API reads the list when the request is sent, or as late as it may.
Loads(p) ==
  /\ p \in DOMAIN loading /\ online
  /\ \E answer \in {loading[p], PageOf(p)} : lists' = WithPage(lists, p, answer)
  /\ loading' = [q \in DOMAIN loading \ {p} |-> loading[q]]
  /\ UNCHANGED <<site, table, alive, listPage, form, mutation, online, steps>>

-----------------------------------------------------------------------------
(* The form *)

startEditing(i) ==
  /\ i \in DOMAIN ShownItems /\ Do("edit")
  /\ form' = [editing |-> i, values |-> ShownItems[i], filledFrom |-> i]
  /\ UNCHANGED <<site, table, alive, listPage, lists, loading, mutation, online>>

CancelEditing ==
  /\ form.editing # NoId /\ Do("edit")
  /\ resetForm
  /\ UNCHANGED <<site, table, alive, listPage, lists, loading, mutation, online>>

\* Monitors are ticked in the list of those there are: one that is gone cannot be
\* unticked.
toggleMonitor(values) ==
  site = "status-pages" => values.monitorIds \ alive = form.values.monitorIds \ alive

TypeInForm(values) ==
  /\ values # form.values /\ toggleMonitor(values) /\ Do("type")
  /\ form' = [form EXCEPT !.values = values]
  /\ UNCHANGED <<site, table, alive, listPage, lists, loading, mutation, online>>

-----------------------------------------------------------------------------
(* Requests *)

NoMutation == [pc |-> "idle"]
isSubmitting == mutation["create"].pc # "idle" \/ mutation["update"].pc # "idle"

\* The limit is known from the list, and 0 rows are while it loads.
canCreateMore ==
  site = "alerts" => (IF ListLoaded THEN lists[listPage].total ELSE 0) < maxAlertContacts

\* A request is sent, for the row the page names at that moment.
SendNow(o, request) ==
  IF o = "update" /\ form.editing = NoId THEN [pc |-> "answered", ok |-> FALSE]
  ELSE [request EXCEPT !.pc = "sent", !.target = IF o = "update" THEN form.editing ELSE @]

Mutate(o, request) ==
  mutation' = [mutation EXCEPT ![o] = IF online THEN SendNow(o, request) ELSE [request EXCEPT !.pc = "waiting"]]

handleSubmit ==
  /\ ~isSubmitting /\ ValidForm(form.values) /\ Do("submit")
  /\ LET o == IF form.editing # NoId THEN "update" ELSE "create" IN
     /\ o = "create" => canCreateMore
     /\ Mutate(o, [pc |-> "new", target |-> NoId, values |-> form.values,
                   filledFrom |-> form.filledFrom, waited |-> ~online, ok |-> FALSE])
  /\ UNCHANGED <<site, table, alive, listPage, lists, loading, form, online>>

AskDelete(i) ==
  /\ mutation["delete"].pc = "idle" /\ i \in DOMAIN ShownItems /\ Do("submit")
  /\ Mutate("delete", [pc |-> "new", target |-> i, ok |-> FALSE])
  /\ UNCHANGED <<site, table, alive, listPage, lists, loading, form, online>>

GoOffline ==
  /\ online /\ Do("offline")
  /\ online' = FALSE
  /\ UNCHANGED <<site, table, alive, listPage, lists, loading, form, mutation>>

\* What waited is sent.
GoOnline ==
  /\ ~online /\ online' = TRUE
  /\ mutation' = [o \in DOMAIN mutation |-> IF mutation[o].pc = "waiting" THEN SendNow(o, mutation[o])
                                            ELSE mutation[o]]
  /\ UNCHANGED <<site, table, alive, listPage, lists, loading, form, steps>>

\* A slug is unique, monitors must exist.
MayWrite(values, i) ==
  site = "status-pages" =>
    /\ values.monitorIds \subseteq alive
    /\ \A other \in Existing \ {i} : table[other].row.slug # values.slug

ServeCreateRow ==
  LET r == mutation["create"] IN
  /\ r.pc = "sent"
  /\ IF MayWrite(r.values, NoId) /\ (site = "alerts" => Cardinality(Existing) < maxAlertContacts)
     THEN \E i \in Ids :
            /\ table[i].state = "new" /\ \A j \in Ids : j < i => table[j].state # "new"
            /\ table' = [table EXCEPT ![i] = [state |-> "here", row |-> r.values]]
            /\ mutation' = [mutation EXCEPT !["create"].pc = "answered", !["create"].ok = TRUE]
     ELSE mutation' = [mutation EXCEPT !["create"].pc = "answered"] /\ UNCHANGED table
  /\ UNCHANGED <<site, alive, listPage, lists, loading, form, online, steps>>

ServeUpdateRow ==
  LET r == mutation["update"]
      i == r.target
      row == Written(r.values, table[i].row)
  IN
  /\ r.pc = "sent"
  /\ IF i \in Existing /\ MayWrite(r.values, i)
     THEN /\ table' = [table EXCEPT ![i].row = row]
          /\ mutation' = [mutation EXCEPT !["update"] = [@ EXCEPT !.pc = "answered", !.ok = TRUE]]
     ELSE mutation' = [mutation EXCEPT !["update"].pc = "answered"] /\ UNCHANGED table
  /\ UNCHANGED <<site, alive, listPage, lists, loading, form, online, steps>>

ServeDeleteRow ==
  LET r == mutation["delete"] IN
  /\ r.pc = "sent"
  /\ table' = IF r.target \in Existing THEN [table EXCEPT ![r.target].state = "gone"] ELSE table
  /\ mutation' = [mutation EXCEPT !["delete"].pc = "answered", !["delete"].ok = r.target \in Existing]
  /\ UNCHANGED <<site, alive, listPage, lists, loading, form, online, steps>>

\* A deletion empties the form of status pages, and that of a contact being edited,
\* whichever row was deleted.
Resets(o) == o = "delete" /\ site = "alerts" => form.editing # NoId

\* Success empties the form, whatever it holds by now, and reads the list again.
SettleMutation(o) ==
  LET ok == mutation[o].ok IN
  /\ mutation[o].pc = "answered"
  /\ IF ok /\ Resets(o) THEN resetForm ELSE UNCHANGED form
  /\ loading' = IF ok /\ (ListLoaded \/ listPage \notin DOMAIN loading)
                THEN WithPage(loading, listPage, PageOf(listPage)) ELSE loading
  /\ mutation' = [mutation EXCEPT ![o] = IF ok THEN [pc |-> "refreshing", of |-> listPage] ELSE NoMutation]
  /\ UNCHANGED <<site, table, alive, listPage, lists, online, steps>>

\* Only then is the request over.
Refreshed(o) ==
  /\ mutation[o].pc = "refreshing" /\ mutation[o].of \notin DOMAIN loading
  /\ mutation' = [mutation EXCEPT ![o] = NoMutation]
  /\ UNCHANGED <<site, table, alive, listPage, lists, loading, form, online, steps>>

\* Another tab of the user edits or deletes a row, or deletes a monitor.
OtherTab ==
  /\ Do("other")
  /\ \/ \E i \in Existing : /\ table' = [table EXCEPT ![i].state = "gone"]
                        /\ UNCHANGED alive
     \/ \E m \in alive :
          /\ alive' = alive \ {m}
          /\ table' = [i \in Ids |-> IF site = "status-pages" /\ i \in Existing
                                     THEN [table[i] EXCEPT !.row.monitorIds = @ \ {m}] ELSE table[i]]
  /\ UNCHANGED <<site, listPage, lists, loading, form, mutation, online>>

\* The page has just been opened: its list is being read, and its form is empty.
ListInit ==
  /\ table \in [Ids -> [state : {"new", "here", "gone"}, row : AnyForm]]
  /\ alive \subseteq ShownMonitors
  /\ \A i \in Existing : ValidForm(table[i].row) /\ MayWrite(table[i].row, i)
  /\ listPage = 1 /\ lists = <<>> /\ loading = [p \in {1} |-> PageOf(p)]
  /\ form = Unfilled
  /\ mutation = [o \in {"create", "update", "delete"} |-> NoMutation]
  /\ online = TRUE
  /\ steps \in [{"page", "edit", "type", "submit", "offline", "other"} -> Nat]

ListNext ==
  \/ PreviousPage \/ NextListPage \/ \E p \in Ids : Loads(p)
  \/ \E i \in Ids : startEditing(i) \/ AskDelete(i)
  \/ CancelEditing \/ \E values \in AnyForm : TypeInForm(values)
  \/ handleSubmit
  \/ GoOffline \/ GoOnline
  \/ ServeCreateRow \/ ServeUpdateRow \/ ServeDeleteRow
  \/ \E o \in DOMAIN mutation : SettleMutation(o) \/ Refreshed(o)
  \/ OtherTab

ListSpec == site \in Sites /\ ListInit /\ [][ListNext]_listVars

-----------------------------------------------------------------------------
(* Properties *)

\* Types.
ListTypeOK ==
  /\ \A i \in Ids : table[i].state \in {"new", "here", "gone"} /\ table[i].row \in AnyForm
  /\ listPage \in Nat \ {0} /\ form.values \in AnyForm /\ form.editing \in Ids \cup {NoId}
  /\ \A o \in DOMAIN mutation : mutation[o].pc \in {"idle", "waiting", "sent", "answered", "refreshing"}

\* What was saved is what the form held, in the row that filled it; unless the
\* request waited while the browser was offline, when it goes to the row the form
\* is for by then.
SavesReachTheirRow ==
  LET r == mutation["update"] IN
  r.pc = "answered" /\ r.ok => r.waited \/ r.target = r.filledFrom
=============================================================================
