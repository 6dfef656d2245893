----------------------------- MODULE MonitorForm -----------------------------
(***************************************************************************)
(* The monitor form of the frontend: what a form takes for valid, the      *)
(* request it makes of it and the form it makes of a monitor.              *)
(*                                                                         *)
(* The text of the target is one of Texts: a URL of MonitorInput, a bare   *)
(* host, or a URL of another protocol.  Numbers but the interval, names    *)
(* and blanks around texts are left out.                                   *)
(***************************************************************************)
EXTENDS MonitorInput

FormTypes == {"HTTP", "HTTPS", "TCP", "SSL", "KEYWORD"}
Texts == Urls \cup {"host", "other"}

Forms == [type : FormTypes, url : Texts, intervalSeconds : Intervals, keywordExpected : Keywords,
          keywordMatchMode : {"must-exist", "must-not-exist"}]

\* The default interval is 300 s, whatever the plan.
getDefaultMonitorFormValues ==
  [type |-> "HTTPS", url |-> "empty", intervalSeconds |-> 300, keywordExpected |-> "empty",
   keywordMatchMode |-> "must-exist"]

\* new URL(`tcp://${value}`) of a bare host has no port, which reads as 0.
isTcpTarget(url) == url \in {"target", "tcp"}

\* A text with a protocol is left as it is.
normalizeUrlByType(type, url) ==
  IF type = "TCP" \/ url \notin {"host", "target"} THEN url
  ELSE IF type = "HTTP" THEN "http" ELSE "https"

\* The interval is compared with that of the plan the session shows.
createMonitorSchema(form, minIntervalSeconds) ==
  /\ form.url # "empty"
  /\ form.intervalSeconds >= minIntervalSeconds
  /\ IF form.type = "TCP" THEN isTcpTarget(form.url)
     ELSE normalizeUrlByType(form.type, form.url) \in
            IF form.type = "SSL" THEN {"https"} ELSE {"http", "https"}
  /\ form.type = "KEYWORD" => form.keywordExpected = "text"

\* Mutant of toCreateMonitorPayload: the keyword is sent whatever the type.
toCreateMonitorPayloadWithKeyword(form) ==
  [type |-> IF form.type = "HTTPS" THEN "HTTP" ELSE form.type,
   url |-> normalizeUrlByType(form.type, form.url),
   keywordExpected |-> form.keywordExpected,
   keywordMustExist |-> IF form.keywordMatchMode = "must-exist" THEN "yes" ELSE "no",
   intervalSeconds |-> form.intervalSeconds, isActive |-> "yes"]

\* HTTPS is no type of its own, and a saved monitor is always an active one.
toCreateMonitorPayload(form) ==
  LET keyword == form.type = "KEYWORD" IN
  [type |-> IF form.type = "HTTPS" THEN "HTTP" ELSE form.type,
   url |-> normalizeUrlByType(form.type, form.url),
   keywordExpected |-> IF keyword THEN form.keywordExpected ELSE Absent,
   keywordMustExist |-> IF ~keyword THEN Absent
                        ELSE IF form.keywordMatchMode = "must-exist" THEN "yes" ELSE "no",
   intervalSeconds |-> form.intervalSeconds, isActive |-> "yes"]

getMonitorFormType(row) ==
  CASE row.type = "HTTP" /\ row.url = "https" -> "HTTPS"
    [] row.type = "HEARTBEAT" -> "HTTP"
    [] OTHER -> row.type

\* Mutant of toMonitorFormValues: null is no text.
toMonitorFormValuesAsStored(row) ==
  [type |-> getMonitorFormType(row), url |-> row.url, intervalSeconds |-> row.intervalSeconds,
   keywordExpected |-> row.keywordExpected,
   keywordMatchMode |-> IF row.keywordMustExist = "no" THEN "must-not-exist" ELSE "must-exist"]

toMonitorFormValues(row) ==
  [type |-> getMonitorFormType(row), url |-> Or(row.url, "empty"),
   intervalSeconds |-> row.intervalSeconds, keywordExpected |-> Or(row.keywordExpected, "empty"),
   keywordMatchMode |-> IF row.keywordMustExist = "no" THEN "must-not-exist" ELSE "must-exist"]
=============================================================================
