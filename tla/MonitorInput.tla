----------------------------- MODULE MonitorInput -----------------------------
(***************************************************************************)
(* normalizeMonitorInput of MonitorsService: what a request, the plan and  *)
(* the row it changes make of a monitor.  A name, a timeout and a          *)
(* threshold only fall back to the row and are left out; a URL is what the *)
(* checks on it tell apart, "target" being host:port and "tcp" the same    *)
(* with tcp:// before it; a keyword is "empty" or "text".                  *)
(***************************************************************************)
EXTENDS Integers

CONSTANT Intervals   \* intervals in seconds
ASSUME IntervalsAssumption == Intervals \subseteq Nat \ {0}

Types == {"HTTP", "SSL", "TCP", "KEYWORD", "HEARTBEAT"}
Urls == {"empty", "http", "https", "target", "tcp"}
Keywords == {"empty", "text"}
Absent == "absent"   \* a field a request leaves out, or a null of the row

minMonitorIntervalSeconds == [FREE |-> 300, PRO |-> 60]

\* CreateMonitorDto and UpdateMonitorDto.
Inputs == [type : Types \cup {Absent}, url : Urls \cup {Absent},
           keywordExpected : Keywords \cup {Absent}, keywordMustExist : {Absent, "yes", "no"},
           intervalSeconds : Intervals \cup {0}, isActive : {Absent, "yes", "no"}]

\* The columns of a monitor.
Rows == [type : Types, url : Urls \cup {Absent}, keywordExpected : Keywords \cup {Absent},
         keywordMustExist : {Absent, "yes", "no"}, intervalSeconds : Intervals,
         isActive : {"yes", "no"}, heartbeatToken : BOOLEAN]
Empty == [type |-> Absent, url |-> Absent, keywordExpected |-> Absent, keywordMustExist |-> Absent,
          intervalSeconds |-> 0, isActive |-> Absent, heartbeatToken |-> FALSE]

Or(value, fallback) == IF value = Absent THEN fallback ELSE value

\* Mutant of Merge: a new monitor has no default.
MergeWithoutDefault(input, row) ==
  [type |-> Or(input.type, row.type), url |-> Or(input.url, row.url),
   keywordExpected |-> Or(input.keywordExpected, row.keywordExpected),
   keywordMustExist |-> Or(input.keywordMustExist, row.keywordMustExist),
   intervalSeconds |-> IF input.intervalSeconds = 0 THEN row.intervalSeconds ELSE input.intervalSeconds,
   isActive |-> Or(input.isActive, row.isActive)]

\* The input over the row, or over nothing for a new monitor.
Merge(input, row) ==
  [type |-> Or(input.type, row.type), url |-> Or(input.url, row.url),
   keywordExpected |-> Or(input.keywordExpected, row.keywordExpected),
   keywordMustExist |-> Or(input.keywordMustExist, row.keywordMustExist),
   intervalSeconds |-> IF input.intervalSeconds = 0 THEN row.intervalSeconds ELSE input.intervalSeconds,
   isActive |-> Or(input.isActive, Or(row.isActive, "yes"))]

KeywordFieldsAbsent(m) == m.keywordExpected = Absent /\ m.keywordMustExist = Absent

\* What a monitor of its type needs.
Valid(m) ==
  CASE m.type \in {"HTTP", "KEYWORD"} -> m.url \in {"http", "https"}
    [] m.type = "SSL" -> m.url = "https"
    [] m.type = "TCP" -> m.url \in {"target", "tcp"}
    [] m.type = "HEARTBEAT" -> TRUE
    [] OTHER -> FALSE

Accepts(input, plan, row) ==
  LET m == Merge(input, row) IN
  /\ m.type # Absent /\ m.intervalSeconds # 0
  /\ m.intervalSeconds >= minMonitorIntervalSeconds[plan]
  /\ Valid(m)
  /\ IF m.type = "KEYWORD" THEN m.keywordExpected = "text" /\ m.keywordMustExist # Absent
                           ELSE KeywordFieldsAbsent(m)
  /\ m.type = "HEARTBEAT" => input.url \in {Absent, "empty"}

\* The row to write: a heartbeat monitor has a token instead of a URL.
normalizeMonitorInput(input, row) ==
  LET m == Merge(input, row) IN
  [type |-> m.type, url |-> IF m.type = "HEARTBEAT" THEN Absent ELSE m.url,
   keywordExpected |-> m.keywordExpected, keywordMustExist |-> m.keywordMustExist,
   intervalSeconds |-> m.intervalSeconds, isActive |-> m.isActive,
   heartbeatToken |-> m.type = "HEARTBEAT"]
=============================================================================
