---------------------------- MODULE CheckExecutor ----------------------------
(***************************************************************************)
(* MonitorCheckExecutorService: what a check of a monitor makes of the     *)
(* answer it gets.  An answer is what the check can tell apart: the status *)
(* code and whether the page has the keyword, a request that ends in an    *)
(* error, or what a socket reports and in which order.  Latencies are left *)
(* out.                                                                    *)
(***************************************************************************)
EXTENDS MonitorInput, Sequences

WORKER_SSL_EXPIRY_THRESHOLD_DAYS == 7
NoCode == 0

Result(isUp, statusCode, error, keywordFound) ==
  [isUp |-> isUp, statusCode |-> statusCode, error |-> error, keywordFound |-> keywordFound]
Up == Result(TRUE, NoCode, "none", Absent)
Down(error) == Result(FALSE, NoCode, error, Absent)

Errors == {"none", "status", "keyword missing", "keyword found", "timed out", "failed", "empty",
           "unreadable", "invalid date", "expired", "expires soon"}
Results == [isUp : BOOLEAN, statusCode : Nat, error : Errors, keywordFound : {Absent, "yes", "no"}]

\* error.message as it is: that of an AggregateError, which Node 22 reports when every
\* address of a host fails, is the empty string.
messageOf(error) == IF error = "AggregateError" THEN "empty" ELSE "failed"

\* TimeoutError and AbortError are timeouts, any other error is reported as it is.
normalizeErrorMessage(error) == IF error \in {"TimeoutError", "AbortError"} THEN "timed out" ELSE messageOf(error)

\* The request, the body included, ends within timeoutMs or in an error.
executeHttpCheck(answer) ==
  IF answer.error # "none" THEN Down(normalizeErrorMessage(answer.error))
  ELSE LET isUp == answer.code < 400 IN
       Result(isUp, answer.code, IF isUp THEN "none" ELSE "status", Absent)

\* A monitor that does not say so expects its keyword.
executeKeywordCheck(row, answer) ==
  LET expectPresence == row.keywordMustExist # "no"
      satisfied == answer.hasKeyword = expectPresence
  IN IF answer.error # "none" THEN Down(normalizeErrorMessage(answer.error))
     ELSE Result(answer.code < 400 /\ satisfied, answer.code,
                 CASE answer.code >= 400 -> "status"
                   [] answer.code < 400 /\ satisfied -> "none"
                   [] OTHER -> IF expectPresence THEN "keyword missing" ELSE "keyword found",
                 IF answer.hasKeyword THEN "yes" ELSE "no")

\* The first event settles the check, those after it change nothing.  An event is
\* "connect", "timeout", or the error that is reported.
Settled(events, Connected) ==
  CASE Head(events) = "timeout" -> Down("timed out")
    [] Head(events) = "connect" -> Connected
    [] OTHER -> Down(messageOf(Head(events)))

executeTcpCheck(answer) == Settled(answer.events, Up)

\* Mutant of CertificateResult: the last seven days count as up.
CertificateResultUntilExpired(certificate) ==
  CASE certificate.kind = "none" -> Down("unreadable")
    [] certificate.kind = "no date" -> Down("invalid date")
    [] certificate.kind = "dated" -> IF certificate.days >= 0 THEN Up ELSE Down("expired")

\* certificate.days is what is left when the check starts, rounded down.
CertificateResult(certificate) ==
  CASE certificate.kind = "none" -> Down("unreadable")
    [] certificate.kind = "no date" -> Down("invalid date")
    [] certificate.kind = "dated" ->
         IF certificate.days >= WORKER_SSL_EXPIRY_THRESHOLD_DAYS THEN Up
         ELSE IF certificate.days < 0 THEN Down("expired") ELSE Down("expires soon")

executeSslCheck(answer) == Settled(answer.events, CertificateResult(answer.certificate))

\* requireUrl and new URL outside of a try: the job fails, nothing is recorded.
\* parseTcpTarget accepts a host without a port, whose check then fails.
Throws(row) ==
  \/ row.type \in {"TCP", "SSL"} /\ row.url \in {Absent, "empty"}
  \/ row.type = "SSL" /\ row.url = "host"

execute(row, answer) ==
  CASE row.type = "HTTP" -> executeHttpCheck(answer)
    [] row.type = "TCP" -> executeTcpCheck(answer)
    [] row.type = "SSL" -> executeSslCheck(answer)
    [] row.type = "KEYWORD" -> executeKeywordCheck(row, answer)
    [] row.type = "HEARTBEAT" -> Up
=============================================================================
