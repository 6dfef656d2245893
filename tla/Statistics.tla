----------------------------- MODULE Statistics -----------------------------
(***************************************************************************)
(* The figures a summary holds: those of a day, of its checks and          *)
(* incidents, and those of a week, a month and a year, of the summaries    *)
(* below it (the three are the same code).  Summaries has when they are    *)
(* computed, and of which rows.                                            *)
(*                                                                         *)
(* Latencies are whole milliseconds, times are seconds; a mean is kept as  *)
(* a fraction.                                                             *)
(***************************************************************************)
EXTENDS Integers, FiniteSets, Sequences, SequencesExt

\* A latency that is null, and a mean that is.
Null == -1
NoMean == [sum |-> 0, of |-> 0]

Column(s, field) == [i \in DOMAIN s |-> s[i][field]]
Total(s) == FoldSeq(LAMBDA x, sum : sum + x, 0, s)
NotNull(s) == SelectSeq(s, LAMBDA x : x # Null)
Least(s) == IF s = <<>> THEN Null ELSE FoldSeq(LAMBDA x, least : IF x < least THEN x ELSE least, s[1], s)
Greatest(s) == FoldSeq(LAMBDA x, most : IF x > most THEN x ELSE most, Null, s)

\* uptimePercentage, as a fraction of the checks.
Uptime(up, total) == [sum |-> up, of |-> total]

-----------------------------------------------------------------------------
(* A day *)

\* The percentile, in percent, of a sorted sequence.
calculatePercentile(sorted, percent) ==
  IF sorted = <<>> THEN Null
  ELSE sorted[LET rank == (Len(sorted) * percent + 99) \div 100 IN
              IF rank < 1 THEN 1 ELSE IF rank > Len(sorted) THEN Len(sorted) ELSE rank]

\* Whole minutes, up to the end of the day while the incident is not resolved.
DowntimeMinutes(incident, endOfDay) ==
  ((IF incident.resolvedAt = Null THEN endOfDay ELSE incident.resolvedAt) - incident.startedAt) \div 60

\* Of the checks of a day, at least one, and the incidents that began on it.
aggregateMonitorForDate(checks, incidents, endOfDay) ==
  LET latencies == SortSeq(NotNull(Column(checks, "latencyMs")), LAMBDA a, b : a < b)
      up == Len(SelectSeq(checks, LAMBDA c : c.isUp))
  IN [totalChecks |-> Len(checks), upChecks |-> up, downChecks |-> Len(checks) - up,
      uptimePercentage |-> Uptime(up, Len(checks)),
      avgLatencyMs |-> [sum |-> Total(latencies), of |-> Len(latencies)],
      minLatencyMs |-> Least(latencies), maxLatencyMs |-> Greatest(latencies),
      p95LatencyMs |-> calculatePercentile(latencies, 95),
      p99LatencyMs |-> calculatePercentile(latencies, 99),
      incidentsCount |-> Len(incidents),
      totalDowntimeMinutes |-> Total([i \in DOMAIN incidents |-> DowntimeMinutes(incidents[i], endOfDay)])]

-----------------------------------------------------------------------------
(* A week, a month, a year *)

\* The mean of means, each as often as its summary has checks; not as it has latencies.
WeightedMean(summaries) ==
  LET known == SelectSeq(summaries, LAMBDA s : s.avgLatencyMs.of # 0)
      weight == Total(Column(known, "totalChecks"))
      sum == FoldSeq(LAMBDA s, acc : [sum |-> acc.sum * s.avgLatencyMs.of + s.avgLatencyMs.sum * s.totalChecks * acc.of,
                                      of |-> acc.of * s.avgLatencyMs.of],
                     [sum |-> 0, of |-> 1], known)
  IN IF known = <<>> THEN NoMean ELSE [sum |-> sum.sum, of |-> sum.of * weight]

\* Math.round of the mean.
RoundedMean(s) == IF s = <<>> THEN Null ELSE (2 * Total(s) + Len(s)) \div (2 * Len(s))

RollUp(summaries) ==
  LET total == Total(Column(summaries, "totalChecks"))
      up == Total(Column(summaries, "upChecks"))
  IN [totalChecks |-> total, upChecks |-> up, downChecks |-> Total(Column(summaries, "downChecks")),
      uptimePercentage |-> Uptime(up, total),
      avgLatencyMs |-> WeightedMean(summaries),
      minLatencyMs |-> Least(NotNull(Column(summaries, "minLatencyMs"))),
      maxLatencyMs |-> Greatest(NotNull(Column(summaries, "maxLatencyMs"))),
      p95LatencyMs |-> RoundedMean(NotNull(Column(summaries, "p95LatencyMs"))),
      p99LatencyMs |-> RoundedMean(NotNull(Column(summaries, "p99LatencyMs"))),
      incidentsCount |-> Total(Column(summaries, "incidentsCount")),
      totalDowntimeMinutes |-> Total(Column(summaries, "totalDowntimeMinutes"))]

-----------------------------------------------------------------------------
(* What a reader takes the figures for *)

\* Equal, as fractions; NoMean is a mean of nothing.
SameMean(a, b) == (a.of = 0 <=> b.of = 0) /\ a.sum * b.of = b.sum * a.of
Between(mean, least, most) == mean.of # 0 => least * mean.of <= mean.sum /\ mean.sum <= most * mean.of

\* The nearest-rank percentile: the least value that so many percent reach at most.
IsPercentile(value, s, percent) ==
  LET reached(v) == Cardinality({i \in DOMAIN s : s[i] <= v}) IN
  /\ value \in {s[i] : i \in DOMAIN s}
  /\ 100 * reached(value) >= percent * Len(s)
  /\ \A i \in DOMAIN s : s[i] < value => 100 * reached(s[i]) < percent * Len(s)

\* A roll-up of parts has the counts, and the extremes, of the whole; its mean and
\* percentiles lie between the extremes, and the mean is that of the checks if each
\* had a latency.
IsSummaryOf(summary, day) ==
  /\ \A f \in {"totalChecks", "upChecks", "downChecks", "minLatencyMs", "maxLatencyMs",
               "incidentsCount", "totalDowntimeMinutes"} : summary[f] = day[f]
  /\ SameMean(summary.uptimePercentage, day.uptimePercentage)
  /\ Between(summary.avgLatencyMs, summary.minLatencyMs, summary.maxLatencyMs)
  /\ summary.minLatencyMs <= summary.p95LatencyMs /\ summary.p95LatencyMs <= summary.p99LatencyMs
  /\ summary.p99LatencyMs <= summary.maxLatencyMs
MeanIsOfChecks(summary, day, checks) ==
  (\A i \in DOMAIN checks : checks[i].latencyMs # Null) => SameMean(summary.avgLatencyMs, day.avgLatencyMs)
=============================================================================
