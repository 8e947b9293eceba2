----------------------------- MODULE Statistics -----------------------------
(***************************************************************************)
(* The arithmetic of the benchmark's report (metrics_collector.rs), on     *)
(* integers: a percentage is its numerator, a latency a number.            *)
(***************************************************************************)
EXTENDS Integers, Sequences

Larger(m, n) == IF m > n THEN m ELSE n
Least(m, n) == IF m < n THEN m ELSE n

\* (p / 100.0 * (n - 1) as f64).round(): halves go up.
PercentileIndexDown(n, p) == (p * (n - 1)) \div 100   \* mutant: cut off, not rounded
PercentileIndex(n, p) == (2 * p * (n - 1) + 100) \div 200

\* percentile(sorted_values, p); sequences count from 1.
Percentile(s, p) ==
  IF s = <<>> THEN 0
  ELSE LET i == PercentileIndex(Len(s), p)
       IN  s[(IF i < Len(s) - 1 THEN i ELSE Len(s) - 1) + 1]

Ascending(s) == \A i, j \in 1 .. Len(s) : i <= j => s[i] <= s[j]

\* expected of AggregatedMetrics::from_collector
ExpectedSent(c) == c.sent         \* mutant: the highest number is left out
Expected(c) == Larger(c.highest, c.sent)

\* saturating_sub
MessagesLost(c) == Larger(Expected(c) - c.received, 0)

=============================================================================
