----------------------------- MODULE BenchClock -----------------------------
(***************************************************************************)
(* Time in a benchmark process: std::time::Instant, which never goes back, *)
(* counted in units of which Second make a second (nanoseconds in the      *)
(* program).  It starts at 0 when the measurement starts.                  *)
(***************************************************************************)
EXTENDS Integers

CONSTANTS
  Second,
  Overrun       \* bound: how long the clock runs after the planned end

ASSUME ClockAssumption == Second \in Nat \ {0} /\ Overrun \in Nat

VARIABLE clock

Tick == clock' = clock + 1

Horizon(duration) == duration * Second + Overrun

\* start.elapsed().as_secs() >= secs; benchmark_start is 0
OverSince(start, secs) == (clock - start) \div Second >= secs
Over(secs) == OverSince(0, secs)

=============================================================================
