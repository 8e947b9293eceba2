-------------------------- MODULE MetricsCollector --------------------------
(***************************************************************************)
(* metrics_collector.rs: the counters, the latency reservoir and the       *)
(* sampler thread of a benchmark process, and the report made of them.     *)
(* Every atomic operation of the shared state is a step of its own where   *)
(* another thread reads or writes the same atomics.  All of them are in    *)
(* one total order: a relaxed write is not seen before an earlier one.     *)
(***************************************************************************)
EXTENDS BenchClock, Statistics

CONSTANTS
  Capacity,     \* latency_reservoir_size
  Margin        \* the "+10 for safety margin" of the sample buffer

ASSUME CollectorAssumption == Capacity \in Nat \ {0} /\ Margin \in Nat

VARIABLES
  counters,
  slots, seen,  \* the reservoir: samples (0: nothing stored) and count
  collecting,   \* MetricsCollector.running
  sampler,      \* the thread: where it is, and when its sleep is over
  sampleIndex,
  written       \* history: the slots of system_samples that were written

samplerVars == <<collecting, sampler, sampleIndex, written>>
collectorVars == <<counters, slots, seen, samplerVars>>

\* snapshot() loads the counters one by one, in this order; those that are
\* only shown (bytes, out_of_order, duplicates) are left out.
LoadsReversed == <<"highest", "failed", "received", "sent">>  \* mutant
Loads == <<"sent", "received", "failed", "highest">>

CounterNames == {"sent", "received", "failed", "out_of_order", "duplicates", "highest"}

CollectorInit ==
  /\ counters = [c \in CounterNames |-> 0]
  /\ slots = [i \in 1 .. Capacity |-> 0] /\ seen = 0
  /\ collecting = FALSE
  /\ sampler = [at |-> "none", wake |-> 0]
  /\ sampleIndex = 0 /\ written = {}

\* fetch_add(1) on one of the counters
Inc(c) == counters' = [counters EXCEPT ![c] = @ + 1]

\* A snapshot in the making: the counters that have been loaded.
NoLoad == [c \in {} |-> 0]
Loaded(snap, n) == {Loads[i] : i \in 1 .. n} = DOMAIN snap
NextLoad(snap) ==
  LET n == CHOOSE i \in 0 .. Len(Loads) : Loaded(snap, i)
  IN  [c \in DOMAIN snap \cup {Loads[n + 1]} |->
         IF c \in DOMAIN snap THEN snap[c] ELSE counters[c]]
Complete(snap) == Loaded(snap, Len(Loads))

-----------------------------------------------------------------------------
(* The reservoir. *)

\* The places the n-th sample (from 0) may go to: its own while the
\* reservoir fills, then a random one, beyond the last slot if it is dropped.
Places(n) == IF n < Capacity THEN {n + 1} ELSE 1 .. (n + 1)

Place(n, latency) ==
  \E j \in Places(n) :
    slots' = [i \in 1 .. Capacity |-> IF i = j THEN latency ELSE slots[i]]

\* add_sample: count.fetch_add(1), then the store.
ClaimPlace == seen' = seen + 1

\* get_samples: the slots up to count, one by one, those above 0.
Counted == Least(seen, Capacity)
KeptAny(latency) == TRUE          \* mutant: no val > 0
Kept(latency) == latency > 0

-----------------------------------------------------------------------------
(* The sampler thread. *)

\* MetricsCollector::new divides by the interval, twice.
Constructs(interval) == interval > 0

SampleSlotsTight(duration, interval) == (duration * Second) \div interval  \* mutant: no margin
SampleSlots(duration, interval) == (duration * Second) \div interval + Margin

\* Bound: a thread whose timer would fire after the clock has stopped sleeps
\* until the flag it looks at is cleared.
Fires(wake, go, duration) == clock >= wake \/ (clock = Horizon(duration) /\ ~go)

\* start(): the 100 ms before the first sample are less than a unit.
StartSampler ==
  /\ collecting' = TRUE
  /\ sampler' = [at |-> "asleep", wake |-> clock]
  /\ UNCHANGED <<counters, slots, seen, sampleIndex, written>>

\* sample_index.fetch_add(1)
ClaimIndexLoad == UNCHANGED sampleIndex        \* mutant: only loaded
ClaimIndex == sampleIndex' = sampleIndex + 1

\* The flag is set: one more sample is measured ...
Measure ==
  /\ sampler.at = "asleep" /\ clock >= sampler.wake /\ collecting
  /\ sampler' = [sampler EXCEPT !.at = "measuring"]
  /\ UNCHANGED <<counters, slots, seen, collecting, sampleIndex, written>>

\* ... its slot is claimed, even if the flag has been cleared meanwhile ...
ClaimSlot ==
  /\ sampler.at = "measuring"
  /\ ClaimIndex
  /\ sampler' = [sampler EXCEPT !.at = "claimed"]
  /\ UNCHANGED <<counters, slots, seen, collecting, written>>

\* ... and written, unless the buffer is full.
WriteSlot(duration, interval) ==
  /\ sampler.at = "claimed"
  /\ LET idx == sampleIndex - 1
     IN  written' = IF idx < SampleSlots(duration, interval)
                    THEN written \cup {idx} ELSE written
  /\ sampler' = [at |-> "asleep", wake |-> clock + interval]
  /\ UNCHANGED <<counters, slots, seen, collecting, sampleIndex>>

EndSampler(duration) ==
  /\ sampler.at = "asleep" /\ ~collecting /\ Fires(sampler.wake, collecting, duration)
  /\ sampler' = [sampler EXCEPT !.at = "ended"]
  /\ UNCHANGED <<counters, slots, seen, collecting, sampleIndex, written>>

Sampler(duration, interval) ==
  Measure \/ ClaimSlot \/ WriteSlot(duration, interval) \/ EndSampler(duration)

StopCollecting == collecting' = FALSE

=============================================================================
