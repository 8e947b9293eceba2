----------------------------- MODULE Benchmark -----------------------------
(***************************************************************************)
(* A benchmark process, any of the four binaries: the main task (parse,    *)
(* construct, measure, stop, report), the progress thread, the sampler     *)
(* thread and, in the subscriber and the server, the listener task that    *)
(* runs the program's callback.  The peer is modelled by what reaches the  *)
(* process: a stream of numbered samples in order, with losses and perhaps *)
(* a restart of the publisher, or requests, or the outcome of a call.      *)
(***************************************************************************)
EXTENDS BenchmarkConfig, RateLimiter, MetricsCollector

CONSTANTS
  Roles,            \* the binaries considered
  ArgLists,         \* and the command lines of each
  Builds,           \* "checked": overflow checks (cargo's dev profile), "release"
  U64,              \* 2^64 in the program
  Restarts,         \* whether the publisher may restart: a set of booleans
  MaxRequests,      \* bound: calls or publications
  MaxDelivered,     \* bound: samples or requests that reach the process
  MaxNumber         \* bound: the numbers on the samples

ASSUME BenchmarkAssumption ==
  /\ Roles \subseteq Callers \cup Streamers
  /\ \A r \in Roles : \A line \in ArgLists[r] : line \in Seq(STRING)
  /\ Restarts \subseteq BOOLEAN
  /\ {MaxRequests, MaxDelivered, MaxNumber} \subseteq Nat /\ U64 \in Nat \ {0}

VARIABLES
  main,         \* where the main task is
  running,      \* the flag of the progress thread
  progress,     \* the progress thread: where, when it started, until when it
                \* sleeps, is it over, its snapshot
  callback,     \* the listener task: where it is, with which sample
  lastSequence, \* LAST_SEQUENCE
  report,       \* what from_collector has read so far
  restarted,    \* history: the publisher was
  delivered     \* history: the numbers of the samples received

otherTasks == <<running, progress, callback, lastSequence, report>>
taskVars == <<main, otherTasks>>
peerVars == <<restarted, delivered>>
configVars == <<role, args, pos, config>>
vars == <<clock, configVars, limiterVars, collectorVars, taskVars, peerVars>>

Client == role \in {"caller", "publisher"}
Idle == [at |-> "idle", sample |-> 0, n |-> 0]
NoReport == [snap |-> NoLoad, counted |-> 0, next |-> 1, latencies |-> <<>>, offered |-> 0]

Init ==
  /\ clock = 0 /\ LimiterInit /\ CollectorInit
  /\ role \in Roles /\ args \in ArgLists[role] /\ pos = 1 /\ config = Defaults
  /\ main = "parse" /\ running = FALSE
  /\ progress = [at |-> "none", start |-> 0, wake |-> 0, over |-> FALSE, snap |-> NoLoad]
  /\ callback = Idle /\ lastSequence = 0 /\ report = NoReport
  /\ restarted = FALSE /\ delivered = <<>>

Goto(place) == main' = place

-----------------------------------------------------------------------------
(* The main task until the measurement. *)

Parse ==
  /\ main = "parse"
  /\ \/ (ReadOption \/ PassOver) /\ UNCHANGED main
     \/ Help /\ Goto("exited") /\ UNCHANGED configVars
     \/ Return /\ Goto("construct")
  /\ UNCHANGED <<clock, limiterVars, collectorVars, peerVars>>
  /\ UNCHANGED otherTasks

\* MetricsCollector::new, then the provider or consumer is set up.
Construct ==
  /\ main = "construct"
  /\ Goto(IF Constructs(config["interval"]) THEN "start" ELSE "panicked")
  /\ UNCHANGED <<clock, configVars, limiterVars, collectorVars, peerVars>>
  /\ UNCHANGED otherTasks

\* Both threads are spawned; the clock runs from here.
Start ==
  /\ main = "start"
  /\ StartSampler
  /\ running' = TRUE
  /\ progress' = [progress EXCEPT !.at = "spawned"]
  /\ Goto(IF Client THEN "limiter" ELSE "loop")
  /\ UNCHANGED <<clock, configVars, limiterVars, peerVars, callback, lastSequence, report>>

NewLimiter ==
  /\ main = "limiter" /\ New(config["rate"]) /\ Goto("loop")
  /\ UNCHANGED <<clock, configVars, collectorVars, peerVars>>
  /\ UNCHANGED otherTasks

-----------------------------------------------------------------------------
(* The main loop: passive in the server and the subscriber. *)

LoopEnds ==
  /\ main \in {"loop", "granted"} /\ Over(config["duration"])
  /\ Goto("stop")
  /\ UNCHANGED <<clock, configVars, limiterVars, collectorVars, peerVars>>
  /\ UNCHANGED otherTasks

WaitForToken ==
  /\ Client
  /\ \/ /\ main = "loop" /\ ~Over(config["duration"])
        /\ \/ (Unlimited \/ TakeToken) /\ Goto("granted")
           \/ Sleep /\ Goto("asleep")
     \/ main = "asleep" /\ Wake /\ Goto("granted")
  /\ UNCHANGED <<clock, configVars, collectorVars, peerVars>>
  /\ UNCHANGED otherTasks

MayRequest ==
  main = "granted" /\ ~Over(config["duration"]) /\ counters["sent"] < MaxRequests

Call ==
  /\ role = "caller" /\ MayRequest
  /\ Inc("sent") /\ Goto("calling")
  /\ UNCHANGED <<clock, configVars, limiterVars, peerVars>>
  /\ UNCHANGED <<slots, seen, samplerVars>>
  /\ UNCHANGED otherTasks

\* The call's outcome: its own response, the response to another request,
\* or none.  Only this task uses the reservoir of the caller; the round trip
\* is measured with the system's time, which may be set back meanwhile.
CountedOtherNever(outcome) ==     \* mutant: a mismatch is not counted
  IF outcome = "own" THEN Inc("received")
  ELSE IF outcome = "none" THEN Inc("failed") ELSE UNCHANGED counters
CountedAs(outcome) == IF outcome = "own" THEN Inc("received") ELSE Inc("failed")

CallReturns ==
  /\ main = "calling"
  /\ \E outcome \in {"own", "other", "none"} :
       /\ CountedAs(outcome)
       /\ IF outcome = "own"
          THEN /\ ClaimPlace
               /\ \E latency \in {0, counters["sent"]} : Place(seen, latency)
          ELSE UNCHANGED <<seen, slots>>
  /\ Goto("loop")
  /\ UNCHANGED <<clock, configVars, limiterVars, peerVars>>
  /\ UNCHANGED samplerVars
  /\ UNCHANGED otherTasks

\* The write of a request or of a sample fails: both are unwrapped, and a
\* panic of the main task ends the process.
WritePanics ==
  /\ main \in {"calling", "publishing"} /\ Goto("panicked")
  /\ UNCHANGED <<clock, configVars, limiterVars, collectorVars, peerVars>>
  /\ UNCHANGED otherTasks

Publish ==
  /\ role = "publisher" /\ MayRequest /\ Goto("publishing")
  /\ UNCHANGED <<clock, configVars, limiterVars, collectorVars, peerVars>>
  /\ UNCHANGED otherTasks

\* Nothing is told of the two increments apart: no other thread of the
\* publisher uses the highest number.
Published ==
  /\ main = "publishing"
  /\ LET sequence == counters["sent"] + 1 IN
       counters' = [counters EXCEPT !["sent"] = sequence, !["highest"] = Larger(@, sequence)]
  /\ Goto("loop")
  /\ UNCHANGED <<clock, configVars, limiterVars, peerVars>>
  /\ UNCHANGED <<slots, seen, samplerVars>>
  /\ UNCHANGED otherTasks

-----------------------------------------------------------------------------
(* The end: both flags are cleared, both threads joined, the report read. *)

StopProgress ==
  /\ main = "stop" /\ running' = FALSE /\ Goto("stopCollector")
  /\ UNCHANGED <<clock, configVars, limiterVars, collectorVars, peerVars>>
  /\ UNCHANGED <<progress, callback, lastSequence, report>>

StopCollector ==
  /\ main = "stopCollector" /\ StopCollecting /\ Goto("join")
  /\ UNCHANGED <<clock, configVars, limiterVars, peerVars>>
  /\ UNCHANGED <<counters, slots, seen, sampler, sampleIndex, written>>
  /\ UNCHANGED otherTasks

JoinedProgressOnly == progress.at = "ended"    \* mutant: the sampler is not joined
Joined == progress.at = "ended" /\ sampler.at = "ended"

Join ==
  /\ main = "join" /\ Joined /\ Goto("snapshot")
  /\ UNCHANGED <<clock, configVars, limiterVars, collectorVars, peerVars>>
  /\ UNCHANGED otherTasks

\* AggregatedMetrics::from_collector: the snapshot, the reservoir's count,
\* its slots, and at the end the count again.
Report ==
  /\ \/ /\ main = "snapshot" /\ ~Complete(report.snap)
        /\ report' = [report EXCEPT !.snap = NextLoad(report.snap)]
        /\ UNCHANGED main
     \/ /\ main = "snapshot" /\ Complete(report.snap)
        /\ report' = [report EXCEPT !.counted = Counted]
        /\ Goto("samples")
     \/ /\ main = "samples" /\ report.next <= report.counted
        /\ LET latency == slots[report.next] IN
             report' = [report EXCEPT
                          !.next = @ + 1,
                          !.latencies = IF Kept(latency) THEN Append(@, latency) ELSE @]
        /\ UNCHANGED main
     \/ /\ main = "samples" /\ report.next > report.counted
        /\ report' = [report EXCEPT !.offered = seen]
        /\ Goto("done")
  /\ UNCHANGED <<clock, configVars, limiterVars, collectorVars, peerVars>>
  /\ UNCHANGED <<running, progress, callback, lastSequence>>

\* latency_samples.sort(): an element goes to the place that the number of
\* those not after it tells.
UpTo(s, i) == {j \in DOMAIN s : s[j] < s[i] \/ (s[j] = s[i] /\ j <= i)}
Sorted(s) ==
  [k \in DOMAIN s |-> s[CHOOSE i \in DOMAIN s : Cardinality(UpTo(s, i)) = k]]

Main ==
  \/ Parse \/ Construct \/ Start \/ NewLimiter
  \/ LoopEnds \/ WaitForToken \/ Call \/ CallReturns \/ Publish \/ Published
  \/ WritePanics
  \/ StopProgress \/ StopCollector \/ Join \/ Report

-----------------------------------------------------------------------------
(* The progress thread. *)

\* What it prints as lost, of those expected: an unsigned difference.
Shown == progress.snap
ShownLost == (Shown.highest - Shown.received) % U64
Underflows == role = "subscriber" /\ Shown.highest > 0 /\ Shown.highest < Shown.received

Progress ==
  /\ main # "panicked"
  /\ \/ /\ progress.at = "spawned"
        /\ progress' = [progress EXCEPT !.at = "check", !.start = clock]
     \/ /\ progress.at = "check" /\ running
        /\ progress' = [progress EXCEPT !.at = "asleep", !.wake = clock + Second]
     \/ /\ progress.at = "check" /\ ~running
        /\ progress' = [progress EXCEPT !.at = "ended"]
     \/ /\ progress.at = "asleep" /\ Fires(progress.wake, running, config["duration"])
        /\ progress' = [progress EXCEPT !.at = "load", !.over = OverSince(progress.start, config["duration"])]
     \/ /\ progress.at = "load" /\ ~Complete(progress.snap)
        /\ progress' = [progress EXCEPT !.snap = NextLoad(progress.snap)]
     \/ /\ progress.at = "load" /\ Complete(progress.snap)
        /\ \E build \in Builds :
             progress' = [progress EXCEPT
               !.at = IF progress.over \/ (build = "checked" /\ Underflows)
                      THEN "ended" ELSE "check",
               !.snap = NoLoad]
  /\ UNCHANGED <<clock, configVars, limiterVars, collectorVars, peerVars>>
  /\ UNCHANGED <<main, running, callback, lastSequence, report>>

SamplerThread ==
  /\ main # "panicked"
  /\ Sampler(config["duration"], config["interval"])
  /\ UNCHANGED <<clock, configVars, limiterVars, taskVars, peerVars>>

-----------------------------------------------------------------------------
(* The listener task.  It runs from the set-up on, and goes on during the *)
(* report. *)

Listening == main \notin {"parse", "exited", "construct", "panicked", "done"}

Received == Len(delivered) < MaxDelivered /\ callback.at = "idle" /\ Inc("received")

LastReceived == IF delivered = <<>> THEN 0 ELSE delivered[Len(delivered)]

\* A sample reaches the subscriber: a number above the last one, those
\* between having been lost, or after a restart of the publisher any number.
\* benchmark_stream(data), up to its first counter.
Deliver ==
  /\ role = "subscriber" /\ Listening /\ Received
  /\ \E k \in 1 .. MaxNumber, again \in Restarts :
       /\ ~again => k > LastReceived
       /\ again => delivered # <<>> /\ ~restarted
       /\ restarted' = (restarted \/ again)
       /\ delivered' = Append(delivered, k)
       /\ callback' = [callback EXCEPT !.at = "counted", !.sample = k]
  /\ UNCHANGED <<clock, configVars, limiterVars>>
  /\ UNCHANGED <<slots, seen, samplerVars>>
  /\ UNCHANGED <<main, running, progress, lastSequence, report>>

NextLastHighest(s) == Larger(lastSequence, s)  \* mutant: only ever raised
NextLast(s) == s

\* update_highest_sequence, then the check of the order, whose counters are
\* only shown: repeats and descents are counted.  A latency that is not
\* positive is not offered to the reservoir.
CheckOrder ==
  /\ role = "subscriber" /\ callback.at = "counted"
  /\ LET s == callback.sample
         repeat == IF s = lastSequence THEN 1 ELSE 0
         descent == IF s < lastSequence THEN 1 ELSE 0
     IN  /\ counters' = [counters EXCEPT
                          !["highest"] = Larger(@, s),
                          !["duplicates"] = @ + repeat,
                          !["out_of_order"] = @ + descent]
         /\ lastSequence' = NextLast(s)
  /\ callback' \in {Idle, [Idle EXCEPT !.at = "offer"]}
  /\ UNCHANGED <<clock, configVars, limiterVars, peerVars>>
  /\ UNCHANGED <<slots, seen, samplerVars>>
  /\ UNCHANGED <<main, running, progress, report>>

\* add_sample; the latency of the k-th sample received is k.
Offer ==
  /\ callback.at = "offer"
  /\ ClaimPlace
  /\ callback' = [callback EXCEPT !.at = "place", !.n = seen]
  /\ UNCHANGED <<clock, configVars, limiterVars, peerVars>>
  /\ UNCHANGED <<counters, slots, samplerVars>>
  /\ UNCHANGED <<main, running, progress, lastSequence, report>>

PlaceSample ==
  /\ callback.at = "place"
  /\ Place(callback.n, Len(delivered))
  /\ callback' = Idle
  /\ UNCHANGED <<clock, configVars, limiterVars, peerVars>>
  /\ UNCHANGED <<counters, seen, samplerVars>>
  /\ UNCHANGED <<main, running, progress, lastSequence, report>>

\* benchmark_request(request): counted as received, then as sent.
Serve ==
  /\ role = "server" /\ Listening /\ Received
  /\ delivered' = Append(delivered, 0)
  /\ callback' = [callback EXCEPT !.at = "counted"]
  /\ UNCHANGED <<clock, configVars, limiterVars, restarted>>
  /\ UNCHANGED <<slots, seen, samplerVars>>
  /\ UNCHANGED <<main, running, progress, lastSequence, report>>

Respond ==
  /\ role = "server" /\ callback.at = "counted"
  /\ Inc("sent")
  /\ callback' = Idle
  /\ UNCHANGED <<clock, configVars, limiterVars, peerVars>>
  /\ UNCHANGED <<slots, seen, samplerVars>>
  /\ UNCHANGED <<main, running, progress, lastSequence, report>>

Listener == Deliver \/ CheckOrder \/ Offer \/ PlaceSample \/ Serve \/ Respond

\* The clock runs until both threads have been joined: no one looks at it
\* before or after.
Time ==
  /\ main \notin {"parse", "exited", "construct", "panicked", "start", "snapshot", "samples", "done"}
  /\ clock < Horizon(config["duration"]) /\ Tick
  /\ UNCHANGED <<configVars, limiterVars, collectorVars, taskVars, peerVars>>

Next ==
  Main \/ Progress \/ SamplerThread \/ Listener \/ Time

Spec ==
  /\ Init /\ [][Next]_vars
  /\ WF_vars(Main) /\ WF_vars(Progress) /\ WF_vars(SamplerThread) /\ WF_vars(Time)

-----------------------------------------------------------------------------
(* Properties. *)

TypeOK ==
  /\ LimiterTypeOK
  /\ config \in [Fields -> Nat] /\ pos \in 0 .. Len(args) + 1
  /\ counters \in [CounterNames -> Nat]
  /\ slots \in [1 .. Capacity -> Nat] /\ seen \in Nat
  /\ sampleIndex \in Nat /\ written \subseteq 0 .. sampleIndex - 1
  /\ {running, collecting, restarted} \subseteq BOOLEAN
  /\ callback \in [at : {"idle", "counted", "offer", "place"}, sample : Nat, n : Nat]
  /\ progress.at \in {"none", "spawned", "check", "asleep", "load", "ended"}
  /\ report.latencies \in Seq(Nat)

Final == report.snap

\* The caller's report (from_collector) accounts for every request: each one
\* was answered or failed, and as many are reported lost as failed.
Accounted ==
  role = "caller" /\ main = "done" =>
    /\ Final.sent = Final.received + Final.failed
    /\ MessagesLost(Final) = Final.failed

\* The server counts a request when it comes and when it is answered, and
\* requests go on coming while the report is made; the report never shows
\* one as lost, because snapshot() loads messages_sent first.
ServerLosesNothing == role = "server" /\ main = "done" => MessagesLost(Final) = 0

\* Between inc_received and update_highest_sequence the subscriber has
\* counted one sample more than its highest number accounts for, and no
\* snapshot shows more than that one.
CountsAtMostOneAhead ==
  role = "subscriber" /\ ~restarted =>
    \A snap \in {progress.snap, report.snap} :
      Complete(snap) => snap.received <= snap.highest + 1

\* The subscriber's report shows every loss below its highest number,
\* although samples go on coming while it is made; it hides one only if a
\* sample above that number had come as well.
LossNotHidden ==
  role = "subscriber" /\ main = "done" /\ ~restarted =>
    LET missing == {n \in 1 .. Final.highest : \A i \in DOMAIN delivered : delivered[i] # n}
        above   == \E i \in DOMAIN delivered : delivered[i] > Final.highest
    IN  Cardinality(missing) <= MessagesLost(Final) + (IF above THEN 1 ELSE 0)

Descents == {i \in 2 .. Len(delivered) : delivered[i] < delivered[i - 1]}
Repeats == {i \in 2 .. Len(delivered) : delivered[i] = delivered[i - 1]}

\* Whatever order the numbers come in, each step down is counted once as out
\* of order and each repetition once as a duplicate.
DescentsCounted ==
  role = "subscriber" /\ callback.at # "counted" =>
    /\ counters["out_of_order"] = Cardinality(Descents)
    /\ counters["duplicates"] = Cardinality(Repeats)

\* The latencies of the report are latencies of samples, no sample's twice,
\* although add_sample runs meanwhile and counts a slot before it fills it;
\* and there are no more of them than samples offered.
LatenciesAreReal ==
  /\ \A i \in DOMAIN report.latencies : report.latencies[i] \in 1 .. Len(delivered) + counters["sent"]
  /\ \A i, j \in DOMAIN report.latencies : i # j => report.latencies[i] # report.latencies[j]
  /\ main = "done" => Len(report.latencies) <= report.offered

\* At least share percent of the latencies are at most v, and the rest at
\* least v, each to within half a latency.
Divides(s, v, share) ==
  /\ 100 * Cardinality({i \in DOMAIN s : s[i] <= v}) >= share * Len(s) - 50
  /\ 100 * Cardinality({i \in DOMAIN s : s[i] >= v}) >= (100 - share) * Len(s) - 50

\* min <= p50 <= p95 <= p99 <= max in the report, and each percentile has its
\* share of the latencies on either side: the rounding of the index picks
\* the right one, also next to both ends of the array.
PercentilesOrdered ==
  LET s == Sorted(report.latencies) IN
  main = "done" /\ s # <<>> =>
    /\ s[1] <= Percentile(s, 50) /\ Percentile(s, 50) <= Percentile(s, 95)
    /\ Percentile(s, 95) <= Percentile(s, 99) /\ Percentile(s, 99) <= s[Len(s)]
    /\ \A p \in {50, 95, 99} : Divides(s, Percentile(s, p), p)

\* Every system sample of the report was written: the sampler claims an
\* index before it writes the slot, and get_system_samples copies all slots
\* below the index.
SamplesAreWritten ==
  main \in {"snapshot", "samples", "done"} =>
    0 .. Least(sampleIndex, SampleSlots(config["duration"], config["interval"])) - 1 \subseteq written

\* The buffer of system samples runs out only when the measurement lasts
\* longer than planned by almost the whole margin.
DropsOnlyWhenLate ==
  sampler.at # "none" /\ sampleIndex > SampleSlots(config["duration"], config["interval"]) =>
    clock > config["duration"] * Second + (Margin - 1) * config["interval"]


\* continuous_types.rs "Loss rate as percentage (0.0 - 100.0)": no more samples are
\* shown as lost than were expected.
LossRateInRange ==
  role = "subscriber" /\ Complete(progress.snap) /\ Shown.highest > 0 =>
    ShownLost <= Shown.highest

=============================================================================
