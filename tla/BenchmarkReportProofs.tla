----------------------- MODULE BenchmarkReportProofs -----------------------
(***************************************************************************)
(* What the report of a benchmark shows, for every duration, rate, number  *)
(* of messages, size of the reservoir and command line.                    *)
(***************************************************************************)
EXTENDS BenchmarkProofs

-----------------------------------------------------------------------------
(* A snapshot in the making holds the counters of a prefix of Loads. *)

Outgoing == {"sent"}
Incoming == {"sent", "received"}
Outcomes == {"sent", "received", "failed"}
AllLoads == {"sent", "received", "failed", "highest"}
Prefixes == {{}, Outgoing, Incoming, Outcomes, AllLoads}

Snapshots == UNION {[S -> Nat] : S \in Prefixes}

LEMMA PrefixesApart ==
  /\ {} # Outgoing /\ {} # Incoming /\ {} # Outcomes /\ {} # AllLoads
  /\ Outgoing # Incoming /\ Outgoing # Outcomes /\ Outgoing # AllLoads
  /\ Incoming # Outcomes /\ Incoming # AllLoads /\ Outcomes # AllLoads
<1>1. "sent" \in Outgoing /\ "sent" \in Incoming /\ "sent" \in Outcomes /\ "sent" \in AllLoads
  BY DEF Outgoing, Incoming, Outcomes, AllLoads
<1>2. /\ "received" \notin Outgoing /\ "received" \in Incoming
      /\ "received" \in Outcomes /\ "received" \in AllLoads
  BY DEF Outgoing, Incoming, Outcomes, AllLoads
<1>3. "failed" \notin Incoming /\ "failed" \in Outcomes /\ "failed" \in AllLoads
  BY DEF Incoming, Outcomes, AllLoads
<1>4. "highest" \notin Outcomes /\ "highest" \in AllLoads
  BY DEF Outcomes, AllLoads
<1> QED
  BY <1>1, <1>2, <1>3, <1>4

LEMMA LoadOrder ==
  /\ Len(Loads) = 4 /\ Loads[1] = "sent" /\ Loads[2] = "received"
  /\ Loads[3] = "failed" /\ Loads[4] = "highest"
  BY DEF Loads

LEMMA LoadedPrefix ==
  ASSUME NEW snap
  PROVE  /\ Loaded(snap, 0) <=> DOMAIN snap = {}
         /\ Loaded(snap, 1) <=> DOMAIN snap = Outgoing
         /\ Loaded(snap, 2) <=> DOMAIN snap = Incoming
         /\ Loaded(snap, 3) <=> DOMAIN snap = Outcomes
         /\ Loaded(snap, 4) <=> DOMAIN snap = AllLoads
<1>1. /\ 1 .. 0 = {} /\ 1 .. 1 = {1} /\ 1 .. 2 = {1, 2}
      /\ 1 .. 3 = {1, 2, 3} /\ 1 .. 4 = {1, 2, 3, 4}
  OBVIOUS
<1>2. {Loads[i] : i \in {}} = {}
  OBVIOUS
<1>3. {Loads[i] : i \in {1}} = Outgoing
  BY LoadOrder DEF Outgoing
<1>4. {Loads[i] : i \in {1, 2}} = Incoming
  BY LoadOrder DEF Incoming
<1>5. {Loads[i] : i \in {1, 2, 3}} = Outcomes
  BY LoadOrder DEF Outcomes
<1>6. {Loads[i] : i \in {1, 2, 3, 4}} = AllLoads
  BY LoadOrder DEF AllLoads
<1> QED
  BY <1>1, <1>2, <1>3, <1>4, <1>5, <1>6, Zenon DEF Loaded

LEMMA CompleteIsAll == ASSUME NEW snap PROVE Complete(snap) <=> DOMAIN snap = AllLoads
  BY LoadOrder, LoadedPrefix DEF Complete

\* A load adds the next counter, as it is now.
LEMMA LoadAdds ==
  ASSUME NEW snap \in Snapshots, counters \in [CounterNames -> Nat], ~Complete(snap)
  PROVE  /\ NextLoad(snap) \in Snapshots
         /\ DOMAIN snap = {} => DOMAIN NextLoad(snap) = Outgoing
         /\ DOMAIN snap = Outgoing => DOMAIN NextLoad(snap) = Incoming
         /\ DOMAIN snap = Incoming => DOMAIN NextLoad(snap) = Outcomes
         /\ DOMAIN snap = Outcomes => DOMAIN NextLoad(snap) = AllLoads
         /\ \A c \in DOMAIN NextLoad(snap) :
              NextLoad(snap)[c] = IF c \in DOMAIN snap THEN snap[c] ELSE counters[c]
<1> DEFINE n == CHOOSE i \in 0 .. Len(Loads) : Loaded(snap, i)
           new == DOMAIN snap \cup {Loads[n + 1]}
<1>1. NextLoad(snap) = [c \in new |-> IF c \in DOMAIN snap THEN snap[c] ELSE counters[c]]
  BY Zenon DEF NextLoad
<1>2. DOMAIN snap \in {{}, Outgoing, Incoming, Outcomes} /\ snap \in [DOMAIN snap -> Nat]
  BY CompleteIsAll DEF Snapshots, Prefixes
<1>3. /\ DOMAIN snap = {}       => n = 0
      /\ DOMAIN snap = Outgoing => n = 1
      /\ DOMAIN snap = Incoming => n = 2
      /\ DOMAIN snap = Outcomes => n = 3
  BY LoadOrder, LoadedPrefix, PrefixesApart
<1> HIDE DEF n
<1>4. /\ DOMAIN snap = {}       => new = Outgoing
      /\ DOMAIN snap = Outgoing => new = Incoming
      /\ DOMAIN snap = Incoming => new = Outcomes
      /\ DOMAIN snap = Outcomes => new = AllLoads
  BY <1>3, LoadOrder DEF Outgoing, Incoming, Outcomes, AllLoads
<1>5. new \in Prefixes
  BY <1>2, <1>4 DEF Prefixes
<1>6. \A c \in new : (IF c \in DOMAIN snap THEN snap[c] ELSE counters[c]) \in Nat
  <2>1. new \subseteq CounterNames
    BY <1>5 DEF Prefixes, Outgoing, Incoming, Outcomes, AllLoads, CounterNames
  <2> HIDE DEF new
  <2> QED
    BY <1>2, <2>1
<1> HIDE DEF new
<1>7. NextLoad(snap) \in [new -> Nat]
  BY <1>1, <1>6
<1> QED
  BY <1>1, <1>2, <1>4, <1>5, <1>7, PrefixesApart DEF Snapshots

-----------------------------------------------------------------------------
(* Which steps change what. *)

LEMMA ConfigFrame == [Next]_vars => Parse \/ UNCHANGED configVars
  BY DEF Next, Main, Construct, Start, NewLimiter, LoopEnds, WaitForToken, Call,
    CallReturns, Publish, Published, WritePanics, StopProgress, StopCollector, Join,
    Report, Progress, SamplerThread, Listener, Deliver, CheckOrder, Offer, PlaceSample,
    Serve, Respond, Time, vars

LEMMA CountersFrame ==
  [Next]_vars => \/ Call \/ CallReturns \/ Published \/ Deliver \/ CheckOrder
                 \/ Serve \/ Respond \/ UNCHANGED counters
  BY DEF Next, Main, Parse, Construct, Start, StartSampler, NewLimiter, LoopEnds,
    WaitForToken, Publish, WritePanics, StopProgress, StopCollector, Join, Report,
    Progress, SamplerThread, Sampler, Measure, ClaimSlot, WriteSlot, EndSampler, Listener, Offer,
    PlaceSample, Time, vars, collectorVars

LEMMA ReservoirFrame ==
  [Next]_vars => CallReturns \/ Offer \/ PlaceSample \/ UNCHANGED <<slots, seen>>
  BY DEF Next, Main, Parse, Construct, Start, StartSampler, NewLimiter, LoopEnds,
    WaitForToken, Call, Publish, Published, WritePanics, StopProgress, StopCollector,
    Join, Report, Progress, SamplerThread, Sampler, Measure, ClaimSlot, WriteSlot, EndSampler,
    Listener, Deliver, CheckOrder, Serve, Respond, Time, vars, collectorVars

LEMMA SamplerFrame ==
  [Next]_vars => \/ Start \/ SamplerThread
                 \/ StopCollector /\ UNCHANGED <<sampler, sampleIndex, written>>
                 \/ UNCHANGED samplerVars
  BY DEF Next, Main, Parse, Construct, NewLimiter, LoopEnds, WaitForToken, Call,
    CallReturns, Publish, Published, WritePanics, StopProgress, StopCollector, Join,
    Report, Progress, Listener, Deliver, CheckOrder, Offer, PlaceSample, Serve, Respond,
    Time, vars, collectorVars

LEMMA MainFrame == [Next]_vars => Main \/ UNCHANGED main
  BY DEF Next, Progress, SamplerThread, Listener, Deliver, CheckOrder, Offer,
    PlaceSample, Serve, Respond, Time, vars, taskVars

LEMMA ProgressFrame == [Next]_vars => Start \/ Progress \/ UNCHANGED progress
  BY DEF Next, Main, Parse, Construct, NewLimiter, LoopEnds, WaitForToken, Call,
    CallReturns, Publish, Published, WritePanics, StopProgress, StopCollector, Join,
    Report, SamplerThread, Listener, Deliver, CheckOrder, Offer, PlaceSample, Serve,
    Respond, Time, vars, taskVars, otherTasks

LEMMA ReportFrame == [Next]_vars => Report \/ UNCHANGED report
  BY DEF Next, Main, Parse, Construct, Start, NewLimiter, LoopEnds, WaitForToken, Call,
    CallReturns, Publish, Published, WritePanics, StopProgress, StopCollector, Join,
    Progress, SamplerThread, Listener, Deliver, CheckOrder, Offer, PlaceSample, Serve,
    Respond, Time, vars, taskVars, otherTasks

LEMMA CallbackFrame ==
  [Next]_vars => \/ Deliver \/ CheckOrder \/ Offer \/ PlaceSample \/ Serve \/ Respond
                 \/ UNCHANGED callback
  BY DEF Next, Main, Parse, Construct, Start, NewLimiter, LoopEnds, WaitForToken, Call,
    CallReturns, Publish, Published, WritePanics, StopProgress, StopCollector, Join,
    Report, Progress, SamplerThread, Listener, Time, vars, taskVars, otherTasks

LEMMA PeerFrame == [Next]_vars => Deliver \/ Serve \/ UNCHANGED peerVars
  BY DEF Next, Main, Parse, Construct, Start, NewLimiter, LoopEnds, WaitForToken, Call,
    CallReturns, Publish, Published, WritePanics, StopProgress, StopCollector, Join,
    Report, Progress, SamplerThread, Listener, CheckOrder, Offer, PlaceSample, Respond,
    Time, vars

LEMMA RunningFrame == [Next]_vars => Start \/ StopProgress \/ UNCHANGED running
  BY DEF Next, Main, Parse, Construct, NewLimiter, LoopEnds, WaitForToken, Call,
    CallReturns, Publish, Published, WritePanics, StopCollector, Join, Report, Progress,
    SamplerThread, Listener, Deliver, CheckOrder, Offer, PlaceSample, Serve, Respond,
    Time, vars, taskVars, otherTasks

-----------------------------------------------------------------------------
(* Types. *)

ParserOK == ConfigOK /\ args \in Seq(STRING) /\ pos \in 0 .. Len(args) + 1

LEMMA ParserStep == ParserOK /\ [Next]_vars => ParserOK'
<1> SUFFICES ASSUME ParserOK, [Next]_vars PROVE ParserOK'
  OBVIOUS
<1>1. ConfigOK'
  BY ConfigStep DEF ParserOK
<1>2. CASE UNCHANGED configVars
  BY <1>1, <1>2 DEF ParserOK, configVars
<1>3. CASE Parse
  <2>1. CASE ReadOption
    BY <1>1, <2>1 DEF ParserOK, ReadOption, TakesValue, AfterValue
  <2>2. CASE PassOver
    BY <1>1, <2>2 DEF ParserOK, PassOver
  <2>3. CASE Return
    BY <1>1, <2>3 DEF ParserOK, Return
  <2> QED
    BY <1>2, <1>3, <2>1, <2>2, <2>3 DEF Parse
<1> QED
  BY <1>2, <1>3, ConfigFrame

CountersOK == counters \in [CounterNames -> Nat]

CallbackOK ==
  /\ callback \in [at : {"idle", "counted", "offer", "place"}, sample : Nat, n : Nat]
  /\ restarted \in BOOLEAN /\ delivered \in Seq(Nat)

LEMMA CountersStep == CountersOK /\ CallbackOK /\ [Next]_vars => CountersOK'
<1> SUFFICES ASSUME CountersOK, CallbackOK, [Next]_vars PROVE CountersOK'
  OBVIOUS
<1>1. \A c \in CounterNames : Inc(c) => CountersOK'
  BY DEF CountersOK, Inc
<1>2. {"sent", "received", "failed", "highest", "duplicates", "out_of_order"} = CounterNames
  BY DEF CounterNames
<1>3. CASE Call
  BY <1>1, <1>2, <1>3 DEF Call
<1>4. CASE CallReturns
  BY <1>1, <1>2, <1>4 DEF CallReturns, CountedAs
<1>5. CASE Published
  BY <1>2, <1>5 DEF Published, CountersOK, Larger
<1>6. CASE Deliver
  BY <1>1, <1>2, <1>6 DEF Deliver, Received
<1>7. CASE CheckOrder
  <2>1. callback.sample \in Nat
    BY DEF CallbackOK
  <2> QED
    BY <1>2, <1>7, <2>1 DEF CheckOrder, CountersOK, Larger
<1>8. CASE Serve
  BY <1>1, <1>2, <1>8 DEF Serve, Received
<1>9. CASE Respond
  BY <1>1, <1>2, <1>9 DEF Respond
<1>10. CASE UNCHANGED counters
  BY <1>10 DEF CountersOK
<1> QED
  BY <1>3, <1>4, <1>5, <1>6, <1>7, <1>8, <1>9, <1>10, CountersFrame

LEMMA CallbackStep == CallbackOK /\ seen \in Nat /\ [Next]_vars => CallbackOK'
<1> SUFFICES ASSUME CallbackOK, seen \in Nat, [Next]_vars PROVE CallbackOK'
  OBVIOUS
<1> USE DEF CallbackOK
<1>1. restarted' \in BOOLEAN /\ delivered' \in Seq(Nat)
  <2>1. CASE Deliver
    <3>1. PICK k \in 1 .. MaxNumber, again \in Restarts :
            restarted' = (restarted \/ again) /\ delivered' = Append(delivered, k)
      BY <2>1 DEF Deliver
    <3> QED
      BY <3>1, BenchmarkAssumption
  <2>2. CASE Serve
    BY <2>2 DEF Serve
  <2>3. CASE UNCHANGED peerVars
    BY <2>3 DEF peerVars
  <2> QED
    BY <2>1, <2>2, <2>3, PeerFrame
<1>2. CASE Deliver
  <2>1. PICK k \in 1 .. MaxNumber : callback' = [callback EXCEPT !.at = "counted", !.sample = k]
    BY <1>2 DEF Deliver
  <2>2. k \in Nat
    BY BenchmarkAssumption
  <2> QED
    BY <1>1, <2>1, <2>2
<1>3. CASE CheckOrder
  BY <1>1, <1>3 DEF CheckOrder, Idle
<1>4. CASE Offer
  BY <1>1, <1>4 DEF Offer
<1>5. CASE PlaceSample
  BY <1>1, <1>5 DEF PlaceSample, Idle
<1>6. CASE Serve
  BY <1>1, <1>6 DEF Serve
<1>7. CASE Respond
  BY <1>1, <1>7 DEF Respond, Idle
<1> QED
  BY <1>1, <1>2, <1>3, <1>4, <1>5, <1>6, <1>7, CallbackFrame

ReservoirOK == slots \in [1 .. Capacity -> Nat] /\ seen \in Nat

LEMMA PlaceTyped ==
  ASSUME slots \in [1 .. Capacity -> Nat], NEW n, NEW latency \in Nat, Place(n, latency)
  PROVE  slots' \in [1 .. Capacity -> Nat]
  BY DEF Place

LEMMA ReservoirStep ==
  ReservoirOK /\ CountersOK /\ CallbackOK /\ [Next]_vars => ReservoirOK'
<1> SUFFICES ASSUME ReservoirOK, CountersOK, CallbackOK, [Next]_vars PROVE ReservoirOK'
  OBVIOUS
<1> USE DEF ReservoirOK
<1>1. CASE CallReturns
  <2>1. counters["sent"] \in Nat
    BY DEF CountersOK, CounterNames
  <2> QED
    BY <1>1, <2>1, PlaceTyped DEF CallReturns, ClaimPlace
<1>2. CASE Offer
  BY <1>2 DEF Offer, ClaimPlace
<1>3. CASE PlaceSample
  <2>1. Len(delivered) \in Nat
    BY DEF CallbackOK
  <2> QED
    BY <1>3, <2>1, PlaceTyped DEF PlaceSample
<1> QED
  BY <1>1, <1>2, <1>3, ReservoirFrame

SamplerOK ==
  /\ collecting \in BOOLEAN
  /\ sampler \in [at : {"none", "asleep", "measuring", "claimed", "ended"}, wake : Nat]
  /\ sampleIndex \in Nat /\ written \subseteq 0 .. sampleIndex - 1
  /\ sampler.at = "claimed" => sampleIndex > 0

LEMMA SamplerStep ==
  SamplerOK /\ ConfigOK /\ clock \in Nat /\ [Next]_vars => SamplerOK'
<1> SUFFICES ASSUME SamplerOK, ConfigOK, clock \in Nat, [Next]_vars PROVE SamplerOK'
  OBVIOUS
<1> USE DEF SamplerOK
<1>1. CASE Start
  BY <1>1 DEF Start, StartSampler
<1>2. CASE SamplerThread
  <2>0. CASE Measure
    BY <2>0 DEF Measure
  <2>1. CASE ClaimSlot
    BY <2>1 DEF ClaimSlot, ClaimIndex
  <2>2. CASE WriteSlot(config["duration"], config["interval"])
    <3>1. config["interval"] \in Nat
      BY DEF ConfigOK, Fields
    <3> QED
      BY <2>2, <3>1 DEF WriteSlot
  <2>3. CASE EndSampler(config["duration"])
    BY <2>3 DEF EndSampler
  <2> QED
    BY <1>2, <2>0, <2>1, <2>2, <2>3 DEF SamplerThread, Sampler
<1>3. CASE StopCollector /\ UNCHANGED <<sampler, sampleIndex, written>>
  BY <1>3 DEF StopCollector, StopCollecting
<1>4. CASE UNCHANGED samplerVars
  BY <1>4 DEF samplerVars
<1> QED
  BY <1>1, <1>2, <1>3, <1>4, SamplerFrame

ProgressOK ==
  /\ running \in BOOLEAN
  /\ progress \in [at : {"none", "spawned", "check", "asleep", "load", "ended"}, start : Nat,
                   wake : Nat, over : BOOLEAN, snap : Snapshots]

LEMMA ProgressStep ==
  ProgressOK /\ CountersOK /\ ConfigOK /\ clock \in Nat /\ [Next]_vars => ProgressOK'
<1> SUFFICES ASSUME ProgressOK, CountersOK, ConfigOK, clock \in Nat, [Next]_vars
             PROVE  ProgressOK'
  OBVIOUS
<1> USE DEF ProgressOK
<1>1. running' \in BOOLEAN
  BY RunningFrame DEF Start, StopProgress
<1>2. CASE Start
  BY <1>1, <1>2 DEF Start
<1>3. CASE Progress
  <2>1. Second \in Nat /\ config["duration"] \in Nat
    BY ClockAssumption DEF ConfigOK, Fields
  <2>2. OverSince(progress.start, config["duration"]) \in BOOLEAN
    BY DEF OverSince
  <2>3. NoLoad \in Snapshots
    BY DEF NoLoad, Snapshots, Prefixes
  <2>4. ASSUME NEW w \in Nat, progress' = [progress EXCEPT !.at = "asleep", !.wake = w]
        PROVE  ProgressOK'
    BY <1>1, <2>4
  <2>5. ASSUME progress' = [progress EXCEPT !.at = "ended"] PROVE ProgressOK'
    BY <1>1, <2>5
  <2>6. ASSUME progress' = [progress EXCEPT !.at = "load",
                              !.over = OverSince(progress.start, config["duration"])]
        PROVE  ProgressOK'
    BY <1>1, <2>2, <2>6
  <2>7. ASSUME ~Complete(progress.snap),
               progress' = [progress EXCEPT !.snap = NextLoad(progress.snap)]
        PROVE  ProgressOK'
    <3>1. NextLoad(progress.snap) \in Snapshots
      BY <2>7, LoadAdds DEF CountersOK
    <3> QED
      BY <1>1, <2>7, <3>1
  <2>8. ASSUME NEW at \in {"ended", "check"},
               progress' = [progress EXCEPT !.at = at, !.snap = NoLoad]
        PROVE  ProgressOK'
    BY <1>1, <2>3, <2>8
  <2>9. clock + Second \in Nat
    BY <2>1
  <2>10. ASSUME progress' = [progress EXCEPT !.at = "check", !.start = clock] PROVE ProgressOK'
    BY <1>1, <2>10
  <2> QED
    BY <1>3, <2>4, <2>5, <2>6, <2>7, <2>8, <2>9, <2>10 DEF Progress
<1> QED
  BY <1>1, <1>2, <1>3, ProgressFrame

ReportOK ==
  report \in [snap : Snapshots, counted : 0 .. Capacity, next : Nat \ {0},
              latencies : Seq(Nat), offered : Nat]

LEMMA ReportStep == ReportOK /\ CountersOK /\ ReservoirOK /\ [Next]_vars => ReportOK'
<1> SUFFICES ASSUME ReportOK, CountersOK, ReservoirOK, [Next]_vars PROVE ReportOK'
  OBVIOUS
<1> USE DEF ReportOK
<1>1. CASE UNCHANGED report
  BY <1>1
<1>2. ASSUME ~Complete(report.snap), report' = [report EXCEPT !.snap = NextLoad(report.snap)]
      PROVE  ReportOK'
  BY <1>2, LoadAdds DEF CountersOK
<1>3. ASSUME report' = [report EXCEPT !.counted = Counted] PROVE ReportOK'
  BY <1>3, CollectorAssumption DEF Counted, Least, ReservoirOK
<1>4. ASSUME report.next <= report.counted,
             report' = [report EXCEPT
                          !.next = @ + 1,
                          !.latencies = IF Kept(slots[report.next])
                                        THEN Append(@, slots[report.next]) ELSE @]
      PROVE  ReportOK'
  <2>1. slots[report.next] \in Nat
    BY <1>4, CollectorAssumption DEF ReservoirOK
  <2>2. Append(report.latencies, slots[report.next]) \in Seq(Nat)
    BY <2>1
  <2>3. report.next + 1 \in Nat \ {0}
    OBVIOUS
  <2> QED
    BY <1>4, <2>2, <2>3
<1>5. ASSUME report' = [report EXCEPT !.offered = seen] PROVE ReportOK'
  BY <1>5 DEF ReservoirOK
<1>6. CASE Report
  BY <1>2, <1>3, <1>4, <1>5, <1>6 DEF Report
<1> QED
  BY <1>1, <1>6, ReportFrame

Typed ==
  /\ ParserOK /\ CountersOK /\ CallbackOK /\ ReservoirOK
  /\ SamplerOK /\ ProgressOK /\ ReportOK

LEMMA TypedInit == Init => Typed
<1> SUFFICES ASSUME Init PROVE Typed
  OBVIOUS
<1>1. ParserOK
  <2>1. args \in Seq(STRING) /\ pos = 1
    BY BenchmarkAssumption DEF Init
  <2> QED
    BY <2>1, ConfigInit DEF ParserOK
<1>2. CountersOK /\ ReservoirOK /\ SamplerOK
  BY DEF Init, CollectorInit, CountersOK, ReservoirOK, SamplerOK
<1>3. CallbackOK
  <2>1. callback = Idle /\ restarted = FALSE /\ delivered = <<>>
    BY DEF Init
  <2>2. <<>> \in Seq(Nat)
    OBVIOUS
  <2> QED
    BY <2>1, <2>2 DEF Idle, CallbackOK
<1>4. NoLoad \in Snapshots
  BY DEF NoLoad, Snapshots, Prefixes
<1>5. ProgressOK
  <2>1. /\ running = FALSE
        /\ progress = [at |-> "none", start |-> 0, wake |-> 0, over |-> FALSE, snap |-> NoLoad]
    BY DEF Init
  <2> QED
    BY <1>4, <2>1 DEF ProgressOK
<1>6. ReportOK
  <2>1. report = [snap |-> NoLoad, counted |-> 0, next |-> 1, latencies |-> <<>>, offered |-> 0]
    BY DEF Init, NoReport
  <2>2. <<>> \in Seq(Nat) /\ 0 \in 0 .. Capacity
    BY CollectorAssumption
  <2> QED
    BY <1>4, <2>1, <2>2 DEF ReportOK
<1> QED
  BY <1>1, <1>2, <1>3, <1>5, <1>6 DEF Typed

LEMMA TypedStep == Typed /\ LimiterTypeOK /\ [Next]_vars => Typed'
<1> SUFFICES ASSUME Typed, LimiterTypeOK, [Next]_vars PROVE Typed'
  OBVIOUS
<1>1. clock \in Nat /\ seen \in Nat /\ ConfigOK
  BY DEF Typed, LimiterTypeOK, ReservoirOK, ParserOK
<1> QED
  BY <1>1, ParserStep, CountersStep, CallbackStep, ReservoirStep, SamplerStep,
    ProgressStep, ReportStep DEF Typed

LEMMA LimiterIsTyped == Spec => []LimiterTypeOK
  BY ImplementsLimiter, LimiterTypes, PTL

\* TypeOK of a benchmark process, whatever its command line.
THEOREM ProcessTypes == Spec => []TypeOK
<1>1. Typed /\ LimiterTypeOK => TypeOK
  BY DEF Typed, ParserOK, ConfigOK, CountersOK, CallbackOK, ReservoirOK, SamplerOK,
    ProgressOK, ReportOK, TypeOK
<1> QED
  BY <1>1, TypedInit, TypedStep, LimiterIsTyped, PTL DEF Spec

-----------------------------------------------------------------------------
(* Roles do not change, counters only grow, and a snapshot is not changed  *)
(* except by its next load.                                                *)

LEMMA SameRole == [Next]_vars => role' = role
  BY ConfigFrame DEF Parse, ReadOption, PassOver, Return, configVars

LEMMA CountersGrow ==
  ASSUME Typed, [Next]_vars, NEW c \in CounterNames
  PROVE  counters[c] <= counters'[c]
<1> USE DEF Typed, CountersOK
<1>1. \A d \in CounterNames : Inc(d) => counters[c] <= counters'[c]
  BY DEF Inc
<1>2. {"sent", "received", "failed", "highest", "duplicates", "out_of_order"} = CounterNames
  BY DEF CounterNames
<1>3. CASE Call \/ CallReturns \/ Deliver \/ Serve \/ Respond
  BY <1>1, <1>2, <1>3 DEF Call, CallReturns, CountedAs, Deliver, Received, Serve, Respond
<1>4. CASE Published
  BY <1>2, <1>4 DEF Published, Larger
<1>5. CASE CheckOrder
  <2>1. callback.sample \in Nat
    BY DEF CallbackOK
  <2> QED
    BY <1>2, <1>5, <2>1 DEF CheckOrder, Larger
<1> QED
  BY <1>3, <1>4, <1>5, CountersFrame

LEMMA SnapshotSteps ==
  ASSUME Typed, [Next]_vars
  PROVE  /\ \/ progress.snap' \in {progress.snap, NoLoad}
            \/ ~Complete(progress.snap) /\ progress.snap' = NextLoad(progress.snap)
         /\ \/ report.snap' = report.snap
            \/ ~Complete(report.snap) /\ report.snap' = NextLoad(report.snap)
<1> USE DEF Typed, ProgressOK, ReportOK
<1>1. CASE Progress
  BY <1>1 DEF Progress
<1>2. CASE Start
  BY <1>2 DEF Start
<1>3. CASE Report
  BY <1>3 DEF Report
<1> QED
  BY <1>1, <1>2, <1>3, ProgressFrame, ReportFrame

\* The main task reaches the report only by joining both threads.
Reporting == {"snapshot", "samples", "done"}

LEMMA MainSteps ==
  [Next]_vars => \/ Report \/ UNCHANGED main
                 \/ Join /\ main = "join" /\ main' = "snapshot"
                 \/ main \notin Reporting \cup {"panicked"} /\ main' \notin Reporting
<1> SUFFICES ASSUME [Next]_vars, ~Report, ~UNCHANGED main
             PROVE  \/ Join /\ main = "join" /\ main' = "snapshot"
                    \/ main \notin Reporting \cup {"panicked"} /\ main' \notin Reporting
  OBVIOUS
<1> USE DEF Goto, Reporting
<1>1. CASE Parse \/ Construct \/ Start \/ NewLimiter
  BY <1>1 DEF Parse, Construct, Start, NewLimiter
<1>2. CASE LoopEnds \/ WaitForToken \/ Call \/ CallReturns
  BY <1>2 DEF LoopEnds, WaitForToken, Call, CallReturns, MayRequest
<1>3. CASE Publish \/ Published \/ WritePanics \/ StopProgress \/ StopCollector \/ Join
  BY <1>3 DEF Publish, Published, WritePanics, MayRequest, StopProgress, StopCollector, Join
<1> QED
  BY <1>1, <1>2, <1>3, MainFrame DEF Main

\* The report is made after the counters have been read.
ReportRead ==
  /\ main \in {"samples", "done"} => Complete(report.snap)
  /\ main \notin Reporting => report.snap = NoLoad

LEMMA ReportReadStep == Typed /\ ReportRead /\ [Next]_vars => ReportRead'
<1> SUFFICES ASSUME Typed, ReportRead, [Next]_vars PROVE ReportRead'
  OBVIOUS
<1> USE DEF ReportRead, Reporting
<1>1. \A snap : Complete(snap)' <=> Complete(snap)
  BY DEF Complete, Loaded
<1>2. CASE Report
  BY <1>2 DEF Report, Goto, Typed, ReportOK
<1>3. CASE UNCHANGED report
  <2>1. CASE Join /\ main = "join" /\ main' = "snapshot"
    BY <1>3, <2>1
  <2> QED
    BY <1>1, <1>2, <1>3, <2>1, MainSteps
<1> QED
  BY <1>2, <1>3, ReportFrame

\* Only the caller calls, only the publisher publishes.
InRole ==
  /\ main = "calling" => role = "caller"
  /\ main = "publishing" => role = "publisher"

LEMMA InRoleStep == InRole /\ [Next]_vars => InRole'
<1> SUFFICES ASSUME InRole, [Next]_vars PROVE InRole'
  OBVIOUS
<1> USE DEF InRole, Goto
<1>1. CASE UNCHANGED main
  BY <1>1, SameRole
<1>2. CASE Parse \/ Construct \/ Start \/ NewLimiter \/ LoopEnds \/ WaitForToken
  BY <1>1, <1>2 DEF Parse, Construct, Start, NewLimiter, LoopEnds, WaitForToken
<1>3. CASE Call \/ CallReturns \/ Publish \/ Published \/ WritePanics
  BY <1>3, SameRole DEF Call, CallReturns, Publish, Published, WritePanics
<1>4. CASE StopProgress \/ StopCollector \/ Join \/ Report
  BY <1>1, <1>4 DEF StopProgress, StopCollector, Join, Report
<1> QED
  BY <1>1, <1>2, <1>3, <1>4, MainFrame DEF Main

-----------------------------------------------------------------------------
(* The server shows no request as lost. *)

\* Sent is loaded first, and received is never behind sent.
ServerSnap(snap) ==
  /\ "sent" \in DOMAIN snap => snap["sent"] <= counters["sent"]
  /\ "received" \in DOMAIN snap => snap["sent"] <= snap["received"]
  /\ "highest" \in DOMAIN snap => snap["highest"] = 0

ServerCounts ==
  role = "server" =>
    /\ callback.at = "idle" => counters["sent"] = counters["received"]
    /\ callback.at # "idle" => /\ callback.at = "counted"
                               /\ counters["sent"] + 1 = counters["received"]
    /\ counters["highest"] = 0
    /\ ServerSnap(report.snap)

LEMMA ServerLoads ==
  ASSUME NEW snap \in Snapshots, CountersOK, counters["sent"] <= counters["received"],
         counters["highest"] = 0, ServerSnap(snap), ~Complete(snap)
  PROVE  ServerSnap(NextLoad(snap))
<1>1. /\ counters["sent"] \in Nat /\ counters["received"] \in Nat
      /\ DOMAIN snap \in {{}, Outgoing, Incoming, Outcomes}
      /\ \A c \in DOMAIN snap : snap[c] \in Nat
  BY CompleteIsAll DEF CountersOK, CounterNames, Snapshots, Prefixes
<1>2. CASE DOMAIN snap = {}
  BY <1>1, <1>2, LoadAdds DEF CountersOK, ServerSnap, Outgoing
<1>3. CASE DOMAIN snap = Outgoing
  <2>1. NextLoad(snap)["sent"] = snap["sent"] /\ NextLoad(snap)["received"] = counters["received"]
    BY <1>3, LoadAdds DEF CountersOK, Outgoing, Incoming
  <2>2. snap["sent"] <= counters["sent"] /\ snap["sent"] \in Nat
    BY <1>1, <1>3 DEF ServerSnap, Outgoing
  <2>3. "highest" \notin DOMAIN NextLoad(snap)
    BY <1>3, LoadAdds DEF CountersOK, Incoming
  <2> QED
    BY <1>1, <2>1, <2>2, <2>3 DEF ServerSnap
<1>5. CASE DOMAIN snap = Incoming
  <2>1. /\ NextLoad(snap)["sent"] = snap["sent"] /\ NextLoad(snap)["received"] = snap["received"]
        /\ "highest" \notin DOMAIN NextLoad(snap)
    BY <1>5, LoadAdds DEF CountersOK, Incoming, Outcomes
  <2> QED
    BY <1>5, <2>1 DEF ServerSnap, Incoming
<1>4. CASE DOMAIN snap = Outcomes
  <2>1. /\ NextLoad(snap)["sent"] = snap["sent"]
        /\ NextLoad(snap)["received"] = snap["received"]
        /\ NextLoad(snap)["highest"] = counters["highest"]
    BY <1>4, LoadAdds DEF CountersOK, Outcomes, AllLoads
  <2> QED
    BY <1>4, <2>1 DEF ServerSnap, Outcomes
<1> QED
  BY <1>1, <1>2, <1>3, <1>4, <1>5

LEMMA ServerStep == Typed /\ InRole /\ ServerCounts /\ [Next]_vars => ServerCounts'
<1> SUFFICES ASSUME Typed, InRole, ServerCounts, [Next]_vars, role = "server"
             PROVE  ServerCounts'
  BY SameRole DEF ServerCounts
<1>1. /\ counters["sent"] \in Nat /\ counters["received"] \in Nat /\ CountersOK
      /\ report.snap \in Snapshots
  BY DEF Typed, CountersOK, CounterNames, ReportOK
<1>2. ServerSnap(report.snap)'
  <2>1. ServerSnap(report.snap) /\ counters["sent"] <= counters["received"]
        /\ counters["highest"] = 0
    BY <1>1 DEF ServerCounts
  <2>2. ServerSnap(report.snap')
    BY <1>1, <2>1, ServerLoads, SnapshotSteps
  <2>3. counters["sent"] <= counters'["sent"] /\ counters'["sent"] \in Nat
    BY CountersGrow, CountersStep DEF CounterNames, CountersOK, Typed
  <2>4. report.snap' \in Snapshots
    BY ReportStep DEF Typed, ReportOK
  <2>5. "sent" \in DOMAIN report.snap' => report.snap'["sent"] \in Nat
    BY <2>4 DEF Snapshots
  <2> QED
    BY <1>1, <2>2, <2>3, <2>5 DEF ServerSnap
<1>3. CASE Serve
  BY <1>1, <1>2, <1>3 DEF Serve, Received, Inc, ServerCounts, CountersOK, CounterNames, Typed, CallbackOK
<1>4. CASE Respond
  BY <1>1, <1>2, <1>4 DEF Respond, Inc, Idle, ServerCounts, CountersOK, CounterNames
<1>5. CASE UNCHANGED <<counters, callback>>
  BY <1>2, <1>5 DEF ServerCounts
<1>6. Serve \/ Respond \/ UNCHANGED <<counters, callback>>
  <2>1. Serve \/ Respond \/ UNCHANGED counters
    BY CountersFrame DEF InRole, Call, CallReturns, Published, Deliver, CheckOrder
  <2>2. Serve \/ Respond \/ UNCHANGED callback
    BY CallbackFrame DEF Deliver, CheckOrder, Offer, PlaceSample, ServerCounts
  <2> QED
    BY <2>1, <2>2
<1> QED
  BY <1>3, <1>4, <1>5, <1>6

-----------------------------------------------------------------------------
(* The subscriber counts at most one sample ahead of its highest number. *)

\* Received is loaded before the highest number.
SubscriberSnap(snap) ==
  /\ "received" \in DOMAIN snap => snap["received"] <= counters["received"]
  /\ "highest" \in DOMAIN snap => snap["received"] <= snap["highest"] + 1

SubscriberCounts ==
  role = "subscriber" /\ ~restarted =>
    /\ counters["received"] <= LastReceived
    /\ callback.at = "counted" => counters["received"] <= callback.sample
    /\ callback.at # "counted" => counters["received"] <= counters["highest"]
    /\ counters["received"] <= counters["highest"] + 1
    /\ SubscriberSnap(progress.snap) /\ SubscriberSnap(report.snap)

LEMMA SubscriberLoads ==
  ASSUME NEW snap \in Snapshots, CountersOK, SubscriberSnap(snap), ~Complete(snap),
         counters["received"] <= counters["highest"] + 1
  PROVE  SubscriberSnap(NextLoad(snap))
<1>1. /\ counters["highest"] \in Nat /\ counters["received"] \in Nat
      /\ DOMAIN snap \in {{}, Outgoing, Incoming, Outcomes}
      /\ \A c \in DOMAIN snap : snap[c] \in Nat
  BY CompleteIsAll DEF CountersOK, CounterNames, Snapshots, Prefixes
<1>2. CASE DOMAIN snap = {}
  BY <1>1, <1>2, LoadAdds DEF CountersOK, SubscriberSnap, Outgoing
<1>3. CASE DOMAIN snap = Outgoing
  <2>1. NextLoad(snap)["received"] = counters["received"]
    BY <1>3, LoadAdds DEF CountersOK, Outgoing, Incoming
  <2>2. "highest" \notin DOMAIN NextLoad(snap)
    BY <1>3, LoadAdds DEF CountersOK, Incoming
  <2> QED
    BY <1>1, <2>1, <2>2 DEF SubscriberSnap
<1>5. CASE DOMAIN snap = Incoming
  <2>1. NextLoad(snap)["received"] = snap["received"] /\ "highest" \notin DOMAIN NextLoad(snap)
    BY <1>5, LoadAdds DEF CountersOK, Incoming, Outcomes
  <2> QED
    BY <1>5, <2>1 DEF SubscriberSnap, Incoming
<1>4. CASE DOMAIN snap = Outcomes
  <2>1. /\ NextLoad(snap)["received"] = snap["received"]
        /\ NextLoad(snap)["highest"] = counters["highest"]
    BY <1>4, LoadAdds DEF CountersOK, Outcomes, AllLoads
  <2>2. snap["received"] <= counters["received"] /\ snap["received"] \in Nat
    BY <1>1, <1>4 DEF SubscriberSnap, Outcomes
  <2> QED
    BY <1>1, <2>1, <2>2 DEF SubscriberSnap
<1> QED
  BY <1>1, <1>2, <1>3, <1>4, <1>5

\* A snapshot stays behind the counter while this grows.
LEMMA SubscriberSnapStays ==
  ASSUME NEW snap \in Snapshots, SubscriberSnap(snap), Typed, [Next]_vars
  PROVE  /\ "received" \in DOMAIN snap => snap["received"] <= counters'["received"]
         /\ "highest" \in DOMAIN snap => snap["received"] <= snap["highest"] + 1
<1>1. /\ counters["received"] <= counters'["received"]
      /\ counters["received"] \in Nat /\ counters'["received"] \in Nat
  BY CountersGrow, CountersStep DEF CounterNames, CountersOK, Typed
<1>2. "received" \in DOMAIN snap => snap["received"] \in Nat
  BY DEF Snapshots
<1> QED
  BY <1>1, <1>2 DEF SubscriberSnap

LEMMA SubscriberStep == Typed /\ InRole /\ SubscriberCounts /\ [Next]_vars => SubscriberCounts'
<1> SUFFICES ASSUME Typed, InRole, SubscriberCounts, [Next]_vars,
                    role = "subscriber", ~restarted'
             PROVE  SubscriberCounts'
  BY SameRole DEF SubscriberCounts
<1>1. ~restarted
  BY PeerFrame DEF Deliver, Serve, peerVars
<1>2. /\ CountersOK /\ counters["highest"] \in Nat /\ counters["received"] \in Nat
      /\ report.snap \in Snapshots /\ progress.snap \in Snapshots
      /\ callback.sample \in Nat /\ delivered \in Seq(Nat)
  BY DEF Typed, CountersOK, CounterNames, ReportOK, ProgressOK, CallbackOK
<1>3. SubscriberSnap(progress.snap)' /\ SubscriberSnap(report.snap)'
  <2>1. /\ SubscriberSnap(progress.snap) /\ SubscriberSnap(report.snap)
        /\ counters["received"] <= counters["highest"] + 1
    BY <1>1 DEF SubscriberCounts
  <2>2. SubscriberSnap(NoLoad) /\ NoLoad \in Snapshots
    BY DEF SubscriberSnap, NoLoad, Snapshots, Prefixes
  <2>3. SubscriberSnap(progress.snap') /\ SubscriberSnap(report.snap')
    BY <1>2, <2>1, <2>2, SubscriberLoads, SnapshotSteps
  <2>4. progress.snap' \in Snapshots /\ report.snap' \in Snapshots
    BY <1>2, <2>2, SnapshotSteps, LoadAdds DEF CountersOK
  <2> QED
    BY <2>3, <2>4, SubscriberSnapStays DEF SubscriberSnap
<1>4. CASE Deliver
  <2>1. PICK k \in 1 .. MaxNumber, again \in Restarts :
          /\ ~again => k > LastReceived
          /\ restarted' = (restarted \/ again)
          /\ delivered' = Append(delivered, k)
          /\ callback' = [callback EXCEPT !.at = "counted", !.sample = k]
    BY <1>4 DEF Deliver
  <2>2. k > LastReceived /\ k \in Nat
    BY <2>1, BenchmarkAssumption
  <2>3. LastReceived' = k
    <3>1. delivered' # <<>> /\ delivered'[Len(delivered')] = k
      BY <1>2, <2>1, <2>2
    <3> QED
      BY <3>1 DEF LastReceived
  <2>4. LastReceived \in Nat
    BY <1>2 DEF LastReceived
  <2>5. /\ counters'["received"] = counters["received"] + 1
        /\ counters'["highest"] = counters["highest"]
    BY <1>2, <1>4 DEF Deliver, Received, Inc, CountersOK, CounterNames
  <2>6. /\ counters["received"] <= LastReceived
        /\ counters["received"] <= counters["highest"]
    BY <1>1, <1>4 DEF SubscriberCounts, Deliver, Received
  <2>7. callback'.at = "counted" /\ callback'.sample = k
    BY <2>1 DEF Typed, CallbackOK
  <2> QED
    BY <1>2, <1>3, <2>2, <2>3, <2>4, <2>5, <2>6, <2>7 DEF SubscriberCounts
<1>5. CASE CheckOrder
  <2>1. /\ counters'["received"] = counters["received"]
        /\ counters'["highest"] = Larger(counters["highest"], callback.sample)
    BY <1>2, <1>5 DEF CheckOrder, CountersOK, CounterNames
  <2>2. counters["received"] <= callback.sample /\ counters["received"] <= LastReceived
    BY <1>1, <1>5 DEF SubscriberCounts, CheckOrder
  <2>3. callback'.at # "counted"
    BY <1>5 DEF CheckOrder, Idle
  <2>4. LastReceived' = LastReceived
    BY <1>5 DEF CheckOrder, LastReceived, peerVars
  <2> QED
    BY <1>2, <1>3, <2>1, <2>2, <2>3, <2>4 DEF SubscriberCounts, Larger
<1>6. CASE Offer \/ PlaceSample
  <2>1. UNCHANGED counters /\ LastReceived' = LastReceived
    BY <1>6 DEF Offer, PlaceSample, peerVars, LastReceived
  <2>2. callback \in [at : {"idle", "counted", "offer", "place"}, sample : Nat, n : Nat]
    BY DEF Typed, CallbackOK
  <2>3. callback.at # "counted"
    BY <1>6 DEF Offer, PlaceSample
  <2>4. callback'.at # "counted"
    <3>1. CASE Offer
      BY <2>2, <3>1 DEF Offer
    <3>2. CASE PlaceSample
      BY <3>2 DEF PlaceSample, Idle
    <3> QED
      BY <1>6, <3>1, <3>2
  <2> QED
    BY <1>1, <1>3, <2>1, <2>3, <2>4 DEF SubscriberCounts
<1>7. CASE UNCHANGED <<counters, callback, peerVars>>
  BY <1>1, <1>3, <1>7 DEF SubscriberCounts, LastReceived, peerVars
<1>8. Deliver \/ CheckOrder \/ Offer \/ PlaceSample \/ UNCHANGED <<counters, callback, peerVars>>
  <2>1. Deliver \/ CheckOrder \/ UNCHANGED counters
    BY CountersFrame DEF InRole, Call, CallReturns, Published, Serve, Respond
  <2>2. Deliver \/ CheckOrder \/ Offer \/ PlaceSample \/ UNCHANGED callback
    BY CallbackFrame DEF Serve, Respond
  <2>3. Deliver \/ UNCHANGED peerVars
    BY PeerFrame DEF Serve
  <2> QED
    BY <2>1, <2>2, <2>3
<1> QED
  BY <1>4, <1>5, <1>6, <1>7, <1>8

-----------------------------------------------------------------------------
(* The caller accounts for every request. *)

CallerCounts ==
  role = "caller" =>
    /\ main = "calling" => counters["sent"] = counters["received"] + counters["failed"] + 1
    /\ main \notin {"calling", "panicked"} =>
         counters["sent"] = counters["received"] + counters["failed"]
    /\ counters["highest"] = 0
    /\ main \in Reporting => \A c \in DOMAIN report.snap : report.snap[c] = counters[c]

\* A call is entered and left by its own steps, or by a panic.
LEMMA CallSteps ==
  [Next]_vars => \/ Call \/ CallReturns \/ main' = "panicked"
                 \/ (main = "calling") <=> (main' = "calling")
<1> SUFFICES ASSUME [Next]_vars, ~Call, ~CallReturns, main' # "panicked"
             PROVE  (main = "calling") <=> (main' = "calling")
  OBVIOUS
<1> USE DEF Goto
<1>1. CASE Parse \/ Construct \/ Start \/ NewLimiter
  BY <1>1 DEF Parse, Construct, Start, NewLimiter
<1>2. CASE LoopEnds \/ WaitForToken
  BY <1>2 DEF LoopEnds, WaitForToken
<1>3. CASE Publish \/ Published \/ WritePanics \/ StopProgress \/ StopCollector
  BY <1>3 DEF Publish, Published, WritePanics, MayRequest, StopProgress, StopCollector
<1>4. CASE Join \/ Report
  BY <1>4 DEF Join, Report
<1>5. CASE UNCHANGED main
  BY <1>5
<1> QED
  BY <1>1, <1>2, <1>3, <1>4, <1>5, MainFrame DEF Main

LEMMA CallerStep ==
  Typed /\ InRole /\ ReportRead /\ CallerCounts /\ [Next]_vars => CallerCounts'
<1> SUFFICES ASSUME Typed, InRole, ReportRead, CallerCounts, [Next]_vars, role = "caller"
             PROVE  CallerCounts'
  BY SameRole DEF CallerCounts
<1>1. /\ CountersOK /\ report.snap \in Snapshots
      /\ \A c \in {"sent", "received", "failed", "highest"} : counters[c] \in Nat
  BY DEF Typed, CountersOK, CounterNames, ReportOK
<1>2. CASE Call
  BY <1>1, <1>2 DEF Call, MayRequest, Inc, Goto, CallerCounts, CountersOK, CounterNames, Reporting
<1>3. CASE CallReturns
  <2>1. Inc("received") \/ Inc("failed")
    BY <1>3 DEF CallReturns, CountedAs
  <2> QED
    BY <1>1, <1>3, <2>1 DEF CallReturns, Inc, Goto, CallerCounts, CountersOK, CounterNames, Reporting
<1>4. CASE ~Call /\ ~CallReturns
  <2>1. UNCHANGED counters
    BY <1>4, CountersFrame DEF InRole, Published, Deliver, CheckOrder, Serve, Respond
  <2>2. main' = "panicked" \/ ((main = "calling") <=> (main' = "calling"))
    BY <1>4, CallSteps
  <2>3. CASE Report
    <3>1. \/ report.snap' = report.snap
          \/ ~Complete(report.snap) /\ report.snap' = NextLoad(report.snap)
      BY SnapshotSteps
    <3>2. main \in Reporting /\ main' \in Reporting
      BY <2>3 DEF Report, Reporting, Goto
    <3>3. \A c \in DOMAIN report.snap : report.snap[c] = counters[c]
      BY <3>2 DEF CallerCounts
    <3>4. \A c \in DOMAIN report.snap' : report.snap'[c] = counters[c]
      BY <1>1, <3>1, <3>3, LoadAdds DEF CountersOK
    <3> QED
      BY <2>1, <3>2, <3>4 DEF CallerCounts, Reporting
  <2>4. CASE UNCHANGED <<main, report>>
    BY <2>1, <2>4 DEF CallerCounts
  <2>5. CASE UNCHANGED report /\ main = "join" /\ main' = "snapshot"
    BY <2>1, <2>5 DEF CallerCounts, ReportRead, Reporting, NoLoad
  <2>6. CASE main \notin Reporting \cup {"panicked"} /\ main' \notin Reporting
    BY <2>1, <2>2, <2>6 DEF CallerCounts
  <2> QED
    BY <2>3, <2>4, <2>5, <2>6, MainSteps, ReportFrame
<1> QED
  BY <1>2, <1>3, <1>4

-----------------------------------------------------------------------------
(* The invariants hold from the start, so the reports are right. *)

LEMMA CountsInit ==
  Init => InRole /\ ReportRead /\ ServerCounts /\ SubscriberCounts /\ CallerCounts
<1> SUFFICES ASSUME Init
             PROVE  InRole /\ ReportRead /\ ServerCounts /\ SubscriberCounts /\ CallerCounts
  OBVIOUS
<1>1. /\ main = "parse" /\ delivered = <<>> /\ callback.at = "idle"
      /\ report.snap = NoLoad /\ progress.snap = NoLoad
  BY DEF Init, Idle, NoReport
<1>2. \A c \in CounterNames : counters[c] = 0
  BY DEF Init, CollectorInit
<1>3. /\ counters["sent"] = 0 /\ counters["received"] = 0
      /\ counters["failed"] = 0 /\ counters["highest"] = 0
  BY <1>2 DEF CounterNames
<1>4. DOMAIN NoLoad = {}
  BY DEF NoLoad
<1>5. InRole /\ ReportRead
  BY <1>1 DEF InRole, ReportRead, Reporting
<1>6. ServerCounts
  BY <1>1, <1>3, <1>4 DEF ServerCounts, ServerSnap
<1>7. SubscriberCounts
  BY <1>1, <1>3, <1>4 DEF SubscriberCounts, SubscriberSnap, LastReceived
<1>8. CallerCounts
  BY <1>1, <1>3 DEF CallerCounts, Reporting
<1> QED
  BY <1>5, <1>6, <1>7, <1>8

LEMMA AlwaysTyped == Spec => []Typed
  BY TypedInit, TypedStep, LimiterIsTyped, PTL DEF Spec

LEMMA AlwaysInRole == Spec => []InRole
  BY CountsInit, InRoleStep, PTL DEF Spec

LEMMA AlwaysReportRead == Spec => []ReportRead
  BY CountsInit, ReportReadStep, AlwaysTyped, PTL DEF Spec

\* The server's report shows no request as lost, although requests come and
\* are answered while from_collector loads the counters: messages_sent is
\* loaded first, and it never was ahead of messages_received.
THEOREM NothingLostByServer == Spec => []ServerLosesNothing
<1>1. Typed /\ ReportRead /\ ServerCounts => ServerLosesNothing
  <2> SUFFICES ASSUME Typed, ReportRead, ServerCounts, role = "server", main = "done"
               PROVE  MessagesLost(Final) = 0
    BY DEF ServerLosesNothing
  <2>1. DOMAIN report.snap = AllLoads /\ report.snap \in Snapshots
    BY CompleteIsAll DEF ReportRead, Typed, ReportOK
  <2>2. \A c \in AllLoads : report.snap[c] \in Nat
    BY <2>1 DEF Snapshots
  <2>3. /\ report.snap["sent"] <= report.snap["received"] /\ report.snap["highest"] = 0
        /\ report.snap["sent"] \in Nat /\ report.snap["received"] \in Nat
    BY <2>1, <2>2 DEF AllLoads, ServerCounts, ServerSnap
  <2> QED
    BY <2>3 DEF MessagesLost, Expected, Larger, Final
<1> QED
  BY <1>1, CountsInit, ServerStep, AlwaysTyped, AlwaysInRole, AlwaysReportRead, PTL DEF Spec

\* No snapshot of the subscriber, of the progress thread or of the report,
\* shows more than one sample beyond its highest number: the listener
\* raises the highest number before it counts the next sample, and
\* snapshot() loads received before it.
THEOREM OneAheadAtMost == Spec => []CountsAtMostOneAhead
<1>1. SubscriberCounts => CountsAtMostOneAhead
  BY CompleteIsAll, Zenon DEF SubscriberCounts, SubscriberSnap, CountsAtMostOneAhead, AllLoads
<1> QED
  BY <1>1, CountsInit, SubscriberStep, AlwaysTyped, AlwaysInRole, PTL DEF Spec

\* The caller's report accounts for every request: main counts each as sent
\* before the call and as received or failed after it, and no request is
\* under way when both threads have been joined.
THEOREM EveryRequestAccounted == Spec => []Accounted
<1>1. Typed /\ ReportRead /\ CallerCounts => Accounted
  <2> SUFFICES ASSUME Typed, ReportRead, CallerCounts, role = "caller", main = "done"
               PROVE  /\ Final.sent = Final.received + Final.failed
                      /\ MessagesLost(Final) = Final.failed
    BY DEF Accounted
  <2>1. DOMAIN report.snap = AllLoads
    BY CompleteIsAll DEF ReportRead
  <2>2. \A c \in AllLoads : report.snap[c] = counters[c] /\ counters[c] \in Nat
    BY <2>1 DEF CallerCounts, Reporting, Typed, CountersOK, CounterNames, AllLoads
  <2>3. /\ counters["sent"] = counters["received"] + counters["failed"]
        /\ counters["highest"] = 0
    BY DEF CallerCounts
  <2> QED
    BY <2>2, <2>3 DEF MessagesLost, Expected, Larger, Final, AllLoads
<1> QED
  BY <1>1, CountsInit, CallerStep, AlwaysTyped, AlwaysInRole, AlwaysReportRead, PTL DEF Spec

-----------------------------------------------------------------------------
(* The samples of the system.                                              *)

Early == {"parse", "exited", "construct", "start"}
Period == config["interval"]
Planned == SampleSlots(config["duration"], config["interval"])

\* The sampler starts with main, on a positive interval, and is joined.
SamplerRuns ==
  /\ main \in Early => sampler.at = "none"
  /\ sampler.at = "none" => sampleIndex = 0
  /\ main = "start" \/ sampler.at # "none" => Period > 0
  /\ main \in Reporting => sampler.at = "ended"

\* The options are only read in the beginning.
LEMMA ConfigStays ==
  [Next]_vars => \/ main = "parse" /\ main' \in Early \ {"start"}
                 \/ config' = config
  BY ConfigFrame DEF Parse, configVars, Goto, Early

\* Nothing leads back to the beginning.
LEMMA EarlySteps ==
  [Next]_vars => /\ main' \in Early => main \in Early /\ ~Start
                 /\ main' = "start" /\ main # "start" => Constructs(Period) /\ config' = config
<1> SUFFICES ASSUME [Next]_vars
             PROVE  /\ main' \in Early => main \in Early /\ ~Start
                    /\ main' = "start" /\ main # "start" =>
                         Constructs(Period) /\ config' = config
  OBVIOUS
<1> USE DEF Goto, Early
<1>1. CASE Parse
  BY <1>1 DEF Parse, Start
<1>2. CASE Construct
  BY <1>2 DEF Construct, Start, Period, configVars
<1>3. CASE Start \/ NewLimiter \/ LoopEnds \/ WaitForToken
  BY <1>3 DEF Start, NewLimiter, LoopEnds, WaitForToken
<1>4. CASE Call \/ CallReturns \/ Publish \/ Published \/ WritePanics
  BY <1>4 DEF Call, CallReturns, Publish, Published, WritePanics
<1>5. CASE StopProgress \/ StopCollector \/ Join \/ Report
  BY <1>5 DEF StopProgress, StopCollector, Join, Report
<1>6. CASE UNCHANGED main
  BY <1>6 DEF Start
<1> QED
  BY <1>1, <1>2, <1>3, <1>4, <1>5, <1>6, MainFrame DEF Main

\* One step of the sampler's own.
LEMMA SamplerSteps ==
  [Next]_vars =>
    \/ /\ Start /\ main = "start" /\ sampler' = [at |-> "asleep", wake |-> clock]
       /\ UNCHANGED <<clock, sampleIndex, written>>
    \/ (Measure \/ ClaimSlot) /\ UNCHANGED <<main, clock>>
    \/ WriteSlot(config["duration"], config["interval"]) /\ UNCHANGED <<main, clock>>
    \/ EndSampler(config["duration"]) /\ UNCHANGED <<main, clock>>
    \/ UNCHANGED <<sampler, sampleIndex, written>>
  BY SamplerFrame DEF Start, StartSampler, SamplerThread, Sampler, taskVars, samplerVars

LEMMA SamplerRunsStep == Typed /\ SamplerRuns /\ [Next]_vars => SamplerRuns'
<1> SUFFICES ASSUME Typed, SamplerRuns, [Next]_vars PROVE SamplerRuns'
  OBVIOUS
<1>1. sampler \in [at : {"none", "asleep", "measuring", "claimed", "ended"}, wake : Nat]
  BY DEF Typed, SamplerOK
<1>2. CASE UNCHANGED <<sampler, sampleIndex, written>>
  <2>1. main' \in Early => sampler'.at = "none"
    BY <1>2, EarlySteps DEF SamplerRuns
  <2>2. sampler'.at = "none" => sampleIndex' = 0
    BY <1>2 DEF SamplerRuns
  <2>3. main' = "start" \/ sampler'.at # "none" => Period' > 0
    <3>1. sampler.at # "none" => main # "parse"
      BY DEF SamplerRuns, Early
    <3>2. main = "start" => main # "parse"
      OBVIOUS
    <3>3. main' = "start" /\ main # "start" => Period > 0 /\ config' = config
      BY EarlySteps DEF Constructs
    <3> QED
      BY <1>2, <3>1, <3>2, <3>3, ConfigStays DEF SamplerRuns, Period
  <2>4. main' \in Reporting => sampler'.at = "ended"
    <3>1. main' \in Reporting /\ main \notin Reporting => Joined
      BY MainSteps DEF Report, Join, Reporting
    <3> QED
      BY <1>2, <3>1 DEF Joined, SamplerRuns
  <2> QED
    BY <2>1, <2>2, <2>3, <2>4 DEF SamplerRuns
<1>3. CASE Start /\ main = "start" /\ sampler' = [at |-> "asleep", wake |-> clock]
  <2>1. main' \in {"limiter", "loop"} /\ config' = config
    BY <1>3 DEF Start, Goto, configVars
  <2> QED
    BY <1>3, <2>1 DEF SamplerRuns, Early, Reporting, Period
<1>4. CASE /\ UNCHANGED main
           /\ \/ Measure \/ ClaimSlot
              \/ WriteSlot(config["duration"], config["interval"])
              \/ EndSampler(config["duration"])
  <2>1. sampler.at \in {"asleep", "measuring", "claimed"} /\ sampler'.at # "none"
        /\ (sampler.at = "ended" => sampler'.at = "ended")
    BY <1>1, <1>4 DEF Measure, ClaimSlot, WriteSlot, EndSampler
  <2>2. main \notin Early /\ main \notin Reporting /\ Period > 0
    BY <2>1 DEF SamplerRuns
  <2>3. config' = config
    BY <2>2, ConfigStays DEF Early
  <2> QED
    BY <1>4, <2>1, <2>2, <2>3 DEF SamplerRuns, Period
<1> QED
  BY <1>2, <1>3, <1>4, SamplerSteps

\* Planned is a number once the interval is.
LEMMA PlannedIsNat == Typed /\ Period > 0 => Planned \in Nat /\ Period \in Nat
<1> SUFFICES ASSUME Typed, Period > 0 PROVE Planned \in Nat /\ Period \in Nat
  OBVIOUS
<1>1. config["duration"] \in Nat /\ Period \in Nat /\ Second \in Nat /\ Margin \in Nat
  BY ClockAssumption, CollectorAssumption DEF Typed, ParserOK, ConfigOK, Fields, Period
<1>2. ASSUME NEW n \in Nat, NEW d \in Nat, d > 0 PROVE n \div d \in Nat
  BY <1>2, Z3
<1>3. config["duration"] * Second \in Nat
  BY <1>1
<1> QED
  BY <1>1, <1>2, <1>3 DEF Planned, SampleSlots, Period

\* The options and the sampler at a step once the sampler runs.
LEMMA SamplerConfig ==
  Typed /\ SamplerRuns /\ [Next]_vars /\ sampler.at # "none" =>
    config' = config /\ Planned' = Planned /\ Period' = Period /\ Planned \in Nat /\ Period > 0
  BY ConfigStays, PlannedIsNat DEF SamplerRuns, Early, Planned, Period

\* Every slot below the index has been written, but for the one just claimed.
SlotsWritten ==
  /\ sampler.at \in {"asleep", "measuring", "ended"} => 0 .. Least(sampleIndex, Planned) - 1 \subseteq written
  /\ sampler.at = "claimed" => 0 .. Least(sampleIndex - 1, Planned) - 1 \subseteq written

LEMMA SlotsWrittenStep ==
  Typed /\ SamplerRuns /\ SlotsWritten /\ [Next]_vars => SlotsWritten'
<1> SUFFICES ASSUME Typed, SamplerRuns, SlotsWritten, [Next]_vars PROVE SlotsWritten'
  OBVIOUS
<1>1. /\ sampler \in [at : {"none", "asleep", "measuring", "claimed", "ended"}, wake : Nat]
      /\ sampleIndex \in Nat /\ (sampler.at = "claimed" => sampleIndex > 0)
  BY DEF Typed, SamplerOK
<1>2. CASE UNCHANGED <<sampler, sampleIndex, written>>
  <2>1. CASE sampler.at = "none"
    BY <1>2, <2>1 DEF SlotsWritten
  <2>2. CASE sampler.at # "none"
    BY <1>2, <2>2, SamplerConfig DEF SlotsWritten, Least
  <2> QED
    BY <2>1, <2>2
<1>3. CASE Start /\ main = "start" /\ sampler' = [at |-> "asleep", wake |-> clock]
           /\ UNCHANGED <<clock, sampleIndex, written>>
  <2>1. sampleIndex = 0 /\ Period > 0 /\ Planned \in Nat
    BY <1>3, PlannedIsNat DEF SamplerRuns, Early
  <2>2. Planned' = Planned
    BY <1>3 DEF Start, configVars, Planned
  <2>3. Least(0, Planned) <= 0 /\ Least(0, Planned) \in Int
    BY <2>1 DEF Least
  <2>4. 0 .. Least(0, Planned) - 1 = {}
    BY <2>3
  <2> QED
    BY <1>3, <2>1, <2>2, <2>4 DEF SlotsWritten, Least
<1>4. CASE ClaimSlot
  <2>1. sampler.at = "measuring" /\ sampler'.at = "claimed" /\ written' = written
        /\ sampleIndex' - 1 = sampleIndex
    BY <1>1, <1>4 DEF ClaimSlot, ClaimIndex
  <2> QED
    BY <2>1, SamplerConfig DEF SlotsWritten, Least
<1>5. CASE WriteSlot(config["duration"], config["interval"])
  <2>1. /\ sampler.at = "claimed" /\ sampler'.at = "asleep" /\ sampleIndex' = sampleIndex
        /\ written' = IF sampleIndex - 1 < Planned THEN written \cup {sampleIndex - 1} ELSE written
    BY <1>5 DEF WriteSlot, Planned
  <2>2. Planned \in Nat /\ Planned' = Planned /\ sampleIndex > 0
    BY <1>1, <2>1, SamplerConfig
  <2>3. 0 .. Least(sampleIndex - 1, Planned) - 1 \subseteq written
    BY <2>1 DEF SlotsWritten
  <2>4. 0 .. Least(sampleIndex, Planned) - 1 \subseteq written'
    <3>1. CASE sampleIndex - 1 < Planned
      <4>1. Least(sampleIndex, Planned) = sampleIndex /\ Least(sampleIndex - 1, Planned) = sampleIndex - 1
        BY <1>1, <2>2, <3>1 DEF Least
      <4>2. \A i \in 0 .. sampleIndex - 1 : i = sampleIndex - 1 \/ i \in 0 .. (sampleIndex - 1) - 1
        BY <1>1, <2>2
      <4> QED
        BY <2>1, <2>3, <3>1, <4>1, <4>2
    <3>2. CASE ~(sampleIndex - 1 < Planned)
      <4>1. Least(sampleIndex, Planned) = Planned /\ Least(sampleIndex - 1, Planned) = Planned
        BY <1>1, <2>2, <3>2 DEF Least
      <4> QED
        BY <2>1, <2>3, <3>2, <4>1
    <3> QED
      BY <3>1, <3>2
  <2> QED
    BY <2>1, <2>2, <2>4 DEF SlotsWritten
<1>6. CASE EndSampler(config["duration"])
  <2>1. sampler.at = "asleep" /\ sampler'.at = "ended" /\ UNCHANGED <<sampleIndex, written>>
    BY <1>1, <1>6 DEF EndSampler
  <2> QED
    BY <2>1, SamplerConfig DEF SlotsWritten, Least
<1>7. CASE Measure
  <2>1. sampler.at = "asleep" /\ sampler'.at = "measuring" /\ UNCHANGED <<sampleIndex, written>>
    BY <1>1, <1>7 DEF Measure
  <2> QED
    BY <2>1, SamplerConfig DEF SlotsWritten, Least
<1> QED
  BY <1>2, <1>3, <1>4, <1>5, <1>6, <1>7, SamplerSteps

\* The sampler sleeps a period after each sample.
SamplerPaced ==
  /\ sampler.at = "asleep" => sampler.wake >= sampleIndex * Period
  /\ sampler.at = "measuring" => clock >= sampleIndex * Period
  /\ sampleIndex > 0 => clock >= (sampleIndex - 1) * Period

LEMMA SamplerPacedStep ==
  Typed /\ LimiterTypeOK /\ SamplerRuns /\ SamplerPaced /\ [Next]_vars => SamplerPaced'
<1> SUFFICES ASSUME Typed, LimiterTypeOK, SamplerRuns, SamplerPaced, [Next]_vars
             PROVE  SamplerPaced'
  OBVIOUS
<1>1. /\ sampler \in [at : {"none", "asleep", "measuring", "claimed", "ended"}, wake : Nat]
      /\ sampleIndex \in Nat /\ (sampler.at = "claimed" => sampleIndex > 0) /\ clock \in Nat
  BY DEF Typed, SamplerOK, LimiterTypeOK
<1>2. sampler.at # "none" => Period' = Period /\ Period \in Nat
  BY SamplerConfig, PlannedIsNat
<1>3. clock' \in Nat /\ clock <= clock'
  <2>1. CASE Time
    BY <1>1, <2>1 DEF Time, Tick
  <2>2. clock' = clock \/ Time
    BY DEF Next, Main, Parse, Construct, Start, NewLimiter, LoopEnds, WaitForToken, Call,
      CallReturns, Publish, Published, WritePanics, StopProgress, StopCollector, Join,
      Report, Progress, SamplerThread, Listener, Deliver, CheckOrder, Offer, PlaceSample,
      Serve, Respond, vars
  <2> QED
    BY <1>1, <2>1, <2>2
<1>4. CASE UNCHANGED <<sampler, sampleIndex, written>>
  <2>1. CASE sampler.at = "none"
    BY <1>4, <2>1 DEF SamplerRuns, SamplerPaced
  <2>2. CASE sampler.at # "none"
    <3>1. (sampleIndex - 1) * Period \in Int /\ sampleIndex * Period \in Int
      BY <1>1, <1>2, <2>2
    <3> QED
      BY <1>1, <1>2, <1>3, <1>4, <2>2, <3>1 DEF SamplerPaced
  <2> QED
    BY <2>1, <2>2
<1>5. CASE Start /\ main = "start" /\ sampler' = [at |-> "asleep", wake |-> clock]
           /\ UNCHANGED <<clock, sampleIndex, written>>
  <2>1. sampleIndex = 0 /\ Period \in Nat
    BY <1>5, PlannedIsNat DEF SamplerRuns, Early
  <2>2. Period' = Period
    BY <1>5 DEF Start, configVars, Period
  <2> QED
    BY <1>1, <1>5, <2>1, <2>2 DEF SamplerPaced
<1>6. CASE ClaimSlot
  <2>1. sampler.at = "measuring" /\ sampler'.at = "claimed" /\ sampleIndex' - 1 = sampleIndex
    BY <1>1, <1>6 DEF ClaimSlot, ClaimIndex
  <2>2. sampleIndex * Period \in Nat /\ clock >= sampleIndex * Period
    BY <1>1, <1>2, <2>1 DEF SamplerPaced
  <2> QED
    BY <1>1, <1>2, <1>3, <2>1, <2>2 DEF SamplerPaced
<1>7. CASE WriteSlot(config["duration"], config["interval"])
  <2>1. sampler.at = "claimed" /\ sampler' = [at |-> "asleep", wake |-> clock + Period]
        /\ sampleIndex' = sampleIndex
    BY <1>7 DEF WriteSlot, Period
  <2>2. (sampleIndex - 1) * Period + Period = sampleIndex * Period
    BY <1>1, <1>2, <2>1
  <2>3. clock >= (sampleIndex - 1) * Period /\ (sampleIndex - 1) * Period \in Nat
    BY <1>1, <1>2, <2>1 DEF SamplerPaced
  <2>4. clock + Period >= sampleIndex * Period
    BY <1>1, <1>2, <2>1, <2>2, <2>3
  <2> QED
    BY <1>1, <1>2, <1>3, <2>1, <2>3, <2>4 DEF SamplerPaced
<1>8. CASE EndSampler(config["duration"])
  <2>1. sampler.at = "asleep" /\ sampler'.at = "ended" /\ UNCHANGED sampleIndex
    BY <1>1, <1>8 DEF EndSampler
  <2>2. (sampleIndex - 1) * Period \in Int
    BY <1>1, <1>2, <2>1
  <2> QED
    BY <1>1, <1>2, <1>3, <2>1, <2>2 DEF SamplerPaced
<1>9. CASE Measure
  <2>1. /\ sampler.at = "asleep" /\ sampler'.at = "measuring" /\ clock >= sampler.wake
        /\ UNCHANGED sampleIndex
    BY <1>1, <1>9 DEF Measure
  <2>2. (sampleIndex - 1) * Period \in Int /\ sampleIndex * Period \in Int
    BY <1>1, <1>2, <2>1
  <2>3. clock >= sampleIndex * Period
    BY <1>1, <2>1, <2>2 DEF SamplerPaced
  <2> QED
    BY <1>1, <1>2, <1>3, <2>1, <2>2, <2>3 DEF SamplerPaced
<1> QED
  BY <1>4, <1>5, <1>6, <1>7, <1>8, <1>9, SamplerSteps

LEMMA SamplerInit == Init => SamplerRuns /\ SlotsWritten /\ SamplerPaced
  BY DEF Init, CollectorInit, SamplerRuns, SlotsWritten, SamplerPaced, Reporting

LEMMA AlwaysSampler == Spec => []SamplerRuns
  BY SamplerInit, SamplerRunsStep, AlwaysTyped, PTL DEF Spec

\* Every system sample of the report was written, although a slot is
\* claimed before it is written: stop() is followed by the sampler's join.
THEOREM NoUnwrittenSample == Spec => []SamplesAreWritten
<1>1. SamplerRuns /\ SlotsWritten => SamplesAreWritten
  BY DEF SamplerRuns, SlotsWritten, SamplesAreWritten, Reporting, Planned
<1> QED
  BY <1>1, SamplerInit, SlotsWrittenStep, AlwaysSampler, AlwaysTyped, PTL DEF Spec

\* The buffer of system samples runs out only when the measurement lasts
\* longer than planned, by the safety margin of MetricsCollector::new less
\* one interval: the division rounds down.
THEOREM BufferLasts == Spec => []DropsOnlyWhenLate
<1>1. Typed /\ LimiterTypeOK /\ SamplerRuns /\ SamplerPaced => DropsOnlyWhenLate
  <2> SUFFICES ASSUME Typed, LimiterTypeOK, SamplerRuns, SamplerPaced,
                      sampler.at # "none", sampleIndex > Planned
               PROVE  clock > config["duration"] * Second + (Margin - 1) * Period
    BY DEF DropsOnlyWhenLate, Planned, Period
  <2> DEFINE total == config["duration"] * Second
             q == total \div Period
  <2>1. Period \in Nat /\ Period > 0 /\ Margin \in Nat /\ total \in Nat
        /\ sampleIndex \in Nat /\ clock \in Nat
    BY PlannedIsNat, ClockAssumption, CollectorAssumption
    DEF SamplerRuns, Typed, ParserOK, ConfigOK, Fields, SamplerOK, LimiterTypeOK
  <2>2. sampleIndex - 1 >= q + Margin
    <3>1. Planned = q + Margin
      BY DEF Planned, SampleSlots, Period
    <3> HIDE DEF q
    <3>2. q \in Nat
      BY <2>1, Quotient DEF q
    <3> QED
      BY <2>1, <3>1, <3>2
  <2> HIDE DEF total
  <2>3. q \in Nat /\ total < (q + 1) * Period
    BY <2>1, Quotient
  <2> HIDE DEF q
  <2>4. clock >= (sampleIndex - 1) * Period
    BY <2>1, <2>2, <2>3 DEF SamplerPaced
  <2>5. (sampleIndex - 1) * Period >= (q + Margin) * Period
    BY <2>1, <2>2, <2>3, Z3
  <2>6. (q + Margin) * Period = (q + 1) * Period + (Margin - 1) * Period
    BY <2>1, <2>3
  <2>7. /\ (sampleIndex - 1) * Period \in Int /\ (q + Margin) * Period \in Int
        /\ (q + 1) * Period \in Int /\ (Margin - 1) * Period \in Int
    BY <2>1, <2>3
  <2>8. clock > total + (Margin - 1) * Period
    BY <2>1, <2>3, <2>4, <2>5, <2>6, <2>7
  <2> QED
    BY <2>8 DEF total
<1> QED
  BY <1>1, SamplerInit, SamplerPacedStep, AlwaysSampler, AlwaysTyped, LimiterIsTyped, PTL DEF Spec

-----------------------------------------------------------------------------
(* The subscriber counts every step down and every repetition.             *)

\* The next number makes a step of its own.
LEMMA NewStep ==
  ASSUME delivered \in Seq(Nat), NEW k \in Nat \ {0}, delivered' = Append(delivered, k)
  PROVE  /\ Cardinality(Descents) \in Nat /\ Cardinality(Repeats) \in Nat
         /\ Cardinality(Descents') = Cardinality(Descents) + IF k < LastReceived THEN 1 ELSE 0
         /\ Cardinality(Repeats') = Cardinality(Repeats) + IF k = LastReceived THEN 1 ELSE 0
<1> DEFINE n == Len(delivered)
<1>1. /\ n \in Nat /\ Len(delivered') = n + 1 /\ delivered'[n + 1] = k
      /\ \A i \in 1 .. n : delivered'[i] = delivered[i]
  OBVIOUS
<1>2. /\ n = 0 => LastReceived = 0
      /\ n > 0 => LastReceived = delivered[n]
  BY DEF LastReceived
<1>3. IsFiniteSet(2 .. n)
  BY <1>1, FS_Interval
<1>4. /\ IsFiniteSet(Descents) /\ IsFiniteSet(Repeats)
      /\ n + 1 \notin Descents /\ n + 1 \notin Repeats
  <2>1. Descents \in SUBSET (2 .. n) /\ Repeats \in SUBSET (2 .. n)
    BY DEF Descents, Repeats
  <2>2. n + 1 \notin 2 .. n
    BY <1>1
  <2>3. IsFiniteSet(Descents) /\ IsFiniteSet(Repeats)
    BY <1>3, <2>1, FS_Subset
  <2> QED
    BY <2>1, <2>2, <2>3
<1>5. Descents' = IF k < LastReceived THEN Descents \cup {n + 1} ELSE Descents
  <2> HIDE DEF n
  <2>1. \A i : i \in Descents' <=> \/ i \in Descents
                                   \/ i = n + 1 /\ k < LastReceived
    BY <1>1, <1>2 DEF Descents, n
  <2> QED
    BY <2>1
<1>6. Repeats' = IF k = LastReceived THEN Repeats \cup {n + 1} ELSE Repeats
  <2> HIDE DEF n
  <2>1. \A i : i \in Repeats' <=> \/ i \in Repeats
                                  \/ i = n + 1 /\ k = LastReceived
    BY <1>1, <1>2 DEF Repeats, n
  <2> QED
    BY <2>1
<1>7. /\ Cardinality(Descents \cup {n + 1}) = Cardinality(Descents) + 1
      /\ Cardinality(Repeats \cup {n + 1}) = Cardinality(Repeats) + 1
      /\ Cardinality(Descents) \in Nat /\ Cardinality(Repeats) \in Nat
  BY <1>4, FS_AddElement, FS_CardinalityType
<1> QED
  BY <1>5, <1>6, <1>7

\* Between the two steps of the callback the sample is received and not yet
\* compared.
Due(step) == IF callback.at = "counted" /\ step THEN 1 ELSE 0

OrderCounted ==
  role = "subscriber" =>
    /\ IF callback.at = "counted"
       THEN delivered # <<>> /\ callback.sample = LastReceived
       ELSE lastSequence = LastReceived
    /\ counters["out_of_order"] + Due(callback.sample < lastSequence) = Cardinality(Descents)
    /\ counters["duplicates"] + Due(callback.sample = lastSequence) = Cardinality(Repeats)

LEMMA LastSequenceFrame == [Next]_vars => CheckOrder \/ UNCHANGED lastSequence
  BY DEF Next, Main, Parse, Construct, Start, NewLimiter, LoopEnds, WaitForToken, Call,
    CallReturns, Publish, Published, WritePanics, StopProgress, StopCollector, Join,
    Report, Progress, SamplerThread, Listener, Deliver, Offer, PlaceSample, Serve,
    Respond, Time, vars, taskVars, otherTasks

\* The steps of the subscriber's listener task, and all the others.
LEMMA SubscriberSteps ==
  InRole /\ role = "subscriber" /\ [Next]_vars =>
    \/ Deliver \/ CheckOrder
    \/ (Offer \/ PlaceSample) /\ UNCHANGED <<counters, lastSequence, peerVars>>
    \/ UNCHANGED <<counters, callback, lastSequence, peerVars>>
<1> SUFFICES ASSUME InRole, role = "subscriber", [Next]_vars, ~Deliver, ~CheckOrder
             PROVE  \/ (Offer \/ PlaceSample) /\ UNCHANGED <<counters, lastSequence, peerVars>>
                    \/ UNCHANGED <<counters, callback, lastSequence, peerVars>>
  OBVIOUS
<1>1. UNCHANGED counters
  BY CountersFrame DEF InRole, Call, CallReturns, Published, Serve, Respond
<1>2. Offer \/ PlaceSample \/ UNCHANGED callback
  BY CallbackFrame DEF Serve, Respond
<1>3. UNCHANGED peerVars /\ UNCHANGED lastSequence
  BY PeerFrame, LastSequenceFrame DEF Serve
<1> QED
  BY <1>1, <1>2, <1>3

LEMMA OrderCountedStep == Typed /\ InRole /\ OrderCounted /\ [Next]_vars => OrderCounted'
<1> SUFFICES ASSUME Typed, InRole, OrderCounted, [Next]_vars, role = "subscriber"
             PROVE  OrderCounted'
  BY SameRole DEF OrderCounted
<1>1. /\ counters \in [CounterNames -> Nat]
      /\ callback \in [at : {"idle", "counted", "offer", "place"}, sample : Nat, n : Nat]
      /\ delivered \in Seq(Nat)
  BY DEF Typed, CountersOK, CallbackOK
<1>2. {"received", "highest", "duplicates", "out_of_order"} \subseteq CounterNames
  BY DEF CounterNames
<1>3. CASE Deliver
  <2>1. PICK k \in 1 .. MaxNumber :
          /\ delivered' = Append(delivered, k)
          /\ callback' = [callback EXCEPT !.at = "counted", !.sample = k]
    BY <1>3 DEF Deliver
  <2>2. k \in Nat \ {0}
    BY BenchmarkAssumption
  <2>3. callback'.at = "counted" /\ callback'.sample = k /\ callback.at = "idle"
    BY <1>1, <1>3, <2>1 DEF Deliver, Received
  <2>4. delivered' # <<>> /\ LastReceived' = k
    BY <1>1, <2>1, <2>2 DEF LastReceived
  <2>5. lastSequence' = lastSequence /\ lastSequence = LastReceived
    BY <1>3, <2>3 DEF Deliver, OrderCounted
  <2>6. /\ counters'["out_of_order"] = Cardinality(Descents)
        /\ counters'["duplicates"] = Cardinality(Repeats)
    <3>1. /\ counters'["out_of_order"] = counters["out_of_order"]
          /\ counters'["duplicates"] = counters["duplicates"]
      BY <1>1, <1>2, <1>3 DEF Deliver, Received, Inc
    <3>2. counters["out_of_order"] \in Nat /\ counters["duplicates"] \in Nat
      BY <1>1, <1>2
    <3> QED
      BY <2>3, <3>1, <3>2 DEF OrderCounted, Due
  <2>7. /\ Cardinality(Descents') = Cardinality(Descents) + IF k < LastReceived THEN 1 ELSE 0
        /\ Cardinality(Repeats') = Cardinality(Repeats) + IF k = LastReceived THEN 1 ELSE 0
    BY <1>1, <2>1, <2>2, NewStep
  <2> QED
    BY <2>3, <2>4, <2>5, <2>6, <2>7 DEF OrderCounted, Due
<1>4. CASE CheckOrder
  <2>1. callback.at = "counted" /\ callback'.at # "counted"
    BY <1>4 DEF CheckOrder, Idle
  <2>2. LastReceived' = LastReceived /\ Descents' = Descents /\ Repeats' = Repeats
    BY <1>4 DEF CheckOrder, peerVars, LastReceived, Descents, Repeats
  <2>3. lastSequence' = callback.sample
    BY <1>4 DEF CheckOrder, NextLast
  <2>4. /\ counters'["out_of_order"] =
             counters["out_of_order"] + IF callback.sample < lastSequence THEN 1 ELSE 0
        /\ counters'["duplicates"] =
             counters["duplicates"] + IF callback.sample = lastSequence THEN 1 ELSE 0
    BY <1>1, <1>2, <1>4 DEF CheckOrder
  <2>5. /\ counters'["out_of_order"] = Cardinality(Descents)
        /\ counters'["duplicates"] = Cardinality(Repeats)
    BY <2>1, <2>4 DEF OrderCounted, Due
  <2>6. counters'["out_of_order"] \in Nat /\ counters'["duplicates"] \in Nat
    BY <1>1, <1>2, <2>4
  <2>7. Due(callback.sample < lastSequence)' = 0 /\ Due(callback.sample = lastSequence)' = 0
    BY <2>1 DEF Due
  <2>8. lastSequence' = LastReceived'
    BY <2>1, <2>2, <2>3 DEF OrderCounted
  <2> QED
    BY <2>1, <2>2, <2>5, <2>6, <2>7, <2>8 DEF OrderCounted
<1>5. CASE /\ Offer \/ PlaceSample
           /\ UNCHANGED <<counters, lastSequence, peerVars>>
  <2>1. callback.at # "counted" /\ callback'.at # "counted"
    <3>1. CASE Offer
      BY <1>1, <3>1 DEF Offer
    <3>2. CASE PlaceSample
      BY <3>2 DEF PlaceSample, Idle
    <3> QED
      BY <1>5, <3>1, <3>2
  <2>2. /\ LastReceived' = LastReceived /\ Descents' = Descents /\ Repeats' = Repeats
        /\ counters' = counters /\ lastSequence' = lastSequence
    BY <1>5 DEF peerVars, LastReceived, Descents, Repeats
  <2> QED
    BY <2>1, <2>2 DEF OrderCounted, Due
<1>6. CASE UNCHANGED <<counters, callback, lastSequence, peerVars>>
  <2>1. /\ LastReceived' = LastReceived /\ Descents' = Descents /\ Repeats' = Repeats
        /\ counters' = counters /\ lastSequence' = lastSequence /\ callback' = callback
        /\ delivered' = delivered
    BY <1>6 DEF peerVars, LastReceived, Descents, Repeats
  <2> QED
    BY <2>1 DEF OrderCounted, Due
<1> QED
  BY <1>3, <1>4, <1>5, <1>6, SubscriberSteps

LEMMA OrderInit == Init => OrderCounted
<1> SUFFICES ASSUME Init PROVE OrderCounted
  OBVIOUS
<1>1. delivered = <<>> /\ callback.at = "idle" /\ lastSequence = 0
  BY DEF Init, Idle
<1>2. counters["out_of_order"] = 0 /\ counters["duplicates"] = 0
  BY DEF Init, CollectorInit, CounterNames
<1>3. Descents = {} /\ Repeats = {}
  BY <1>1 DEF Descents, Repeats
<1> QED
  BY <1>1, <1>2, <1>3, FS_EmptySet DEF OrderCounted, Due, LastReceived

\* Whatever order the numbers of the samples come in, and after a restart of
\* the publisher, the subscriber counts each step down as out of order and
\* each repetition as a duplicate, once: LAST_SEQUENCE is the number of the
\* sample before.
THEOREM EachStepCounted == Spec => []DescentsCounted
<1>1. Typed /\ OrderCounted => DescentsCounted
  BY DEF Typed, CountersOK, CounterNames, OrderCounted, Due, DescentsCounted
<1> QED
  BY <1>1, OrderInit, OrderCountedStep, AlwaysTyped, AlwaysInRole, PTL DEF Spec

-----------------------------------------------------------------------------
(* The latencies of the report.                                            *)

\* The number of the newest sample, and whether its latency is yet to come.
Newest == IF role = "caller" THEN counters["sent"] ELSE Len(delivered)
Pending == IF role = "caller" THEN main = "calling" ELSE callback.at # "idle"
Fresh(latency) == latency <= Newest /\ (Pending => latency < Newest)

Listens == callback.at \in {"offer", "place"} => role = "subscriber"

SlotsReal ==
  /\ \A i \in 1 .. Capacity : Fresh(slots[i])
  /\ \A i, j \in 1 .. Capacity : i # j /\ slots[i] > 0 => slots[i] # slots[j]

\* What the report has read is not in the slots it has yet to read.
ReadReal ==
  /\ \A k \in DOMAIN report.latencies :
       /\ report.latencies[k] > 0 /\ Fresh(report.latencies[k])
       /\ \A j \in report.next .. Capacity : slots[j] # report.latencies[k]
  /\ \A k, l \in DOMAIN report.latencies : k # l => report.latencies[k] # report.latencies[l]

ReservoirReal == Listens /\ SlotsReal /\ ReadReal

\* The newest sample becomes older, never newer.
LEMMA NewestSteps ==
  Typed /\ InRole /\ [Next]_vars =>
    \/ Newest' = Newest /\ (Pending' => Pending)
    \/ Newest' = Newest + 1 /\ ~Pending /\ UNCHANGED <<slots, report>>
<1> SUFFICES ASSUME Typed, InRole, [Next]_vars
             PROVE  \/ Newest' = Newest /\ (Pending' => Pending)
                    \/ Newest' = Newest + 1 /\ ~Pending /\ UNCHANGED <<slots, report>>
  OBVIOUS
<1>1. /\ role' = role /\ delivered \in Seq(Nat)
      /\ counters \in [CounterNames -> Nat] /\ "sent" \in CounterNames
  BY SameRole DEF Typed, CallbackOK, CountersOK, CounterNames
<1>2. CASE role = "caller"
  <2>1. CASE Call
    BY <1>1, <1>2, <2>1 DEF Call, MayRequest, Inc, Newest, Pending, otherTasks
  <2>2. CASE ~Call
    <3>1. counters'["sent"] = counters["sent"]
      <4>1. CASE CallReturns
        BY <1>1, <4>1 DEF CallReturns, CountedAs, Inc
      <4> QED
        BY <1>2, <2>2, <4>1, CountersFrame
        DEF InRole, Published, Deliver, CheckOrder, Serve, Respond
    <3>2. main' = "calling" => main = "calling"
      BY <2>2, CallSteps DEF CallReturns, Goto
    <3> QED
      BY <1>1, <1>2, <3>1, <3>2 DEF Newest, Pending
  <2> QED
    BY <2>1, <2>2
<1>3. CASE role # "caller"
  <2>1. CASE Deliver \/ Serve
    <3>1. \E k : delivered' = Append(delivered, k)
      BY <2>1 DEF Deliver, Serve
    <3>2. callback.at = "idle" /\ UNCHANGED <<slots, report>>
      BY <2>1 DEF Deliver, Serve, Received
    <3> QED
      BY <1>1, <1>3, <3>1, <3>2 DEF Newest, Pending
  <2>2. CASE ~Deliver /\ ~Serve
    <3>1. delivered' = delivered
      BY <2>2, PeerFrame DEF peerVars
    <3>2. callback'.at # "idle" => callback.at # "idle"
      BY <2>2, CallbackFrame DEF CheckOrder, Offer, PlaceSample, Respond, Idle
    <3> QED
      BY <1>1, <1>3, <3>1, <3>2 DEF Newest, Pending
  <2> QED
    BY <2>1, <2>2
<1> QED
  BY <1>2, <1>3

\* So an older latency stays one.
LEMMA StaysFresh ==
  ASSUME Typed, InRole, [Next]_vars, NEW latency \in Nat, Fresh(latency)
  PROVE  latency <= Newest' /\ (Pending' => latency < Newest')
<1>1. Newest \in Nat
  BY DEF Newest, Typed, CallbackOK, CountersOK, CounterNames
<1> QED
  BY <1>1, NewestSteps DEF Fresh

\* A latency is placed once, by the step after which nothing is pending; it
\* is of the newest sample, or 0.
LEMMA ReservoirSteps ==
  Typed /\ InRole /\ Listens /\ [Next]_vars =>
    \/ UNCHANGED slots
    \/ /\ Pending /\ ~Pending' /\ UNCHANGED report
       /\ \E n, latency : latency \in {0, Newest} /\ Place(n, latency)
<1> SUFFICES ASSUME Typed, InRole, Listens, [Next]_vars, ~UNCHANGED slots
             PROVE  /\ Pending /\ ~Pending' /\ UNCHANGED report
                    /\ \E n, latency : latency \in {0, Newest} /\ Place(n, latency)
  OBVIOUS
<1>1. CASE CallReturns
  <2>1. role = "caller" /\ role' = "caller" /\ main = "calling" /\ main' = "loop"
    BY <1>1, SameRole DEF CallReturns, InRole, Goto
  <2>2. \E latency \in {0, counters["sent"]} : Place(seen, latency)
    BY <1>1 DEF CallReturns
  <2> QED
    BY <1>1, <2>1, <2>2 DEF CallReturns, otherTasks, Newest, Pending
<1>2. CASE PlaceSample
  <2>1. role = "subscriber" /\ role' = "subscriber" /\ callback.at = "place"
    BY <1>2, SameRole DEF PlaceSample, Listens
  <2>2. callback'.at = "idle" /\ Place(callback.n, Len(delivered)) /\ UNCHANGED report
    BY <1>2 DEF PlaceSample, Idle
  <2> QED
    BY <2>1, <2>2 DEF Newest, Pending
<1> QED
  BY <1>1, <1>2, ReservoirFrame DEF Offer

LEMMA ListensStep == Listens /\ [Next]_vars => Listens'
<1> SUFFICES ASSUME Listens, [Next]_vars PROVE Listens'
  OBVIOUS
<1>1. CASE Deliver \/ CheckOrder
  BY <1>1, SameRole DEF Deliver, CheckOrder, Listens
<1>2. CASE Offer
  BY <1>2, SameRole DEF Offer, Listens
<1>3. CASE PlaceSample \/ Respond
  BY <1>3 DEF PlaceSample, Respond, Idle, Listens
<1>4. CASE Serve
  BY <1>4, SameRole DEF Serve, Received, Listens
<1>5. CASE UNCHANGED callback
  BY <1>5, SameRole DEF Listens
<1> QED
  BY <1>1, <1>2, <1>3, <1>4, <1>5, CallbackFrame

\* One slot changes, to the newest latency or to 0.
LEMMA PlacedSlots ==
  ASSUME Typed, NEW n, NEW latency, Place(n, latency)
  PROVE  \E j : \A i \in 1 .. Capacity : slots'[i] = IF i = j THEN latency ELSE slots[i]
  BY DEF Place

LEMMA SlotsRealStep == Typed /\ InRole /\ Listens /\ SlotsReal /\ [Next]_vars => SlotsReal'
<1> SUFFICES ASSUME Typed, InRole, Listens, SlotsReal, [Next]_vars PROVE SlotsReal'
  OBVIOUS
<1>1. \A i \in 1 .. Capacity : slots[i] \in Nat
  BY DEF Typed, ReservoirOK
<1>2. \A i \in 1 .. Capacity : slots[i] <= Newest' /\ (Pending' => slots[i] < Newest')
  BY <1>1, StaysFresh DEF SlotsReal
<1>3. CASE UNCHANGED slots
  BY <1>2, <1>3 DEF SlotsReal, Fresh
<1>4. ASSUME Pending, ~Pending', NEW n, NEW latency \in {0, Newest}, Place(n, latency)
      PROVE  SlotsReal'
  <2>1. PICK j : \A i \in 1 .. Capacity : slots'[i] = IF i = j THEN latency ELSE slots[i]
    BY <1>4, PlacedSlots
  <2>2. \A i \in 1 .. Capacity : slots[i] < Newest
    BY <1>4 DEF SlotsReal, Fresh
  <2>3. Newest' = Newest /\ Newest \in Nat
    BY <1>4, NewestSteps DEF Newest, Typed, CallbackOK, CountersOK, CounterNames
  <2>4. \A i \in 1 .. Capacity : slots'[i] <= Newest'
    BY <1>2, <2>1, <2>3
  <2>5. \A i, k \in 1 .. Capacity : i # k /\ slots'[i] > 0 => slots'[i] # slots'[k]
    BY <1>1, <2>1, <2>2, <2>3 DEF SlotsReal
  <2> QED
    BY <1>4, <2>4, <2>5 DEF SlotsReal, Fresh
<1> QED
  BY <1>3, <1>4, ReservoirSteps

\* What the report reads, and when it goes on.
LEMMA ReportSteps ==
  Typed /\ Report =>
    \/ /\ main = "snapshot" /\ main' \in {"snapshot", "samples"}
       /\ report'.next = report.next /\ report'.latencies = report.latencies
       /\ report'.counted \in {report.counted, Least(seen, Capacity)}
       /\ UNCHANGED <<slots, seen>>
    \/ /\ main = "samples" /\ main' = "samples" /\ report.next <= report.counted
       /\ report'.next = report.next + 1 /\ report'.counted = report.counted
       /\ report'.latencies = IF slots[report.next] > 0
                              THEN Append(report.latencies, slots[report.next])
                              ELSE report.latencies
       /\ UNCHANGED <<slots, seen>>
    \/ /\ main = "samples" /\ main' = "done"
       /\ report'.next = report.next /\ report'.latencies = report.latencies
       /\ report'.counted = report.counted /\ report'.offered = seen
       /\ UNCHANGED <<slots, seen>>
<1> SUFFICES ASSUME Typed, Report
             PROVE  \/ /\ main = "snapshot" /\ main' \in {"snapshot", "samples"}
                       /\ report'.next = report.next /\ report'.latencies = report.latencies
                       /\ report'.counted \in {report.counted, Least(seen, Capacity)}
                    \/ /\ main = "samples" /\ main' = "samples" /\ report.next <= report.counted
                       /\ report'.next = report.next + 1 /\ report'.counted = report.counted
                       /\ report'.latencies = IF slots[report.next] > 0
                                              THEN Append(report.latencies, slots[report.next])
                                              ELSE report.latencies
                    \/ /\ main = "samples" /\ main' = "done"
                       /\ report'.next = report.next /\ report'.latencies = report.latencies
                       /\ report'.counted = report.counted /\ report'.offered = seen
  BY DEF Report, collectorVars
<1>1. report \in [snap : Snapshots, counted : 0 .. Capacity, next : Nat \ {0},
                  latencies : Seq(Nat), offered : Nat]
  BY DEF Typed, ReportOK
<1> QED
  BY <1>1 DEF Report, Goto, Counted, Kept

LEMMA ReadRealStep ==
  Typed /\ InRole /\ ReservoirReal /\ [Next]_vars => ReadReal'
<1> SUFFICES ASSUME Typed, InRole, ReservoirReal, [Next]_vars PROVE ReadReal'
  OBVIOUS
<1> USE DEF ReservoirReal
<1> DEFINE s == report.latencies
<1>1. /\ s \in Seq(Nat) /\ report.next \in Nat \ {0} /\ report.counted \in 0 .. Capacity
      /\ \A i \in 1 .. Capacity : slots[i] \in Nat
      /\ Capacity \in Nat
  BY CollectorAssumption DEF Typed, ReportOK, ReservoirOK
<1>2. \A k \in DOMAIN s : s[k] \in Nat /\ s[k] > 0
  BY <1>1 DEF ReadReal
<1>3. \A k \in DOMAIN s : s[k] <= Newest' /\ (Pending' => s[k] < Newest')
  BY <1>2, StaysFresh DEF ReadReal
<1>4. ASSUME report'.latencies = s, report'.next = report.next
      PROVE  ReadReal'
  <2>1. CASE UNCHANGED slots
    BY <1>2, <1>3, <1>4, <2>1 DEF ReadReal, Fresh
  <2>2. ASSUME Pending, NEW n, NEW latency \in {0, Newest}, Place(n, latency)
        PROVE  ReadReal'
    <3>1. PICK j : \A i \in 1 .. Capacity : slots'[i] = IF i = j THEN latency ELSE slots[i]
      BY <2>2, PlacedSlots
    <3>2. \A k \in DOMAIN s : s[k] # latency
      <4>1. Newest \in Nat
        BY DEF Newest, Typed, CallbackOK, CountersOK, CounterNames
      <4> QED
        BY <1>2, <2>2, <4>1 DEF ReadReal, Fresh
    <3>3. \A k \in DOMAIN s : \A i \in report.next .. Capacity : slots'[i] # s[k]
      BY <1>1, <3>1, <3>2 DEF ReadReal
    <3> QED
      BY <1>2, <1>3, <1>4, <3>3 DEF ReadReal, Fresh
  <2> QED
    BY <2>1, <2>2, ReservoirSteps
<1>5. ASSUME report'.next = report.next + 1, report.next <= report.counted,
             report'.latencies = IF slots[report.next] > 0 THEN Append(s, slots[report.next]) ELSE s,
             UNCHANGED slots
      PROVE  ReadReal'
  <2> DEFINE new == slots[report.next]
             t == report'.latencies
  <2>1. report.next \in 1 .. Capacity /\ new \in Nat
    BY <1>1, <1>5
  <2>2. new <= Newest' /\ (Pending' => new < Newest')
    BY <2>1, StaysFresh DEF SlotsReal
  <2>3. \A k \in DOMAIN s : s[k] # new /\ \A j \in report'.next .. Capacity : slots[j] # s[k]
    BY <1>1, <1>5, <2>1 DEF ReadReal
  <2>4. new > 0 => \A j \in report'.next .. Capacity : slots[j] # new
    BY <1>1, <1>5, <2>1 DEF SlotsReal
  <2>5. CASE ~(new > 0)
    BY <1>2, <1>3, <1>5, <2>3, <2>5 DEF ReadReal, Fresh
  <2>6. CASE new > 0
    <3>1. t = Append(s, new)
      BY <1>5, <2>6
    <3>2. /\ \A k \in DOMAIN t : (k \in DOMAIN s /\ t[k] = s[k]) \/ (k = Len(s) + 1 /\ t[k] = new)
          /\ Len(s) + 1 \notin DOMAIN s
      <4> HIDE DEF t, s, new
      <4> QED
        BY <1>1, <2>1, <3>1
    <3> HIDE DEF t, s, new
    <3>3. \A k \in DOMAIN t : t[k] > 0 /\ t[k] <= Newest' /\ (Pending' => t[k] < Newest')
      BY <1>2, <1>3, <2>2, <2>6, <3>2
    <3>4. \A k \in DOMAIN t : \A j \in report'.next .. Capacity : slots'[j] # t[k]
      BY <1>5, <2>3, <2>4, <2>6, <3>2
    <3>5. \A k, l \in DOMAIN t : k # l => t[k] # t[l]
      <4>1. \A k, l \in DOMAIN s : k # l => s[k] # s[l]
        BY DEF ReadReal, s
      <4> QED
        BY <2>3, <3>2, <4>1
    <3> QED
      BY <3>3, <3>4, <3>5 DEF ReadReal, Fresh, t
  <2> QED
    BY <2>5, <2>6
<1> QED
  <2>1. CASE UNCHANGED report
    BY <1>4, <2>1
  <2> QED
    BY <1>4, <1>5, <2>1, ReportSteps, ReportFrame

\* The report reads no more slots than samples were counted.
ReadCounted ==
  /\ main \notin {"samples", "done"} => report.next = 1 /\ report.latencies = <<>>
  /\ report.counted <= seen
  /\ Len(report.latencies) < report.next
  /\ main \in {"samples", "done"} => report.next <= report.counted + 1
  /\ main = "done" => report.counted <= report.offered

LEMMA SeenGrows == Typed /\ [Next]_vars => seen <= seen' /\ seen' \in Nat
<1> SUFFICES ASSUME Typed, [Next]_vars PROVE seen <= seen' /\ seen' \in Nat
  OBVIOUS
<1>1. seen \in Nat
  BY DEF Typed, ReservoirOK
<1> QED
  BY <1>1, ReservoirFrame DEF CallReturns, Offer, PlaceSample, ClaimPlace

LEMMA ReadCountedStep == Typed /\ ReadCounted /\ [Next]_vars => ReadCounted'
<1> SUFFICES ASSUME Typed, ReadCounted, [Next]_vars PROVE ReadCounted'
  OBVIOUS
<1> DEFINE s == report.latencies
<1>1. /\ s \in Seq(Nat) /\ report.next \in Nat \ {0} /\ report.counted \in Nat
      /\ seen \in Nat /\ seen' \in Nat /\ seen <= seen' /\ Capacity \in Nat
  BY SeenGrows, CollectorAssumption DEF Typed, ReportOK, ReservoirOK
<1>2. CASE Report
  <2>1. CASE main = "snapshot"
    <3>1. /\ report'.next = 1 /\ report'.latencies = <<>> /\ report'.counted \in Nat
          /\ report'.counted <= seen /\ seen' = seen /\ main' \in {"snapshot", "samples"}
      BY <1>1, <1>2, <2>1, ReportSteps DEF ReadCounted, Least
    <3> QED
      BY <1>1, <3>1 DEF ReadCounted
  <2>2. CASE main = "samples" /\ main' = "samples"
    <3>1. Len(report'.latencies) \in {Len(s), Len(s) + 1}
      <4>1. report.next <= report.counted /\ report.counted \in 0 .. Capacity
        BY <1>2, <2>2, ReportSteps DEF Typed, ReportOK
      <4>2. slots[report.next] \in Nat
        BY <1>1, <4>1 DEF Typed, ReservoirOK
      <4>3. \/ report'.latencies = s
            \/ report'.latencies = Append(s, slots[report.next])
        BY <1>2, <2>2, ReportSteps
      <4> QED
        BY <1>1, <4>2, <4>3
    <3> QED
      BY <1>1, <1>2, <2>2, <3>1, ReportSteps DEF ReadCounted
  <2>3. CASE main = "samples" /\ main' = "done"
    BY <1>1, <1>2, <2>3, ReportSteps DEF ReadCounted
  <2> QED
    BY <1>2, <2>1, <2>2, <2>3, ReportSteps
<1>3. CASE UNCHANGED report /\ ~Report
  <2>1. main \in {"samples", "done"} <=> main' \in {"samples", "done"}
    BY <1>3, MainSteps DEF Reporting
  <2>2. main' = "done" => main = "done"
    BY <1>3, MainSteps DEF Reporting
  <2> QED
    BY <1>1, <1>3, <2>1, <2>2 DEF ReadCounted
<1> QED
  BY <1>2, <1>3, ReportFrame

LEMMA ReservoirInit == Init => ReservoirReal /\ ReadCounted
<1> SUFFICES ASSUME Init PROVE ReservoirReal /\ ReadCounted
  OBVIOUS
<1>1. /\ \A i \in 1 .. Capacity : slots[i] = 0
      /\ seen = 0 /\ counters["sent"] = 0 /\ delivered = <<>>
      /\ callback.at = "idle" /\ main = "parse"
  BY DEF Init, CollectorInit, CounterNames, Idle
<1>2. report.latencies = <<>> /\ report.next = 1 /\ report.counted = 0
  BY DEF Init, NoReport
<1>3. Newest = 0 /\ ~Pending
  BY <1>1 DEF Newest, Pending
<1> QED
  BY <1>1, <1>2, <1>3 DEF ReservoirReal, Listens, SlotsReal, ReadReal, ReadCounted, Fresh

\* The report's latencies are of samples, no sample twice, although the
\* listener goes on storing latencies while get_samples walks the slots, and
\* a slot may be counted before it is filled, or filled anew after it is
\* read: what is stored is newer than all that has been read.
THEOREM ReportedLatenciesAreReal == Spec => []LatenciesAreReal
<1>1. Typed /\ ReservoirReal /\ ReadCounted => LatenciesAreReal
  <2> SUFFICES ASSUME Typed, ReservoirReal, ReadCounted PROVE LatenciesAreReal
    OBVIOUS
  <2>1. /\ report.latencies \in Seq(Nat) /\ report.next \in Nat /\ report.counted \in Nat
        /\ report.offered \in Nat /\ Len(delivered) \in Nat /\ counters["sent"] \in Nat
    BY DEF Typed, ReportOK, CallbackOK, CountersOK, CounterNames
  <2>2. ASSUME NEW k \in DOMAIN report.latencies
        PROVE  report.latencies[k] \in 1 .. Len(delivered) + counters["sent"]
    <3>1. report.latencies[k] > 0 /\ report.latencies[k] <= Newest
      BY DEF ReservoirReal, ReadReal, Fresh
    <3>2. report.latencies[k] \in Nat /\ Newest <= Len(delivered) + counters["sent"] /\ Newest \in Nat
      BY <2>1 DEF Newest
    <3> QED
      BY <2>1, <3>1, <3>2
  <2>3. main = "done" => Len(report.latencies) <= report.offered
    BY <2>1 DEF ReadCounted
  <2> QED
    BY <2>2, <2>3 DEF LatenciesAreReal, ReservoirReal, ReadReal
<1>2. Typed /\ InRole /\ ReservoirReal /\ [Next]_vars => ReservoirReal'
  BY ListensStep, SlotsRealStep, ReadRealStep DEF ReservoirReal
<1> QED
  BY <1>1, <1>2, ReservoirInit, ReadCountedStep, AlwaysTyped, AlwaysInRole, PTL DEF Spec

-----------------------------------------------------------------------------
(* The losses the subscriber's report shows.                               *)

\* The numbers climb as long as the publisher does not restart.  All of the
\* samples received, but for the last one while it is being counted, are at
\* or below the highest number; of those a snapshot has counted, all but the
\* last are at or below the highest number of the snapshot.
Shows(snap) ==
  /\ "received" \in DOMAIN snap => snap["received"] <= Len(delivered)
  /\ "highest" \in DOMAIN snap =>
       \A i \in 1 .. snap["received"] - 1 : delivered[i] <= snap["highest"]

Climbs ==
  role = "subscriber" =>
    /\ counters["received"] = Len(delivered)
    /\ callback.at = "counted" => delivered # <<>> /\ callback.sample = LastReceived
    /\ ~restarted => \A i \in DOMAIN delivered : 
                       /\ delivered[i] > 0
                       /\ \A j \in 1 .. i - 1 : delivered[j] < delivered[i]
    /\ \A i \in DOMAIN delivered :
         \/ delivered[i] <= counters["highest"]
         \/ callback.at = "counted" /\ i = Len(delivered)
    /\ Shows(report.snap)

LEMMA ShowsLoads ==
  ASSUME NEW snap \in Snapshots, CountersOK, delivered \in Seq(Nat), Shows(snap), ~Complete(snap),
         counters["received"] = Len(delivered),
         \A i \in 1 .. Len(delivered) - 1 : delivered[i] <= counters["highest"]
  PROVE  Shows(NextLoad(snap))
<1>1. /\ counters["highest"] \in Nat /\ counters["received"] \in Nat
      /\ DOMAIN snap \in {{}, Outgoing, Incoming, Outcomes}
      /\ \A c \in DOMAIN snap : snap[c] \in Nat
  BY CompleteIsAll DEF CountersOK, CounterNames, Snapshots, Prefixes
<1>2. CASE DOMAIN snap = {}
  BY <1>1, <1>2, LoadAdds DEF CountersOK, Shows, Outgoing
<1>3. CASE DOMAIN snap = Outgoing
  <2>1. NextLoad(snap)["received"] = counters["received"]
    BY <1>3, LoadAdds DEF CountersOK, Outgoing, Incoming
  <2>2. "highest" \notin DOMAIN NextLoad(snap)
    BY <1>3, LoadAdds DEF CountersOK, Incoming
  <2> QED
    BY <1>1, <2>1, <2>2 DEF Shows
<1>5. CASE DOMAIN snap = Incoming
  <2>1. NextLoad(snap)["received"] = snap["received"] /\ "highest" \notin DOMAIN NextLoad(snap)
    BY <1>5, LoadAdds DEF CountersOK, Incoming, Outcomes
  <2> QED
    BY <1>5, <2>1 DEF Shows, Incoming
<1>4. CASE DOMAIN snap = Outcomes
  <2>1. /\ NextLoad(snap)["received"] = snap["received"]
        /\ NextLoad(snap)["highest"] = counters["highest"]
    BY <1>4, LoadAdds DEF CountersOK, Outcomes, AllLoads
  <2>2. snap["received"] <= Len(delivered) /\ snap["received"] \in Nat
    BY <1>1, <1>4 DEF Shows, Outcomes
  <2> QED
    BY <1>1, <2>1, <2>2 DEF Shows
<1> QED
  BY <1>1, <1>2, <1>3, <1>4, <1>5

\* A snapshot shows what it shows when another sample comes.
LEMMA ShowsStays ==
  ASSUME NEW snap \in Snapshots, Shows(snap), Typed,
         NEW k, delivered' = Append(delivered, k)
  PROVE  /\ "received" \in DOMAIN snap => snap["received"] <= Len(delivered')
         /\ "highest" \in DOMAIN snap =>
              \A i \in 1 .. snap["received"] - 1 : delivered'[i] <= snap["highest"]
<1>1. delivered \in Seq(Nat) /\ \A c \in DOMAIN snap : snap[c] \in Nat
  BY DEF Typed, CallbackOK, Snapshots
<1>2. "highest" \in DOMAIN snap => "received" \in DOMAIN snap
  BY DEF Snapshots, Prefixes, Outgoing, Incoming, Outcomes, AllLoads
<1>3. Len(delivered') = Len(delivered) + 1 /\ \A i \in 1 .. Len(delivered) : delivered'[i] = delivered[i]
  BY <1>1
<1> QED
  BY <1>1, <1>2, <1>3 DEF Shows

LEMMA ClimbsStep == Typed /\ InRole /\ Climbs /\ [Next]_vars => Climbs'
<1> SUFFICES ASSUME Typed, InRole, Climbs, [Next]_vars, role = "subscriber"
             PROVE  Climbs'
  BY SameRole DEF Climbs
<1>1. /\ CountersOK /\ counters \in [CounterNames -> Nat] /\ delivered \in Seq(Nat)
      /\ counters["highest"] \in Nat /\ counters["received"] \in Nat
      /\ callback \in [at : {"idle", "counted", "offer", "place"}, sample : Nat, n : Nat]
      /\ report.snap \in Snapshots
  BY DEF Typed, CountersOK, CounterNames, CallbackOK, ReportOK
<1>2. CASE Deliver
  <2>1. PICK k \in 1 .. MaxNumber, again \in Restarts :
          /\ ~again => k > LastReceived
          /\ restarted' = (restarted \/ again)
          /\ delivered' = Append(delivered, k)
          /\ callback' = [callback EXCEPT !.at = "counted", !.sample = k]
    BY <1>2 DEF Deliver
  <2>2. k \in Nat \ {0}
    BY BenchmarkAssumption
  <2>3. callback'.at = "counted" /\ callback'.sample = k /\ callback.at = "idle"
    BY <1>1, <1>2, <2>1 DEF Deliver, Received
  <2>4. /\ Len(delivered') = Len(delivered) + 1 /\ delivered'[Len(delivered) + 1] = k
        /\ \A i \in 1 .. Len(delivered) : delivered'[i] = delivered[i]
    BY <1>1, <2>1
  <2>5. delivered' # <<>> /\ LastReceived' = k
    BY <1>1, <2>1, <2>2 DEF LastReceived
  <2>6. /\ counters'["received"] = counters["received"] + 1
        /\ counters'["highest"] = counters["highest"]
    BY <1>1, <1>2 DEF Deliver, Received, Inc, CounterNames
  <2>7. ASSUME ~restarted'
        PROVE  \A i \in DOMAIN delivered' : 
                 /\ delivered'[i] > 0
                 /\ \A j \in 1 .. i - 1 : delivered'[j] < delivered'[i]
    <3>0. ~restarted /\ ~again
      <4>1. restarted \in BOOLEAN /\ again \in BOOLEAN
        BY BenchmarkAssumption DEF Typed, CallbackOK
      <4> QED
        BY <2>1, <2>7, <4>1, Zenon
    <3>1. \A i \in 1 .. Len(delivered) : /\ delivered[i] > 0
                                         /\ \A j \in 1 .. i - 1 : delivered[j] < delivered[i]
      BY <1>1, <3>0 DEF Climbs
    <3>2. k > LastReceived
      BY <2>1, <3>0
    <3>3. \A i \in 1 .. Len(delivered) : delivered[i] < k
      <4>1. SUFFICES ASSUME NEW i \in 1 .. Len(delivered) PROVE delivered[i] < k
        OBVIOUS
      <4>2. LastReceived = delivered[Len(delivered)] /\ LastReceived \in Nat /\ delivered[i] \in Nat
        BY <1>1, <4>1 DEF LastReceived
      <4>3. i = Len(delivered) \/ i \in 1 .. Len(delivered) - 1
        BY <1>1, <4>1
      <4>4. delivered[i] <= LastReceived
        <5>1. Len(delivered) \in 1 .. Len(delivered)
          BY <1>1, <4>1
        <5>2. i \in 1 .. Len(delivered) - 1 => delivered[i] < delivered[Len(delivered)]
          BY <3>1, <5>1
        <5> QED
          BY <4>2, <4>3, <5>2
      <4> QED
        BY <2>2, <3>2, <4>2, <4>4
    <3>4. /\ DOMAIN delivered' = 1 .. Len(delivered) + 1 /\ Len(delivered) \in Nat
          /\ \A i \in 1 .. Len(delivered) + 1 : i \in 1 .. Len(delivered) \/ i = Len(delivered) + 1
      BY <1>1, <2>1
    <3>5. \A i \in 1 .. Len(delivered) : delivered'[i] > 0 /\ delivered'[i] < k
      BY <2>4, <3>1, <3>3
    <3>6. \A i \in 1 .. Len(delivered) : \A j \in 1 .. i - 1 : delivered'[j] < delivered'[i]
      BY <2>4, <3>1, <3>4
    <3>7. \A j \in 1 .. (Len(delivered) + 1) - 1 : j \in 1 .. Len(delivered)
      BY <3>4
    <3> QED
      BY <2>2, <2>4, <3>4, <3>5, <3>6, <3>7
  <2>8. \A i \in DOMAIN delivered' : delivered'[i] <= counters'["highest"] \/ i = Len(delivered')
    <3>1. \A i \in 1 .. Len(delivered) : delivered[i] <= counters["highest"]
      BY <1>1, <2>3 DEF Climbs
    <3> QED
      BY <1>1, <2>1, <2>4, <2>6, <3>1
  <2>9. Shows(report.snap)'
    <3>1. report' = report
      BY <1>2 DEF Deliver
    <3> QED
      BY <1>1, <2>1, <3>1, ShowsStays DEF Shows, Climbs
  <2>10. counters'["received"] = Len(delivered')
    BY <2>4, <2>6 DEF Climbs
  <2> QED
    BY <2>3, <2>5, <2>7, <2>8, <2>9, <2>10 DEF Climbs
<1>3. CASE CheckOrder
  <2>1. callback.at = "counted" /\ callback'.at # "counted"
    BY <1>3 DEF CheckOrder, Idle
  <2>2. UNCHANGED <<peerVars, report>>
    BY <1>3 DEF CheckOrder
  <2>3. /\ counters'["received"] = counters["received"]
        /\ counters'["highest"] = Larger(counters["highest"], callback.sample)
    BY <1>1, <1>3 DEF CheckOrder, CounterNames
  <2>4. callback.sample = delivered[Len(delivered)]
    BY <2>1 DEF Climbs, LastReceived
  <2>5. \A i \in DOMAIN delivered : delivered[i] <= counters'["highest"]
    <3>1. \A i \in DOMAIN delivered : delivered[i] <= counters["highest"] \/ i = Len(delivered)
      BY <2>1 DEF Climbs
    <3> QED
      BY <1>1, <2>3, <2>4, <3>1 DEF Larger
  <2> QED
    BY <2>1, <2>2, <2>3, <2>5 DEF Climbs, Shows, peerVars
<1>4. CASE /\ Offer \/ PlaceSample
           /\ UNCHANGED <<counters, lastSequence, peerVars>>
  <2>1. callback.at # "counted" /\ callback'.at # "counted"
    <3>1. CASE Offer
      BY <1>1, <3>1 DEF Offer
    <3>2. CASE PlaceSample
      BY <3>2 DEF PlaceSample, Idle
    <3> QED
      BY <1>4, <3>1, <3>2
  <2>2. report' = report
    BY <1>4 DEF Offer, PlaceSample
  <2> QED
    BY <1>4, <2>1, <2>2 DEF Climbs, Shows, peerVars
<1>5. CASE UNCHANGED <<counters, callback, lastSequence, peerVars>>
  <2>1. \A i \in 1 .. Len(delivered) - 1 : delivered[i] <= counters["highest"]
    BY <1>1 DEF Climbs
  <2>2. Shows(report.snap')
    BY <1>1, <2>1, ShowsLoads, SnapshotSteps DEF Climbs
  <2>3. Shows(report.snap)'
    BY <1>5, <2>2 DEF Shows, peerVars
  <2> QED
    BY <1>5, <2>3 DEF Climbs, LastReceived, peerVars
<1> QED
  BY <1>2, <1>3, <1>4, <1>5, SubscriberSteps

LEMMA ClimbsInit == Init => Climbs
<1> SUFFICES ASSUME Init PROVE Climbs
  OBVIOUS
<1>1. delivered = <<>> /\ callback.at = "idle" /\ counters["received"] = 0
  BY DEF Init, CollectorInit, CounterNames, Idle
<1>2. DOMAIN report.snap = {}
  BY DEF Init, NoReport, NoLoad
<1> QED
  BY <1>1, <1>2 DEF Climbs, Shows

\* Of different numbers up to h, those outside a set are at most as many as
\* the set leaves.
LEMMA OthersUpTo ==
  ASSUME NEW h \in Nat, NEW m \in Nat, NEW d \in [1 .. m -> 1 .. h],
         \A i, j \in 1 .. m : i # j => d[i] # d[j],
         NEW missing \in SUBSET (1 .. h), \A n \in missing : \A i \in 1 .. m : d[i] # n
  PROVE  Cardinality(missing) \in Nat /\ Cardinality(missing) + m <= h
<1> DEFINE image == {d[i] : i \in 1 .. m}
<1>1. /\ IsFiniteSet(1 .. h) /\ Cardinality(1 .. h) = h
      /\ IsFiniteSet(1 .. m) /\ Cardinality(1 .. m) = m
  BY FS_Interval
<1>2. IsFiniteSet(missing) /\ IsFiniteSet(image)
  <2>1. image \in SUBSET (1 .. h)
    OBVIOUS
  <2> QED
    BY <1>1, <2>1, FS_Subset
<1>3. Cardinality(image) = m
  <2>1. d \in Bijection(1 .. m, image)
    BY DEF Bijection, Injection, Surjection, IsInjective
  <2>2. ExistsBijection(1 .. m, image)
    BY <2>1 DEF ExistsBijection
  <2> QED
    BY <1>1, <2>2, FS_Bijection
<1>4. missing \cap image = {}
  OBVIOUS
<1>5. missing \cup image \in SUBSET (1 .. h)
  OBVIOUS
<1> HIDE DEF image
<1>6. Cardinality(missing \cup image) = Cardinality(missing) + Cardinality(image)
  <2>1. Cardinality(missing \cap image) = 0
    BY <1>4, FS_EmptySet
  <2>2. Cardinality(missing) \in Nat /\ Cardinality(image) \in Nat
    BY <1>2, FS_CardinalityType
  <2>3. Cardinality(missing \cup image) =
          Cardinality(missing) + Cardinality(image) - Cardinality(missing \cap image)
    BY <1>2, FS_Union
  <2> QED
    BY <2>1, <2>2, <2>3
<1>7. Cardinality(missing \cup image) <= h
  BY <1>1, <1>5, FS_Subset
<1> QED
  BY <1>2, <1>3, <1>6, <1>7, FS_CardinalityType

\* Although samples go on coming while the report is made, it shows all
\* losses below its highest number, or all but one if a sample above it has
\* come: the received counter, loaded first, counts at most that sample more.
THEOREM LossesShown == Spec => []LossNotHidden
<1>1. Typed /\ ReportRead /\ Climbs => LossNotHidden
  <2> SUFFICES ASSUME Typed, ReportRead, Climbs, role = "subscriber", main = "done", ~restarted
               PROVE  Cardinality({n \in 1 .. Final.highest :
                                     \A i \in DOMAIN delivered : delivered[i] # n})
                        <= MessagesLost(Final)
                           + (IF \E i \in DOMAIN delivered : delivered[i] > Final.highest
                              THEN 1 ELSE 0)
    BY DEF LossNotHidden
  <2> DEFINE h == report.snap["highest"]
             r == report.snap["received"]
             above == \E i \in DOMAIN delivered : delivered[i] > h
             m == IF above THEN (IF r = 0 THEN 0 ELSE r - 1) ELSE r
             missing == {n \in 1 .. h : \A i \in DOMAIN delivered : delivered[i] # n}
             d == [i \in 1 .. m |-> delivered[i]]
  <2>1. /\ DOMAIN report.snap = AllLoads /\ report.snap \in Snapshots
        /\ delivered \in Seq(Nat)
    BY CompleteIsAll DEF ReportRead, Typed, ReportOK, CallbackOK
  <2>2. h \in Nat /\ r \in Nat /\ report.snap["sent"] \in Nat
    BY <2>1 DEF Snapshots, AllLoads
  <2>3. r <= Len(delivered) /\ \A i \in 1 .. r - 1 : delivered[i] <= h
    BY <2>1 DEF Climbs, Shows, AllLoads
  <2> HIDE DEF h, r
  <2>4. m \in Nat /\ \A i \in 1 .. m : i \in 1 .. Len(delivered) /\ delivered[i] <= h
    <3>1. \A i \in DOMAIN delivered : delivered[i] \in Nat
      BY <2>1
    <3>2. CASE above
      BY <2>1, <2>2, <2>3, <3>2
    <3>3. CASE ~above
      BY <2>1, <2>2, <2>3, <3>1, <3>3
    <3> QED
      BY <3>2, <3>3
  <2>5. d \in [1 .. m -> 1 .. h] /\ \A i, j \in 1 .. m : i # j => d[i] # d[j]
    <3> HIDE DEF m
    <3>1. \A i \in 1 .. m : delivered[i] \in 1 .. h
      BY <2>1, <2>2, <2>4 DEF Climbs
    <3>2. \A i, j \in 1 .. m : i < j => delivered[i] < delivered[j]
      BY <2>1, <2>4 DEF Climbs
    <3>3. \A i, j \in 1 .. m : i # j => delivered[i] # delivered[j]
      BY <2>2, <2>4, <3>1, <3>2
    <3> QED
      BY <3>1, <3>3
  <2>6. \A n \in missing : \A i \in 1 .. m : d[i] # n
    BY <2>1, <2>4
  <2>7. Cardinality(missing) \in Nat /\ Cardinality(missing) + m <= h
    <3>1. missing \in SUBSET (1 .. h)
      OBVIOUS
    <3> HIDE DEF missing, d, m
    <3> QED
      BY <2>2, <2>4, <2>5, <2>6, <3>1, OthersUpTo
  <2>8. Cardinality(missing) <= MessagesLost(Final) + (IF above THEN 1 ELSE 0)
    <3>1. MessagesLost(Final) = Larger(Larger(h, report.snap["sent"]) - r, 0)
      BY DEF MessagesLost, Expected, Final, h, r
    <3>2. CASE above
      <4>1. r <= m + 1
        BY <2>2, <3>2
      <4> HIDE DEF missing, m, above
      <4> QED
        BY <2>2, <2>4, <2>7, <3>1, <3>2, <4>1 DEF Larger
    <3>3. CASE ~above
      <4>1. r = m
        BY <3>3
      <4> HIDE DEF missing, m, above
      <4> QED
        BY <2>2, <2>4, <2>7, <3>1, <3>3, <4>1 DEF Larger
    <3> QED
      BY <3>2, <3>3
  <2> QED
    BY <2>8 DEF Final, h
<1> QED
  BY <1>1, ClimbsInit, ClimbsStep, AlwaysTyped, AlwaysInRole, AlwaysReportRead, PTL DEF Spec

\* min <= p50 <= p95 <= p99 <= max in every report, whatever latencies the
\* reservoir holds, and each percentile has its share of them on either side
\* to within half of one: they are sorted, and the index is rounded.
THEOREM ReportedPercentiles == Spec => []PercentilesOrdered
<1>1. Typed => PercentilesOrdered
  BY PercentilesInOrder DEF Typed, ReportOK
<1> QED
  BY <1>1, AlwaysTyped, PTL

-----------------------------------------------------------------------------
(* The command line.                                                       *)

\* There is one number of options right before an argument, so the same
\* argument is not both an option and a value.
LEMMA OneNumber ==
  ASSUME NEW i \in Nat, NEW m \in Nat, NEW n \in Nat, OptionsBefore(i, m), OptionsBefore(i, n)
  PROVE  m = n
<1>1. ASSUME NEW k \in Nat, NEW l \in Nat, k < l, OptionsBefore(i, k), OptionsBefore(i, l)
      PROVE  FALSE
  <2>1. i - k - 1 \in i - l .. i - 1 /\ k < i - 1
    BY <1>1 DEF OptionsBefore
  <2> QED
    BY <1>1, <2>1 DEF OptionsBefore
<1> QED
  BY <1>1

LEMMA NoValue ==
  ASSUME NEW i \in Nat, NEW n \in Nat, n % 2 = 0, OptionsBefore(i, n)
  PROVE  ~IsValue(i)
  BY OneNumber DEF IsValue

\* The values before the p-th argument, and what they assign to a field.
Given(f, p) ==
  {i \in 2 .. Len(args) : /\ i < p /\ IsValue(i)
                          /\ Options(role)[args[i - 1]] = f
                          /\ args[i] \in DOMAIN Parsed}

DeclaredBefore(f, p) ==
  IF Given(f, p) = {} THEN Defaults[f] ELSE Parsed[args[Max(Given(f, p))]]

\* What the loop has done when it comes to the p-th argument.
ReadBefore(p) ==
  /\ p <= Len(args) => \E n \in 0 .. p - 1 : n % 2 = 0 /\ OptionsBefore(p, n)
  /\ \A f \in Fields : config[f] = DeclaredBefore(f, p)
  /\ \A i \in 1 .. Len(args) : i < p /\ args[i] \in HelpFlags => IsValue(i)

LineRead == \A p \in Nat \ {0} : pos = p => ReadBefore(p)

LEMMA SameLine ==
  ASSUME UNCHANGED <<role, args>>
  PROVE  /\ \A i : IsValue(i)' <=> IsValue(i)
         /\ \A i, n : OptionsBefore(i, n)' <=> OptionsBefore(i, n)
         /\ \A f, p : Given(f, p)' = Given(f, p)
         /\ \A f, p : DeclaredBefore(f, p)' = DeclaredBefore(f, p)
<1>1. \A i, n : OptionsBefore(i, n)' <=> OptionsBefore(i, n)
  BY DEF OptionsBefore, IsOption
<1>2. \A i : IsValue(i)' <=> IsValue(i)
  BY <1>1 DEF IsValue
<1>3. \A f, p : Given(f, p)' = Given(f, p)
  BY <1>2 DEF Given
<1>4. \A f, p : DeclaredBefore(f, p)' = DeclaredBefore(f, p)
  BY <1>3 DEF DeclaredBefore
<1> QED
  BY <1>1, <1>2, <1>3, <1>4

\* An option that takes a value is followed by one, and the loop goes on
\* after it.
LEMMA ValueRead ==
  ASSUME ParserOK, NEW p \in Nat \ {0}, p < Len(args), ReadBefore(p), IsOption(p)
  PROVE  /\ ~IsValue(p) /\ IsValue(p + 1)
         /\ p + 2 <= Len(args) =>
              \E n \in 0 .. (p + 2) - 1 : n % 2 = 0 /\ OptionsBefore(p + 2, n)
<1>0. Len(args) \in Nat
  BY DEF ParserOK
<1>1. PICK n \in 0 .. p - 1 : n % 2 = 0 /\ OptionsBefore(p, n)
  BY <1>0 DEF ReadBefore
<1>2. ~IsValue(p)
  BY <1>1, NoValue
<1>3. OptionsBefore(p + 1, n + 1)
  BY <1>1 DEF OptionsBefore
<1>4. IsValue(p + 1)
  <2>1. n + 1 \in 1 .. (p + 1) - 1 /\ (n + 1) % 2 = 1
    BY <1>1
  <2> QED
    BY <1>3, <2>1 DEF IsValue
<1>5. CASE IsOption(p + 1)
  <2>1. OptionsBefore(p + 2, n + 2)
    BY <1>1, <1>5 DEF OptionsBefore
  <2>2. n + 2 \in 0 .. (p + 2) - 1 /\ (n + 2) % 2 = 0
    BY <1>1
  <2> QED
    BY <1>2, <1>4, <2>1, <2>2
<1>6. CASE ~IsOption(p + 1)
  <2>1. OptionsBefore(p + 2, 0)
    BY <1>6 DEF OptionsBefore
  <2> QED
    BY <1>2, <1>4, <2>1
<1> QED
  BY <1>5, <1>6

\* The assignment makes the config what is declared up to the value.
LEMMA AssignedDeclares ==
  ASSUME ParserOK, NEW p \in Nat \ {0}, p < Len(args), ReadBefore(p), IsOption(p),
         NEW f \in Fields
  PROVE  Assigned(Options(role)[args[p]], args[p + 1])[f] = DeclaredBefore(f, p + 2)
<1>0. Len(args) \in Nat
  BY DEF ParserOK
<1>1. ~IsValue(p) /\ IsValue(p + 1)
  BY ValueRead
<1>2. config[f] = DeclaredBefore(f, p)
  BY DEF ReadBefore
<1>3. \A i \in Given(f, p) : i \in Nat /\ i < p
  BY DEF Given
<1>4. CASE Options(role)[args[p]] = f /\ args[p + 1] \in DOMAIN Parsed
  <2>1. Given(f, p + 2) = Given(f, p) \cup {p + 1}
    BY <1>0, <1>1, <1>4 DEF Given
  <2>2. Max(Given(f, p + 2)) = p + 1
    BY <1>3, <2>1 DEF Max
  <2> QED
    BY <1>4, <2>1, <2>2 DEF DeclaredBefore, Assigned
<1>5. CASE ~(Options(role)[args[p]] = f /\ args[p + 1] \in DOMAIN Parsed)
  <2>1. Given(f, p + 2) = Given(f, p)
    BY <1>0, <1>1, <1>5 DEF Given
  <2> QED
    BY <1>2, <1>5, <2>1 DEF DeclaredBefore, Assigned
<1> QED
  BY <1>4, <1>5

LEMMA LineReadStep == ParserOK /\ LineRead /\ [Next]_vars => LineRead'
<1> SUFFICES ASSUME ParserOK, LineRead, [Next]_vars PROVE LineRead'
  OBVIOUS
<1>1. args \in Seq(STRING) /\ pos \in Nat /\ pos <= Len(args) + 1 /\ Len(args) \in Nat
  BY DEF ParserOK
<1>2. CASE UNCHANGED configVars
  <2>1. UNCHANGED <<role, args, pos, config>>
    BY <1>2 DEF configVars
  <2> QED
    BY <2>1, SameLine DEF LineRead, ReadBefore
<1>3. CASE ReadOption
  <2>1. /\ pos \in Nat \ {0} /\ pos < Len(args) /\ IsOption(pos) /\ pos' = pos + 2
        /\ config' = Assigned(Options(role)[args[pos]], args[pos + 1])
        /\ UNCHANGED <<role, args>>
    BY <1>1, <1>3 DEF ReadOption, TakesValue, AfterValue
  <2>2. PICK p \in Nat \ {0} : p = pos
    BY <2>1
  <2>3. ReadBefore(p)
    BY <2>2 DEF LineRead
  <2>4. /\ ~IsValue(p) /\ IsValue(p + 1)
        /\ p + 2 <= Len(args) =>
             \E n \in 0 .. (p + 2) - 1 : n % 2 = 0 /\ OptionsBefore(p + 2, n)
    BY <2>1, <2>2, <2>3, ValueRead
  <2>5. \A f \in Fields : config'[f] = DeclaredBefore(f, p + 2)
    BY <2>1, <2>2, <2>3, AssignedDeclares
  <2>6. \A i \in 1 .. Len(args) : i < p + 2 /\ args[i] \in HelpFlags => IsValue(i)
    <3>1. args[p] \notin HelpFlags
      <4>1. args[p] \in DOMAIN Options(role)
        BY <2>1, <2>2 DEF IsOption
      <4> QED
        BY <4>1 DEF Options, SharedOptions, HelpFlags
    <3>2. \A i \in 1 .. Len(args) : i < p + 2 => i < p \/ i = p \/ i = p + 1
      OBVIOUS
    <3> QED
      BY <2>3, <2>4, <3>1, <3>2 DEF ReadBefore
  <2>7. ReadBefore(p + 2)'
    BY <2>1, <2>4, <2>5, <2>6, SameLine DEF ReadBefore
  <2> QED
    BY <2>1, <2>2, <2>7 DEF LineRead
<1>4. CASE PassOver
  <2>1. /\ pos \in Nat \ {0} /\ pos <= Len(args) /\ pos' = pos + 1
        /\ ~IsOption(pos) \/ pos = Len(args)
        /\ args[pos] \notin HelpFlags /\ UNCHANGED <<role, args, config>>
    BY <1>1, <1>4 DEF PassOver, TakesValue
  <2>2. PICK p \in Nat \ {0} : p = pos
    BY <2>1
  <2>3. ReadBefore(p)
    BY <2>2 DEF LineRead
  <2>4. ~IsValue(p)
    BY <2>1, <2>2, <2>3, NoValue DEF ReadBefore
  <2>5. p + 1 <= Len(args) => OptionsBefore(p + 1, 0)
    BY <1>1, <2>1, <2>2 DEF OptionsBefore
  <2>6. \A f \in Fields : config'[f] = DeclaredBefore(f, p + 1)
    <3>1. \A f : Given(f, p + 1) = Given(f, p)
      BY <2>4 DEF Given
    <3> QED
      BY <2>1, <2>3, <3>1 DEF ReadBefore, DeclaredBefore
  <2>7. \A i \in 1 .. Len(args) : i < p + 1 /\ args[i] \in HelpFlags => IsValue(i)
    <3>1. \A i \in 1 .. Len(args) : i < p + 1 => i < p \/ i = p
      OBVIOUS
    <3> QED
      BY <2>1, <2>2, <2>3, <3>1 DEF ReadBefore
  <2>8. p + 1 <= Len(args) => \E n \in 0 .. (p + 1) - 1 : n % 2 = 0 /\ OptionsBefore(p + 1, n)
    BY <2>5
  <2>9. ReadBefore(p + 1)'
    BY <2>1, <2>6, <2>7, <2>8, SameLine DEF ReadBefore
  <2> QED
    BY <2>1, <2>2, <2>9 DEF LineRead
<1>5. CASE Return
  BY <1>5 DEF Return, LineRead
<1> QED
  BY <1>2, <1>3, <1>4, <1>5, ConfigFrame DEF Parse

LEMMA LineInit == Init => LineRead
<1> SUFFICES ASSUME Init PROVE LineRead
  OBVIOUS
<1>1. pos = 1 /\ config = Defaults
  BY DEF Init
<1>2. OptionsBefore(1, 0)
  BY DEF OptionsBefore
<1>3. \A f : Given(f, 1) = {}
  BY DEF Given
<1> QED
  BY <1>1, <1>2, <1>3 DEF LineRead, ReadBefore, DeclaredBefore

\* Both parsers return what the command line declares, for every line: of
\* each option the last value that is a number, else the default, and what
\* follows an option that takes a value is not read as an option.
THEOREM LineDeclares == Spec => []ParsedAsDeclared
<1>1. ParserOK /\ LineRead => ParsedAsDeclared
  <2> SUFFICES ASSUME ParserOK, LineRead, pos > Len(args)
               PROVE  /\ \A f \in Fields : config[f] = Declared(f)
                      /\ \A i \in 1 .. Len(args) : args[i] \in HelpFlags => IsValue(i)
    BY DEF ParsedAsDeclared
  <2>1. Len(args) \in Nat /\ pos = Len(args) + 1
    BY DEF ParserOK
  <2>2. ReadBefore(Len(args) + 1)
    BY <2>1 DEF LineRead
  <2>3. \A f : Declared(f) = DeclaredBefore(f, Len(args) + 1)
    <3>1. SUFFICES ASSUME NEW f PROVE Declared(f) = DeclaredBefore(f, Len(args) + 1)
      OBVIOUS
    <3>2. Given(f, Len(args) + 1) =
            {i \in 2 .. Len(args) : /\ IsValue(i)
                                    /\ Options(role)[args[i - 1]] = f
                                    /\ args[i] \in DOMAIN Parsed}
      BY <2>1 DEF Given
    <3> QED
      BY <3>2, Zenon DEF Declared, DeclaredBefore
  <2>4. \A i \in 1 .. Len(args) : i < Len(args) + 1
    BY <2>1
  <2> QED
    BY <2>2, <2>3, <2>4 DEF ReadBefore
<1>2. Spec => []ParserOK
  <2>1. Typed => ParserOK
    BY DEF Typed
  <2> QED
    BY <2>1, AlwaysTyped, PTL
<1> QED
  BY <1>1, <1>2, LineInit, LineReadStep, PTL DEF Spec

=============================================================================
