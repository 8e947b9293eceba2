----------------------------- MODULE Continuous -----------------------------
(***************************************************************************)
(* One continuous functionality: the ContinuousHandle of the provide macro *)
(* writes samples to a topic, the listener that the consume macro          *)
(* generates takes them and awaits the user's callback on each.            *)
(*                                                                         *)
(* A publisher is a ContinuousHandle, a subscriber a consumer on which     *)
(* init has been called.  A sample is its publisher and its rank there.    *)
(* DDS is external: between a writer and a reader samples travel in order  *)
(* and may be lost (a default reader is BEST_EFFORT), a reader that        *)
(* joins late gets no earlier samples (VOLATILE), keeps the last Depth     *)
(* samples, and queues one notification for each that it stores.           *)
(***************************************************************************)
EXTENDS DataReader, FiniteSets

CONSTANTS
  Publishers, Subscribers,
  MaxSamples,     \* bound: samples each publisher writes
  MaxLosses       \* bound: samples lost between a writer and a reader

ASSUME ContinuousBounds == MaxSamples \in Nat /\ MaxLosses \in Nat

VARIABLES
  published,      \* publisher  -> samples written so far
  alive,          \* publisher  -> FALSE once a write has panicked
  joined,         \* subscriber -> init has created its reader
  wire,           \* publisher, subscriber -> samples on their way
  cache,          \* subscriber -> samples its reader holds
  mail,           \* subscriber -> notifications queued for its listener
  batch,          \* subscriber -> samples taken, callback not called yet
  called,         \* subscriber -> history: the callback's arguments
  missed,         \* history: samples a subscriber was not there for, or lost
  losses

vars == <<published, alive, joined, wire, cache, mail, batch, called, missed, losses>>

Samples == [by : Publishers, seq : 1 .. MaxSamples]

Init ==
  /\ published = [p \in Publishers |-> 0]
  /\ alive  = [p \in Publishers |-> TRUE]
  /\ joined = [s \in Subscribers |-> FALSE]
  /\ wire   = [p \in Publishers |-> [s \in Subscribers |-> <<>>]]
  /\ cache  = [s \in Subscribers |-> <<>>]
  /\ mail   = [s \in Subscribers |-> 0]
  /\ batch  = [s \in Subscribers |-> <<>>]
  /\ called = [s \in Subscribers |-> <<>>]
  /\ missed = {}
  /\ losses = 0

\* The last statement of the consumer's init that matters here: the reader
\* is created with its listener and the mask [DataAvailable].
Join(s) ==
  /\ ~joined[s]
  /\ joined' = [joined EXCEPT ![s] = TRUE]
  /\ UNCHANGED <<published, alive, wire, cache, mail, batch, called, missed, losses>>

\* handle.name(&data): writer.write(data, None).await.unwrap()
Publish(p) ==
  LET m == [by |-> p, seq |-> published[p] + 1] IN
  /\ alive[p]
  /\ published[p] < MaxSamples
  /\ published' = [published EXCEPT ![p] = @ + 1]
  /\ wire' = [wire EXCEPT ![p] =
                [s \in Subscribers |-> IF joined[s] THEN Append(@[s], m) ELSE @[s]]]
  /\ missed' = missed \cup {<<s, m>> : s \in {t \in Subscribers : ~joined[t]}}
  /\ UNCHANGED <<alive, joined, cache, mail, batch, called, losses>>

\* ... whose unwrap panics: the task that publishes is gone.
PublishPanics(p) ==
  /\ alive[p]
  /\ published[p] < MaxSamples
  /\ alive' = [alive EXCEPT ![p] = FALSE]
  /\ UNCHANGED <<published, joined, wire, cache, mail, batch, called, missed, losses>>

\* A stored sample queues a notification for the listener of the reader.
NotifiesNever(n) == n            \* mutant: created with NO_STATUS as mask
Notifies(n) == n + 1

Deliver(p, s) ==
  /\ wire[p][s] # <<>>
  /\ wire'  = [wire EXCEPT ![p][s] = Tail(@)]
  /\ cache' = [cache EXCEPT ![s] = KeepLast(@, Head(wire[p][s]))]
  /\ mail'  = [mail EXCEPT ![s] = Notifies(@)]
  /\ UNCHANGED <<published, alive, joined, batch, called, missed, losses>>

Lose(p, s) ==
  /\ wire[p][s] # <<>>
  /\ losses < MaxLosses
  /\ losses' = losses + 1
  /\ wire'   = [wire EXCEPT ![p][s] = Tail(@)]
  /\ missed' = missed \cup {<<s, Head(wire[p][s])>>}
  /\ UNCHANGED <<published, alive, joined, cache, mail, batch, called>>

\* on_data_available runs on a notification, one run at a time.
MayTakeAnytime(s) == batch[s] = <<>>     \* mutant: the listener polls its reader
MayTake(s) == mail[s] > 0 /\ batch[s] = <<>>

\* reader.take(100, ..).await
Take(s) ==
  /\ MayTake(s)
  /\ mail'  = [mail EXCEPT ![s] = @ - 1]
  /\ batch' = [batch EXCEPT ![s] = Taken(cache[s])]
  /\ cache' = [cache EXCEPT ![s] = Left(@)]
  /\ UNCHANGED <<published, alive, joined, wire, called, missed, losses>>

\* What is left of the batch after a callback.
RestNone(b) == <<>>              \* mutant: only the first sample is handled
Rest(b) == Tail(b)

\* ... and for each sample: Struct::name(data).await
Callback(s) ==
  /\ batch[s] # <<>>
  /\ called' = [called EXCEPT ![s] = Append(@, Head(batch[s]))]
  /\ batch'  = [batch EXCEPT ![s] = Rest(@)]
  /\ UNCHANGED <<published, alive, joined, wire, cache, mail, missed, losses>>

Next ==
  \/ \E s \in Subscribers : Join(s) \/ Take(s) \/ Callback(s)
  \/ \E p \in Publishers : Publish(p) \/ PublishPanics(p)
  \/ \E p \in Publishers, s \in Subscribers : Deliver(p, s) \/ Lose(p, s)

\* The listener task is polled, and what is on its way arrives or is lost.
Fairness ==
  /\ \A s \in Subscribers : WF_vars(Take(s) \/ Callback(s))
  /\ \A p \in Publishers, s \in Subscribers : WF_vars(Deliver(p, s) \/ Lose(p, s))

Spec     == Init /\ [][Next]_vars
FairSpec == Spec /\ Fairness

-----------------------------------------------------------------------------
(* Properties. *)

TypeOK ==
  /\ published \in [Publishers -> 0 .. MaxSamples]
  /\ alive \in [Publishers -> BOOLEAN]
  /\ joined \in [Subscribers -> BOOLEAN]
  /\ wire \in [Publishers -> [Subscribers -> Seq(Samples)]]
  /\ cache \in [Subscribers -> Seq(Samples)]
  /\ mail \in [Subscribers -> Nat]
  /\ batch \in [Subscribers -> Seq(Samples)]
  /\ called \in [Subscribers -> Seq(Samples)]
  /\ missed \subseteq Subscribers \X Samples
  /\ losses \in Nat

\* Of one publisher, m was published before n.
Older(m, n) == m.by = n.by => m.seq < n.seq

Ascending(q) == \A i, j \in 1 .. Len(q) : i < j => Older(q[i], q[j])

\* A callback never sees a sample twice, nor an older one after a newer one
\* of the same publisher, whatever the listener left in the reader before.
CalledInOrder == \A s \in Subscribers : Ascending(called[s])

\* A sample that a reader holds will be taken: a notification is queued.
NoStrandedSample ==
  \A s \in Subscribers : cache[s] # <<>> => mail[s] > 0

\* The newest sample a subscriber's reader has stored reaches the callback,
\* unless a newer one pushes it out and reaches it instead.
FreshestArrives ==
  \A s \in Subscribers : \A m \in Samples :
    (\E i \in 1 .. Len(cache[s]) : cache[s][i] = m)
      ~> (\E i \in 1 .. Len(called[s]) : called[s][i] = m \/ called[s][i].seq > m.seq)

\* Nothing is on its way and the listener has nothing to do.
Quiet(s) ==
  /\ mail[s] = 0 /\ batch[s] = <<>> /\ joined[s]
  /\ \A p \in Publishers : wire[p][s] = <<>>

\* Every sample that s was there for and that no network lost was handed to
\* its callback.
AllArrived(s) ==
  \A p \in Publishers : \A n \in 1 .. published[p] :
    LET m == [by |-> p, seq |-> n] IN
    <<s, m>> \in missed \/ \E i \in 1 .. Len(called[s]) : called[s][i] = m

\* What tests/tests/continuous.rs counts on: once everything is quiet the
\* callback has run for every sample.
EverySampleArrives == \A s \in Subscribers : Quiet(s) => AllArrived(s)

\* The samples that were published.
Sent == {m \in Samples : m.seq <= published[m.by]}

\* What the default reader does promise: streams that its cache can hold as a
\* whole arrive as a whole, however the listener's takes interleave with them.
ShortStreamsArrive ==
  \A s \in Subscribers :
    Quiet(s) /\ Cardinality(Sent) <= Depth => AllArrived(s)

-----------------------------------------------------------------------------
(* The inductive strengthenings of NoStrandedSample, CalledInOrder and       *)
(* ShortStreamsArrive.                                                       *)

\* A notification is queued for each sample in the reader, and more.
EnoughMail == \A s \in Subscribers : Len(cache[s]) <= mail[s]

Precedes(q, r) ==
  \A i \in 1 .. Len(q) : \A j \in 1 .. Len(r) : Older(q[i], r[j])

\* The samples q have all been published, in this order and before all that
\* is still on the wires; count is what each publisher has published.
Arrived(q, wires, count) ==
  /\ Ascending(q)
  /\ \A i \in 1 .. Len(q) : q[i].seq <= count[q[i].by]
  /\ \A p \in Publishers : Precedes(q, wires[p])

OnWire(p, wires, count) ==
  /\ Ascending(wires[p])
  /\ \A i \in 1 .. Len(wires[p]) : wires[p][i].by = p /\ wires[p][i].seq <= count[p]

\* From the wires to a subscriber through its cache (held) and its batch
\* (taken) to the callback (done) samples keep their order.
InOrder(done, taken, held, wires, count) ==
  /\ Arrived(done, wires, count) /\ Arrived(taken, wires, count) /\ Arrived(held, wires, count)
  /\ \A p \in Publishers : OnWire(p, wires, count)
  /\ Precedes(done, taken) /\ Precedes(done, held) /\ Precedes(taken, held)

StreamsInOrder ==
  \A s \in Subscribers :
    InOrder(called[s], batch[s], cache[s], [p \in Publishers |-> wire[p][s]], published)

\* As long as a reader has room for all that was published, each sample is on
\* its way, in the reader, with the listener or its callback, or missed.
IsIn(q, m) == \E i \in 1 .. Len(q) : q[i] = m

KeptFor(s, m) ==
  \/ <<s, m>> \in missed
  \/ IsIn(wire[m.by][s], m) \/ IsIn(cache[s], m) \/ IsIn(batch[s], m) \/ IsIn(called[s], m)

NoneDropped ==
  Cardinality(Sent) <= Depth => \A s \in Subscribers : \A m \in Sent : KeptFor(s, m)

=============================================================================
