-------------------------- MODULE RequestResponse --------------------------
(***************************************************************************)
(* One request/response functionality of a mycelium application: the code  *)
(* that the consume macro generates for a call, the two listeners of       *)
(* core/src/core/listener.rs, and the DDS entities between them.           *)
(*                                                                         *)
(* A consumer is one generated consumer struct: a request writer and a     *)
(* response reader whose listener every call replaces.  A caller is a task *)
(* that makes calls on a consumer one after the other; several callers may *)
(* share a consumer (the generated methods take &self).  Every consumer    *)
(* runs in a process, and request ids come from a counter of the process.  *)
(*                                                                         *)
(* Payloads are abstract: a request carries the call that made it, and a   *)
(* response the call whose payload the provider's implementation was run   *)
(* on and the provider that ran it.                                        *)
(*                                                                         *)
(* DDS is external to the repository.  What is assumed of it, with the     *)
(* QosKind::Default that all the code uses: a copy of a sample may be lost *)
(* or delayed on its way to a reader and is never duplicated; a reader     *)
(* keeps the last Depth samples; each sample that is stored queues one     *)
(* notification for the listener installed at that moment; a listener      *)
(* handles its notifications one at a time; one that is replaced handles   *)
(* what it was sent before and is then dropped.                            *)
(***************************************************************************)
EXTENDS AtomicU32, DataReader, FiniteSets

CONSTANTS
  Processes, Consumers, Callers, Providers,
  ProcessOf,       \* the process a consumer runs in
  ConsumerOf,      \* the consumer a caller calls
  MaxCalls,        \* bound: calls each caller makes
  MaxFaults,       \* bound: providers that die, tasks that panic
  MaxRestarts,     \* bound: consumer processes that restart
  NoListener, NoResponse

Calls == Callers \X (1 .. MaxCalls)

Requests  == [call : Calls, id : Ids]
Responses == [call : Calls, id : Ids, by : Providers]

ASSUME TopologyAssumption ==
  /\ ProcessOf \in [Consumers -> Processes]
  /\ ConsumerOf \in [Callers -> Consumers]

ASSUME BoundsAssumption ==
  MaxCalls \in Nat /\ MaxFaults \in Nat /\ MaxRestarts \in Nat

ASSUME NullAssumption == NoListener \notin Calls /\ NoResponse \notin Responses

VARIABLES
  counter,      \* process  -> GLOBAL_REQUEST_ID_GENERATOR
  pc,           \* call     -> where the generated method is, or how it ended
  idOf,         \* call     -> request.id, once the call has started
  sender,       \* call     -> response_sender of the call's listener
  slot,         \* call     -> what was sent through its oneshot
  mail,         \* call     -> notifications queued for its listener
  listener,     \* consumer -> listener installed on the response reader
  reader,       \* consumer -> samples the response reader holds
  inbox,        \* provider -> samples the request reader holds
  notices,      \* provider -> notifications queued for its RequestListener
  batch,        \* provider -> requests taken and not answered yet
  answer,       \* provider -> result computed and not written yet
  up,           \* provider -> FALSE once it has died
  requests,     \* copies of requests in flight, each to one provider
  responses,    \* copies of responses in flight, each to one consumer
  executed,     \* history: <<provider, call>> -> runs of the implementation
  faults, restarts

callVars     == <<pc, idOf, sender, slot, mail>>
consumerVars == <<listener, reader>>
providerVars == <<inbox, notices, batch, answer, up, executed>>
bounds       == <<faults, restarts>>
vars == <<counter, callVars, consumerVars, providerVars,
          requests, responses, bounds>>

Started(k)  == pc[k] # "idle"
Returned    == {"some", "timedOut", "cancelled"}
Ended       == Returned \cup {"panicked", "aborted"}
Reader(k)   == ConsumerOf[k[1]]
Process(k)  == ProcessOf[Reader(k)]

\* The sample is the one the listener of call k waits for.
MatchesAny(m, k) == TRUE         \* mutant: the id is not compared
Matches(m, k) == m.id = idOf[k]

\* What the listener of call k does with its sender when nothing matches.
NoMatchTakes(k) ==               \* mutant: response_sender.take() comes first
  /\ sender' = [sender EXCEPT ![k] = IF @ = "held" THEN "dropped" ELSE @]
  /\ slot' = slot
NoMatch(k) == UNCHANGED <<sender, slot>>

\* A sample that is stored queues a notification: a listener is installed,
\* and set_listener's mask is [DataAvailable].
NotifiesNever(c) == FALSE        \* mutant: the mask is NO_STATUS
Notifies(c) == listener[c] # NoListener

\* The response of provider p to request r.
ReplyNoId(p, r) ==               \* mutant: request.id is not echoed
  [call |-> r.call, id |-> 0, by |-> p]
Reply(p, r) == [call |-> r.call, id |-> r.id, by |-> p]

Init ==
  /\ counter   = [q \in Processes |-> 0]
  /\ pc        = [k \in Calls |-> "idle"]
  /\ idOf      = [k \in Calls |-> 0]
  /\ sender    = [k \in Calls |-> "none"]
  /\ slot      = [k \in Calls |-> NoResponse]
  /\ mail      = [k \in Calls |-> 0]
  /\ listener  = [c \in Consumers |-> NoListener]
  /\ reader    = [c \in Consumers |-> <<>>]
  /\ inbox     = [p \in Providers |-> <<>>]
  /\ notices   = [p \in Providers |-> 0]
  /\ batch     = [p \in Providers |-> <<>>]
  /\ answer    = [p \in Providers |-> NoResponse]
  /\ up        = [p \in Providers |-> TRUE]
  /\ requests  = {}
  /\ responses = {}
  /\ executed  = [pk \in Providers \X Calls |-> 0]
  /\ faults    = 0
  /\ restarts  = 0

----------------------------------------------------------------------------
(* The generated method, one call k. *)

\* The caller enters the method: next_request_id() and the request value.
NextRequestId(k) ==
  /\ pc[k] = "idle"
  /\ \A n \in 1 .. (k[2] - 1) : pc[<<k[1], n>>] \in Ended \ {"panicked"}
  /\ pc'      = [pc EXCEPT ![k] = "listen"]
  /\ idOf'    = [idOf EXCEPT ![k] = counter[Process(k)]]
  /\ counter' = [counter EXCEPT ![Process(k)] = Successor(@)]
  /\ UNCHANGED <<sender, slot, mail, consumerVars, providerVars,
                 requests, responses, bounds>>

\* oneshot() and set_listener(Some(listener), [DataAvailable]).
SetListener(k) ==
  /\ pc[k] = "listen"
  /\ pc'       = [pc EXCEPT ![k] = "write"]
  /\ sender'   = [sender EXCEPT ![k] = "held"]
  /\ listener' = [listener EXCEPT ![Reader(k)] = k]
  /\ UNCHANGED <<counter, idOf, slot, mail, reader, providerVars,
                 requests, responses, bounds>>

\* writer.write(&request): a copy goes to every provider that is up.
WriteRequest(k) ==
  /\ pc[k] = "write"
  /\ pc'       = [pc EXCEPT ![k] = "wait"]
  /\ requests' = requests \cup
       {[to |-> p, msg |-> [call |-> k, id |-> idOf[k]]] : p \in {d \in Providers : up[d]}}
  /\ UNCHANGED <<counter, idOf, sender, slot, mail, consumerVars,
                 providerVars, responses, bounds>>

\* set_listener or write returns an error: unwrap panics and the task ends.
CallPanics(k) ==
  /\ pc[k] \in {"listen", "write"}
  /\ faults < MaxFaults
  /\ pc'     = [pc EXCEPT ![k] = "panicked"]
  /\ faults' = faults + 1
  /\ UNCHANGED <<counter, idOf, sender, slot, mail, consumerVars,
                 providerVars, requests, responses, restarts>>

\* select!: data_future yields the payload ...
Receive(k) ==
  /\ pc[k] = "wait"
  /\ sender[k] = "sent"
  /\ pc' = [pc EXCEPT ![k] = "some"]
  /\ UNCHANGED <<counter, idOf, sender, slot, mail, consumerVars,
                 providerVars, requests, responses, bounds>>

\* ... or None, because the sender was dropped (receiver.await.ok()) ...
Cancelled(k) ==
  /\ pc[k] = "wait"
  /\ sender[k] = "dropped"
  /\ pc' = [pc EXCEPT ![k] = "cancelled"]
  /\ UNCHANGED <<counter, idOf, sender, slot, mail, consumerVars,
                 providerVars, requests, responses, bounds>>

\* ... or the timer fires first.
TimeoutNever(k) == FALSE         \* mutant: the method awaits the receiver only
Timeout(k) ==
  /\ pc[k] = "wait"
  /\ pc' = [pc EXCEPT ![k] = "timedOut"]
  /\ UNCHANGED <<counter, idOf, sender, slot, mail, consumerVars,
                 providerVars, requests, responses, bounds>>

----------------------------------------------------------------------------
(* The response side: the reader of a consumer and the listeners of its calls. *)

DeliverResponse(m) ==
  LET c == m.to IN
  /\ responses' = responses \ {m}
  /\ reader'    = [reader EXCEPT ![c] = KeepLast(@, m.msg)]
  /\ mail'      = IF Notifies(c) THEN [mail EXCEPT ![listener[c]] = @ + 1]
                  ELSE mail
  /\ UNCHANGED <<counter, pc, idOf, sender, slot, listener, providerVars,
                 requests, bounds>>

LoseResponse(m) ==
  /\ responses' = responses \ {m}
  /\ UNCHANGED <<counter, callVars, consumerVars, providerVars, requests, bounds>>

\* ProviderResponseListener::on_data_available for the listener of call k:
\* everything is taken, the first sample with the expected id is sent if
\* the sender is still there, the other samples are gone.
OnResponses(k) ==
  LET c     == Reader(k)
      taken == Taken(reader[c])
  IN
  /\ mail[k] > 0
  /\ mail'   = [mail EXCEPT ![k] = @ - 1]
  /\ reader' = [reader EXCEPT ![c] = Left(@)]
  /\ \/ \E i \in 1 .. Len(taken) :
          /\ sender[k] = "held"
          /\ Matches(taken[i], k)
          /\ \A j \in 1 .. (i - 1) : ~Matches(taken[j], k)
          /\ sender' = [sender EXCEPT ![k] = "sent"]
          /\ slot'   = [slot EXCEPT ![k] = taken[i]]
     \/ /\ \/ sender[k] # "held"
           \/ \A i \in 1 .. Len(taken) : ~Matches(taken[i], k)
        /\ NoMatch(k)
  /\ UNCHANGED <<counter, pc, idOf, listener, providerVars,
                 requests, responses, bounds>>

\* A listener that was replaced has handled its last notification and is
\* dropped, and its response_sender with it.
DropListener(k) ==
  /\ sender[k] = "held"
  /\ listener[Reader(k)] # k
  /\ mail[k] = 0
  /\ sender' = [sender EXCEPT ![k] = "dropped"]
  /\ UNCHANGED <<counter, pc, idOf, slot, mail, consumerVars, providerVars,
                 requests, responses, bounds>>

----------------------------------------------------------------------------
(* The provider: its request reader and RequestListener::on_data_available. *)

DeliverRequest(m) ==
  LET p == m.to IN
  /\ requests' = requests \ {m}
  /\ inbox'    = [inbox EXCEPT ![p] = KeepLast(@, m.msg)]
  /\ notices'  = [notices EXCEPT ![p] = @ + 1]
  /\ UNCHANGED <<counter, callVars, consumerVars, batch, answer, up, executed,
                 responses, bounds>>

LoseRequest(m) ==
  /\ requests' = requests \ {m}
  /\ UNCHANGED <<counter, callVars, consumerVars, providerVars, responses, bounds>>

\* reader.take(100, ..).await
TakeRequests(p) ==
  /\ notices[p] > 0
  /\ batch[p] = <<>>
  /\ notices' = [notices EXCEPT ![p] = @ - 1]
  /\ batch'   = [batch EXCEPT ![p] = Taken(inbox[p])]
  /\ inbox'   = [inbox EXCEPT ![p] = Left(@)]
  /\ UNCHANGED <<counter, callVars, consumerVars, answer, up, executed,
                 requests, responses, bounds>>

\* (self.implementation)(data).await on the next sample of the batch; the
\* generated closure puts request.id into the response.
Implementation(p) ==
  LET r == Head(batch[p]) IN
  /\ batch[p] # <<>>
  /\ answer[p] = NoResponse
  /\ answer'   = [answer EXCEPT ![p] = Reply(p, r)]
  /\ executed' = [executed EXCEPT ![<<p, r.call>>] = @ + 1]
  /\ UNCHANGED <<counter, callVars, consumerVars, inbox, notices, batch, up,
                 requests, responses, bounds>>

\* self.writer.write(&result, None).await: a copy to every consumer's reader.
WriteResponse(p) ==
  /\ batch[p] # <<>>
  /\ answer[p] # NoResponse
  /\ responses' = responses \cup {[to |-> c, msg |-> answer[p]] : c \in Consumers}
  /\ answer'    = [answer EXCEPT ![p] = NoResponse]
  /\ batch'     = [batch EXCEPT ![p] = Tail(@)]
  /\ UNCHANGED <<counter, callVars, consumerVars, inbox, notices, up, executed,
                 requests, bounds>>

\* The provider dies: the unwrap on the write of a response panics, or the
\* process crashes.  The rest of the batch and the reader go with it.
ProviderDies(p) ==
  /\ up[p]
  /\ faults < MaxFaults
  /\ faults'   = faults + 1
  /\ up'       = [up EXCEPT ![p] = FALSE]
  /\ inbox'    = [inbox EXCEPT ![p] = <<>>]
  /\ notices'  = [notices EXCEPT ![p] = 0]
  /\ batch'    = [batch EXCEPT ![p] = <<>>]
  /\ answer'   = [answer EXCEPT ![p] = NoResponse]
  /\ requests' = {m \in requests : m.to # p}
  /\ UNCHANGED <<counter, callVars, consumerVars, executed, responses, restarts>>

RestartProvider(p) ==
  /\ ~up[p]
  /\ up' = [up EXCEPT ![p] = TRUE]
  /\ UNCHANGED <<counter, callVars, consumerVars, inbox, notices, batch, answer,
                 executed, requests, responses, bounds>>

\* A consumer process crashes and starts again: the id counter is a static
\* that starts at 0, and the readers are new ones without a listener.
RestartProcess(q) ==
  LET mine == {k \in Calls : Process(k) = q} IN
  /\ restarts < MaxRestarts
  /\ restarts' = restarts + 1
  /\ counter'  = [counter EXCEPT ![q] = 0]
  /\ pc' = [k \in Calls |->
              IF k \in mine /\ pc[k] \notin Returned \cup {"idle"} THEN "aborted" ELSE pc[k]]
  /\ sender' = [k \in Calls |->
              IF k \in mine /\ sender[k] = "held" THEN "dropped" ELSE sender[k]]
  /\ mail'     = [k \in Calls |-> IF k \in mine THEN 0 ELSE mail[k]]
  /\ listener' = [c \in Consumers |-> IF ProcessOf[c] = q THEN NoListener ELSE listener[c]]
  /\ reader'   = [c \in Consumers |-> IF ProcessOf[c] = q THEN <<>> ELSE reader[c]]
  /\ responses' = {m \in responses : ProcessOf[m.to] # q}
  /\ UNCHANGED <<idOf, slot, providerVars, requests, faults>>

----------------------------------------------------------------------------
\* Every call has ended and nothing is left to do (MaxCalls is a bound).
Terminated ==
  /\ \A k \in Calls : pc[k] \in Ended \cup {"idle"}
  /\ UNCHANGED vars

CallStep(k) ==
  \/ SetListener(k) \/ WriteRequest(k)
  \/ Receive(k) \/ Cancelled(k) \/ Timeout(k)

ListenerStep(k) == OnResponses(k) \/ DropListener(k)

ProviderStep(p) == TakeRequests(p) \/ Implementation(p) \/ WriteResponse(p)

Transport ==
  \/ \E m \in requests  : DeliverRequest(m)  \/ LoseRequest(m)
  \/ \E m \in responses : DeliverResponse(m) \/ LoseResponse(m)

Fault ==
  \/ \E k \in Calls : CallPanics(k)
  \/ \E p \in Providers : ProviderDies(p) \/ RestartProvider(p)
  \/ \E q \in Processes : RestartProcess(q)

Next ==
  \/ \E k \in Calls : NextRequestId(k) \/ CallStep(k) \/ ListenerStep(k)
  \/ \E p \in Providers : ProviderStep(p)
  \/ Transport
  \/ Fault
  \/ Terminated

\* The runtime polls every task that can make progress and its timers fire;
\* a sample in flight arrives or is lost.  Nobody has to make a call.
Fairness ==
  /\ \A k \in Calls : WF_vars(SetListener(k) \/ WriteRequest(k))
  /\ \A k \in Calls : WF_vars(Receive(k) \/ Cancelled(k))
  /\ \A k \in Calls : WF_vars(Timeout(k))
  /\ \A k \in Calls : WF_vars(ListenerStep(k))
  /\ \A p \in Providers : WF_vars(ProviderStep(p))
  /\ WF_vars(Transport)

Spec     == Init /\ [][Next]_vars
FairSpec == Spec /\ Fairness

----------------------------------------------------------------------------
(* Properties. *)

TypeOK ==
  /\ counter \in [Processes -> Ids]
  /\ pc \in [Calls -> {"idle", "listen", "write", "wait"} \cup Ended]
  /\ idOf \in [Calls -> Ids]
  /\ sender \in [Calls -> {"none", "held", "sent", "dropped"}]
  /\ slot \in [Calls -> Responses \cup {NoResponse}]
  /\ mail \in [Calls -> Nat]
  /\ listener \in [Consumers -> Calls \cup {NoListener}]
  /\ reader \in [Consumers -> Seq(Responses)]
  /\ inbox \in [Providers -> Seq(Requests)]
  /\ notices \in [Providers -> Nat]
  /\ batch \in [Providers -> Seq(Requests)]
  /\ answer \in [Providers -> Responses \cup {NoResponse}]
  /\ up \in [Providers -> BOOLEAN]
  /\ requests \subseteq [to : Providers, msg : Requests]
  /\ responses \subseteq [to : Consumers, msg : Responses]
  /\ executed \in [Providers \X Calls -> Nat]
  /\ faults \in Nat /\ restarts \in Nat

\* No two calls of this functionality carry the same request.id.
UniqueIds ==
  \A a, b \in Calls : Started(a) /\ Started(b) /\ idOf[a] = idOf[b] => a = b

\* What a call is given is the result of the implementation on its own
\* payload, whatever is late, lost, discarded or meant for somebody else.
OwnResponse == \A k \in Calls : slot[k] # NoResponse => slot[k].call = k

\* The same where ids may repeat (several processes, a restart, an overflow):
\* a call is given a foreign response only if two calls have the same id.
ForeignNeedsSameId == UniqueIds => OwnResponse

\* The generated method returns None only when its timeout has elapsed:
\* nothing else ever takes the sender away from a call that waits.
NoneMeansTimeout == \A k \in Calls : pc[k] # "cancelled"

Holds(s, k) == \E i \in 1 .. Len(s) : s[i].call = k

\* A response that reached the reader of a call that waits is never left
\* there without a notification: some listener will still take it.
NoStrandedResponse ==
  \A k \in Calls :
    pc[k] = "wait" /\ Holds(reader[Reader(k)], k)
      => \E l \in Calls : Reader(l) = Reader(k) /\ mail[l] > 0

\* The listener of another call on the same reader makes a take ...
TakenByAnother(k) ==
  \E l \in Calls : l # k /\ Reader(l) = Reader(k) /\ mail'[l] < mail[l]

\* ... or the full reader stores one more response.
PushedOut(k) ==
  Len(reader[Reader(k)]) >= Depth /\ Len(reader'[Reader(k)]) = Len(reader[Reader(k)])

\* What may happen to a response that has reached the reader of a call that
\* waits: the listener of the call itself never takes it without sending it
\* through the oneshot.  Only the listener of a call that is over discards
\* it, or a late response pushes it out, and either only after a call on
\* this reader has ended without its response.
ResponseReachesCall ==
  [][\A k \in Calls :
       /\ pc[k] = "wait" /\ sender[k] = "held" /\ pc'[k] = "wait"
       /\ Holds(reader[Reader(k)], k) /\ ~Holds(reader'[Reader(k)], k)
       => \/ sender'[k] = "sent"
          \/ /\ TakenByAnother(k) \/ PushedOut(k)
             /\ \E l \in Calls : Reader(l) = Reader(k) /\ pc[l] \in Ended \ {"some"}]_vars

\* A call that was entered ends: a lost message, a dead provider or a
\* response somebody else took never leaves the caller waiting.
EveryCallEnds == \A k \in Calls : pc[k] = "listen" ~> pc[k] \in Ended

\* The provider's listener does not leave a request behind: what reaches
\* its reader is taken and answered, pushed out by later requests, or lost
\* with the provider.
RequestsAreServed ==
  \A p \in Providers :
    inbox[p] \o batch[p] # <<>> ~> inbox[p] \o batch[p] = <<>>

\* What the caller sees of a call: where it is, and its result once it has it.
StatusAt(stage) ==
  CASE stage = "idle" -> "idle"
    [] stage \in {"listen", "write", "wait"} -> "pending"
    [] stage = "some" -> "answered"
    [] OTHER -> "gaveUp"

callStatus == [k \in Calls |-> StatusAt(pc[k])]

callResult ==
  [k \in Calls |->
     IF pc[k] = "some" THEN [by |-> slot[k].by, call |-> slot[k].call] ELSE NoResponse]

Promise == INSTANCE Rpc WITH
  NoResult <- NoResponse, status <- callStatus, result <- callResult

\* The generated code and the two listeners implement Rpc.
ImplementsRpc == Promise!Spec

----------------------------------------------------------------------------
(* The inductive strengthening of ForeignNeedsSameId: wherever a request or *)
(* a response is, it carries the id of the call it stems from; the call has *)
(* written the request, and the provider that answers has run it.           *)

Written(k) == Started(k) /\ pc[k] \notin {"listen", "write"}

GenuineRequests  == {m \in Requests  : Written(m.call) /\ m.id = idOf[m.call]}
GenuineResponses ==
  {m \in Responses : executed[<<m.by, m.call>>] > 0 /\ m.id = idOf[m.call]}

IdsMatch ==
  /\ requests \subseteq [to : Providers, msg : GenuineRequests]
  /\ responses \subseteq [to : Consumers, msg : GenuineResponses]
  /\ reader \in [Consumers -> Seq(GenuineResponses)]
  /\ inbox \in [Providers -> Seq(GenuineRequests)]
  /\ batch \in [Providers -> Seq(GenuineRequests)]
  /\ answer \in [Providers -> GenuineResponses \cup {NoResponse}]
  /\ slot \in [Calls -> GenuineResponses \cup {NoResponse}]
  /\ \A p \in Providers, k \in Calls : executed[<<p, k>>] > 0 => Written(k)
  /\ \A k \in Calls : sender[k] # "none" => Started(k)
  /\ \A k \in Calls : slot[k] # NoResponse => slot[k].id = idOf[k] /\ Started(k)

\* Without a restart the counter of a process counts its calls, and is
\* ahead of every id it has handed out.
StartedIn(q) == {k \in Calls : Started(k) /\ Process(k) = q}

CounterAhead ==
  /\ \A q \in Processes : counter[q] = Cardinality(StartedIn(q))
  /\ \A k \in Calls : Started(k) => idOf[k] < counter[Process(k)]
  /\ \A a, b \in Calls :
       /\ Started(a) /\ Started(b) /\ Process(a) = Process(b) /\ idOf[a] = idOf[b]
       => a = b

\* The calls of a caller run one after the other ...
OneAtATime ==
  \A k \in Calls : \A n \in 1 .. (k[2] - 1) :
    Started(k) => pc[<<k[1], n>>] \in Ended

\* ... so where no two callers share a consumer, the listener of a call
\* stays installed from set_listener until the method returns.
ListenerStays ==
  \A k \in Calls :
    pc[k] \in {"write", "wait"} =>
      listener[Reader(k)] = k /\ sender[k] \in {"held", "sent"}

----------------------------------------------------------------------------
(* The inductive strengthening of ImplementsRpc and NoStrandedResponse.    *)

OneEach(s) == \A i, j \in 1 .. Len(s) : s[i].call = s[j].call => i = j

\* The copy of a request that goes to a provider is in one place, and only
\* the head of the batch may have been run.
OneCopyAt(p) ==
  /\ OneEach(inbox[p]) /\ OneEach(batch[p])
  /\ \A k \in Calls : Holds(inbox[p], k) =>
       ~Holds(batch[p], k) /\ executed[<<p, k>>] = 0
  /\ \A m \in requests : m.to = p =>
       /\ ~Holds(inbox[p], m.msg.call) /\ ~Holds(batch[p], m.msg.call)
       /\ executed[<<p, m.msg.call>>] = 0
  /\ \A i \in 1 .. Len(batch[p]) :
       i > 1 \/ answer[p] = NoResponse => executed[<<p, batch[p][i].call>>] = 0

OneCopy == \A p \in Providers : OneCopyAt(p)

RunOnce == \A pk \in Providers \X Calls : executed[pk] \in {0, 1}

\* A call that returned a payload was sent it.
PayloadSent ==
  \A k \in Calls :
    /\ pc[k] = "some" => sender[k] = "sent"
    /\ sender[k] = "sent" => slot[k] # NoResponse

\* A call that writes or waits has a listener on its reader, be it another's.
ReaderWatched ==
  /\ \A k \in Calls : pc[k] \in {"write", "wait"} => listener[Reader(k)] # NoListener
  /\ \A c \in Consumers : listener[c] # NoListener => Reader(listener[c]) = c

ReadersBounded == \A c \in Consumers : Len(reader[c]) <= Depth

\* With one consumer, one caller and one provider, and as long as no call
\* gave up: there is one response at most in answer, wire and reader, it is
\* for the call that waits, whose listener has a notification for it.
Waiting(k) == pc[k] = "wait" /\ sender[k] = "held"

GaveUp(k) == pc[k] \in Ended \ {"some"}

NoneGaveUp == \A k \in Calls : ~GaveUp(k)

OneInReader ==
  \A c \in Consumers :
    /\ Len(reader[c]) <= 1
    /\ \A i \in 1 .. Len(reader[c]) : Waiting(reader[c][i].call)

OneOnWire ==
  \A m \in responses : Waiting(m.msg.call) /\ Len(reader[m.to]) = 0

OneAnswer ==
  \A p \in Providers : answer[p] # NoResponse =>
    /\ Waiting(answer[p].call)
    /\ responses = {} /\ \A c \in Consumers : Len(reader[c]) = 0

WakesTheWaiting ==
  \A k \in Calls : mail[k] > 0 => Waiting(k) /\ mail[k] <= Len(reader[Reader(k)])

OneAtMost == OneInReader /\ OneOnWire /\ OneAnswer /\ WakesTheWaiting /\ OwnResponse

OneResponse == NoneGaveUp => OneAtMost

============================================================================
