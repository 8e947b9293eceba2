------------------------------- MODULE Setup -------------------------------
(***************************************************************************)
(* How the DDS entities behind the functionalities come into being:        *)
(* Application::new and register_provider (core/src/core/application.rs),  *)
(* the provider's create_execution_objects and create_continuous_handle    *)
(* and the consumer's init, as the two macros generate them.               *)
(*                                                                         *)
(* A task runs a list of jobs on one participant.  Every job is a fixed    *)
(* sequence of DDS calls, each awaited and unwrapped: another task may run *)
(* between any two, and the first error panics and leaves what there is.   *)
(* Tasks may share a participant (Application::participant is public).     *)
(* Participants, publishers and subscribers, which are not found by name,  *)
(* are left out.                                                           *)
(*                                                                         *)
(* A type is a model value; a functionality is a record of its kind, name, *)
(* input and output type.  DDS is external: create_topic fails when the    *)
(* participant has a topic of that name, any call may fail, and a writer   *)
(* and a reader match when name and type name of their topics are equal.   *)
(***************************************************************************)
EXTENDS Integers, Sequences, FiniteSets, SequencesExt

CONSTANTS
  Tasks, Participants,
  PartOf,        \* task -> its participant
  Jobs,          \* task -> sequence of [job, fns]
  Lower,         \* to_lowercase() on the names of functionalities
  EmptyMessage,  \* the payload of a Response's request
  MaxFailures    \* bound: tasks of which a DDS call fails for a reason of its own

Kinds == {"Continuous", "RequestResponse", "Response"}

Functionalities ==
  UNION {UNION {ToSet(Jobs[t][i].fns) : i \in DOMAIN Jobs[t]} : t \in Tasks}

ASSUME SetupAssumption ==
  /\ PartOf \in [Tasks -> Participants]
  /\ Jobs \in [Tasks -> Seq([job : {"new", "register", "init"}, fns : Seq(Functionalities)])]
  /\ \A f \in Functionalities : f.kind \in Kinds
  \* Application::new declares nothing and makes the participant it runs on.
  /\ \A t, u \in Tasks : \A i \in DOMAIN Jobs[t], j \in DOMAIN Jobs[u] :
       Jobs[t][i].job = "new" =>
         /\ Jobs[t][i].fns = <<>>
         /\ Jobs[u][j].job = "new" /\ PartOf[t] = PartOf[u] => t = u /\ i = j
  /\ MaxFailures \in Nat

VARIABLES
  step,          \* task -> DDS calls it has made
  panicked,      \* task -> an unwrap has panicked
  topics,        \* the topics of all participants
  endpoints,     \* the writers and readers of all participants
  announced,     \* <<task, functionality>> for the ProviderMessages written
  failed         \* the tasks of which a DDS call failed for its own reasons

vars == <<step, panicked, topics, endpoints, announced, failed>>

IsStream(f) == f.kind = "Continuous"
IsCall(f)   == f.kind \in {"RequestResponse", "Response"}

----------------------------------------------------------------------------
(* Topic names, type names and payloads.  macros/src/naming.rs is shared,   *)
(* its uses are in two macros: Provided... is the provider's, Consumed...   *)
(* the consumer's.                                                          *)

TopicNames(f)  == [request |-> <<"request", f.name>>, response |-> <<"response", f.name>>]
Exchange(type) == <<"ProviderExchange", type>>

\* input_type.is_some(): only a RequestResponse is parsed with an input type.
HasInput(f) == f.kind = "RequestResponse"

ProvidedInputName(f) == IF HasInput(f) THEN EmptyMessage ELSE f.out

ProvidedRequest(f) ==
  [name |-> TopicNames(f).request, type |-> Exchange(ProvidedInputName(f)),
   payload |-> Exchange(IF HasInput(f) THEN f.in ELSE EmptyMessage)]

ProvidedResponseNamedRequest(f) ==   \* mutant: both topics have one name
  [name |-> TopicNames(f).request, type |-> Exchange(f.out), payload |-> Exchange(f.out)]
ProvidedResponse(f) ==
  [name |-> TopicNames(f).response, type |-> Exchange(f.out), payload |-> Exchange(f.out)]

ProvidedStream(f) ==
  [name |-> <<"stream", Lower[f.name]>>, type |-> f.out, payload |-> f.out]

ConsumedInputName(f) == IF HasInput(f) THEN EmptyMessage ELSE f.out

ConsumedRequest(f) ==
  [name |-> TopicNames(f).request, type |-> Exchange(ConsumedInputName(f)),
   payload |-> Exchange(IF f.kind = "RequestResponse" THEN f.in ELSE EmptyMessage)]

ConsumedResponseSwapped(f) ==        \* mutant: the pair of type names is swapped
  [name |-> TopicNames(f).response, type |-> Exchange(ConsumedInputName(f)),
   payload |-> Exchange(f.out)]
ConsumedResponse(f) ==
  [name |-> TopicNames(f).response, type |-> Exchange(f.out), payload |-> Exchange(f.out)]

ConsumedStreamAsWritten(f) ==        \* mutant: the name is not lower-cased
  [name |-> <<"stream", f.name>>, type |-> f.out, payload |-> f.out]
ConsumedStream(f) ==
  [name |-> <<"stream", Lower[f.name]>>, type |-> f.out, payload |-> f.out]

PlainTopic(n) == [name |-> <<n>>, type |-> n, payload |-> n]

----------------------------------------------------------------------------
(* The DDS calls of each job, in the order in which the code makes them. *)

Topic(t)  == [call |-> "topic", topic |-> t]
Writer(t) == [call |-> "writer", topic |-> t, listener |-> FALSE]
Reader(t, listens) == [call |-> "reader", topic |-> t, listener |-> listens]

Each(fns, Calls(_)) == FlattenSeq([i \in DOMAIN fns |-> Calls(fns[i])])

Streams(fns) == Each(fns, LAMBDA f : IF IsStream(f) THEN <<f>> ELSE <<>>)
CallsOf(fns) == Each(fns, LAMBDA f : IF IsCall(f) THEN <<f>> ELSE <<>>)

\* Application::new
NewCalls ==
  << Topic(PlainTopic("ProviderRegistration")), Topic(PlainTopic("ConsumerDiscovery")),
     Writer(PlainTopic("ProviderRegistration")),
     Reader(PlainTopic("ConsumerDiscovery"), FALSE) >>

\* create_execution_objects: the arm of the match for one functionality; the
\* streams have none, their name is the "Unknown functionality" that panics.
ExecutionObjects(f) ==
  IF IsStream(f) THEN << [call |-> "unknown"] >>
  ELSE << Topic(ProvidedRequest(f)), Topic(ProvidedResponse(f)),
          Writer(ProvidedResponse(f)), Reader(ProvidedRequest(f), TRUE) >>

\* create_continuous_handle
HandleCalls(fns) ==
  Each(Streams(fns), LAMBDA f : <<Topic(ProvidedStream(f))>>)
  \o Each(Streams(fns), LAMBDA f : <<Writer(ProvidedStream(f))>>)

\* get_functionalities: the ProviderMessage leaves the streams out.
Everything(fns) == fns           \* mutant: the message lists the streams too
Announced(fns) == CallsOf(fns)

\* register_provider: the announcement, then execution objects for every
\* functionality of the message, then the handle.
RegisterCalls(fns) ==
  << [call |-> "announce", fns |-> Announced(fns)] >>
  \o Each(Announced(fns), ExecutionObjects) \o HandleCalls(fns)

\* The consumer's init: topics, writers, readers, then the streams' readers.
ConsumerTopics(f) ==
  IF IsStream(f) THEN <<Topic(ConsumedStream(f))>>
  ELSE <<Topic(ConsumedRequest(f)), Topic(ConsumedResponse(f))>>

StreamReader(f) == <<Reader(ConsumedStream(f), TRUE)>>

InitCalls(fns) ==
  Each(fns, ConsumerTopics)
  \o Each(CallsOf(fns), LAMBDA f : <<Writer(ConsumedRequest(f))>>)
  \o Each(CallsOf(fns), LAMBDA f : <<Reader(ConsumedResponse(f), FALSE)>>)
  \o Each(Streams(fns), StreamReader)

JobCalls(j) ==
  CASE j.job = "new"      -> NewCalls
    [] j.job = "register" -> RegisterCalls(j.fns)
    [] j.job = "init"     -> InitCalls(j.fns)

Plan == [t \in Tasks |-> Each(Jobs[t], JobCalls)]

Done(t) == step[t] = Len(Plan[t])

----------------------------------------------------------------------------
Init ==
  /\ step      = [t \in Tasks |-> 0]
  /\ panicked  = [t \in Tasks |-> FALSE]
  /\ topics    = {}
  /\ endpoints = {}
  /\ announced = {}
  /\ failed    = {}

Pending(t) == ~panicked[t] /\ ~Done(t)

Call(t) == Plan[t][step[t] + 1]

\* create_topic finds a topic of this name on the participant.
NameTaken(t) == \E x \in topics : x.part = PartOf[t] /\ x.topic.name = Call(t).topic.name

CreateTopic(t) ==
  /\ Pending(t) /\ Call(t).call = "topic" /\ ~NameTaken(t)
  /\ topics' = topics \cup {[part |-> PartOf[t], topic |-> Call(t).topic, owner |-> t]}
  /\ step'   = [step EXCEPT ![t] = @ + 1]
  /\ UNCHANGED <<panicked, endpoints, announced, failed>>

CreateEndpoint(t) ==
  /\ Pending(t) /\ Call(t).call \in {"writer", "reader"}
  /\ endpoints' = endpoints \cup
       {[owner |-> t, kind |-> Call(t).call, topic |-> Call(t).topic,
         listener |-> Call(t).listener]}
  /\ step' = [step EXCEPT ![t] = @ + 1]
  /\ UNCHANGED <<panicked, topics, announced, failed>>

\* provider_registration_writer.write(&functionalities, None)
Announce(t) ==
  /\ Pending(t) /\ Call(t).call = "announce"
  /\ announced' = announced \cup {<<t, f>> : f \in ToSet(Call(t).fns)}
  /\ step'      = [step EXCEPT ![t] = @ + 1]
  /\ UNCHANGED <<panicked, topics, endpoints, failed>>

\* The unwrap of a failed create_topic, the panic of the unmatched name.
Panics(t) ==
  /\ Pending(t)
  /\ \/ Call(t).call = "topic" /\ NameTaken(t)
     \/ Call(t).call = "unknown"
  /\ panicked' = [panicked EXCEPT ![t] = TRUE]
  /\ UNCHANGED <<step, topics, endpoints, announced, failed>>

CallFails(t) ==
  /\ Pending(t) /\ Call(t).call # "unknown"
  /\ Cardinality(failed) < MaxFailures
  /\ failed'   = failed \cup {t}
  /\ panicked' = [panicked EXCEPT ![t] = TRUE]
  /\ UNCHANGED <<step, topics, endpoints, announced>>

Step(t) == CreateTopic(t) \/ CreateEndpoint(t) \/ Announce(t) \/ Panics(t)

Next == \E t \in Tasks : Step(t) \/ CallFails(t)

\* The runtime polls every task; a DDS call completes.
Fairness == \A t \in Tasks : WF_vars(Step(t))

Spec     == Init /\ [][Next]_vars
FairSpec == Spec /\ Fairness

----------------------------------------------------------------------------
(* Properties. *)

Declared(t, job) ==
  UNION {ToSet(Jobs[t][i].fns) : i \in {n \in DOMAIN Jobs[t] : Jobs[t][n].job = job}}

Has(t, kind, topic) ==
  \E e \in endpoints : e.owner = t /\ e.kind = kind /\ e.topic = topic

Matched(w, r) ==
  /\ w.kind = "writer" /\ r.kind = "reader"
  /\ w.topic.name = r.topic.name /\ w.topic.type = r.topic.type

\* What t writes to one topic reaches a reader of u on another one, that has
\* a listener or has none.
Connected(t, written, u, read, listens) ==
  \E w, r \in endpoints :
    /\ w.owner = t /\ w.topic = written
    /\ r.owner = u /\ r.topic = read /\ r.listener = listens
    /\ Matched(w, r)

\* Two functionalities one participant has no room for: topics are found by
\* name, and the names of streams that differ only in case are one name.
Collide(f, g) ==
  \/ IsStream(f) /\ IsStream(g) /\ Lower[f.name] = Lower[g.name]
  \/ IsCall(f) /\ IsCall(g) /\ f.name = g.name

\* Where a task declares something: a job and a place in its list.
Places(t) ==
  UNION {{<<i, k>> : k \in DOMAIN Jobs[t][i].fns} : i \in DOMAIN Jobs[t]}
At(t, a) == Jobs[t][a[1]].fns[a[2]]

Rivals(t, a, u, b) ==
  PartOf[t] = PartOf[u] /\ <<t, a>> # <<u, b>> /\ Collide(At(t, a), At(u, b))

Contested(t) == \E u \in Tasks : \E a \in Places(t), b \in Places(u) : Rivals(t, a, u, b)

\* The two reasons for which setup may panic: a DDS call of the task itself
\* failed, or something it declares collides with another declaration on its
\* participant, of another task or of its own.
Excused(t) == t \in failed \/ (panicked[t] /\ Contested(t))

\* Every task is within its plan, and only calls are ever announced.
TypeOK ==
  /\ step \in [Tasks -> Nat] /\ \A t \in Tasks : step[t] <= Len(Plan[t])
  /\ panicked \in [Tasks -> BOOLEAN]
  /\ \A x \in topics : x.part \in Participants /\ x.owner \in Tasks
  /\ \A e \in endpoints : e.owner \in Tasks /\ e.kind \in {"writer", "reader"}
  /\ \A a \in announced : a[1] \in Tasks /\ IsCall(a[2])
  /\ failed \subseteq Tasks

\* A request that a consumer can send and that wakes a listener of a provider
\* can be answered: however far the provider's setup is, and if it has
\* stopped half way, what it writes to the response topic reaches the
\* consumer.  The topics of the way there and of the way back are named by
\* two macros, from different types.
AnswersReturn ==
  \A p, c \in Tasks : \A f \in Declared(p, "register"), g \in Declared(c, "init") :
    /\ Done(c) /\ IsCall(f) /\ IsCall(g) /\ f.out = g.out
    /\ Connected(c, ConsumedRequest(g), p, ProvidedRequest(f), TRUE)
    => Connected(p, ProvidedResponse(f), c, ConsumedResponse(g), FALSE)

\* A provider and a consumer that declare the same functionality, whose
\* topics are named by two different macros, are connected in every
\* direction it needs once both have finished, and requests and samples
\* wake a listener.
DeclaredIsConnected ==
  \A p, c \in Tasks : Done(p) /\ Done(c) =>
    \A f \in Declared(p, "register") \cap Declared(c, "init") :
      IF IsStream(f)
      THEN Connected(p, ProvidedStream(f), c, ConsumedStream(f), TRUE)
      ELSE /\ Connected(c, ConsumedRequest(f), p, ProvidedRequest(f), TRUE)
           /\ Connected(p, ProvidedResponse(f), c, ConsumedResponse(f), FALSE)

\* "Type-Safe" (README.md): what a writer sends is what the readers it
\* matches expect.
MatchedTypesAgree ==
  \A w, r \in endpoints : Matched(w, r) => w.topic.payload = r.topic.payload

\* Declarations that collide never all come into being: of two tasks on one
\* participant one panics, and so does a task that collides with itself, as
\* the consumer of two streams whose names differ only in case (which
\* compiles).  So no two functionalities ever share a topic unnoticed.
NamesApart ==
  \A t, u \in Tasks : Done(t) /\ Done(u) =>
    \A a \in Places(t), b \in Places(u) : ~Rivals(t, a, u, b)

\* Every task finishes its setup, whatever the others do meanwhile, also if
\* they panic on its own participant, unless it has an excuse of its own.
SetupEnds == \A t \in Tasks : <>(Done(t) \/ Excused(t))

\* The ProviderMessage is written before any of the endpoints it speaks of
\* exists; each of them follows, unless the setup panics for a good reason.
AnnouncedIsServed ==
  \A t \in Tasks : \A f \in Declared(t, "register") :
    <<t, f>> \in announced ~> Has(t, "reader", ProvidedRequest(f)) \/ Excused(t)

============================================================================
