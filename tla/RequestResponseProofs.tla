----------------------- MODULE RequestResponseProofs -----------------------
(***************************************************************************)
(* Theorems about RequestResponse, for every topology, reader depth,       *)
(* number of calls and width of the id counter.                            *)
(***************************************************************************)
EXTENDS RequestResponse, DataReaderProofs, FiniteSetTheorems

----------------------------------------------------------------------------
(* Small facts about the counter and the topology. *)

\* fetch_add stays within the width of the counter.
LEMMA SuccessorInIds == \A c \in Ids : Successor(c) \in Ids
BY IdWrapAssumption DEF Successor, Ids

\* Every call has a reader, and a process whose counter it uses.
LEMMA ProcessType == \A k \in Calls : Reader(k) \in Consumers /\ Process(k) \in Processes
BY TopologyAssumption DEF Calls, Reader, Process

----------------------------------------------------------------------------
(* Type correctness. *)

\* Every variable starts with a value of its type.
LEMMA InitTypeOK == Init => TypeOK
BY IdWrapAssumption DEF Init, TypeOK, Ids, Ended, Returned

\* No step of a caller, a listener, a provider, DDS or a fault leaves them.
LEMMA StepTypeOK == TypeOK /\ [Next]_vars => TypeOK'
<1> SUFFICES ASSUME TypeOK, [Next]_vars PROVE TypeOK'
  OBVIOUS
<1> USE DEF TypeOK, callVars, consumerVars, providerVars, bounds
<1>1. ASSUME NEW k \in Calls, NextRequestId(k) PROVE TypeOK'
  <2>1. counter[Process(k)] \in Ids /\ Successor(counter[Process(k)]) \in Ids
    BY ProcessType, SuccessorInIds
  <2> QED
    BY <1>1, <2>1 DEF NextRequestId
<1>2. ASSUME NEW k \in Calls, SetListener(k) PROVE TypeOK'
  BY <1>2, ProcessType DEF SetListener
<1>3. ASSUME NEW k \in Calls, WriteRequest(k) PROVE TypeOK'
  <2>1. requests' \subseteq [to : Providers, msg : Requests]
    <3>1. [call |-> k, id |-> idOf[k]] \in Requests
      BY DEF Requests
    <3> QED
      BY <1>3, <3>1 DEF WriteRequest
  <2> QED
    BY <1>3, <2>1 DEF WriteRequest
<1>4. ASSUME NEW k \in Calls, Receive(k) PROVE TypeOK'
  BY <1>4 DEF Receive, Ended, Returned
<1>5. ASSUME NEW k \in Calls, Cancelled(k) PROVE TypeOK'
  BY <1>5 DEF Cancelled, Ended, Returned
<1>6. ASSUME NEW k \in Calls, Timeout(k) PROVE TypeOK'
  BY <1>6 DEF Timeout, Ended, Returned
<1>7. ASSUME NEW k \in Calls, OnResponses(k) PROVE TypeOK'
  <2>1. reader[Reader(k)] \in Seq(Responses)
    BY ProcessType
  <2>2. /\ Left(reader[Reader(k)]) \in Seq(Responses)
        /\ \A i \in 1 .. Len(Taken(reader[Reader(k)])) :
             Taken(reader[Reader(k)])[i] \in Responses
    BY <2>1, TakenType
  <2>3. reader' \in [Consumers -> Seq(Responses)]
    BY <1>7, <2>2 DEF OnResponses
  <2>4. mail' \in [Calls -> Nat]
    BY <1>7 DEF OnResponses
  <2>5. /\ sender' \in [Calls -> {"none", "held", "sent", "dropped"}]
        /\ slot' \in [Calls -> Responses \cup {NoResponse}]
    BY <1>7, <2>2 DEF OnResponses, NoMatch
  <2> QED
    BY <1>7, <2>3, <2>4, <2>5 DEF OnResponses
<1>8. ASSUME NEW k \in Calls, DropListener(k) PROVE TypeOK'
  BY <1>8 DEF DropListener
<1>9. ASSUME NEW p \in Providers, TakeRequests(p) PROVE TypeOK'
  <2>1. Taken(inbox[p]) \in Seq(Requests) /\ Left(inbox[p]) \in Seq(Requests)
    BY TakenType
  <2> QED
    BY <1>9, <2>1 DEF TakeRequests
<1>10. ASSUME NEW p \in Providers, Implementation(p) PROVE TypeOK'
  <2>1. Head(batch[p]) \in Requests
    BY <1>10, HeadTailProperties DEF Implementation
  <2>2. Reply(p, Head(batch[p])) \in Responses /\ Head(batch[p]).call \in Calls
    BY <2>1 DEF Reply, Requests, Responses
  <2> QED
    BY <1>10, <2>2 DEF Implementation
<1>11. ASSUME NEW p \in Providers, WriteResponse(p) PROVE TypeOK'
  <2>1. Tail(batch[p]) \in Seq(Requests)
    BY <1>11, HeadTailProperties DEF WriteResponse
  <2>2. responses' \subseteq [to : Consumers, msg : Responses]
    BY <1>11 DEF WriteResponse
  <2> QED
    BY <1>11, <2>1, <2>2 DEF WriteResponse
<1>12. ASSUME NEW m \in requests, DeliverRequest(m) PROVE TypeOK'
  <2>1. m.to \in Providers /\ m.msg \in Requests
    OBVIOUS
  <2>2. KeepLast(inbox[m.to], m.msg) \in Seq(Requests)
    BY <2>1, KeepLastType
  <2> QED
    BY <1>12, <2>1, <2>2 DEF DeliverRequest
<1>13. ASSUME NEW m \in requests, LoseRequest(m) PROVE TypeOK'
  BY <1>13 DEF LoseRequest
<1>14. ASSUME NEW m \in responses, DeliverResponse(m) PROVE TypeOK'
  <2>1. m.to \in Consumers /\ m.msg \in Responses
    OBVIOUS
  <2>2. KeepLast(reader[m.to], m.msg) \in Seq(Responses)
    BY <2>1, KeepLastType
  <2>3. mail' \in [Calls -> Nat]
    BY <1>14, <2>1 DEF DeliverResponse, Notifies
  <2> QED
    BY <1>14, <2>1, <2>2, <2>3 DEF DeliverResponse
<1>15. ASSUME NEW m \in responses, LoseResponse(m) PROVE TypeOK'
  BY <1>15 DEF LoseResponse
<1>16. ASSUME NEW k \in Calls, CallPanics(k) PROVE TypeOK'
  BY <1>16 DEF CallPanics, Ended, Returned
<1>17. ASSUME NEW p \in Providers, ProviderDies(p) PROVE TypeOK'
  BY <1>17, EmptySeq DEF ProviderDies
<1>18. ASSUME NEW p \in Providers, RestartProvider(p) PROVE TypeOK'
  BY <1>18 DEF RestartProvider
<1>19. ASSUME NEW q \in Processes, RestartProcess(q) PROVE TypeOK'
  <2>1. counter' \in [Processes -> Ids]
    BY <1>19, IdWrapAssumption DEF RestartProcess, Ids
  <2>2. /\ pc' \in [Calls -> {"idle", "listen", "write", "wait"} \cup Ended]
        /\ sender' \in [Calls -> {"none", "held", "sent", "dropped"}]
        /\ mail' \in [Calls -> Nat]
    BY <1>19 DEF RestartProcess, Ended, Returned
  <2>3. /\ listener' \in [Consumers -> Calls \cup {NoListener}]
        /\ reader' \in [Consumers -> Seq(Responses)]
        /\ responses' \subseteq [to : Consumers, msg : Responses]
    BY <1>19, EmptySeq DEF RestartProcess
  <2> QED
    BY <1>19, <2>1, <2>2, <2>3 DEF RestartProcess
<1>20. CASE UNCHANGED vars
  BY <1>20 DEF vars
<1>21. CASE Terminated
  BY <1>20, <1>21 DEF Terminated
<1> QED
  BY <1>1, <1>2, <1>3, <1>4, <1>5, <1>6, <1>7, <1>8, <1>9, <1>10, <1>11, <1>12,
     <1>13, <1>14, <1>15, <1>16, <1>17, <1>18, <1>19, <1>20, <1>21
  DEF Next, CallStep, ListenerStep, ProviderStep, Transport, Fault

\* Every queue, reader, oneshot and task of the model keeps its type.
THEOREM TypeCorrect == Spec => []TypeOK
BY InitTypeOK, StepTypeOK, PTL DEF Spec

----------------------------------------------------------------------------
(* Ids stay with the calls they were given to. *)

\* A call that has started stays started and keeps its id.
LEMMA StartedStable ==
  TypeOK /\ [Next]_vars => \A k \in Calls : Started(k) => Started(k)' /\ idOf'[k] = idOf[k]
<1> SUFFICES ASSUME TypeOK, [Next]_vars, NEW k \in Calls, Started(k)
             PROVE  Started(k)' /\ idOf'[k] = idOf[k]
  OBVIOUS
<1> USE DEF TypeOK, Started, callVars
<1>1. ASSUME NEW l \in Calls, NextRequestId(l) PROVE Started(k)' /\ idOf'[k] = idOf[k]
  BY <1>1 DEF NextRequestId
<1>2. ASSUME NEW l \in Calls, CallStep(l) \/ CallPanics(l)
      PROVE  Started(k)' /\ idOf'[k] = idOf[k]
  BY <1>2 DEF CallStep, SetListener, WriteRequest, Receive, Cancelled, Timeout, CallPanics
<1>3. ASSUME NEW l \in Calls, ListenerStep(l) PROVE Started(k)' /\ idOf'[k] = idOf[k]
  BY <1>3 DEF ListenerStep, OnResponses, DropListener
<1>4. ASSUME NEW p \in Providers, ProviderStep(p) \/ ProviderDies(p) \/ RestartProvider(p)
      PROVE  Started(k)' /\ idOf'[k] = idOf[k]
  BY <1>4 DEF ProviderStep, TakeRequests, Implementation, WriteResponse,
              ProviderDies, RestartProvider
<1>5. CASE Transport
  BY <1>5 DEF Transport, DeliverRequest, LoseRequest, DeliverResponse, LoseResponse
<1>6. ASSUME NEW q \in Processes, RestartProcess(q)
      PROVE  Started(k)' /\ idOf'[k] = idOf[k]
  BY <1>6 DEF RestartProcess
<1>7. CASE UNCHANGED vars
  BY <1>7 DEF vars
<1> QED
  BY <1>1, <1>2, <1>3, <1>4, <1>5, <1>6, <1>7 DEF Next, Fault, Terminated

\* A request that was written stays written.
LEMMA WrittenStable ==
  TypeOK /\ [Next]_vars => \A k \in Calls : Written(k) => Written(k)'
<1> SUFFICES ASSUME TypeOK, [Next]_vars, NEW k \in Calls, Written(k) PROVE Written(k)'
  OBVIOUS
<1> USE DEF TypeOK, Started, Written, callVars, Ended, Returned
<1>1. ASSUME NEW l \in Calls, NextRequestId(l) \/ SetListener(l) \/ WriteRequest(l)
      PROVE  Written(k)'
  BY <1>1 DEF NextRequestId, SetListener, WriteRequest
<1>2. ASSUME NEW l \in Calls, Receive(l) \/ Cancelled(l) \/ Timeout(l) \/ CallPanics(l)
      PROVE  Written(k)'
  BY <1>2 DEF Receive, Cancelled, Timeout, CallPanics
<1>3. ASSUME NEW l \in Calls, ListenerStep(l) PROVE Written(k)'
  BY <1>3 DEF ListenerStep, OnResponses, DropListener
<1>4. ASSUME NEW p \in Providers, ProviderStep(p) \/ ProviderDies(p) \/ RestartProvider(p)
      PROVE  Written(k)'
  BY <1>4 DEF ProviderStep, TakeRequests, Implementation, WriteResponse,
              ProviderDies, RestartProvider
<1>5. CASE Transport
  BY <1>5 DEF Transport, DeliverRequest, LoseRequest, DeliverResponse, LoseResponse
<1>6. ASSUME NEW q \in Processes, RestartProcess(q) PROVE Written(k)'
  BY <1>6 DEF RestartProcess
<1>7. CASE UNCHANGED vars
  BY <1>7 DEF vars
<1> QED
  BY <1>1, <1>2, <1>3, <1>4, <1>5, <1>6, <1>7 DEF Next, Fault, Terminated, CallStep

\* What a provider has run stays run.
LEMMA ExecutedGrows ==
  TypeOK /\ [Next]_vars =>
    \A p \in Providers, k \in Calls : executed[<<p, k>>] > 0 => executed'[<<p, k>>] > 0
<1> SUFFICES ASSUME TypeOK, [Next]_vars, NEW p \in Providers, NEW k \in Calls,
                    executed[<<p, k>>] > 0
             PROVE  executed'[<<p, k>>] > 0
  OBVIOUS
<1> USE DEF providerVars
<1>1. ASSUME NEW r \in Providers, Implementation(r) PROVE executed'[<<p, k>>] > 0
  <2>1. executed \in [Providers \X Calls -> Nat] /\ <<p, k>> \in Providers \X Calls
    BY DEF TypeOK
  <2> QED
    BY <1>1, <2>1 DEF Implementation
<1>2. CASE UNCHANGED executed
  BY <1>2
<1>3. ASSUME NEW l \in Calls, NextRequestId(l) \/ CallStep(l) \/ ListenerStep(l) \/ CallPanics(l)
      PROVE  UNCHANGED executed
  BY <1>3 DEF NextRequestId, CallStep, SetListener, WriteRequest, Receive, Cancelled,
              Timeout, ListenerStep, OnResponses, DropListener, CallPanics
<1>4. ASSUME NEW r \in Providers,
             TakeRequests(r) \/ WriteResponse(r) \/ ProviderDies(r) \/ RestartProvider(r)
      PROVE  UNCHANGED executed
  BY <1>4 DEF TakeRequests, WriteResponse, ProviderDies, RestartProvider
<1>5. ASSUME Transport PROVE UNCHANGED executed
  BY <1>5 DEF Transport, DeliverRequest, LoseRequest, DeliverResponse, LoseResponse
<1>6. ASSUME NEW q \in Processes, RestartProcess(q) PROVE UNCHANGED executed
  BY <1>6 DEF RestartProcess
<1>7. ASSUME UNCHANGED vars PROVE UNCHANGED executed
  BY <1>7 DEF vars
<1> QED
  BY <1>1, <1>2, <1>3, <1>4, <1>5, <1>6, <1>7 DEF Next, Fault, Terminated, ProviderStep

\* Hence a genuine request or response stays one, wherever it is.
LEMMA GenuineStable ==
  ASSUME TypeOK, [Next]_vars,
         \A p \in Providers, k \in Calls : executed[<<p, k>>] > 0 => Written(k)
  PROVE  /\ GenuineRequests \subseteq GenuineRequests'
         /\ GenuineResponses \subseteq GenuineResponses'
         /\ Seq(GenuineRequests) \subseteq Seq(GenuineRequests')
         /\ Seq(GenuineResponses) \subseteq Seq(GenuineResponses')
<1>1. GenuineRequests \subseteq GenuineRequests'
  <2>1. \A k \in Calls : Written(k) => Written(k)' /\ idOf'[k] = idOf[k]
    BY StartedStable, WrittenStable DEF Written
  <2> QED
    BY <2>1 DEF GenuineRequests, Requests
<1>2. GenuineResponses \subseteq GenuineResponses'
  <2>1. \A k \in Calls : Written(k) => idOf'[k] = idOf[k]
    BY StartedStable DEF Written
  <2> QED
    BY <2>1, ExecutedGrows DEF GenuineResponses, Responses
<1> QED
  BY <1>1, <1>2, SeqMonotonic

\* At the start no request and no response is anywhere.
LEMMA InitIdsMatch == Init => IdsMatch
BY EmptySeq DEF Init, IdsMatch, Started

\* Every step that moves a request or a response keeps its id with its call.
LEMMA StepIdsMatch == TypeOK /\ IdsMatch /\ [Next]_vars => IdsMatch'
<1> SUFFICES ASSUME TypeOK, IdsMatch, [Next]_vars PROVE IdsMatch'
  OBVIOUS
<1> DEFINE Q == GenuineRequests
           R == GenuineResponses
\* What holds of everything a step leaves where it is.
<1>a. /\ Q \subseteq Q' /\ R \subseteq R'
      /\ Seq(Q) \subseteq Seq(Q') /\ Seq(R) \subseteq Seq(R')
  BY GenuineStable DEF IdsMatch
<1>b. \A k \in Calls : Started(k) => Started(k)' /\ idOf'[k] = idOf[k]
  BY StartedStable
<1>c. /\ requests \subseteq [to : Providers, msg : Q']
      /\ responses \subseteq [to : Consumers, msg : R']
      /\ reader \in [Consumers -> Seq(R')]
      /\ inbox \in [Providers -> Seq(Q')]
      /\ batch \in [Providers -> Seq(Q')]
      /\ answer \in [Providers -> R' \cup {NoResponse}]
      /\ slot \in [Calls -> R' \cup {NoResponse}]
  BY <1>a DEF IdsMatch
<1>d. ASSUME sender' = sender, slot' = slot
      PROVE  /\ \A k \in Calls : sender'[k] # "none" => Started(k)'
             /\ \A k \in Calls : slot'[k] # NoResponse => slot'[k].id = idOf'[k] /\ Started(k)'
  BY <1>b, <1>d DEF IdsMatch
<1>e. ASSUME executed' = executed
      PROVE  \A p \in Providers, l \in Calls : executed'[<<p, l>>] > 0 => Written(l)'
  BY <1>e, WrittenStable DEF IdsMatch
<1> HIDE DEF Q, R
<1> USE DEF callVars, consumerVars, providerVars, bounds
<1>1. ASSUME NEW k \in Calls, NextRequestId(k) PROVE IdsMatch'
  BY <1>1, <1>c, <1>d, <1>e DEF NextRequestId, IdsMatch, Q, R
<1>2. ASSUME NEW k \in Calls, SetListener(k) PROVE IdsMatch'
  <2>1. Started(k)
    BY <1>2 DEF SetListener, Started
  <2>2. \A l \in Calls : sender'[l] # "none" => Started(l)'
    BY <1>2, <1>b, <2>1 DEF SetListener, IdsMatch, TypeOK
  <2>3. \A l \in Calls : slot'[l] # NoResponse => slot'[l].id = idOf'[l] /\ Started(l)'
    BY <1>2, <1>b DEF SetListener, IdsMatch
  <2> QED
    BY <1>2, <1>c, <1>e, <2>2, <2>3 DEF SetListener, IdsMatch, Q, R
<1>3. ASSUME NEW k \in Calls, WriteRequest(k) PROVE IdsMatch'
  <2>1. [call |-> k, id |-> idOf[k]] \in Q'
    BY <1>3 DEF WriteRequest, Q, GenuineRequests, Requests, Started, Written, TypeOK
  <2>2. requests' \subseteq [to : Providers, msg : Q']
    BY <1>3, <1>a, <1>c, <2>1 DEF WriteRequest
  <2> QED
    BY <1>3, <1>c, <1>d, <1>e, <2>2 DEF WriteRequest, IdsMatch, Q, R
<1>4. ASSUME NEW k \in Calls, Receive(k) \/ Cancelled(k) \/ Timeout(k) \/ CallPanics(k)
      PROVE  IdsMatch'
  BY <1>4, <1>c, <1>d, <1>e DEF Receive, Cancelled, Timeout, CallPanics, IdsMatch, Q, R
<1>5. ASSUME NEW k \in Calls, OnResponses(k) PROVE IdsMatch'
  <2> DEFINE s == reader[Reader(k)]
  <2>1. s \in Seq(R)
    BY ProcessType DEF IdsMatch, R
  <2>2. Left(s) \in Seq(R) /\ \A i \in 1 .. Len(Taken(s)) : Taken(s)[i] \in R
    BY <2>1, TakenType
  <2>3. reader' \in [Consumers -> Seq(R')]
    BY <1>5, <1>a, <1>c, <2>2 DEF OnResponses
  <2>4. CASE UNCHANGED <<sender, slot>>
    BY <1>5, <1>c, <1>d, <1>e, <2>3, <2>4 DEF OnResponses, IdsMatch, Q, R
  <2>5. ASSUME NEW i \in 1 .. Len(Taken(s)), sender[k] = "held", Matches(Taken(s)[i], k),
               sender' = [sender EXCEPT ![k] = "sent"],
               slot' = [slot EXCEPT ![k] = Taken(s)[i]]
        PROVE  IdsMatch'
    <3>1. Started(k) /\ Taken(s)[i] \in R'
      BY <1>a, <2>2, <2>5 DEF IdsMatch
    <3>2. slot' \in [Calls -> R' \cup {NoResponse}]
      BY <1>c, <2>5, <3>1
    <3>3. \A l \in Calls : sender'[l] # "none" => Started(l)'
      BY <1>b, <2>5, <3>1 DEF IdsMatch, TypeOK
    <3>4. \A l \in Calls : slot'[l] # NoResponse => slot'[l].id = idOf'[l] /\ Started(l)'
      BY <1>b, <2>5, <3>1 DEF IdsMatch, TypeOK, Matches
    <3> QED
      BY <1>5, <1>c, <1>e, <2>3, <3>2, <3>3, <3>4 DEF OnResponses, IdsMatch, Q, R
  <2> QED
    BY <1>5, <2>4, <2>5 DEF OnResponses, NoMatch
<1>6. ASSUME NEW k \in Calls, DropListener(k) PROVE IdsMatch'
  <2>1. \A l \in Calls : sender'[l] # "none" => Started(l)'
    BY <1>6, <1>b DEF DropListener, IdsMatch, TypeOK
  <2>2. \A l \in Calls : slot'[l] # NoResponse => slot'[l].id = idOf'[l] /\ Started(l)'
    BY <1>6, <1>b DEF DropListener, IdsMatch
  <2> QED
    BY <1>6, <1>c, <1>e, <2>1, <2>2 DEF DropListener, IdsMatch, Q, R
<1>7. ASSUME NEW p \in Providers, TakeRequests(p) PROVE IdsMatch'
  <2>1. Taken(inbox[p]) \in Seq(Q') /\ Left(inbox[p]) \in Seq(Q')
    BY <1>c, TakenType
  <2> QED
    BY <1>7, <1>c, <1>d, <1>e, <2>1 DEF TakeRequests, IdsMatch, Q, R
<1>8. ASSUME NEW p \in Providers, Implementation(p) PROVE IdsMatch'
  <2>1. Head(batch[p]) \in Q
    BY <1>8, HeadTailProperties DEF Implementation, IdsMatch, Q
  <2> DEFINE l == Head(batch[p]).call
  <2>2. l \in Calls /\ Written(l) /\ Head(batch[p]).id = idOf[l] /\ Head(batch[p]) \in Requests
    BY <2>1 DEF Q, GenuineRequests, Requests
  <2>3. /\ <<p, l>> \in Providers \X Calls
        /\ executed' = [executed EXCEPT ![<<p, l>>] = @ + 1]
        /\ executed \in [Providers \X Calls -> Nat]
    BY <1>8, <2>2 DEF Implementation, TypeOK
  <2>4. Reply(p, Head(batch[p])) \in R'
    <3>1. executed'[<<p, l>>] > 0 /\ idOf'[l] = idOf[l]
      BY <1>8, <2>3 DEF Implementation
    <3> QED
      BY <2>2, <3>1 DEF Reply, R, GenuineResponses, Requests, Responses
  <2>5. answer' \in [Providers -> R' \cup {NoResponse}]
    BY <1>8, <1>c, <2>4 DEF Implementation
  <2>6. ASSUME NEW r \in Providers, NEW k \in Calls, executed'[<<r, k>>] > 0
        PROVE  Written(k)'
    <3>1. executed[<<r, k>>] > 0 \/ k = l
      BY <2>3, <2>6
    <3> QED
      BY <2>2, <3>1, WrittenStable DEF IdsMatch
  <2> QED
    BY <1>8, <1>c, <1>d, <2>5, <2>6 DEF Implementation, IdsMatch, Q, R
<1>9. ASSUME NEW p \in Providers, WriteResponse(p) PROVE IdsMatch'
  <2>1. Tail(batch[p]) \in Seq(Q')
    BY <1>9, <1>c, HeadTailProperties DEF WriteResponse
  <2>2. answer[p] \in R'
    BY <1>9, <1>c DEF WriteResponse
  <2>3. responses' \subseteq [to : Consumers, msg : R']
    BY <1>9, <1>c, <2>2 DEF WriteResponse
  <2> QED
    BY <1>9, <1>c, <1>d, <1>e, <2>1, <2>3 DEF WriteResponse, IdsMatch, Q, R
<1>10. ASSUME NEW m \in requests, DeliverRequest(m) PROVE IdsMatch'
  <2>1. m.to \in Providers /\ m.msg \in Q'
    BY <1>c
  <2>2. KeepLast(inbox[m.to], m.msg) \in Seq(Q')
    BY <1>c, <2>1, KeepLastType
  <2> QED
    BY <1>10, <1>c, <1>d, <1>e, <2>1, <2>2 DEF DeliverRequest, IdsMatch, Q, R
<1>11. ASSUME NEW m \in responses, DeliverResponse(m) PROVE IdsMatch'
  <2>1. m.to \in Consumers /\ m.msg \in R'
    BY <1>c
  <2>2. KeepLast(reader[m.to], m.msg) \in Seq(R')
    BY <1>c, <2>1, KeepLastType
  <2> QED
    BY <1>11, <1>c, <1>d, <1>e, <2>1, <2>2 DEF DeliverResponse, IdsMatch, Q, R
<1>12. ASSUME NEW m, LoseRequest(m) \/ LoseResponse(m) PROVE IdsMatch'
  BY <1>12, <1>c, <1>d, <1>e DEF LoseRequest, LoseResponse, IdsMatch, Q, R
<1>13. ASSUME NEW p \in Providers, ProviderDies(p) \/ RestartProvider(p) PROVE IdsMatch'
  <2>1. CASE ProviderDies(p)
    <3>1. /\ requests' \subseteq [to : Providers, msg : Q']
          /\ inbox' \in [Providers -> Seq(Q')]
          /\ batch' \in [Providers -> Seq(Q')]
          /\ answer' \in [Providers -> R' \cup {NoResponse}]
      BY <2>1, <1>c, EmptySeq DEF ProviderDies
    <3> QED
      BY <2>1, <1>c, <1>d, <1>e, <3>1 DEF ProviderDies, IdsMatch, Q, R
  <2>2. CASE RestartProvider(p)
    BY <2>2, <1>c, <1>d, <1>e DEF RestartProvider, IdsMatch, Q, R
  <2> QED
    BY <1>13, <2>1, <2>2
<1>14. ASSUME NEW q \in Processes, RestartProcess(q) PROVE IdsMatch'
  <2>1. /\ reader' \in [Consumers -> Seq(R')]
        /\ responses' \subseteq [to : Consumers, msg : R']
    BY <1>14, <1>c, EmptySeq DEF RestartProcess
  <2>2. \A l \in Calls : sender'[l] # "none" => Started(l)'
    BY <1>14, <1>b DEF RestartProcess, IdsMatch
  <2>3. \A l \in Calls : slot'[l] # NoResponse => slot'[l].id = idOf'[l] /\ Started(l)'
    BY <1>14, <1>b DEF RestartProcess, IdsMatch
  <2> QED
    BY <1>14, <1>c, <1>e, <2>1, <2>2, <2>3 DEF RestartProcess, IdsMatch, Q, R
<1>15. CASE UNCHANGED vars
  BY <1>15, <1>c, <1>d, <1>e DEF vars, IdsMatch, Q, R
<1> QED
  BY <1>1, <1>2, <1>3, <1>4, <1>5, <1>6, <1>7, <1>8, <1>9, <1>10, <1>11, <1>12,
     <1>13, <1>14, <1>15
  DEF Next, CallStep, ListenerStep, ProviderStep, Transport, Fault, Terminated

\* A call is given a foreign response only if two calls have the same id,
\* in any topology, with any losses, faults and restarts.
THEOREM ForeignResponse == Spec => []ForeignNeedsSameId
<1>1. TypeOK /\ IdsMatch => ForeignNeedsSameId
  <2> SUFFICES ASSUME TypeOK, IdsMatch, UniqueIds, NEW k \in Calls, slot[k] # NoResponse
               PROVE  slot[k].call = k
    BY DEF ForeignNeedsSameId, OwnResponse
  <2>1. slot[k] \in GenuineResponses /\ slot[k].id = idOf[k] /\ Started(k)
    BY DEF IdsMatch
  <2>2. slot[k].call \in Calls /\ Started(slot[k].call) /\ idOf[slot[k].call] = idOf[k]
    BY <2>1 DEF GenuineResponses, Responses, IdsMatch, Written
  <2> QED
    BY <2>1, <2>2 DEF UniqueIds
<1> QED
  BY <1>1, InitTypeOK, StepTypeOK, InitIdsMatch, StepIdsMatch, PTL DEF Spec

----------------------------------------------------------------------------
(* Where the ids of a process never repeat: no restart, and fewer calls    *)
(* than the counter has values.                                            *)

NoRestarts == MaxRestarts = 0
FewCalls   == IsFiniteSet(Calls) /\ Cardinality(Calls) < IdWrap

\* The counters start at 0 and no call has started.
LEMMA InitCounterAhead == Init => CounterAhead
<1> SUFFICES ASSUME Init PROVE CounterAhead
  OBVIOUS
<1>1. \A q \in Processes : StartedIn(q) = {}
  BY DEF Init, StartedIn, Started
<1> QED
  BY <1>1, FS_EmptySet DEF Init, CounterAhead, Started

\* Without restarts a counter that is not exhausted stays ahead of its ids.
LEMMA StepCounterAhead ==
  ASSUME NoRestarts, FewCalls
  PROVE  TypeOK /\ CounterAhead /\ [Next]_vars => CounterAhead'
<1> SUFFICES ASSUME TypeOK, CounterAhead, [Next]_vars PROVE CounterAhead'
  OBVIOUS
<1> USE DEF callVars, consumerVars, providerVars, bounds
<1>1. ASSUME NEW k \in Calls, NextRequestId(k) PROVE CounterAhead'
  <2> DEFINE q == Process(k)
             S == StartedIn(q)
  <2>1. q \in Processes /\ \A l \in Calls : Process(l) \in Processes
    BY ProcessType
  <2>2. /\ pc[k] = "idle"
        /\ pc' = [pc EXCEPT ![k] = "listen"]
        /\ idOf' = [idOf EXCEPT ![k] = counter[q]]
        /\ counter' = [counter EXCEPT ![q] = Successor(@)]
    BY <1>1 DEF NextRequestId
  <2>3. k \notin S /\ S \subseteq Calls
    BY <2>2 DEF StartedIn, Started
  <2>4. IsFiniteSet(S) /\ Cardinality(S) \in Nat
    BY <2>3, FS_Subset, FS_CardinalityType DEF FewCalls
  <2>5. Cardinality(S) + 1 <= Cardinality(Calls)
    <3>1. Cardinality(S \cup {k}) = Cardinality(S) + 1
      BY <2>3, <2>4, FS_AddElement
    <3>2. S \cup {k} \subseteq Calls
      BY <2>3
    <3>3. Cardinality(S \cup {k}) <= Cardinality(Calls)
      BY <3>2, FS_Subset DEF FewCalls
    <3> QED
      BY <3>1, <3>3
  <2>6. counter[q] = Cardinality(S) /\ Successor(counter[q]) = counter[q] + 1
    <3>1. counter[q] = Cardinality(S)
      BY <2>1 DEF CounterAhead
    <3>2. Cardinality(Calls) \in Nat /\ Cardinality(Calls) < IdWrap
      BY FS_CardinalityType DEF FewCalls
    <3> QED
      BY <2>4, <2>5, <3>1, <3>2, IdWrapAssumption DEF Successor
  <2>7. \A l \in Calls : Started(l)' <=> Started(l) \/ l = k
    BY <2>2 DEF Started, TypeOK
  <2>8. \A r \in Processes : counter'[r] = Cardinality(StartedIn(r)')
    <3> SUFFICES ASSUME NEW r \in Processes PROVE counter'[r] = Cardinality(StartedIn(r)')
      OBVIOUS
    <3>1. CASE r = q
      <4>1. StartedIn(r)' = S \cup {k}
        BY <2>7, <3>1 DEF StartedIn
      <4>2. Cardinality(S \cup {k}) = Cardinality(S) + 1
        BY <2>3, <2>4, FS_AddElement
      <4>3. counter'[r] = counter[q] + 1
        BY <2>1, <2>2, <2>6, <3>1 DEF TypeOK
      <4> QED
        BY <2>6, <4>1, <4>2, <4>3
    <3>2. CASE r # q
      <4>1. StartedIn(r)' = StartedIn(r)
        BY <2>7, <3>2 DEF StartedIn
      <4>2. counter'[r] = counter[r]
        BY <2>2, <3>2 DEF TypeOK
      <4> QED
        BY <4>1, <4>2 DEF CounterAhead
    <3> QED
      BY <3>1, <3>2
  <2>9. \A l \in Calls : Started(l)' => idOf'[l] < counter'[Process(l)]
    <3> SUFFICES ASSUME NEW l \in Calls, Started(l)' PROVE idOf'[l] < counter'[Process(l)]
      OBVIOUS
    <3>1. counter[q] \in Nat /\ counter'[q] = counter[q] + 1
      BY <2>1, <2>2, <2>4, <2>6 DEF TypeOK
    <3>2. CASE l = k
      BY <2>2, <3>1, <3>2 DEF TypeOK
    <3>3. CASE l # k /\ Process(l) = q
      <4>1. idOf'[l] = idOf[l] /\ idOf[l] < counter[q] /\ idOf[l] \in Int
        BY <2>2, <2>7, <3>3 DEF CounterAhead, TypeOK, Ids
      <4> QED
        BY <3>1, <3>3, <4>1
    <3>4. CASE l # k /\ Process(l) # q
      BY <2>1, <2>2, <2>7, <3>4 DEF CounterAhead, TypeOK
    <3> QED
      BY <3>2, <3>3, <3>4
  <2>10. \A l \in Calls : Started(l) /\ Process(l) = q => idOf[l] # counter[q]
    BY DEF CounterAhead, TypeOK, Ids
  <2>11. \A a, b \in Calls :
           Started(a)' /\ Started(b)' /\ Process(a) = Process(b) /\ idOf'[a] = idOf'[b]
           => a = b
    BY <2>2, <2>7, <2>10 DEF CounterAhead, TypeOK
  <2> QED
    BY <2>8, <2>9, <2>11 DEF CounterAhead
<1>2. ASSUME counter' = counter, idOf' = idOf,
             \A k \in Calls : Started(k)' <=> Started(k)
      PROVE  CounterAhead'
  <2>1. \A q \in Processes : StartedIn(q)' = StartedIn(q)
    BY <1>2 DEF StartedIn
  <2> QED
    BY <1>2, <2>1 DEF CounterAhead
<1>3. ASSUME NEW k \in Calls, CallStep(k) \/ CallPanics(k) \/ ListenerStep(k)
      PROVE  CounterAhead'
  BY <1>2, <1>3 DEF CallStep, SetListener, WriteRequest, Receive, Cancelled, Timeout,
                    CallPanics, ListenerStep, OnResponses, DropListener, Started, TypeOK
<1>4. ASSUME NEW p \in Providers, ProviderStep(p) \/ ProviderDies(p) \/ RestartProvider(p)
      PROVE  CounterAhead'
  BY <1>2, <1>4 DEF ProviderStep, TakeRequests, Implementation, WriteResponse,
                    ProviderDies, RestartProvider, Started
<1>5. CASE Transport
  BY <1>2, <1>5 DEF Transport, DeliverRequest, LoseRequest, DeliverResponse,
                    LoseResponse, Started
<1>6. CASE UNCHANGED vars
  BY <1>2, <1>6 DEF vars, Started
<1>7. ASSUME NEW q \in Processes, RestartProcess(q) PROVE FALSE
  BY <1>7 DEF RestartProcess, NoRestarts, TypeOK
<1> QED
  BY <1>1, <1>3, <1>4, <1>5, <1>6, <1>7 DEF Next, Fault, Terminated

\* In one process that does not restart and makes fewer than IdWrap calls,
\* no two calls carry the same id.
LEMMA IdsUniqueInOneProcess ==
  ASSUME NoRestarts, FewCalls, NEW q \in Processes, \A c \in Consumers : ProcessOf[c] = q
  PROVE  Spec => []UniqueIds
<1>1. CounterAhead => UniqueIds
  <2>1. \A k \in Calls : Process(k) = q
    BY ProcessType DEF Process
  <2> QED
    BY <2>1 DEF CounterAhead, UniqueIds
<1>2. TypeOK /\ CounterAhead /\ [Next]_vars => CounterAhead'
  BY StepCounterAhead
<1> QED
  BY <1>1, <1>2, InitCounterAhead, TypeCorrect, PTL DEF Spec

\* There, every call that is given a response is given its own.
THEOREM OwnResponseInOneProcess ==
  ASSUME NoRestarts, FewCalls, NEW q \in Processes, \A c \in Consumers : ProcessOf[c] = q
  PROVE  Spec => []OwnResponse
<1>1. Spec => []UniqueIds
  BY IdsUniqueInOneProcess
<1>2. ForeignNeedsSameId /\ UniqueIds => OwnResponse
  BY DEF ForeignNeedsSameId
<1> QED
  BY <1>1, <1>2, ForeignResponse, PTL

----------------------------------------------------------------------------
(* Where every consumer has one caller at most. *)

OneCallerEach == \A r, s \in Callers : ConsumerOf[r] = ConsumerOf[s] => r = s

SequentialInv == OneAtATime /\ ListenerStays /\ NoneMeansTimeout

\* At the start no call has started and no listener is installed.
LEMMA InitSequential == Init => SequentialInv
BY DEF Init, SequentialInv, OneAtATime, ListenerStays, NoneMeansTimeout, Started

\* Two calls of one caller are not both on their way.
LEMMA AloneOnReader ==
  ASSUME OneCallerEach, OneAtATime, NEW k \in Calls, NEW l \in Calls,
         Reader(k) = Reader(l), Started(k), Started(l),
         pc[k] \notin Ended, pc[l] \notin Ended
  PROVE  k = l
<1>1. k[1] \in Callers /\ l[1] \in Callers /\ k[2] \in 1 .. MaxCalls /\ l[2] \in 1 .. MaxCalls
  BY DEF Calls
<1>2. k = <<k[1], k[2]>> /\ l = <<l[1], l[2]>>
  BY DEF Calls
<1>3. k[1] = l[1]
  BY <1>1 DEF OneCallerEach, Reader
<1>4. ~(k[2] < l[2]) /\ ~(l[2] < k[2])
  BY <1>1, <1>2, <1>3, BoundsAssumption DEF OneAtATime
<1> QED
  BY <1>1, <1>2, <1>3, <1>4, BoundsAssumption

\* A step that starts no call and revives none keeps their order.
LEMMA OneAtATimeKept ==
  ASSUME OneAtATime,
         \A l \in Calls : (Started(l)' => Started(l)) /\ (pc[l] \in Ended => pc'[l] \in Ended)
  PROVE  OneAtATime'
<1> SUFFICES ASSUME NEW l \in Calls, NEW n \in 1 .. (l[2] - 1), Started(l)'
             PROVE  pc'[<<l[1], n>>] \in Ended
  BY DEF OneAtATime
<1>1. <<l[1], n>> \in Calls
  BY BoundsAssumption DEF Calls
<1> QED
  BY <1>1 DEF OneAtATime

\* With one caller per consumer nothing drops the listener of a call that waits.
LEMMA StepSequential ==
  ASSUME OneCallerEach
  PROVE  TypeOK /\ SequentialInv /\ [Next]_vars => SequentialInv'
<1> SUFFICES ASSUME TypeOK, SequentialInv, [Next]_vars PROVE SequentialInv'
  OBVIOUS
<1> USE DEF SequentialInv, callVars, consumerVars, providerVars, bounds
\* Steps that leave the calls and the installed listeners alone.
<1>1. ASSUME UNCHANGED <<pc, sender, listener>> PROVE SequentialInv'
  BY <1>1 DEF OneAtATime, ListenerStays, NoneMeansTimeout, Started
<1>2. ASSUME NEW k \in Calls, NextRequestId(k) PROVE SequentialInv'
  <2>1. /\ pc' = [pc EXCEPT ![k] = "listen"] /\ UNCHANGED <<sender, listener>>
        /\ pc[k] = "idle" /\ \A n \in 1 .. (k[2] - 1) : pc[<<k[1], n>>] \in Ended
    BY <1>2 DEF NextRequestId
  <2>2. OneAtATime'
    <3> SUFFICES ASSUME NEW l \in Calls, NEW n \in 1 .. (l[2] - 1), Started(l)'
                 PROVE  pc'[<<l[1], n>>] \in Ended
      BY DEF OneAtATime
    <3>1. pc[<<l[1], n>>] \in Ended
      BY <2>1 DEF OneAtATime, Started, TypeOK
    <3>2. <<l[1], n>> # k
      BY <2>1, <3>1 DEF Ended, Returned
    <3>3. <<l[1], n>> \in Calls
      BY BoundsAssumption DEF Calls
    <3> QED
      BY <2>1, <3>1, <3>2, <3>3 DEF TypeOK
  <2>3. ListenerStays' /\ NoneMeansTimeout'
    BY <2>1 DEF ListenerStays, NoneMeansTimeout, TypeOK
  <2> QED
    BY <2>2, <2>3
<1>3. ASSUME NEW k \in Calls, SetListener(k) PROVE SequentialInv'
  <2>1. /\ pc[k] = "listen" /\ pc' = [pc EXCEPT ![k] = "write"]
        /\ sender' = [sender EXCEPT ![k] = "held"]
        /\ listener' = [listener EXCEPT ![Reader(k)] = k]
    BY <1>3 DEF SetListener
  <2>2. OneAtATime'
    BY <2>1, OneAtATimeKept DEF Started, TypeOK, Ended, Returned
  <2>3. ListenerStays'
    <3> SUFFICES ASSUME NEW l \in Calls, pc'[l] \in {"write", "wait"}
                 PROVE  listener'[Reader(l)] = l /\ sender'[l] \in {"held", "sent"}
      BY DEF ListenerStays
    <3>1. CASE l = k
      <4>1. listener'[Reader(k)] = k
        BY <2>1, ProcessType DEF TypeOK
      <4>2. sender'[k] = "held"
        BY <2>1 DEF TypeOK
      <4> QED
        BY <3>1, <4>1, <4>2
    <3>2. CASE l # k
      <4>1. pc[l] \in {"write", "wait"}
        BY <2>1, <3>2 DEF TypeOK
      <4>2. Reader(l) # Reader(k)
        <5>1. /\ Started(l) /\ pc[l] \notin Ended
              /\ Started(k) /\ pc[k] \notin Ended
          BY <2>1, <4>1 DEF Started, Ended, Returned
        <5> QED
          BY <3>2, <5>1, AloneOnReader
      <4> QED
        BY <2>1, <3>2, <4>1, <4>2, ProcessType DEF ListenerStays, TypeOK
    <3> QED
      BY <3>1, <3>2
  <2>4. NoneMeansTimeout'
    BY <2>1 DEF NoneMeansTimeout, TypeOK
  <2> QED
    BY <2>2, <2>3, <2>4
<1>4. ASSUME NEW k \in Calls, WriteRequest(k) PROVE SequentialInv'
  <2>1. /\ pc[k] = "write" /\ pc' = [pc EXCEPT ![k] = "wait"]
        /\ UNCHANGED <<sender, listener>>
    BY <1>4 DEF WriteRequest
  <2>2. OneAtATime'
    BY <2>1, OneAtATimeKept DEF Started, TypeOK, Ended, Returned
  <2>3. ListenerStays' /\ NoneMeansTimeout'
    BY <2>1 DEF ListenerStays, NoneMeansTimeout, TypeOK
  <2> QED
    BY <2>2, <2>3
<1>5. ASSUME NEW k \in Calls, Receive(k) \/ Timeout(k) \/ CallPanics(k) PROVE SequentialInv'
  <2>1. PICK e \in Ended \ {"cancelled"} :
          /\ Started(k) /\ pc' = [pc EXCEPT ![k] = e]
          /\ UNCHANGED <<sender, listener>>
    BY <1>5 DEF Receive, Timeout, CallPanics, Ended, Returned, Started
  <2>2. OneAtATime'
    BY <2>1, OneAtATimeKept DEF Started, TypeOK
  <2>3. ListenerStays' /\ NoneMeansTimeout'
    BY <2>1 DEF ListenerStays, NoneMeansTimeout, TypeOK, Ended, Returned
  <2> QED
    BY <2>2, <2>3
<1>6. ASSUME NEW k \in Calls, Cancelled(k) PROVE FALSE
  BY <1>6 DEF Cancelled, ListenerStays
<1>7. ASSUME NEW k \in Calls, OnResponses(k) PROVE SequentialInv'
  <2>1. UNCHANGED <<pc, listener>>
    BY <1>7 DEF OnResponses
  <2>2. \A l \in Calls : sender[l] \in {"held", "sent"} => sender'[l] \in {"held", "sent"}
    BY <1>7 DEF OnResponses, NoMatch, TypeOK
  <2> QED
    BY <2>1, <2>2 DEF OneAtATime, ListenerStays, NoneMeansTimeout, Started
<1>8. ASSUME NEW k \in Calls, DropListener(k) PROVE SequentialInv'
  <2>1. UNCHANGED <<pc, listener>> /\ listener[Reader(k)] # k
    BY <1>8 DEF DropListener
  <2>2. \A l \in Calls : l # k => sender'[l] = sender[l]
    BY <1>8 DEF DropListener, TypeOK
  <2> QED
    BY <2>1, <2>2 DEF OneAtATime, ListenerStays, NoneMeansTimeout, Started
<1>9. ASSUME NEW p \in Providers, ProviderStep(p) \/ ProviderDies(p) \/ RestartProvider(p)
      PROVE  SequentialInv'
  BY <1>1, <1>9 DEF ProviderStep, TakeRequests, Implementation, WriteResponse,
                    ProviderDies, RestartProvider
<1>10. CASE Transport
  BY <1>1, <1>10 DEF Transport, DeliverRequest, LoseRequest, DeliverResponse, LoseResponse
<1>11. ASSUME NEW q \in Processes, RestartProcess(q) PROVE SequentialInv'
  <2>1. \A l \in Calls : /\ Started(l)' => Started(l)
                         /\ pc[l] \in Ended => pc'[l] \in Ended
                         /\ pc'[l] = "cancelled" => pc[l] = "cancelled"
    BY <1>11 DEF RestartProcess, Started, Ended, Returned
  <2>2. \A l \in Calls : pc'[l] \in {"write", "wait"} =>
           Process(l) # q /\ pc[l] \in {"write", "wait"}
    BY <1>11 DEF RestartProcess, Returned
  <2>3. \A l \in Calls : Process(l) # q =>
           listener'[Reader(l)] = listener[Reader(l)] /\ sender'[l] = sender[l]
    BY <1>11, ProcessType DEF RestartProcess, Process
  <2>4. OneAtATime'
    BY <2>1, OneAtATimeKept
  <2> QED
    BY <2>1, <2>2, <2>3, <2>4 DEF ListenerStays, NoneMeansTimeout
<1>12. CASE UNCHANGED vars
  BY <1>1, <1>12 DEF vars
<1> QED
  BY <1>2, <1>3, <1>4, <1>5, <1>6, <1>7, <1>8, <1>9, <1>10, <1>11, <1>12
  DEF Next, CallStep, ListenerStep, Fault, Terminated

\* With one caller per consumer, None always means that the timeout elapsed.
THEOREM NoneOnlyOnTimeout == ASSUME OneCallerEach PROVE Spec => []NoneMeansTimeout
<1>1. TypeOK /\ SequentialInv /\ [Next]_vars => SequentialInv'
  BY StepSequential
<1>2. SequentialInv => NoneMeansTimeout
  BY DEF SequentialInv
<1> QED
  BY <1>1, <1>2, InitSequential, TypeCorrect, PTL DEF Spec

----------------------------------------------------------------------------
(* Where a take empties a reader (Depth is 1 and TakeMax 100 in the code). *)

TakesAll == Depth <= TakeMax

WatchedInv == ReaderWatched /\ ReadersBounded /\ NoStrandedResponse

\* At the start nobody waits and every reader is empty.
LEMMA InitWatched == Init => WatchedInv
<1> SUFFICES ASSUME Init PROVE WatchedInv
  OBVIOUS
<1>1. \A c \in Consumers : reader[c] = <<>> /\ listener[c] = NoListener
  BY DEF Init
<1>2. \A k \in Calls : pc[k] = "idle"
  BY DEF Init
<1> QED
  BY <1>1, <1>2, EmptySeq, ReaderAssumption
  DEF WatchedInv, ReaderWatched, ReadersBounded, NoStrandedResponse

\* The steps of one call keep a listener on its reader, and every other step too.
LEMMA StepWatched ==
  TypeOK /\ ReaderWatched /\ [Next]_vars => ReaderWatched'
<1> SUFFICES ASSUME TypeOK, ReaderWatched, [Next]_vars PROVE ReaderWatched'
  OBVIOUS
<1> USE NullAssumption, ProcessType DEF ReaderWatched, TypeOK, Ended, Returned, callVars, consumerVars, providerVars
<1>1. CASE UNCHANGED <<pc, listener>>
  BY <1>1
<1>2. ASSUME NEW k \in Calls, NextRequestId(k) \/ WriteRequest(k) \/ CallPanics(k)
      PROVE  ReaderWatched'
  BY <1>2 DEF NextRequestId, WriteRequest, CallPanics
<1>3. ASSUME NEW k \in Calls, SetListener(k) PROVE ReaderWatched'
  BY <1>3 DEF SetListener
<1>4. ASSUME NEW k \in Calls, Receive(k) \/ Cancelled(k) \/ Timeout(k) PROVE ReaderWatched'
  BY <1>4 DEF Receive, Cancelled, Timeout
<1>5. ASSUME NEW q \in Processes, RestartProcess(q) PROVE ReaderWatched'
  <2>1. \A c \in Consumers : listener'[c] = IF ProcessOf[c] = q THEN NoListener ELSE listener[c]
    BY <1>5 DEF RestartProcess
  <2>2. \A k \in Calls : pc'[k] \in {"write", "wait"} =>
           ProcessOf[Reader(k)] # q /\ pc[k] \in {"write", "wait"}
    BY <1>5 DEF RestartProcess, Process
  <2> QED
    BY <2>1, <2>2
<1>6. ASSUME NEW k \in Calls, ListenerStep(k) PROVE UNCHANGED <<pc, listener>>
  BY <1>6 DEF ListenerStep, OnResponses, DropListener
<1>7. ASSUME NEW p \in Providers, ProviderStep(p) \/ ProviderDies(p) \/ RestartProvider(p)
      PROVE  UNCHANGED <<pc, listener>>
  BY <1>7 DEF ProviderStep, TakeRequests, Implementation, WriteResponse,
              ProviderDies, RestartProvider
<1>8. ASSUME Transport PROVE UNCHANGED <<pc, listener>>
  BY <1>8 DEF Transport, DeliverRequest, LoseRequest, DeliverResponse, LoseResponse
<1>9. ASSUME UNCHANGED vars PROVE UNCHANGED <<pc, listener>>
  BY <1>9 DEF vars
<1> QED
  BY <1>1, <1>2, <1>3, <1>4, <1>5, <1>6, <1>7, <1>8, <1>9
  DEF Next, Fault, Terminated, CallStep

\* A reader that is full drops a sample for each it stores.
LEMMA StepBounded ==
  TypeOK /\ ReadersBounded /\ [Next]_vars => ReadersBounded'
<1> SUFFICES ASSUME TypeOK, ReadersBounded, [Next]_vars PROVE ReadersBounded'
  OBVIOUS
<1> USE DEF ReadersBounded
<1>1. CASE UNCHANGED reader
  BY <1>1
<1>2. ASSUME NEW m \in responses, DeliverResponse(m) PROVE ReadersBounded'
  <2>1. m.to \in Consumers /\ m.msg \in Responses /\ reader[m.to] \in Seq(Responses)
    BY DEF TypeOK
  <2>2. Len(KeepLast(reader[m.to], m.msg)) <= Depth
    BY <2>1, KeepLastBounded
  <2> QED
    BY <1>2, <2>1, <2>2 DEF DeliverResponse, TypeOK
<1>3. ASSUME NEW k \in Calls, OnResponses(k) PROVE ReadersBounded'
  <2>1. reader[Reader(k)] \in Seq(Responses) /\ Reader(k) \in Consumers
    BY ProcessType DEF TypeOK
  <2>2. Len(Left(reader[Reader(k)])) <= Len(reader[Reader(k)])
    BY <2>1, TakenSplits, LenProperties
  <2>3. Len(Left(reader[Reader(k)])) \in Nat /\ Len(reader[Reader(k)]) \in Nat
    BY <2>1, TakenType, LenProperties
  <2> QED
    BY <1>3, <2>1, <2>2, <2>3, ReaderAssumption DEF OnResponses, TypeOK
<1>4. ASSUME NEW q \in Processes, RestartProcess(q) PROVE ReadersBounded'
  BY <1>4, EmptySeq, ReaderAssumption DEF RestartProcess
<1>5. ASSUME NEW k \in Calls, NextRequestId(k) \/ CallStep(k) \/ CallPanics(k) \/ DropListener(k)
      PROVE  UNCHANGED reader
  BY <1>5 DEF NextRequestId, CallStep, SetListener, WriteRequest, Receive, Cancelled, Timeout,
              CallPanics, DropListener, consumerVars
<1>6. ASSUME NEW p \in Providers, ProviderStep(p) \/ ProviderDies(p) \/ RestartProvider(p)
      PROVE  UNCHANGED reader
  BY <1>6 DEF ProviderStep, TakeRequests, Implementation, WriteResponse,
              ProviderDies, RestartProvider, consumerVars
<1>7. ASSUME NEW m, DeliverRequest(m) \/ LoseRequest(m) \/ LoseResponse(m) PROVE UNCHANGED reader
  BY <1>7 DEF DeliverRequest, LoseRequest, LoseResponse, consumerVars
<1>8. ASSUME UNCHANGED vars PROVE UNCHANGED reader
  BY <1>8 DEF vars, consumerVars
<1> QED
  BY <1>1, <1>2, <1>3, <1>4, <1>5, <1>6, <1>7, <1>8
  DEF Next, Fault, Terminated, ListenerStep, Transport

\* Nobody holds a response to a request that was not written.
LEMMA NoEarlyResponse ==
  ASSUME IdsMatch, NEW c \in Consumers, NEW k \in Calls, Holds(reader[c], k)
  PROVE  Written(k)
<1>1. PICK i \in 1 .. Len(reader[c]) : reader[c][i].call = k
  BY DEF Holds
<1>2. reader[c] \in Seq(GenuineResponses)
  BY DEF IdsMatch
<1>3. reader[c][i] \in GenuineResponses
  BY <1>2, ElementOfSeq
<1> QED
  BY <1>1, <1>3 DEF GenuineResponses, Responses, IdsMatch

\* A step that leaves the reader and the tasks alone strands nothing, if it
\* takes no notification either.
LEMMA StrandedKept ==
  ASSUME NoStrandedResponse,
         \A k \in Calls : pc'[k] = "wait" /\ Holds(reader'[Reader(k)], k) =>
                            pc[k] = "wait" /\ Holds(reader[Reader(k)], k),
         \A l \in Calls : mail[l] > 0 => mail'[l] > 0
  PROVE  NoStrandedResponse'
<1> SUFFICES ASSUME NEW k \in Calls, pc'[k] = "wait", Holds(reader'[Reader(k)], k)
             PROVE  \E l \in Calls : Reader(l) = Reader(k) /\ mail'[l] > 0
  BY DEF NoStrandedResponse, Holds
<1> QED
  BY DEF NoStrandedResponse

\* Every step keeps a notification for the responses that are waited for.
LEMMA StepStranded ==
  ASSUME TakesAll
  PROVE  TypeOK /\ IdsMatch /\ WatchedInv /\ [Next]_vars => NoStrandedResponse'
<1> SUFFICES ASSUME TypeOK, IdsMatch, WatchedInv, [Next]_vars PROVE NoStrandedResponse'
  OBVIOUS
<1> USE DEF WatchedInv, consumerVars, callVars, providerVars
<1>1. ASSUME UNCHANGED <<pc, reader, mail>> PROVE NoStrandedResponse'
  BY <1>1, StrandedKept
<1>2. ASSUME NEW k \in Calls,
             NextRequestId(k) \/ SetListener(k) \/ Receive(k) \/ Cancelled(k)
               \/ Timeout(k) \/ CallPanics(k)
      PROVE  NoStrandedResponse'
  <2>1. UNCHANGED <<reader, mail>> /\ \A l \in Calls : pc'[l] = "wait" => pc[l] = "wait"
    BY <1>2 DEF NextRequestId, SetListener, Receive, Cancelled, Timeout, CallPanics, TypeOK
  <2> QED
    BY <2>1, StrandedKept
<1>3. ASSUME NEW k \in Calls, WriteRequest(k) PROVE NoStrandedResponse'
  <2>1. ~Holds(reader[Reader(k)], k)
    BY <1>3, NoEarlyResponse, ProcessType DEF WriteRequest, Written
  <2>2. UNCHANGED <<reader, mail>> /\ \A l \in Calls : l # k => pc'[l] = pc[l]
    BY <1>3 DEF WriteRequest, TypeOK
  <2> QED
    BY <2>1, <2>2, StrandedKept
<1>4. ASSUME NEW m \in responses, DeliverResponse(m) PROVE NoStrandedResponse'
  <2>1. /\ m.to \in Consumers /\ pc' = pc
        /\ \A c \in Consumers : c # m.to => reader'[c] = reader[c]
    BY <1>4 DEF DeliverResponse, TypeOK
  <2>2. \A l \in Calls : mail[l] > 0 => mail'[l] > 0
    BY <1>4 DEF DeliverResponse, TypeOK
  <2>3. CASE Notifies(m.to)
    <3>1. listener[m.to] \in Calls /\ Reader(listener[m.to]) = m.to
      BY <2>1, <2>3 DEF Notifies, ReaderWatched, TypeOK
    <3>2. mail'[listener[m.to]] > 0
      BY <1>4, <2>1, <2>3, <3>1 DEF DeliverResponse, TypeOK
    <3> SUFFICES ASSUME NEW k \in Calls, pc'[k] = "wait", Holds(reader'[Reader(k)], k)
                 PROVE  \E l \in Calls : Reader(l) = Reader(k) /\ mail'[l] > 0
      BY DEF NoStrandedResponse, Holds
    <3>3. CASE Reader(k) = m.to
      BY <3>1, <3>2, <3>3
    <3>4. CASE Reader(k) # m.to
      BY <2>1, <2>2, <3>4, ProcessType DEF NoStrandedResponse
    <3> QED
      BY <3>3, <3>4
  <2>4. CASE ~Notifies(m.to)
    <3>1. \A k \in Calls : pc'[k] = "wait" => Reader(k) # m.to
      BY <2>1, <2>4 DEF Notifies, ReaderWatched
    <3> QED
      BY <2>1, <2>2, <3>1, ProcessType, StrandedKept
  <2> QED
    BY <2>3, <2>4
<1>5. ASSUME NEW k \in Calls, OnResponses(k) PROVE NoStrandedResponse'
  <2> DEFINE c == Reader(k)
  <2>1. c \in Consumers /\ reader[c] \in Seq(Responses) /\ Len(reader[c]) <= TakeMax
    BY ProcessType, ReaderAssumption, LenProperties DEF TypeOK, ReadersBounded, TakesAll
  <2>2. Len(Left(reader[c])) = 0
    BY <2>1, LeftEmpty
  <2>3. /\ pc' = pc /\ reader' = [reader EXCEPT ![c] = Left(@)]
        /\ mail' = [mail EXCEPT ![k] = @ - 1]
    BY <1>5 DEF OnResponses
  <2> SUFFICES ASSUME NEW l \in Calls, pc'[l] = "wait", Holds(reader'[Reader(l)], l)
               PROVE  \E n \in Calls : Reader(n) = Reader(l) /\ mail'[n] > 0
    BY DEF NoStrandedResponse, Holds
  <2>4. Reader(l) # c
    BY <2>1, <2>2, <2>3 DEF Holds, TypeOK
  <2>5. reader'[Reader(l)] = reader[Reader(l)]
    BY <2>3, <2>4, ProcessType DEF TypeOK
  <2>6. PICK n \in Calls : Reader(n) = Reader(l) /\ mail[n] > 0
    BY <2>3, <2>5 DEF NoStrandedResponse
  <2>7. mail'[n] = mail[n]
    BY <2>3, <2>4, <2>6 DEF TypeOK
  <2> QED
    BY <2>6, <2>7
<1>6. ASSUME NEW q \in Processes, RestartProcess(q) PROVE NoStrandedResponse'
  <2> SUFFICES ASSUME NEW k \in Calls, pc'[k] = "wait", Holds(reader'[Reader(k)], k)
               PROVE  \E l \in Calls : Reader(l) = Reader(k) /\ mail'[l] > 0
    BY DEF NoStrandedResponse, Holds
  <2>1. Process(k) # q /\ pc[k] = "wait"
    BY <1>6 DEF RestartProcess, Returned
  <2>2. reader'[Reader(k)] = reader[Reader(k)]
    BY <1>6, <2>1, ProcessType DEF RestartProcess, Process
  <2>3. PICK l \in Calls : Reader(l) = Reader(k) /\ mail[l] > 0
    BY <2>1, <2>2 DEF NoStrandedResponse
  <2>4. mail'[l] = mail[l]
    BY <1>6, <2>1, <2>3 DEF RestartProcess, Process
  <2> QED
    BY <2>3, <2>4
<1>7. ASSUME NEW k \in Calls, DropListener(k) PROVE UNCHANGED <<pc, reader, mail>>
  BY <1>7 DEF DropListener
<1>8. ASSUME NEW p \in Providers, ProviderStep(p) \/ ProviderDies(p) \/ RestartProvider(p)
      PROVE  UNCHANGED <<pc, reader, mail>>
  BY <1>8 DEF ProviderStep, TakeRequests, Implementation, WriteResponse,
              ProviderDies, RestartProvider
<1>9. ASSUME NEW m, DeliverRequest(m) \/ LoseRequest(m) \/ LoseResponse(m)
      PROVE  UNCHANGED <<pc, reader, mail>>
  BY <1>9 DEF DeliverRequest, LoseRequest, LoseResponse
<1>10. ASSUME UNCHANGED vars PROVE UNCHANGED <<pc, reader, mail>>
  BY <1>10 DEF vars
<1> QED
  BY <1>1, <1>2, <1>3, <1>4, <1>5, <1>6, <1>7, <1>8, <1>9, <1>10
  DEF Next, Fault, Terminated, CallStep, ListenerStep, Transport

\* A response that reached the reader of a waiting call is never left there
\* without a notification, in any topology, with any losses, faults and
\* restarts, if one take empties a reader.
THEOREM NoneStranded == ASSUME TakesAll PROVE Spec => []NoStrandedResponse
<1>1. TypeOK /\ IdsMatch /\ WatchedInv /\ [Next]_vars => WatchedInv'
  BY StepWatched, StepBounded, StepStranded DEF WatchedInv
<1>2. WatchedInv => NoStrandedResponse
  BY DEF WatchedInv
<1> QED
  BY <1>1, <1>2, InitWatched, InitIdsMatch, StepIdsMatch, TypeCorrect, PTL DEF Spec

----------------------------------------------------------------------------
(* A provider runs a request once. *)

\* The requests of a sequence stem from calls.
LEMMA RequestsCall ==
  ASSUME NEW s \in Seq(Requests), NEW i \in 1 .. Len(s) PROVE s[i].call \in Calls
<1>1. s[i] \in Requests
  BY ElementOfSeq
<1> QED
  BY <1>1 DEF Requests

\* A reader that stores a sample holds this one and otherwise what it held.
LEMMA StoredHolds ==
  ASSUME NEW s \in Seq(Requests), NEW m \in Requests
  PROVE  /\ \A k : Holds(KeepLast(s, m), k) => Holds(s, k) \/ k = m.call
         /\ OneEach(s) /\ ~Holds(s, m.call) => OneEach(KeepLast(s, m))
<1> DEFINE t == KeepLast(s, m)
<1>1. PICK n \in 0 .. 1 :
        /\ n <= Len(s)
        /\ Len(t) = Len(s) - n + 1
        /\ \A i \in 1 .. (Len(s) - n) : t[i] = s[n + i]
        /\ t[Len(s) - n + 1] = m
  BY KeepLastAppends
<1>2. Len(s) \in Nat
  BY LenProperties
<1> HIDE DEF t
<1>3. ASSUME NEW i \in 1 .. Len(t)
      PROVE  /\ i = Len(t) => t[i] = m
             /\ i # Len(t) => n + i \in 1 .. Len(s) /\ t[i] = s[n + i]
  <2>1. i = Len(t) => t[i] = m
    BY <1>1
  <2>2. i # Len(t) => i \in 1 .. (Len(s) - n) /\ n + i \in 1 .. Len(s)
    BY <1>1, <1>2
  <2> QED
    BY <1>1, <2>1, <2>2
<1>4. \A k : Holds(t, k) => Holds(s, k) \/ k = m.call
  BY <1>3 DEF Holds
<1>5. ASSUME OneEach(s), ~Holds(s, m.call),
             NEW i \in 1 .. Len(t), NEW j \in 1 .. Len(t), t[i].call = t[j].call
      PROVE  i = j
  <2>1. i = Len(t) <=> j = Len(t)
    BY <1>3, <1>5 DEF Holds
  <2>2. ASSUME i # Len(t), j # Len(t) PROVE i = j
    <3>1. n + i = n + j
      BY <1>3, <1>5, <2>2 DEF OneEach
    <3> QED
      BY <1>1, <3>1
  <2> QED
    BY <2>1, <2>2
<1> QED
  BY <1>4, <1>5 DEF OneEach, t

\* What a take returns and what it leaves are parts of what the reader held.
LEMMA TakenHolds ==
  ASSUME NEW s \in Seq(Requests)
  PROVE  /\ \A k : Holds(Taken(s), k) \/ Holds(Left(s), k) => Holds(s, k)
         /\ OneEach(s) => /\ OneEach(Taken(s)) /\ OneEach(Left(s))
                          /\ \A k : ~(Holds(Taken(s), k) /\ Holds(Left(s), k))
<1>1. PICK n \in 0 .. Len(s) :
        /\ Len(Taken(s)) = n /\ Len(Left(s)) = Len(s) - n
        /\ \A i \in 1 .. n : Taken(s)[i] = s[i]
        /\ \A i \in 1 .. (Len(s) - n) : Left(s)[i] = s[n + i]
  BY TakenSplits
<1>2. Len(s) \in Nat
  BY LenProperties
<1>3. \A i \in 1 .. Len(Taken(s)) : i \in 1 .. Len(s) /\ Taken(s)[i] = s[i] /\ i <= n
  BY <1>1, <1>2
<1>4. \A i \in 1 .. Len(Left(s)) : n + i \in 1 .. Len(s) /\ Left(s)[i] = s[n + i] /\ n + i > n
  BY <1>1, <1>2
<1>5. \A k : Holds(Taken(s), k) \/ Holds(Left(s), k) => Holds(s, k)
  BY <1>3, <1>4 DEF Holds
<1>6. OneEach(s) => OneEach(Taken(s))
  BY <1>3 DEF OneEach
<1>7. ASSUME OneEach(s) PROVE OneEach(Left(s))
  <2>1. ASSUME NEW i \in 1 .. Len(Left(s)), NEW j \in 1 .. Len(Left(s)),
               Left(s)[i].call = Left(s)[j].call
        PROVE  i = j
    <3>1. n + i = n + j
      BY <1>4, <1>7, <2>1 DEF OneEach
    <3> QED
      BY <1>1, <3>1
  <2> QED
    BY <2>1 DEF OneEach
<1>8. ASSUME OneEach(s), NEW k, Holds(Taken(s), k), Holds(Left(s), k) PROVE FALSE
  <2>1. PICK i \in 1 .. Len(Taken(s)) : Taken(s)[i].call = k
    BY <1>8 DEF Holds
  <2>2. PICK j \in 1 .. Len(Left(s)) : Left(s)[j].call = k
    BY <1>8 DEF Holds
  <2>3. i = n + j
    BY <1>3, <1>4, <1>8, <2>1, <2>2 DEF OneEach
  <2> QED
    BY <1>1, <1>2, <2>1, <2>2, <2>3
<1> QED
  BY <1>5, <1>6, <1>7, <1>8

\* The rest of a batch holds the other calls.
LEMMA TailHolds ==
  ASSUME NEW s \in Seq(Requests), s # <<>>
  PROVE  /\ \A k : Holds(Tail(s), k) => Holds(s, k)
         /\ OneEach(s) => OneEach(Tail(s))
         /\ \A i \in 1 .. Len(Tail(s)) : i + 1 \in 1 .. Len(s) /\ Tail(s)[i] = s[i + 1]
         /\ Head(s) = s[1] /\ 1 \in 1 .. Len(s)
<1>1. /\ Len(s) \in Nat /\ Len(s) > 0 /\ Len(Tail(s)) = Len(s) - 1 /\ Head(s) = s[1]
      /\ \A i \in 1 .. Len(Tail(s)) : Tail(s)[i] = s[i + 1]
  BY HeadTailProperties, LenProperties, EmptySeq
<1>2. \A i \in 1 .. Len(Tail(s)) : i + 1 \in 1 .. Len(s) /\ Tail(s)[i] = s[i + 1]
  BY <1>1
<1>3. ASSUME OneEach(s), NEW i \in 1 .. Len(Tail(s)), NEW j \in 1 .. Len(Tail(s)),
             Tail(s)[i].call = Tail(s)[j].call
      PROVE  i = j
  <2>1. i + 1 = j + 1
    BY <1>2, <1>3 DEF OneEach
  <2> QED
    BY <2>1
<1> QED
  BY <1>1, <1>2, <1>3 DEF Holds, OneEach

\* A request that was not written is nowhere.
LEMMA UnwrittenNowhere ==
  ASSUME TypeOK, IdsMatch, NEW k \in Calls, ~Written(k)
  PROVE  /\ \A m \in requests : m.msg.call # k
         /\ \A p \in Providers :
              ~Holds(inbox[p], k) /\ ~Holds(batch[p], k) /\ executed[<<p, k>>] = 0
<1>1. \A m \in requests : m.msg.call # k
  BY DEF IdsMatch, GenuineRequests
<1>2. ASSUME NEW p \in Providers PROVE executed[<<p, k>>] = 0
  BY DEF IdsMatch, TypeOK
<1>3. ASSUME NEW p \in Providers PROVE ~Holds(inbox[p], k) /\ ~Holds(batch[p], k)
  <2>1. inbox[p] \in Seq(GenuineRequests) /\ batch[p] \in Seq(GenuineRequests)
    BY DEF IdsMatch
  <2>2. /\ \A i \in 1 .. Len(inbox[p]) : inbox[p][i] \in GenuineRequests
        /\ \A i \in 1 .. Len(batch[p]) : batch[p][i] \in GenuineRequests
    BY <2>1, ElementOfSeq
  <2> QED
    BY <2>2 DEF Holds, GenuineRequests
<1> QED
  BY <1>1, <1>2, <1>3

\* A step that leaves the queues of a provider alone, and adds no copy.
LEMMA OneCopyKept ==
  ASSUME NEW p \in Providers, OneCopyAt(p),
         UNCHANGED <<inbox[p], batch[p], answer[p]>>, UNCHANGED executed,
         \A m \in requests' : m.to = p => m \in requests
  PROVE  OneCopyAt(p)'
BY DEF OneCopyAt, OneEach, Holds

CopyInv == OneCopy /\ RunOnce

\* At the start there is no request.
LEMMA InitCopy == Init => CopyInv
BY EmptySeq DEF Init, CopyInv, OneCopy, OneCopyAt, OneEach, Holds, RunOnce

\* A request is written once, copied once to each provider and then moved:
\* from the wire to the reader, to the batch, and out of it when answered.
LEMMA StepCopy == TypeOK /\ IdsMatch /\ CopyInv /\ [Next]_vars => CopyInv'
<1> SUFFICES ASSUME TypeOK, IdsMatch, OneCopy, RunOnce, [Next]_vars PROVE OneCopy' /\ RunOnce'
  BY DEF CopyInv
<1> USE DEF providerVars
\* Steps that move no request.
<1>1. ASSUME UNCHANGED <<inbox, batch, answer, executed>>, requests' \subseteq requests
      PROVE  OneCopy' /\ RunOnce'
  BY <1>1, OneCopyKept DEF OneCopy, RunOnce
<1>2. ASSUME NEW k \in Calls, WriteRequest(k) PROVE OneCopy' /\ RunOnce'
  <2>1. ~Written(k) /\ UNCHANGED <<inbox, batch, answer, executed>>
    BY <1>2 DEF WriteRequest, Written
  <2>2. \A m \in requests' : m \in requests \/ m.msg.call = k
    BY <1>2 DEF WriteRequest
  <2>3. ASSUME NEW p \in Providers PROVE OneCopyAt(p)'
    <3>1. ~Holds(inbox[p], k) /\ ~Holds(batch[p], k) /\ executed[<<p, k>>] = 0
      BY <2>1, UnwrittenNowhere
    <3> QED
      BY <2>1, <2>2, <3>1 DEF OneCopy, OneCopyAt, OneEach, Holds
  <2> QED
    BY <2>1, <2>3 DEF OneCopy, RunOnce
<1>3. ASSUME NEW m \in requests, DeliverRequest(m) PROVE OneCopy' /\ RunOnce'
  <2> DEFINE p == m.to
  <2>1. /\ p \in Providers /\ m.msg \in GenuineRequests /\ m.msg \in Requests
        /\ inbox[p] \in Seq(Requests)
        /\ inbox' = [inbox EXCEPT ![p] = KeepLast(@, m.msg)]
        /\ requests' = requests \ {m}
        /\ UNCHANGED <<batch, answer, executed>>
    BY <1>3 DEF DeliverRequest, TypeOK, IdsMatch
  <2>2. ASSUME NEW n \in requests', n.to = p PROVE n.msg.call # m.msg.call
    <3>1. n \in [to : Providers, msg : GenuineRequests] /\ m \in [to : Providers, msg : GenuineRequests]
      BY <2>1, <2>2 DEF IdsMatch
    <3>2. n.msg.call = m.msg.call => n.msg = m.msg
      BY <3>1 DEF GenuineRequests, Requests
    <3> QED
      BY <2>1, <2>2, <3>1, <3>2
  <2>3. OneCopyAt(p)'
    <3>1. inbox'[p] = KeepLast(inbox[p], m.msg)
      BY <2>1 DEF TypeOK
    <3>2. OneCopyAt(p)
      BY <2>1 DEF OneCopy
    <3>3. ~Holds(inbox[p], m.msg.call) /\ ~Holds(batch[p], m.msg.call)
          /\ executed[<<p, m.msg.call>>] = 0
      BY <3>2 DEF OneCopyAt
    <3>4. /\ OneEach(inbox'[p])
          /\ \A k : Holds(inbox'[p], k) => Holds(inbox[p], k) \/ k = m.msg.call
      BY <2>1, <3>1, <3>2, <3>3, StoredHolds DEF OneCopyAt
    <3>5. OneEach(batch'[p])
      BY <2>1, <3>2 DEF OneCopyAt
    <3>6. \A k \in Calls : Holds(inbox'[p], k) => ~Holds(batch'[p], k) /\ executed'[<<p, k>>] = 0
      BY <2>1, <3>2, <3>3, <3>4 DEF OneCopyAt
    <3>7. \A n \in requests' : n.to = p =>
             /\ ~Holds(inbox'[p], n.msg.call) /\ ~Holds(batch'[p], n.msg.call)
             /\ executed'[<<p, n.msg.call>>] = 0
      BY <2>1, <2>2, <3>2, <3>4 DEF OneCopyAt
    <3>8. \A i \in 1 .. Len(batch'[p]) :
             i > 1 \/ answer'[p] = NoResponse => executed'[<<p, batch'[p][i].call>>] = 0
      BY <2>1, <3>2 DEF OneCopyAt
    <3> QED
      BY <3>4, <3>5, <3>6, <3>7, <3>8 DEF OneCopyAt, OneEach, Holds
  <2>4. ASSUME NEW r \in Providers, r # p PROVE OneCopyAt(r)'
    BY <2>1, <2>4, OneCopyKept DEF OneCopy, TypeOK
  <2> QED
    BY <2>1, <2>3, <2>4 DEF OneCopy, RunOnce
<1>4. ASSUME NEW p \in Providers, TakeRequests(p) PROVE OneCopy' /\ RunOnce'
  <2>1. /\ batch[p] = <<>> /\ inbox[p] \in Seq(Requests)
        /\ batch' = [batch EXCEPT ![p] = Taken(inbox[p])]
        /\ inbox' = [inbox EXCEPT ![p] = Left(@)]
        /\ UNCHANGED <<answer, executed, requests>>
    BY <1>4 DEF TakeRequests, TypeOK
  <2>2. OneCopyAt(p)'
    <3>1. inbox'[p] = Left(inbox[p]) /\ batch'[p] = Taken(inbox[p])
      BY <2>1 DEF TypeOK
    <3>2. OneCopyAt(p)
      BY DEF OneCopy
    <3>3. /\ OneEach(inbox'[p]) /\ OneEach(batch'[p])
          /\ \A k : Holds(inbox'[p], k) => Holds(inbox[p], k) /\ ~Holds(batch'[p], k)
          /\ \A k : Holds(batch'[p], k) => Holds(inbox[p], k)
      BY <2>1, <3>1, <3>2, TakenHolds DEF OneCopyAt
    <3>4. \A i \in 1 .. Len(batch'[p]) : batch'[p][i].call \in Calls /\ Holds(batch'[p], batch'[p][i].call)
      <4>1. batch'[p] \in Seq(Requests)
        BY <2>1, <3>1, TakenType
      <4> QED
        BY <4>1, RequestsCall DEF Holds
    <3>5. \A i \in 1 .. Len(batch'[p]) : executed'[<<p, batch'[p][i].call>>] = 0
      BY <2>1, <3>2, <3>3, <3>4 DEF OneCopyAt
    <3>6. \A k \in Calls : Holds(inbox'[p], k) => ~Holds(batch'[p], k) /\ executed'[<<p, k>>] = 0
      BY <2>1, <3>2, <3>3 DEF OneCopyAt
    <3>7. \A n \in requests' : n.to = p =>
             /\ ~Holds(inbox'[p], n.msg.call) /\ ~Holds(batch'[p], n.msg.call)
             /\ executed'[<<p, n.msg.call>>] = 0
      BY <2>1, <3>2, <3>3 DEF OneCopyAt
    <3> QED
      BY <3>3, <3>5, <3>6, <3>7 DEF OneCopyAt, OneEach, Holds
  <2>3. ASSUME NEW r \in Providers, r # p PROVE OneCopyAt(r)'
    BY <2>1, <2>3, OneCopyKept DEF OneCopy, TypeOK
  <2> QED
    BY <2>1, <2>2, <2>3 DEF OneCopy, RunOnce
<1>5. ASSUME NEW p \in Providers, Implementation(p) PROVE OneCopy' /\ RunOnce'
  <2> DEFINE l == Head(batch[p]).call
  <2>1. /\ batch[p] # <<>> /\ batch[p] \in Seq(Requests) /\ answer[p] = NoResponse
        /\ answer' = [answer EXCEPT ![p] = Reply(p, Head(batch[p]))]
        /\ executed' = [executed EXCEPT ![<<p, l>>] = @ + 1]
        /\ UNCHANGED <<inbox, batch, requests>>
    BY <1>5 DEF Implementation, TypeOK
  <2>2. l \in Calls /\ 1 \in 1 .. Len(batch[p]) /\ batch[p][1].call = l /\ Holds(batch[p], l)
    <3>1. Head(batch[p]) \in Requests
      BY <2>1, HeadTailProperties
    <3> QED
      BY <2>1, <3>1, TailHolds DEF Holds, Requests
  <2>3. OneCopyAt(p) /\ executed[<<p, l>>] = 0
    BY <2>1, <2>2 DEF OneCopy, OneCopyAt
  <2>4. \A r \in Providers, k \in Calls :
           executed'[<<r, k>>] = IF r = p /\ k = l THEN 1 ELSE executed[<<r, k>>]
    BY <2>1, <2>2, <2>3 DEF TypeOK
  <2>5. RunOnce'
    BY <2>4 DEF RunOnce
  <2>6. OneCopyAt(p)'
    <3>1. \A k \in Calls : Holds(inbox'[p], k) => ~Holds(batch'[p], k) /\ executed'[<<p, k>>] = 0
      BY <2>1, <2>2, <2>3, <2>4 DEF OneCopyAt
    <3>2. \A n \in requests' : n.to = p =>
             /\ ~Holds(inbox'[p], n.msg.call) /\ ~Holds(batch'[p], n.msg.call)
             /\ executed'[<<p, n.msg.call>>] = 0
      BY <2>1, <2>2, <2>3, <2>4 DEF OneCopyAt, TypeOK, Requests
    <3>3. answer'[p] # NoResponse
      <4>1. Head(batch[p]) \in Requests
        BY <2>1, HeadTailProperties
      <4> QED
        BY <2>1, <4>1, NullAssumption DEF Reply, Requests, Responses, TypeOK
    <3>4. ASSUME NEW i \in 1 .. Len(batch'[p]), i > 1 PROVE executed'[<<p, batch'[p][i].call>>] = 0
      <4>1. batch[p][i].call # l /\ executed[<<p, batch[p][i].call>>] = 0
        BY <2>1, <2>2, <2>3, <3>4 DEF OneCopyAt, OneEach
      <4>2. batch[p][i].call \in Calls
        BY <2>1, <3>4, RequestsCall
      <4> QED
        BY <2>1, <2>4, <4>1, <4>2
    <3>5. OneEach(inbox'[p]) /\ OneEach(batch'[p])
      BY <2>1, <2>3 DEF OneCopyAt
    <3> QED
      BY <3>1, <3>2, <3>3, <3>4, <3>5 DEF OneCopyAt, OneEach, Holds
  <2>7. ASSUME NEW r \in Providers, r # p PROVE OneCopyAt(r)'
    <3>1. UNCHANGED <<inbox[r], batch[r], answer[r], requests>>
      BY <2>1, <2>7 DEF TypeOK
    <3>2. \A k \in Calls : executed'[<<r, k>>] = executed[<<r, k>>]
      BY <2>4, <2>7
    <3>3. /\ \A n \in requests : n.msg.call \in Calls
          /\ \A i \in 1 .. Len(batch[r]) : batch[r][i].call \in Calls
      <4>1. batch[r] \in Seq(Requests)
        BY DEF TypeOK
      <4> QED
        BY <4>1, RequestsCall DEF TypeOK, Requests
    <3> QED
      BY <3>1, <3>2, <3>3 DEF OneCopy, OneCopyAt, OneEach, Holds
  <2> QED
    BY <2>5, <2>6, <2>7 DEF OneCopy
<1>6. ASSUME NEW p \in Providers, WriteResponse(p) PROVE OneCopy' /\ RunOnce'
  <2>1. /\ batch[p] # <<>> /\ batch[p] \in Seq(Requests)
        /\ batch' = [batch EXCEPT ![p] = Tail(@)]
        /\ answer' = [answer EXCEPT ![p] = NoResponse]
        /\ UNCHANGED <<inbox, executed, requests>>
    BY <1>6 DEF WriteResponse, TypeOK
  <2>2. OneCopyAt(p)'
    <3>1. batch'[p] = Tail(batch[p])
      BY <2>1 DEF TypeOK
    <3>2. OneCopyAt(p)
      BY DEF OneCopy
    <3>3. OneEach(batch'[p]) /\ \A k : Holds(batch'[p], k) => Holds(batch[p], k)
      <4>1. OneEach(batch[p])
        BY <3>2 DEF OneCopyAt
      <4> QED
        BY <2>1, <3>1, <4>1, TailHolds
    <3>4. ASSUME NEW i \in 1 .. Len(batch'[p]) PROVE executed'[<<p, batch'[p][i].call>>] = 0
      <4>1. i + 1 \in 1 .. Len(batch[p]) /\ batch'[p][i] = batch[p][i + 1]
        BY <2>1, <3>1, TailHolds
      <4>2. i + 1 > 1
        OBVIOUS
      <4> QED
        BY <2>1, <3>2, <4>1, <4>2 DEF OneCopyAt
    <3>5. \A k \in Calls : Holds(inbox'[p], k) => ~Holds(batch'[p], k) /\ executed'[<<p, k>>] = 0
      BY <2>1, <3>2, <3>3 DEF OneCopyAt
    <3>6. \A n \in requests' : n.to = p =>
             /\ ~Holds(inbox'[p], n.msg.call) /\ ~Holds(batch'[p], n.msg.call)
             /\ executed'[<<p, n.msg.call>>] = 0
      BY <2>1, <3>2, <3>3 DEF OneCopyAt
    <3>7. OneEach(inbox'[p])
      BY <2>1, <3>2 DEF OneCopyAt
    <3> QED
      BY <3>3, <3>4, <3>5, <3>6, <3>7 DEF OneCopyAt, OneEach, Holds
  <2>3. ASSUME NEW r \in Providers, r # p PROVE OneCopyAt(r)'
    BY <2>1, <2>3, OneCopyKept DEF OneCopy, TypeOK
  <2> QED
    BY <2>1, <2>2, <2>3 DEF OneCopy, RunOnce
<1>7. ASSUME NEW p \in Providers, ProviderDies(p) PROVE OneCopy' /\ RunOnce'
  <2>1. /\ inbox' = [inbox EXCEPT ![p] = <<>>] /\ batch' = [batch EXCEPT ![p] = <<>>]
        /\ answer' = [answer EXCEPT ![p] = NoResponse]
        /\ requests' = {m \in requests : m.to # p} /\ UNCHANGED executed
    BY <1>7 DEF ProviderDies
  <2>2. OneCopyAt(p)'
    <3>1. inbox'[p] = <<>> /\ batch'[p] = <<>> /\ \A m \in requests' : m.to # p
      BY <2>1 DEF TypeOK
    <3> QED
      BY <3>1, EmptySeq DEF OneCopyAt, OneEach, Holds
  <2>3. ASSUME NEW r \in Providers, r # p PROVE OneCopyAt(r)'
    BY <2>1, <2>3, OneCopyKept DEF OneCopy, TypeOK
  <2> QED
    BY <2>1, <2>2, <2>3 DEF OneCopy, RunOnce
<1>8. ASSUME NEW k \in Calls,
             NextRequestId(k) \/ SetListener(k) \/ Receive(k) \/ Cancelled(k)
               \/ Timeout(k) \/ CallPanics(k) \/ ListenerStep(k)
      PROVE  UNCHANGED <<inbox, batch, answer, executed, requests>>
  BY <1>8 DEF NextRequestId, SetListener, Receive, Cancelled, Timeout, CallPanics,
              ListenerStep, OnResponses, DropListener
<1>9. ASSUME NEW p \in Providers, RestartProvider(p)
      PROVE  UNCHANGED <<inbox, batch, answer, executed, requests>>
  BY <1>9 DEF RestartProvider
<1>10. ASSUME NEW m, LoseRequest(m) \/ LoseResponse(m) \/ DeliverResponse(m)
      PROVE  UNCHANGED <<inbox, batch, answer, executed>> /\ requests' \subseteq requests
  BY <1>10 DEF LoseRequest, LoseResponse, DeliverResponse
<1>11. ASSUME NEW q \in Processes, RestartProcess(q)
       PROVE  UNCHANGED <<inbox, batch, answer, executed, requests>>
  BY <1>11 DEF RestartProcess
<1>12. ASSUME UNCHANGED vars PROVE UNCHANGED <<inbox, batch, answer, executed, requests>>
  BY <1>12 DEF vars
<1> QED
  BY <1>1, <1>2, <1>3, <1>4, <1>5, <1>6, <1>7, <1>8, <1>9, <1>10, <1>11, <1>12
  DEF Next, Fault, Terminated, CallStep, ProviderStep, Transport

----------------------------------------------------------------------------
(* The refinement of Rpc. *)

\* At the start nothing was sent.
LEMMA InitPayload == Init => PayloadSent
BY DEF Init, PayloadSent

\* The sender of a call that was sent a payload is not touched again.
LEMMA StepPayload == TypeOK /\ PayloadSent /\ [Next]_vars => PayloadSent'
<1> SUFFICES ASSUME TypeOK, PayloadSent, [Next]_vars PROVE PayloadSent'
  OBVIOUS
<1> USE DEF PayloadSent, TypeOK, Ended, Returned, callVars, consumerVars, providerVars
<1>1. ASSUME UNCHANGED <<pc, sender, slot>> PROVE PayloadSent'
  BY <1>1
<1>2. ASSUME NEW k \in Calls, NextRequestId(k) \/ WriteRequest(k) \/ CallPanics(k) PROVE PayloadSent'
  BY <1>2 DEF NextRequestId, WriteRequest, CallPanics
<1>3. ASSUME NEW k \in Calls, SetListener(k) PROVE PayloadSent'
  BY <1>3 DEF SetListener
<1>4. ASSUME NEW k \in Calls, Receive(k) \/ Cancelled(k) \/ Timeout(k) PROVE PayloadSent'
  BY <1>4 DEF Receive, Cancelled, Timeout
<1>5. ASSUME NEW k \in Calls, OnResponses(k) PROVE PayloadSent'
  <2>1. reader[Reader(k)] \in Seq(Responses)
    BY ProcessType
  <2>2. \A i \in 1 .. Len(Taken(reader[Reader(k)])) : Taken(reader[Reader(k)])[i] \in Responses
    BY <2>1, TakenType
  <2> QED
    BY <1>5, <2>2, NullAssumption DEF OnResponses, NoMatch
<1>6. ASSUME NEW k \in Calls, DropListener(k) PROVE PayloadSent'
  BY <1>6 DEF DropListener
<1>7. ASSUME NEW p \in Providers, ProviderStep(p) \/ ProviderDies(p) \/ RestartProvider(p)
      PROVE  UNCHANGED <<pc, sender, slot>>
  BY <1>7 DEF ProviderStep, TakeRequests, Implementation, WriteResponse,
              ProviderDies, RestartProvider
<1>8. ASSUME Transport PROVE UNCHANGED <<pc, sender, slot>>
  BY <1>8 DEF Transport, DeliverRequest, LoseRequest, DeliverResponse, LoseResponse
<1>9. ASSUME NEW q \in Processes, RestartProcess(q) PROVE PayloadSent'
  BY <1>9 DEF RestartProcess
<1>10. ASSUME UNCHANGED vars PROVE UNCHANGED <<pc, sender, slot>>
  BY <1>10 DEF vars
<1> QED
  BY <1>1, <1>2, <1>3, <1>4, <1>5, <1>6, <1>7, <1>8, <1>9, <1>10
  DEF Next, Fault, Terminated, CallStep, ListenerStep

\* The status of a call in each stage of the generated method.
LEMMA StatusOfStages ==
  /\ StatusAt("idle") = "idle"
  /\ StatusAt("listen") = "pending" /\ StatusAt("write") = "pending"
  /\ StatusAt("wait") = "pending"
  /\ StatusAt("some") = "answered"
  /\ \A e \in Ended \ {"some"} : StatusAt(e) = "gaveUp"
  /\ \A e \in {"idle", "listen", "write", "wait"} \cup Ended :
       /\ StatusAt(e) = "idle" <=> e = "idle"
       /\ StatusAt(e) = "pending" <=> e \in {"listen", "write", "wait"}
BY DEF StatusAt, Ended, Returned

\* The statuses and results change with the stages of the calls only.
LEMMA SameStatus ==
  ASSUME \A k \in Calls : StatusAt(pc'[k]) = StatusAt(pc[k]) PROVE callStatus' = callStatus
BY DEF callStatus

\* A result stays while the call's stage and its oneshot do.
LEMMA SameResult ==
  ASSUME \A k \in Calls : (pc'[k] = "some" <=> pc[k] = "some")
                          /\ (pc[k] = "some" => slot'[k] = slot[k])
  PROVE  callResult' = callResult
BY DEF callResult

PromiseInv == TypeOK /\ IdsMatch /\ CopyInv /\ PayloadSent

\* Some calls end without a result: an abstract GiveUp.
LEMMA SomeGiveUp ==
  ASSUME TypeOK, UNCHANGED <<slot, executed>>,
         \A k \in Calls :
           pc'[k] = pc[k] \/ (pc[k] \notin {"idle", "some"} /\ pc'[k] \in Ended \ {"some"})
  PROVE  Promise!GiveUp
<1> DEFINE S == {k \in Calls : callStatus[k] = "pending" /\ pc'[k] # pc[k]}
<1>1. S \in SUBSET {k \in Calls : callStatus[k] = "pending"}
  OBVIOUS
<1>2. ASSUME NEW k \in Calls
      PROVE  StatusAt(pc'[k]) = IF k \in S THEN "gaveUp" ELSE callStatus[k]
  <2>1. callStatus[k] = StatusAt(pc[k]) /\ pc[k] \in {"idle", "listen", "write", "wait"} \cup Ended
    BY DEF callStatus, TypeOK
  <2>2. CASE pc'[k] = pc[k]
    BY <2>1, <2>2
  <2>3. CASE pc'[k] # pc[k] /\ pc[k] \in {"listen", "write", "wait"}
    BY <2>1, <2>3, StatusOfStages
  <2>4. CASE pc'[k] # pc[k] /\ pc[k] \in Ended \ {"some"}
    BY <2>1, <2>4, StatusOfStages
  <2> QED
    BY <2>1, <2>2, <2>3, <2>4
<1>3. callStatus' = [k \in Calls |-> IF k \in S THEN "gaveUp" ELSE callStatus[k]]
  BY <1>2 DEF callStatus
<1>4. callResult' = callResult
  BY SameResult
<1> QED
  BY <1>1, <1>3, <1>4 DEF Promise!GiveUp

\* The initial states are those of Rpc.
LEMMA InitPromise == Init => Promise!Init
BY StatusOfStages DEF Init, Promise!Init, callStatus, callResult

\* Every step is a step of Rpc, or none.
LEMMA StepPromise ==
  PromiseInv /\ OwnResponse /\ [Next]_vars => [Promise!Next]_(Promise!vars)
<1> SUFFICES ASSUME TypeOK, IdsMatch, CopyInv, PayloadSent, OwnResponse, [Next]_vars
             PROVE  Promise!Next \/ UNCHANGED Promise!vars
  BY DEF PromiseInv
<1> USE DEF callVars, consumerVars, providerVars
<1>1. ASSUME UNCHANGED <<pc, slot, executed>> PROVE UNCHANGED Promise!vars
  BY <1>1, SameStatus, SameResult DEF Promise!vars
<1>2. ASSUME NEW k \in Calls, NextRequestId(k) PROVE Promise!Next
  <2>1. pc[k] = "idle" /\ pc' = [pc EXCEPT ![k] = "listen"] /\ UNCHANGED <<slot, executed>>
    BY <1>2 DEF NextRequestId
  <2>2. callStatus[k] = "idle" /\ callStatus' = [callStatus EXCEPT ![k] = "pending"]
    BY <2>1, StatusOfStages DEF callStatus, TypeOK
  <2>3. callResult' = callResult
    BY <2>1, SameResult DEF TypeOK
  <2> QED
    BY <2>1, <2>2, <2>3 DEF Promise!Next, Promise!Invoke
<1>3. ASSUME NEW k \in Calls, SetListener(k) \/ WriteRequest(k) PROVE UNCHANGED Promise!vars
  <2>1. /\ \A l \in Calls : \/ pc'[l] = pc[l]
                            \/ pc[l] = "listen" /\ pc'[l] = "write"
                            \/ pc[l] = "write" /\ pc'[l] = "wait"
        /\ UNCHANGED <<slot, executed>>
    BY <1>3 DEF SetListener, WriteRequest, TypeOK
  <2>2. callStatus' = callStatus
    BY <2>1, StatusOfStages, SameStatus
  <2>3. callResult' = callResult
    BY <2>1, SameResult
  <2> QED
    BY <2>1, <2>2, <2>3 DEF Promise!vars
<1>4. ASSUME NEW k \in Calls, Receive(k) PROVE Promise!Next
  <2>1. pc[k] = "wait" /\ sender[k] = "sent" /\ pc' = [pc EXCEPT ![k] = "some"]
        /\ UNCHANGED <<slot, executed>>
    BY <1>4 DEF Receive
  <2>2. slot[k] \in GenuineResponses /\ slot[k].call = k
    BY <2>1 DEF PayloadSent, IdsMatch, OwnResponse
  <2> DEFINE p == slot[k].by
  <2>3. p \in Providers /\ executed[<<p, k>>] = 1
    BY <2>2 DEF GenuineResponses, Responses, CopyInv, RunOnce
  <2>4. callStatus[k] = "pending" /\ callStatus' = [callStatus EXCEPT ![k] = "answered"]
    BY <2>1, StatusOfStages DEF callStatus, TypeOK
  <2>5. callResult' = [callResult EXCEPT ![k] = [by |-> p, call |-> k]]
    BY <2>1, <2>2 DEF callResult, TypeOK
  <2> QED
    BY <2>1, <2>3, <2>4, <2>5 DEF Promise!Next, Promise!Answer
<1>5. ASSUME NEW k \in Calls, Cancelled(k) \/ Timeout(k) \/ CallPanics(k) PROVE Promise!Next
  <2>1. /\ UNCHANGED <<slot, executed>>
        /\ \A l \in Calls :
             pc'[l] = pc[l] \/ (pc[l] \notin {"idle", "some"} /\ pc'[l] \in Ended \ {"some"})
    BY <1>5 DEF Cancelled, Timeout, CallPanics, TypeOK, Ended, Returned
  <2> QED
    BY <2>1, SomeGiveUp DEF Promise!Next
<1>6. ASSUME NEW q \in Processes, RestartProcess(q) PROVE Promise!Next
  <2>1. /\ UNCHANGED <<slot, executed>>
        /\ \A l \in Calls :
             pc'[l] = pc[l] \/ (pc[l] \notin {"idle", "some"} /\ pc'[l] \in Ended \ {"some"})
    BY <1>6 DEF RestartProcess, TypeOK, Ended, Returned
  <2> QED
    BY <2>1, SomeGiveUp DEF Promise!Next
<1>7. ASSUME NEW k \in Calls, OnResponses(k) PROVE UNCHANGED Promise!vars
  <2>1. UNCHANGED <<pc, executed>> /\ \A l \in Calls : sender[l] = "sent" => slot'[l] = slot[l]
    BY <1>7 DEF OnResponses, NoMatch, TypeOK
  <2>2. callStatus' = callStatus
    BY <2>1, SameStatus
  <2>3. callResult' = callResult
    BY <2>1, SameResult DEF PayloadSent
  <2> QED
    BY <2>1, <2>2, <2>3 DEF Promise!vars
<1>8. ASSUME NEW p \in Providers, Implementation(p) PROVE Promise!Next
  <2> DEFINE l == Head(batch[p]).call
  <2>1. /\ batch[p] # <<>> /\ batch[p] \in Seq(GenuineRequests) /\ batch[p] \in Seq(Requests)
        /\ answer[p] = NoResponse
        /\ executed' = [executed EXCEPT ![<<p, l>>] = @ + 1]
        /\ UNCHANGED <<pc, slot>>
    BY <1>8 DEF Implementation, TypeOK, IdsMatch
  <2>2. Head(batch[p]) \in GenuineRequests
    BY <2>1, HeadTailProperties
  <2>3. l \in Calls /\ callStatus[l] # "idle"
    BY <2>2, StatusOfStages DEF GenuineRequests, Requests, Written, Started, callStatus, TypeOK
  <2>4. executed[<<p, l>>] = 0
    <3>1. Head(batch[p]) = batch[p][1] /\ 1 \in 1 .. Len(batch[p])
      BY <2>1, TailHolds
    <3> QED
      BY <2>1, <3>1 DEF CopyInv, OneCopy, OneCopyAt
  <2>5. executed' = [executed EXCEPT ![<<p, l>>] = 1]
    BY <2>1, <2>3, <2>4 DEF TypeOK
  <2>6. callStatus' = callStatus /\ callResult' = callResult
    BY <2>1, SameStatus, SameResult
  <2> QED
    BY <2>3, <2>4, <2>5, <2>6 DEF Promise!Next, Promise!Execute
<1>9. ASSUME NEW k \in Calls, DropListener(k) PROVE UNCHANGED <<pc, slot, executed>>
  BY <1>9 DEF DropListener
<1>10. ASSUME NEW p \in Providers,
              TakeRequests(p) \/ WriteResponse(p) \/ ProviderDies(p) \/ RestartProvider(p)
       PROVE  UNCHANGED <<pc, slot, executed>>
  BY <1>10 DEF TakeRequests, WriteResponse, ProviderDies, RestartProvider
<1>11. ASSUME Transport PROVE UNCHANGED <<pc, slot, executed>>
  BY <1>11 DEF Transport, DeliverRequest, LoseRequest, DeliverResponse, LoseResponse
<1>12. ASSUME UNCHANGED vars PROVE UNCHANGED <<pc, slot, executed>>
  BY <1>12 DEF vars
<1> QED
  BY <1>1, <1>2, <1>3, <1>4, <1>5, <1>6, <1>7, <1>8, <1>9, <1>10, <1>11, <1>12
  DEF Next, Fault, Terminated, CallStep, ListenerStep, ProviderStep

\* As long as no two calls carry the same id, what the generated code and the
\* two listeners do is what Rpc promises, in any topology, with any losses,
\* faults and restarts: a call ends with the result of a provider that ran
\* the implementation on this call's payload, once, or with nothing.
THEOREM KeepsPromise == Spec /\ []UniqueIds => ImplementsRpc
<1>1. Spec => []PromiseInv
  BY InitTypeOK, StepTypeOK, InitIdsMatch, StepIdsMatch, InitCopy, StepCopy,
     InitPayload, StepPayload, PTL DEF Spec, PromiseInv
<1>2. ForeignNeedsSameId /\ UniqueIds => OwnResponse
  BY DEF ForeignNeedsSameId
<1> QED
  BY <1>1, <1>2, ForeignResponse, InitPromise, StepPromise, PTL
  DEF Spec, ImplementsRpc, Promise!Spec

\* No two calls do in one process that does not restart and makes fewer
\* calls than the id counter has values.
THEOREM KeepsPromiseInOneProcess ==
  ASSUME NoRestarts, FewCalls, NEW q \in Processes, \A c \in Consumers : ProcessOf[c] = q
  PROVE  Spec => ImplementsRpc
<1>1. Spec => []UniqueIds
  BY IdsUniqueInOneProcess
<1> QED
  BY <1>1, KeepsPromise, PTL

----------------------------------------------------------------------------
(* One consumer, one caller and one provider. *)

OneOfEach ==
  /\ \A c, d \in Consumers : c = d
  /\ \A r, s \in Callers : r = s
  /\ \A p, d \in Providers : p = d

OneResponseInv == TypeOK /\ IdsMatch /\ CopyInv /\ PayloadSent /\ SequentialInv /\ OneResponse

\* At the start there is no response.
LEMMA InitOneResponse == Init => OneResponse
BY EmptySeq
DEF Init, OneResponse, OneAtMost, OneInReader, OneOnWire, OneAnswer, WakesTheWaiting, OwnResponse

\* A call that gave up stays so.
LEMMA GaveUpStays ==
  ASSUME TypeOK, [Next]_vars, NoneGaveUp'
  PROVE  NoneGaveUp
<1> SUFFICES ASSUME NEW k \in Calls, GaveUp(k) PROVE GaveUp(k)'
  BY DEF NoneGaveUp, GaveUp
<1> USE DEF GaveUp, TypeOK, Ended, Returned, callVars, consumerVars, providerVars
<1>1. ASSUME NEW l \in Calls, NextRequestId(l) \/ CallStep(l) \/ ListenerStep(l)
      PROVE  GaveUp(k)'
  BY <1>1 DEF CallStep, ListenerStep, NextRequestId, SetListener, WriteRequest, Receive,
              Cancelled, Timeout, OnResponses, DropListener
<1>2. ASSUME NEW p \in Providers, ProviderStep(p) PROVE GaveUp(k)'
  BY <1>2 DEF ProviderStep, TakeRequests, Implementation, WriteResponse
<1>3. CASE Transport
  BY <1>3 DEF Transport, DeliverRequest, LoseRequest, DeliverResponse, LoseResponse
<1>4. CASE Fault
  <2>1. ASSUME NEW l \in Calls, CallPanics(l) PROVE GaveUp(k)'
    BY <2>1 DEF CallPanics
  <2>2. ASSUME NEW p \in Providers, ProviderDies(p) \/ RestartProvider(p) PROVE GaveUp(k)'
    BY <2>2 DEF ProviderDies, RestartProvider
  <2>3. ASSUME NEW q \in Processes, RestartProcess(q) PROVE GaveUp(k)'
    BY <2>3 DEF RestartProcess
  <2> QED
    BY <1>4, <2>1, <2>2, <2>3 DEF Fault
<1>5. CASE UNCHANGED vars
  BY <1>5 DEF vars
<1> QED
  BY <1>1, <1>2, <1>3, <1>4, <1>5 DEF Next, Terminated

\* One call at most waits.
LEMMA OneWaits ==
  ASSUME OneOfEach, OneAtATime, NEW k \in Calls, NEW l \in Calls, Waiting(k), Waiting(l)
  PROVE  k = l
<1>1. Reader(k) = Reader(l) /\ OneCallerEach
  BY ProcessType DEF OneOfEach, OneCallerEach
<1> QED
  BY <1>1, AloneOnReader DEF Waiting, Started, Ended, Returned

\* A step that moves no sample and wakes no listener keeps the waiting call.
LEMMA OneResponseKept ==
  ASSUME TypeOK, OneAtMost, UNCHANGED <<reader, mail, slot>>, responses' \subseteq responses,
         \A p \in Providers : answer'[p] \in {answer[p], NoResponse},
         \A k \in Calls : Waiting(k) => Waiting(k)'
  PROVE  OneAtMost'
<1>1. OneInReader'
  <2> SUFFICES ASSUME NEW c \in Consumers, NEW i \in 1 .. Len(reader[c])
               PROVE  Len(reader[c]) <= 1 /\ Waiting(reader[c][i].call)'
    BY DEF OneAtMost, OneInReader
  <2>1. reader[c][i] \in Responses
    BY ElementOfSeq DEF TypeOK
  <2>2. reader[c][i].call \in Calls
    BY <2>1 DEF Responses
  <2> QED
    BY <2>2 DEF OneAtMost, OneInReader
<1>2. OneOnWire'
  BY DEF OneAtMost, OneOnWire, TypeOK, Responses
<1>3. OneAnswer'
  <2> SUFFICES ASSUME NEW p \in Providers, answer'[p] # NoResponse
               PROVE  /\ Waiting(answer[p].call)'
                      /\ responses' = {} /\ \A c \in Consumers : Len(reader'[c]) = 0
    BY DEF OneAnswer
  <2>1. answer'[p] = answer[p] /\ answer[p] \in Responses
    BY DEF TypeOK
  <2>2. answer[p].call \in Calls
    BY <2>1 DEF Responses
  <2> QED
    BY <2>1, <2>2 DEF OneAtMost, OneAnswer, Waiting
<1>4. WakesTheWaiting' /\ OwnResponse'
  BY DEF OneAtMost, WakesTheWaiting, OwnResponse
<1> QED
  BY <1>1, <1>2, <1>3, <1>4 DEF OneAtMost

\* What a provider is about to run was not answered yet: its call waits, and
\* no response is anywhere.
LEMMA RunsForTheWaiting ==
  ASSUME OneOfEach, OneResponseInv, NoneGaveUp, NEW p \in Providers, Implementation(p)
  PROVE  /\ Head(batch[p]).call \in Calls /\ Waiting(Head(batch[p]).call)
         /\ responses = {} /\ \A c \in Consumers : Len(reader[c]) = 0
<1> DEFINE k == Head(batch[p]).call
<1> USE DEF OneResponseInv
<1>0. OneAtMost /\ \A l \in Calls : pc[l] \notin Ended \ {"some"}
  BY DEF OneResponse, NoneGaveUp, GaveUp
<1>1. /\ 1 \in 1 .. Len(batch[p]) /\ Head(batch[p]) = batch[p][1]
      /\ batch[p][1] \in GenuineRequests
  <2>1. batch[p] \in Seq(Requests) /\ batch[p] # <<>>
    BY DEF Implementation, TypeOK
  <2>2. 1 \in 1 .. Len(batch[p]) /\ Head(batch[p]) = batch[p][1]
    BY <2>1, TailHolds
  <2>3. batch[p] \in Seq(GenuineRequests)
    BY DEF IdsMatch
  <2> QED
    BY <2>2, <2>3, ElementOfSeq
<1>2. k \in Calls /\ Written(k)
  BY <1>1 DEF GenuineRequests, Requests
<1>3. executed[<<p, k>>] = 0
  BY <1>1 DEF CopyInv, OneCopy, OneCopyAt, Implementation
<1> HIDE DEF k
<1>4. \A m \in GenuineResponses : m.call \in Calls /\ m.call # k
  BY <1>2, <1>3 DEF GenuineResponses, Responses, OneOfEach
<1>5. slot[k] = NoResponse
  BY <1>0, <1>2, <1>4 DEF OneAtMost, OwnResponse, IdsMatch
<1>6. Waiting(k)
  <2>1. pc[k] \in {"idle", "listen", "write", "wait"} \cup Ended
    BY <1>2 DEF TypeOK
  <2>2. sender[k] # "sent" /\ pc[k] # "some"
    BY <1>2, <1>5 DEF PayloadSent
  <2>3. pc[k] = "wait"
    BY <1>0, <1>2, <2>1, <2>2 DEF Written, Started, Ended, Returned
  <2>4. sender[k] = "held"
    BY <1>2, <2>2, <2>3 DEF SequentialInv, ListenerStays
  <2> QED
    BY <2>3, <2>4 DEF Waiting
<1>7. OneAtATime
  BY DEF SequentialInv
<1>8. responses = {}
  <2> SUFFICES ASSUME NEW m \in responses PROVE FALSE
    OBVIOUS
  <2>1. m.msg \in GenuineResponses /\ Waiting(m.msg.call)
    BY <1>0 DEF OneAtMost, OneOnWire, IdsMatch
  <2> QED
    BY <1>2, <1>4, <1>6, <1>7, <2>1, OneWaits
<1>9. ASSUME NEW c \in Consumers PROVE Len(reader[c]) = 0
  <2>1. reader[c] \in Seq(GenuineResponses) /\ Len(reader[c]) \in Nat
    BY LenProperties DEF IdsMatch
  <2>2. ASSUME NEW i \in 1 .. Len(reader[c]) PROVE FALSE
    <3>1. reader[c][i] \in GenuineResponses /\ Waiting(reader[c][i].call)
      BY <1>0, <2>1, ElementOfSeq DEF OneAtMost, OneInReader
    <3> QED
      BY <1>2, <1>4, <1>6, <1>7, <3>1, OneWaits
  <2> QED
    BY <2>1, <2>2
<1> QED
  BY <1>2, <1>6, <1>8, <1>9 DEF k

\* The response that reaches the reader is the only one, and wakes the
\* listener of the call that waits for it.
LEMMA DeliverOneResponse ==
  ASSUME OneOfEach, OneResponseInv, NoneGaveUp, NEW m \in responses, DeliverResponse(m)
  PROVE  OneAtMost'
<1> DEFINE c == m.to
           k == m.msg.call
<1> USE DEF OneResponseInv
<1>0. OneAtMost
  BY DEF OneResponse
<1>1. c \in Consumers /\ m.msg \in Responses /\ k \in Calls
  BY DEF TypeOK, Responses
<1>2. Waiting(k) /\ Len(reader[c]) = 0 /\ Reader(k) = c
  BY <1>0, <1>1, ProcessType DEF OneAtMost, OneOnWire, OneOfEach
<1>3. listener[c] = k
  BY <1>1, <1>2 DEF SequentialInv, ListenerStays, Waiting
<1>4. reader[c] = <<>> /\ reader[c] \in Seq(Responses)
  BY <1>1, <1>2, EmptySeq DEF TypeOK
<1>5. KeepLast(reader[c], m.msg) = <<m.msg>>
  <2>1. Len(reader[c]) < Depth
    BY <1>2, ReaderAssumption
  <2> QED
    BY <1>4, <2>1 DEF KeepLast
<1>6. /\ reader' = [reader EXCEPT ![c] = <<m.msg>>]
      /\ mail' = [mail EXCEPT ![k] = @ + 1]
      /\ responses' = responses \ {m} /\ UNCHANGED <<pc, sender, slot, answer>>
  BY <1>1, <1>3, <1>5, NullAssumption DEF DeliverResponse, Notifies, providerVars
<1>7. responses' = {}
  <2> SUFFICES ASSUME NEW n \in responses PROVE n = m
    BY <1>6
  <2>1. Waiting(n.msg.call) /\ n.msg.call \in Calls
    BY <1>0 DEF OneAtMost, OneOnWire, TypeOK, Responses
  <2>2. n.msg.call = k
    BY <1>1, <1>2, <2>1, OneWaits DEF SequentialInv
  <2>3. /\ m \in [to : Consumers, msg : GenuineResponses]
        /\ n \in [to : Consumers, msg : GenuineResponses]
    BY DEF IdsMatch
  <2>4. n.msg = m.msg
    <3>1. n.msg.id = m.msg.id
      BY <2>2, <2>3 DEF GenuineResponses
    <3>2. n.msg.by = m.msg.by
      BY <2>3 DEF GenuineResponses, Responses, OneOfEach
    <3> QED
      BY <2>2, <2>3, <3>1, <3>2 DEF GenuineResponses, Responses
  <2>5. n.to = m.to
    BY <2>3 DEF OneOfEach
  <2> QED
    BY <2>3, <2>4, <2>5
<1>8. ASSUME NEW p \in Providers PROVE answer[p] = NoResponse
  BY <1>0 DEF OneAtMost, OneAnswer
<1>9. reader'[c] = <<m.msg>> /\ Len(reader'[c]) = 1 /\ reader'[c][1] = m.msg
  BY <1>1, <1>6 DEF TypeOK
<1> HIDE DEF c, k
<1>10. OneInReader'
  <2> SUFFICES ASSUME NEW d \in Consumers, NEW i \in 1 .. Len(reader'[d])
               PROVE  i = 1 /\ reader'[d][1].call = k /\ Waiting(k)'
    <3>1. ASSUME NEW d \in Consumers PROVE Len(reader'[d]) <= 1
      BY <1>1, <1>9 DEF OneOfEach
    <3> QED
      BY <3>1, <1>2, <1>6 DEF OneInReader, Waiting
  <2>1. d = c
    BY <1>1 DEF OneOfEach
  <2> QED
    BY <1>2, <1>6, <1>9, <2>1 DEF Waiting, k
<1>11. WakesTheWaiting'
  <2> SUFFICES ASSUME NEW l \in Calls, mail'[l] > 0
               PROVE  Waiting(l)' /\ mail'[l] <= Len(reader'[Reader(l)])
    BY DEF WakesTheWaiting
  <2>1. mail[l] \in Nat /\ Reader(l) = c
    BY <1>1, ProcessType DEF TypeOK, OneOfEach
  <2>2. mail[l] = 0
    BY <1>0, <1>2, <2>1 DEF OneAtMost, WakesTheWaiting
  <2>3. l = k /\ mail'[l] = 1
    BY <1>1, <1>6, <2>2 DEF TypeOK
  <2> QED
    BY <1>2, <1>6, <1>9, <2>1, <2>3 DEF Waiting
<1> QED
  BY <1>0, <1>6, <1>7, <1>8, <1>10, <1>11 DEF OneAtMost, OneOnWire, OneAnswer, OwnResponse

\* The listener that is woken is that of the call that waits: it finds its
\* response, which is all the reader holds, and sends it.
LEMMA TakesOneResponse ==
  ASSUME OneOfEach, OneResponseInv, NoneGaveUp, NEW k \in Calls, OnResponses(k)
  PROVE  /\ OneAtMost' /\ sender'[k] = "sent"
         /\ \A l \in Calls : Waiting(l) => l = k
<1> DEFINE c     == Reader(k)
           taken == Taken(reader[c])
<1> USE DEF OneResponseInv
<1>0. OneAtMost /\ OneAtATime
  BY DEF OneResponse, SequentialInv
<1>1. /\ mail[k] > 0 /\ mail' = [mail EXCEPT ![k] = @ - 1]
      /\ reader' = [reader EXCEPT ![c] = Left(@)]
      /\ UNCHANGED <<pc, answer, responses>>
  BY DEF OnResponses, providerVars
<1>2. c \in Consumers /\ reader[c] \in Seq(Responses) /\ reader[c] \in Seq(GenuineResponses)
  BY ProcessType DEF TypeOK, IdsMatch
<1>3. Waiting(k) /\ mail[k] = 1 /\ Len(reader[c]) = 1
  <2>1. mail[k] \in Nat /\ Len(reader[c]) \in Nat
    BY <1>2, LenProperties DEF TypeOK
  <2>2. Waiting(k) /\ mail[k] <= Len(reader[c]) /\ Len(reader[c]) <= 1
    BY <1>0, <1>1, <1>2 DEF OneAtMost, WakesTheWaiting, OneInReader
  <2>3. mail[k] > 0
    BY <1>1
  <2>4. \A x, y \in Nat : x > 0 /\ x <= y /\ y <= 1 => x = 1 /\ y = 1
    OBVIOUS
  <2> QED
    BY <2>1, <2>2, <2>3, <2>4
<1>4. reader[c][1] \in GenuineResponses /\ reader[c][1].call = k /\ reader[c][1].id = idOf[k]
  <2>1. reader[c][1] \in GenuineResponses /\ Waiting(reader[c][1].call)
    BY <1>0, <1>2, <1>3, ElementOfSeq DEF OneAtMost, OneInReader
  <2> QED
    BY <1>0, <1>3, <2>1, OneWaits DEF GenuineResponses, Responses
<1>5. Len(taken) = 1 /\ taken[1] = reader[c][1] /\ Len(Left(reader[c])) = 0
  <2>1. PICK n \in 0 .. 1 :
          /\ n > 0
          /\ Len(taken) = n /\ Len(Left(reader[c])) = 1 - n
          /\ \A i \in 1 .. n : taken[i] = reader[c][i]
    BY <1>2, <1>3, TakenSplits
  <2> QED
    BY <2>1
<1> HIDE DEF c, taken
<1>6. Matches(taken[1], k) /\ sender[k] = "held"
  BY <1>3, <1>4, <1>5 DEF Matches, Waiting
<1>7. /\ sender' = [sender EXCEPT ![k] = "sent"]
      /\ slot' = [slot EXCEPT ![k] = reader[c][1]]
  <2>1. PICK i \in 1 .. Len(taken) : /\ sender' = [sender EXCEPT ![k] = "sent"]
                                    /\ slot' = [slot EXCEPT ![k] = taken[i]]
    <3>1. 1 \in 1 .. Len(taken)
      BY <1>5
    <3> QED
      BY <1>6, <3>1 DEF OnResponses, c, taken
  <2>2. i = 1
    BY <1>5
  <2> QED
    BY <1>5, <2>1, <2>2
<1>8. \A d \in Consumers : Len(reader'[d]) = 0
  BY <1>1, <1>2, <1>5 DEF OneOfEach, TypeOK
<1>9. responses' = {} /\ \A p \in Providers : answer'[p] = NoResponse
  <2>1. responses = {}
    <3> SUFFICES ASSUME NEW m \in responses PROVE FALSE
      OBVIOUS
    <3>1. Len(reader[m.to]) = 0 /\ m.to = c
      BY <1>0, <1>2 DEF OneAtMost, OneOnWire, TypeOK, OneOfEach
    <3> QED
      BY <1>3, <3>1
  <2>2. \A p \in Providers : answer[p] = NoResponse
    BY <1>0, <1>2, <1>3 DEF OneAtMost, OneAnswer
  <2> QED
    BY <1>1, <2>1, <2>2
<1>10. OneInReader'
  <2> SUFFICES ASSUME NEW d \in Consumers
               PROVE  /\ Len(reader'[d]) <= 1
                      /\ \A i \in 1 .. Len(reader'[d]) : FALSE
    BY DEF OneInReader
  <2> QED
    BY <1>8
<1>11. WakesTheWaiting'
  <2> SUFFICES ASSUME NEW l \in Calls PROVE mail'[l] = 0
    BY DEF WakesTheWaiting
  <2>1. CASE l = k
    BY <1>1, <1>3, <2>1 DEF TypeOK
  <2>2. CASE l # k
    <3>1. mail[l] \in Nat /\ ~Waiting(l)
      BY <1>0, <1>3, <2>2, OneWaits DEF TypeOK
    <3> QED
      BY <1>0, <1>1, <2>2, <3>1 DEF OneAtMost, WakesTheWaiting, TypeOK
  <2> QED
    BY <2>1, <2>2
<1>12. OwnResponse'
  BY <1>0, <1>4, <1>7 DEF OneAtMost, OwnResponse, TypeOK
<1>13. OneAtMost'
  BY <1>9, <1>10, <1>11, <1>12 DEF OneAtMost, OneOnWire, OneAnswer
<1>14. sender'[k] = "sent"
  BY <1>7 DEF TypeOK
<1> QED
  BY <1>0, <1>3, <1>13, <1>14, OneWaits

\* A process that restarts has no call under way, or it gives up.
LEMMA RestartGivesUp ==
  ASSUME OneOfEach, OneResponseInv, NoneGaveUp', NEW q \in Processes, RestartProcess(q)
  PROVE  \A k \in Calls : Waiting(k) => Process(k) # q /\ Waiting(k)'
BY DEF OneResponseInv, TypeOK, RestartProcess, NoneGaveUp, GaveUp, Waiting, Ended, Returned

\* Whatever happens, there is one response at most, unless a call gives up.
LEMMA StepOneResponse ==
  ASSUME OneOfEach
  PROVE  OneResponseInv /\ [Next]_vars => OneResponse'
<1> SUFFICES ASSUME OneResponseInv, [Next]_vars, NoneGaveUp' PROVE OneAtMost'
  BY DEF OneResponse
<1> USE DEF callVars, consumerVars, providerVars, bounds
<1>0. TypeOK /\ NoneGaveUp /\ OneAtMost
  BY GaveUpStays DEF OneResponseInv, OneResponse
\* Steps that move no sample and that the waiting call does not notice.
<1>1. ASSUME UNCHANGED <<reader, mail, slot>>, responses' \subseteq responses,
             \A p \in Providers : answer'[p] \in {answer[p], NoResponse},
             \A k \in Calls : Waiting(k) => Waiting(k)'
      PROVE  OneAtMost'
  BY <1>0, <1>1, OneResponseKept
<1>2. ASSUME NEW k \in Calls,
             NextRequestId(k) \/ SetListener(k) \/ WriteRequest(k) \/ Receive(k) \/ DropListener(k)
      PROVE  OneAtMost'
  <2>1. UNCHANGED <<reader, mail, slot, responses, answer>>
    BY <1>2 DEF NextRequestId, SetListener, WriteRequest, Receive, DropListener
  <2>2. \A l \in Calls : Waiting(l) => Waiting(l)'
    <3>1. CASE DropListener(k)
      <4>1. ~Waiting(k)
        BY <3>1 DEF DropListener, OneResponseInv, SequentialInv, ListenerStays, Waiting
      <4> QED
        BY <1>0, <3>1, <4>1 DEF DropListener, TypeOK, Waiting
    <3>2. CASE ~DropListener(k)
      BY <1>0, <1>2, <3>2
      DEF NextRequestId, SetListener, WriteRequest, Receive, TypeOK, Waiting
    <3> QED
      BY <3>1, <3>2
  <2> QED
    BY <1>1, <2>1, <2>2
<1>3. ASSUME NEW k \in Calls, Cancelled(k) \/ Timeout(k) \/ CallPanics(k) PROVE FALSE
  BY <1>0, <1>3 DEF Cancelled, Timeout, CallPanics, NoneGaveUp, GaveUp, Ended, Returned, TypeOK
<1>4. ASSUME NEW k \in Calls, OnResponses(k) PROVE OneAtMost'
  BY <1>0, <1>4, TakesOneResponse
<1>5. ASSUME NEW p \in Providers, TakeRequests(p) \/ ProviderDies(p) \/ RestartProvider(p)
      PROVE  OneAtMost'
  <2>1. UNCHANGED <<reader, mail, slot, responses, pc, sender>>
    BY <1>5 DEF TakeRequests, ProviderDies, RestartProvider
  <2>2. \A d \in Providers : answer'[d] \in {answer[d], NoResponse}
    BY <1>0, <1>5 DEF TakeRequests, ProviderDies, RestartProvider, TypeOK
  <2> QED
    BY <1>1, <2>1, <2>2 DEF Waiting
<1>6. ASSUME NEW p \in Providers, Implementation(p) PROVE OneAtMost'
  <2>1. /\ UNCHANGED <<reader, mail, slot, responses, pc, sender>>
        /\ answer' = [answer EXCEPT ![p] = Reply(p, Head(batch[p]))]
    BY <1>6 DEF Implementation
  <2>2. /\ Waiting(Head(batch[p]).call)
        /\ responses = {} /\ \A c \in Consumers : Len(reader[c]) = 0
    BY <1>0, <1>6, RunsForTheWaiting
  <2>3. OneAnswer'
    <3> SUFFICES ASSUME NEW d \in Providers
                 PROVE  /\ pc'[answer'[d].call] = "wait" /\ sender'[answer'[d].call] = "held"
                        /\ responses' = {} /\ \A c \in Consumers : Len(reader'[c]) = 0
      BY DEF OneAnswer, Waiting
    <3>1. answer'[d].call = Head(batch[p]).call
      BY <1>0, <2>1 DEF OneOfEach, TypeOK, Reply
    <3> QED
      BY <2>1, <2>2, <3>1 DEF Waiting
  <2> QED
    BY <1>0, <2>1, <2>2, <2>3
    DEF OneAtMost, OneInReader, OneOnWire, WakesTheWaiting, OwnResponse, Waiting
<1>7. ASSUME NEW p \in Providers, WriteResponse(p) PROVE OneAtMost'
  <2>1. /\ UNCHANGED <<reader, mail, slot, pc, sender>>
        /\ answer' = [answer EXCEPT ![p] = NoResponse] /\ answer[p] # NoResponse
        /\ responses' = responses \cup {[to |-> c, msg |-> answer[p]] : c \in Consumers}
    BY <1>7 DEF WriteResponse
  <2>2. /\ Waiting(answer[p].call)
        /\ responses = {} /\ \A c \in Consumers : Len(reader[c]) = 0
    BY <1>0, <2>1 DEF OneAtMost, OneAnswer
  <2>3. OneOnWire'
    BY <2>1, <2>2 DEF OneOnWire, Waiting
  <2>4. OneAnswer'
    BY <1>0, <2>1 DEF OneAnswer, OneOfEach, TypeOK
  <2> QED
    BY <1>0, <2>1, <2>3, <2>4 DEF OneAtMost, OneInReader, WakesTheWaiting, OwnResponse, Waiting
<1>8. CASE Transport
  <2>1. ASSUME NEW m \in requests, DeliverRequest(m) \/ LoseRequest(m) PROVE OneAtMost'
    <3>1. UNCHANGED <<reader, mail, slot, responses, pc, sender, answer>>
      BY <2>1 DEF DeliverRequest, LoseRequest
    <3> QED
      BY <1>1, <3>1 DEF Waiting
  <2>2. ASSUME NEW m \in responses, LoseResponse(m) PROVE OneAtMost'
    <3>1. UNCHANGED <<reader, mail, slot, pc, sender, answer>> /\ responses' \subseteq responses
      BY <2>2 DEF LoseResponse
    <3> QED
      BY <1>1, <3>1 DEF Waiting
  <2>3. ASSUME NEW m \in responses, DeliverResponse(m) PROVE OneAtMost'
    BY <1>0, <2>3, DeliverOneResponse
  <2> QED
    BY <1>8, <2>1, <2>2, <2>3 DEF Transport
<1>9. ASSUME NEW q \in Processes, RestartProcess(q) PROVE OneAtMost'
  <2>1. \A k \in Calls : Waiting(k) => Process(k) # q /\ Waiting(k)'
    BY <1>9, RestartGivesUp
  <2>2. CASE \E c \in Consumers : ProcessOf[c] # q
    <3>1. /\ \A c \in Consumers : ProcessOf[c] # q
          /\ \A k \in Calls : Process(k) # q
      BY <2>2, ProcessType DEF OneOfEach, Process
    <3>2. UNCHANGED <<reader, mail, slot, answer>> /\ responses' \subseteq responses
      BY <1>0, <1>9, <3>1 DEF RestartProcess, TypeOK
    <3> QED
      BY <1>1, <2>1, <3>2
  <2>3. CASE \A c \in Consumers : ProcessOf[c] = q
    <3>1. \A k \in Calls : Process(k) = q /\ ~Waiting(k)
      BY <2>1, <2>3, ProcessType DEF Process
    <3>2. /\ \A c \in Consumers : reader'[c] = <<>>
          /\ \A k \in Calls : mail'[k] = 0
          /\ responses' = {} /\ UNCHANGED <<slot, answer>>
      BY <1>0, <1>9, <2>3, <3>1 DEF RestartProcess, TypeOK
    <3>3. ASSUME NEW p \in Providers PROVE answer[p] = NoResponse
      <4>1. answer[p] # NoResponse => answer[p].call \in Calls /\ Waiting(answer[p].call)
        BY <1>0 DEF OneAtMost, OneAnswer, TypeOK, Responses
      <4> QED
        BY <3>1, <4>1
    <3>4. OneInReader'
      <4> SUFFICES ASSUME NEW c \in Consumers
                   PROVE  Len(reader'[c]) <= 1 /\ \A i \in 1 .. Len(reader'[c]) : FALSE
        BY DEF OneInReader
      <4>1. Len(reader'[c]) = 0
        BY <3>2, EmptySeq
      <4> QED
        BY <4>1
    <3> QED
      BY <1>0, <3>2, <3>3, <3>4 DEF OneAtMost, OneOnWire, OneAnswer, WakesTheWaiting, OwnResponse
  <2> QED
    BY <2>2, <2>3
<1>10. CASE UNCHANGED vars
  BY <1>1, <1>10 DEF vars, Waiting
<1> QED
  BY <1>2, <1>3, <1>4, <1>5, <1>6, <1>7, <1>8, <1>9, <1>10
  DEF Next, CallStep, ListenerStep, ProviderStep, Fault, Terminated

\* Only the take of its own listener removes the response of a call that waits.
LEMMA LeavesForItsCall ==
  ASSUME OneOfEach, OneResponseInv, [Next]_vars, NEW k \in Calls, Waiting(k),
         Holds(reader[Reader(k)], k), ~Holds(reader'[Reader(k)], k)
  PROVE  \/ sender'[k] = "sent"
         \/ \E l \in Calls : Reader(l) = Reader(k) /\ pc'[l] \in Ended \ {"some"}
<1> USE DEF callVars, consumerVars, providerVars
<1> SUFFICES ASSUME NoneGaveUp' PROVE sender'[k] = "sent"
  <2>1. ASSUME ~NoneGaveUp' PROVE \E l \in Calls : pc'[l] \in Ended \ {"some"}
    BY <2>1 DEF NoneGaveUp, GaveUp
  <2> QED
    BY <2>1, ProcessType DEF OneOfEach
<1>1. TypeOK /\ NoneGaveUp /\ OneAtMost
  BY GaveUpStays DEF OneResponseInv, OneResponse
<1>2. ASSUME NEW l \in Calls, OnResponses(l) PROVE sender'[k] = "sent"
  BY <1>1, <1>2, TakesOneResponse
<1>3. ASSUME NEW m \in responses, DeliverResponse(m) PROVE FALSE
  <2>1. m.to = Reader(k) /\ Len(reader[m.to]) = 0
    BY <1>1, ProcessType DEF OneAtMost, OneOnWire, TypeOK, OneOfEach
  <2> QED
    BY <2>1 DEF Holds
<1>4. ASSUME NEW q \in Processes, RestartProcess(q) PROVE FALSE
  <2>1. Process(k) # q
    BY <1>4, RestartGivesUp
  <2>2. reader'[Reader(k)] = reader[Reader(k)]
    BY <1>4, <2>1, ProcessType DEF RestartProcess, Process
  <2> QED
    BY <2>2 DEF Holds
<1>5. ASSUME UNCHANGED reader PROVE FALSE
  BY <1>5 DEF Holds
<1>6. ASSUME NEW l \in Calls,
             \/ NextRequestId(l) \/ CallStep(l) \/ DropListener(l) \/ CallPanics(l)
      PROVE  FALSE
  BY <1>5, <1>6 DEF CallStep, NextRequestId, SetListener, WriteRequest, Receive,
                    Cancelled, Timeout, DropListener, CallPanics
<1>7. ASSUME NEW p \in Providers, ProviderStep(p) \/ ProviderDies(p) \/ RestartProvider(p)
      PROVE  FALSE
  BY <1>5, <1>7 DEF ProviderStep, TakeRequests, Implementation, WriteResponse,
                    ProviderDies, RestartProvider
<1>8. CASE Transport
  BY <1>3, <1>5, <1>8 DEF Transport, DeliverRequest, LoseRequest, LoseResponse
<1>9. CASE UNCHANGED vars
  BY <1>5, <1>9 DEF vars
<1> QED
  BY <1>2, <1>4, <1>6, <1>7, <1>8, <1>9 DEF Next, ListenerStep, Fault, Terminated

\* In any topology, a response leaves the reader of a call that goes on
\* waiting for its oneshot, by another listener's take, or pushed out.
LEMMA LeavesOneWay ==
  ASSUME TypeOK, IdsMatch, [Next]_vars, NEW k \in Calls, Waiting(k), pc'[k] = "wait",
         Holds(reader[Reader(k)], k), ~Holds(reader'[Reader(k)], k)
  PROVE  pc' = pc /\ (sender'[k] = "sent" \/ TakenByAnother(k) \/ PushedOut(k))
<1> USE DEF callVars, consumerVars, providerVars
<1>0. Reader(k) \in Consumers /\ reader[Reader(k)] \in Seq(GenuineResponses)
  BY ProcessType DEF IdsMatch
<1>1. ASSUME NEW l \in Calls, OnResponses(l)
      PROVE  pc' = pc /\ (sender'[k] = "sent" \/ TakenByAnother(k))
  <2>1. pc' = pc
    BY <1>1 DEF OnResponses
  <2>2. CASE l # k
    <3>1. Reader(l) = Reader(k)
      BY <1>1, <1>0 DEF OnResponses, TypeOK, Holds
    <3>2. mail'[l] < mail[l]
      BY <1>1 DEF OnResponses, TypeOK
    <3> QED
      BY <2>1, <2>2, <3>1, <3>2 DEF TakenByAnother
  <2>3. CASE l = k
    <3> DEFINE s == reader[Reader(k)]
    <3>1. reader'[Reader(k)] = Left(s)
      BY <1>0, <1>1, <2>3 DEF OnResponses, TypeOK
    <3>2. PICK i \in 1 .. Len(s) : s[i].call = k
      BY DEF Holds
    <3>3. i \in 1 .. Len(Taken(s)) /\ Taken(s)[i] = s[i]
      <4>0. s \in Seq(GenuineResponses) /\ Len(s) \in Nat
        BY <1>0
      <4> HIDE DEF s
      <4>1. PICK n \in 0 .. Len(s) :
              /\ Len(Taken(s)) = n /\ Len(Left(s)) = Len(s) - n
              /\ \A x \in 1 .. n : Taken(s)[x] = s[x]
              /\ \A x \in 1 .. Len(s) - n : Left(s)[x] = s[n + x]
        BY <4>0, TakenSplits
      <4>2. i > n => i - n \in 1 .. Len(Left(s)) /\ Left(s)[i - n] = s[i]
        BY <4>0, <3>2, <4>1
      <4>3. ~(i > n)
        BY <3>1, <3>2, <4>2 DEF Holds
      <4> QED
        BY <4>0, <3>2, <4>1, <4>3
    <3>4. Matches(Taken(s)[i], k)
      <4>1. s \in Seq(GenuineResponses)
        BY <1>0
      <4> HIDE DEF s
      <4>2. s[i] \in GenuineResponses
        BY <4>1, <3>2, ElementOfSeq
      <4> QED
        BY <4>2, <3>2, <3>3 DEF Matches, GenuineResponses
    <3>5. sender'[k] = "sent"
      BY <1>1, <2>3, <3>3, <3>4 DEF OnResponses, Waiting, TypeOK
    <3> QED
      BY <2>1, <3>5
  <2> QED
    BY <2>2, <2>3
<1>2. ASSUME NEW m \in responses, DeliverResponse(m)
      PROVE  pc' = pc /\ PushedOut(k)
  <2>1. pc' = pc
    BY <1>2 DEF DeliverResponse
  <2>2. m.to = Reader(k)
    BY <1>2, <1>0 DEF DeliverResponse, TypeOK, Holds
  <2>3. reader'[Reader(k)] = KeepLast(reader[Reader(k)], m.msg)
    BY <1>0, <1>2, <2>2 DEF DeliverResponse, TypeOK
  <2>4. Len(reader[Reader(k)]) >= Depth
    BY <1>0, <2>3, ReaderAssumption DEF KeepLast, Holds
  <2>5. Len(reader'[Reader(k)]) = Len(reader[Reader(k)])
    BY <1>0, <2>3, <2>4, ReaderAssumption DEF KeepLast
  <2> QED
    BY <2>1, <2>4, <2>5 DEF PushedOut
<1>3. ASSUME NEW q \in Processes, RestartProcess(q) PROVE FALSE
  <2>1. CASE Process(k) = q
    BY <1>3, <2>1 DEF RestartProcess, Waiting, Returned
  <2>2. CASE Process(k) # q
    <3>1. reader'[Reader(k)] = reader[Reader(k)]
      BY <1>0, <1>3, <2>2 DEF RestartProcess, Process
    <3> QED
      BY <3>1 DEF Holds
  <2> QED
    BY <2>1, <2>2
<1>4. ASSUME UNCHANGED reader PROVE FALSE
  BY <1>4 DEF Holds
<1>5. ASSUME NEW l \in Calls,
             \/ NextRequestId(l) \/ CallStep(l) \/ DropListener(l) \/ CallPanics(l)
      PROVE  FALSE
  BY <1>4, <1>5 DEF CallStep, NextRequestId, SetListener, WriteRequest, Receive,
                    Cancelled, Timeout, DropListener, CallPanics
<1>6. ASSUME NEW p \in Providers, ProviderStep(p) \/ ProviderDies(p) \/ RestartProvider(p)
      PROVE  FALSE
  BY <1>4, <1>6 DEF ProviderStep, TakeRequests, Implementation, WriteResponse,
                    ProviderDies, RestartProvider
<1>7. CASE Transport
  BY <1>2, <1>4, <1>7 DEF Transport, DeliverRequest, LoseRequest, LoseResponse
<1>8. CASE UNCHANGED vars
  BY <1>4, <1>8 DEF vars
<1> QED
  BY <1>1, <1>3, <1>5, <1>6, <1>7, <1>8 DEF Next, ListenerStep, Fault, Terminated

\* With one consumer that one caller uses and one provider, a response that
\* reached the reader of a call that waits is given to this call: its own
\* listener never discards it, and another one, or the reader, only after
\* some call gave up.
THEOREM ResponseIsForItsCall == ASSUME OneOfEach PROVE Spec => ResponseReachesCall
<1>1. OneCallerEach
  BY DEF OneOfEach, OneCallerEach
<1>2. Init => OneResponseInv
  BY InitTypeOK, InitIdsMatch, InitCopy, InitPayload, InitSequential, InitOneResponse
  DEF OneResponseInv
<1>3. OneResponseInv /\ [Next]_vars => OneResponseInv'
  BY <1>1, StepTypeOK, StepIdsMatch, StepCopy, StepPayload, StepSequential, StepOneResponse
  DEF OneResponseInv
<1>4. OneResponseInv /\ [Next]_vars =>
        [\A k \in Calls :
           /\ pc[k] = "wait" /\ sender[k] = "held" /\ pc'[k] = "wait"
           /\ Holds(reader[Reader(k)], k) /\ ~Holds(reader'[Reader(k)], k)
           => \/ sender'[k] = "sent"
              \/ /\ TakenByAnother(k) \/ PushedOut(k)
                 /\ \E l \in Calls : Reader(l) = Reader(k) /\ pc[l] \in Ended \ {"some"}]_vars
  <2> SUFFICES ASSUME OneResponseInv, [Next]_vars, NEW k \in Calls, Waiting(k), pc'[k] = "wait",
                      Holds(reader[Reader(k)], k), ~Holds(reader'[Reader(k)], k)
               PROVE  \/ sender'[k] = "sent"
                      \/ /\ TakenByAnother(k) \/ PushedOut(k)
                         /\ \E l \in Calls : Reader(l) = Reader(k) /\ pc[l] \in Ended \ {"some"}
    BY DEF Waiting
  <2>1. pc' = pc /\ (sender'[k] = "sent" \/ TakenByAnother(k) \/ PushedOut(k))
    BY LeavesOneWay DEF OneResponseInv
  <2>2. \/ sender'[k] = "sent"
        \/ \E l \in Calls : Reader(l) = Reader(k) /\ pc'[l] \in Ended \ {"some"}
    BY LeavesForItsCall
  <2> QED
    BY <2>1, <2>2
<1> QED
  BY <1>2, <1>3, <1>4, PTL DEF Spec, ResponseReachesCall

============================================================================
