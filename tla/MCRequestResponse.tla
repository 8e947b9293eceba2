------------------------- MODULE MCRequestResponse -------------------------
(* Topologies for the TLC runs of RequestResponse. *)
EXTENDS RequestResponse, TLC

CONSTANTS q1, q2, c1, c2, r1, r2, p1, p2

\* One process with one consumer and one caller.
OneConsumer == [c \in {c1} |-> q1]
OneCaller   == [r \in {r1} |-> c1]

\* Two callers that share the consumer.
SharedConsumer == [r \in {r1, r2} |-> c1]

\* Two consumers, each with its caller, in one process or in two.
SameProcess  == [c \in {c1, c2} |-> q1]
TwoProcesses == c1 :> q1 @@ c2 :> q2
CallerEach   == r1 :> c1 @@ r2 :> c2

============================================================================
