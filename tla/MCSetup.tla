------------------------------ MODULE MCSetup ------------------------------
(* Setup on the functionalities of README.md and usage_examples/src/main.rs. *)
EXTENDS Setup

CONSTANTS app, user, guest, host, part1, part2

Recognise == [kind |-> "RequestResponse", name |-> "recognise", in |-> "Image", out |-> "Result"]
Resized   == [kind |-> "RequestResponse", name |-> "recognise", in |-> "Video", out |-> "Result"]
Landmarks == [kind |-> "RequestResponse", name |-> "landmarks", in |-> "Image", out |-> "Points"]
Models    == [kind |-> "Response", name |-> "models", out |-> "ModelsInfo"]
Frames    == [kind |-> "Continuous", name |-> "PersonInFrame", out |-> "Frame"]
Pictures  == [kind |-> "Continuous", name |-> "personInFrame", out |-> "Picture"]

LowerCase ==
  [n \in {"recognise", "landmarks", "models", "PersonInFrame", "personInFrame"} |->
     IF n \in {"PersonInFrame", "personInFrame"} THEN "personinframe" ELSE n]

Job(job, fns) == [job |-> job, fns |-> fns]

Provider == <<Job("new", <<>>), Job("register", <<Recognise, Frames, Models>>)>>
Consumer == <<Job("init", <<Frames, Models, Recognise>>)>>

\* On one participant a provider and a consumer of something else; on the
\* other one a consumer of all the provider has, and one that collides with
\* it, by a call and by streams whose names differ only in case, and by the
\* latter with itself.
Colliding ==
  [t \in Tasks |->
     CASE t = app   -> Provider
       [] t = guest -> <<Job("init", <<Landmarks>>)>>
       [] t = user  -> Consumer
       [] t = host  -> <<Job("init", <<Models, Pictures, Frames>>)>>]

\* The two sides disagree on the input type.
OldConsumer == [t \in Tasks |-> IF t = app THEN Provider ELSE <<Job("init", <<Resized>>)>>]

Placed == [t \in Tasks |-> IF t \in {app, guest} THEN part1 ELSE part2]

============================================================================
