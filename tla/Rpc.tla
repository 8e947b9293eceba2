-------------------------------- MODULE Rpc --------------------------------
(***************************************************************************)
(* What a request/response functionality promises its callers, with no     *)
(* readers, listeners, identifiers or messages: a call ends with a result  *)
(* of the implementation run on this very call's payload, or with nothing; *)
(* a provider runs the implementation at most once for a call, possibly    *)
(* after the caller has given up.                                          *)
(***************************************************************************)
CONSTANTS Calls, Providers, NoResult

VARIABLES
  status,      \* call -> "idle", "pending", "answered" or "gaveUp"
  result,      \* call -> the provider and the call the result comes from
  executed     \* <<provider, call>> -> runs of the implementation

vars == <<status, result, executed>>

Init ==
  /\ status   = [k \in Calls |-> "idle"]
  /\ result   = [k \in Calls |-> NoResult]
  /\ executed = [pk \in Providers \X Calls |-> 0]

Invoke(k) ==
  /\ status[k] = "idle"
  /\ status' = [status EXCEPT ![k] = "pending"]
  /\ UNCHANGED <<result, executed>>

Execute(p, k) ==
  /\ status[k] # "idle"
  /\ executed[<<p, k>>] = 0
  /\ executed' = [executed EXCEPT ![<<p, k>>] = 1]
  /\ UNCHANGED <<status, result>>

Answer(p, k) ==
  /\ status[k] = "pending"
  /\ executed[<<p, k>>] = 1
  /\ status' = [status EXCEPT ![k] = "answered"]
  /\ result' = [result EXCEPT ![k] = [by |-> p, call |-> k]]
  /\ UNCHANGED executed

\* A timeout, a panic or the end of the process: of one call or of several.
GiveUp ==
  /\ \E S \in SUBSET {k \in Calls : status[k] = "pending"} :
       status' = [k \in Calls |-> IF k \in S THEN "gaveUp" ELSE status[k]]
  /\ UNCHANGED <<result, executed>>

Next ==
  \/ \E k \in Calls : Invoke(k)
  \/ \E p \in Providers, k \in Calls : Execute(p, k) \/ Answer(p, k)
  \/ GiveUp

Spec == Init /\ [][Next]_vars

============================================================================
