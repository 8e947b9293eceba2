---------------------------- MODULE IdGenerator ----------------------------
(***************************************************************************)
(* AtomicIdGenerator of core/src/utils/id_generator.rs, shared by the      *)
(* threads of a process.  Every operation is one atomic access with        *)
(* Relaxed ordering; the accesses to one atomic are totally ordered, so    *)
(* the threads interleave operation by operation.                          *)
(***************************************************************************)
EXTENDS AtomicU32

CONSTANTS
  Threads,
  Start,      \* with_start(Start); new() and the static start from 0
  MaxIds      \* bound: ids handed out

ASSUME StartAssumption == Start \in Ids
ASSUME MaxIdsAssumption == MaxIds \in Nat

VARIABLES
  counter,    \* the AtomicU32
  seen,       \* thread -> what its last current() returned
  count,      \* history: ids handed out since the last reset
  handed,     \* history: each of them, with its rank
  total       \* ids handed out, resets included

vars == <<counter, seen, count, handed, total>>

Init ==
  /\ counter = Start
  /\ seen    = [t \in Threads |-> Start]
  /\ count   = 0
  /\ handed  = {}
  /\ total   = 0

\* Thread t is handed value v and the counter becomes w.
Hand(t, v, w) ==
  /\ total < MaxIds
  /\ counter' = w
  /\ count'   = count + 1
  /\ handed'  = handed \cup {[rank |-> count, id |-> v, to |-> t]}
  /\ total'   = total + 1
  /\ UNCHANGED seen

\* next_id: fetch_add(1, Relaxed).
NextIdLoadStore(t) == Hand(t, seen[t], Successor(seen[t]))   \* mutant: a load, then a store
NextId(t) == Hand(t, counter, Successor(counter))

\* current: load(Relaxed).
Current(t) ==
  /\ seen' = [seen EXCEPT ![t] = counter]
  /\ UNCHANGED <<counter, count, handed, total>>

\* reset: store(0, Relaxed).  The ids before it may come again.
Reset(t) ==
  /\ counter' = 0
  /\ count'   = 0
  /\ handed'  = {}
  /\ UNCHANGED <<seen, total>>

Next == \E t \in Threads : NextId(t) \/ Current(t) \/ Reset(t)

Spec == Init /\ [][Next]_vars

----------------------------------------------------------------------------
HandedIds == [rank : Nat, id : Ids, to : Threads]

TypeOK ==
  /\ counter \in Ids
  /\ seen \in [Threads -> Ids]
  /\ count \in Nat
  /\ handed \subseteq HandedIds
  /\ total \in Nat

\* "next_id always returns a unique value across all threads (until
\* overflow)": between two calls that are handed the same id, without a
\* reset in between, at least IdWrap ids are handed out.
UniqueUntilOverflow ==
  \A a, b \in handed :
    a.id = b.id /\ a.rank < b.rank => b.rank - a.rank >= IdWrap

\* The counter runs ahead of every id of the last round by its distance.
Distance ==
  \A a \in handed :
    /\ a.rank < count
    /\ count - a.rank <= IdWrap =>
         \/ counter = a.id + (count - a.rank)
         \/ counter = a.id + (count - a.rank) - IdWrap

IInv == TypeOK /\ Distance /\ UniqueUntilOverflow

============================================================================
