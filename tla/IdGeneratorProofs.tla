------------------------- MODULE IdGeneratorProofs -------------------------
(* Theorems about IdGenerator, for any threads, width and starting value. *)
EXTENDS IdGenerator, TLAPS

\* fetch_add stays within the width of the counter.
LEMMA SuccessorInIds == \A c \in Ids : Successor(c) \in Ids
BY IdWrapAssumption DEF Successor, Ids

\* Before the first id is handed out there is nothing to repeat.
LEMMA InitIInv == Init => IInv
BY StartAssumption DEF Init, IInv, TypeOK, Distance, UniqueUntilOverflow

\* Every operation of every thread preserves the invariant.
LEMMA StepIInv == IInv /\ [Next]_vars => IInv'
<1> SUFFICES ASSUME IInv, [Next]_vars PROVE IInv'
  OBVIOUS
<1> USE IdWrapAssumption DEF IInv
<1>1. ASSUME NEW t \in Threads, NextId(t) PROVE IInv'
  <2> DEFINE new == [rank |-> count, id |-> counter, to |-> t]
  <2>1. /\ counter' = Successor(counter) /\ count' = count + 1
        /\ handed' = handed \cup {new} /\ total' = total + 1 /\ seen' = seen
    BY <1>1 DEF NextId, Hand
  <2>2. new \in HandedIds
    BY DEF TypeOK, HandedIds
  <2>3. TypeOK'
    BY <2>1, <2>2, SuccessorInIds DEF TypeOK
  <2>4. Distance'
    <3> SUFFICES ASSUME NEW a \in handed'
                 PROVE  /\ a.rank < count'
                        /\ count' - a.rank <= IdWrap =>
                             \/ counter' = a.id + (count' - a.rank)
                             \/ counter' = a.id + (count' - a.rank) - IdWrap
      BY DEF Distance
    <3>1. CASE a \in handed
      <4>1. a \in HandedIds
        BY <3>1 DEF TypeOK
      <4> QED
        BY <2>1, <3>1, <4>1 DEF Distance, TypeOK, HandedIds, Ids, Successor
    <3>2. CASE a = new
      BY <2>1, <2>2, <3>2 DEF TypeOK, HandedIds, Ids, Successor
    <3> QED
      BY <2>1, <3>1, <3>2
  <2>5. UniqueUntilOverflow'
    <3> SUFFICES ASSUME NEW a \in handed', NEW b \in handed',
                        a.id = b.id, a.rank < b.rank
                 PROVE  b.rank - a.rank >= IdWrap
      BY DEF UniqueUntilOverflow
    <3>1. a \in HandedIds /\ b \in HandedIds
      BY <2>3 DEF TypeOK
    <3>2. CASE a \in handed /\ b \in handed
      BY <3>2 DEF UniqueUntilOverflow
    <3>3. CASE a \in handed /\ b = new
      BY <3>1, <3>3 DEF Distance, TypeOK, HandedIds, Ids
    <3>4. CASE a = new
      BY <2>1, <3>1, <3>4 DEF Distance, TypeOK, HandedIds
    <3> QED
      BY <2>1, <3>2, <3>3, <3>4
  <2> QED
    BY <2>3, <2>4, <2>5
<1>2. ASSUME NEW t \in Threads, Current(t) PROVE IInv'
  BY <1>2 DEF Current, TypeOK, Distance, UniqueUntilOverflow
<1>3. ASSUME NEW t \in Threads, Reset(t) PROVE IInv'
  BY <1>3 DEF Reset, TypeOK, Distance, UniqueUntilOverflow, Ids
<1>4. CASE UNCHANGED vars
  BY <1>4 DEF vars, TypeOK, Distance, UniqueUntilOverflow
<1> QED
  BY <1>1, <1>2, <1>3, <1>4 DEF Next

\* The counter and all it hands out stay within IdWrap values.
THEOREM IdsTyped == Spec => []TypeOK
<1>1. IInv => TypeOK
  BY DEF IInv
<1> QED
  BY <1>1, InitIInv, StepIInv, PTL DEF Spec

\* No two threads are handed the same id before the counter overflows.
THEOREM IdsUnique == Spec => []UniqueUntilOverflow
<1>1. IInv => UniqueUntilOverflow
  BY DEF IInv
<1> QED
  BY <1>1, InitIInv, StepIInv, PTL DEF Spec

\* The counter is ahead of every id by the ids handed out since, modulo its width.
THEOREM IdsBehindCounter == Spec => []Distance
<1>1. IInv => Distance
  BY DEF IInv
<1> QED
  BY <1>1, InitIInv, StepIInv, PTL DEF Spec

============================================================================
