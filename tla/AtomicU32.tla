----------------------------- MODULE AtomicU32 -----------------------------
(***************************************************************************)
(* The arithmetic of an unsigned counter of fixed width, as the AtomicU32  *)
(* of core/src/utils/id_generator.rs has it: fetch_add wraps silently.     *)
(* IdWrap is 2^32 in the program and a small number in the TLC runs.       *)
(***************************************************************************)
EXTENDS Integers

CONSTANT IdWrap    \* number of values the counter can hold

ASSUME IdWrapAssumption == IdWrap \in Nat \ {0}

Ids == 0 .. (IdWrap - 1)

\* fetch_add(1): the value after the one that is handed out.
SuccessorNoWrap(c) == c + 1      \* mutant: a counter that is wider than its ids
Successor(c) == IF c = IdWrap - 1 THEN 0 ELSE c + 1

============================================================================
