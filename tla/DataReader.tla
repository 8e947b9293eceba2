----------------------------- MODULE DataReader -----------------------------
(***************************************************************************)
(* What the code sees of a DDS data reader created with QosKind::Default:  *)
(* the sequence of samples it holds.  The topics' types of this repository *)
(* that are exchanged by listeners have no key, so a reader holds samples  *)
(* of one instance.  The reader is external; how its content is taken is   *)
(* the code of the listeners.                                              *)
(***************************************************************************)
EXTENDS Integers, Sequences

CONSTANTS
  Depth,      \* samples a reader keeps (KEEP_LAST, 1 by default)
  TakeMax     \* samples one take returns at most (100 in the code)

ASSUME ReaderAssumption == Depth \in Nat \ {0} /\ TakeMax \in Nat \ {0}

Least(m, n) == IF m < n THEN m ELSE n

\* A full reader stores a sample: the oldest makes room for it.
KeepLast(s, m) ==
  IF Len(s) < Depth THEN Append(s, m) ELSE Append(Tail(s), m)

\* reader.take(TakeMax, ANY, ANY, ANY): what it returns and what it leaves.
Taken(s) == SubSeq(s, 1, Least(TakeMax, Len(s)))

LeftAll(s) == s                  \* mutant: read instead of take
Left(s) == SubSeq(s, Least(TakeMax, Len(s)) + 1, Len(s))

=============================================================================
