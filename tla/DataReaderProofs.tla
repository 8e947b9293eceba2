-------------------------- MODULE DataReaderProofs --------------------------
(* What the operators of DataReader return, for samples of any type. *)
EXTENDS DataReader, SequenceTheorems, TLAPS

\* Storing a sample keeps the samples of the reader and adds this one.
LEMMA KeepLastType ==
  ASSUME NEW S, NEW s \in Seq(S), NEW m \in S
  PROVE  KeepLast(s, m) \in Seq(S)
<1>1. CASE Len(s) < Depth
  BY <1>1 DEF KeepLast
<1>2. CASE ~(Len(s) < Depth)
  <2>1. s # <<>>
    BY <1>2, ReaderAssumption
  <2>2. Tail(s) \in Seq(S)
    BY <2>1, HeadTailProperties
  <2> QED
    BY <1>2, <2>2, AppendProperties DEF KeepLast
<1> QED
  BY <1>1, <1>2

\* A take returns samples of the reader and leaves samples of the reader.
LEMMA TakenType ==
  ASSUME NEW S, NEW s \in Seq(S)
  PROVE  /\ Taken(s) \in Seq(S)
         /\ Left(s) \in Seq(S)
         /\ \A i \in 1 .. Len(Taken(s)) : Taken(s)[i] \in S
<1> DEFINE n == Least(TakeMax, Len(s))
<1>1. Len(s) \in Nat /\ n \in 0 .. Len(s)
  BY ReaderAssumption, LenProperties DEF Least
<1>2. \A i \in 1 .. Len(s) : s[i] \in S
  BY ElementOfSeq
<1>3. SubSeq(s, 1, n) \in Seq(S)
  <2>1. \A i \in 1 .. n : s[i] \in S
    BY <1>1, <1>2
  <2> HIDE DEF n
  <2> QED
    BY <1>1, <2>1, SubSeqProperties
<1>4. SubSeq(s, n + 1, Len(s)) \in Seq(S)
  <2>1. \A i \in (n + 1) .. Len(s) : s[i] \in S
    BY <1>1, <1>2
  <2> HIDE DEF n
  <2> QED
    BY <1>1, <2>1, SubSeqProperties
<1>5. \A i \in 1 .. Len(Taken(s)) : Taken(s)[i] \in S
  BY <1>3, ElementOfSeq DEF Taken
<1> QED
  BY <1>3, <1>4, <1>5 DEF Taken, Left

\* A take splits the reader's samples: the oldest go, the others stay in order.
LEMMA TakenSplits ==
  ASSUME NEW S, NEW s \in Seq(S)
  PROVE  \E n \in 0 .. Len(s) :
           /\ s # <<>> => n > 0
           /\ Len(Taken(s)) = n /\ Len(Left(s)) = Len(s) - n
           /\ \A i \in 1 .. n : Taken(s)[i] = s[i]
           /\ \A i \in 1 .. (Len(s) - n) : Left(s)[i] = s[n + i]
<1> DEFINE n == Least(TakeMax, Len(s))
<1>1. Len(s) \in Nat /\ n \in 0 .. Len(s) /\ (s # <<>> => n > 0)
  BY ReaderAssumption, LenProperties, EmptySeq DEF Least
<1>2. \A i \in 1 .. Len(s) : s[i] \in S
  BY ElementOfSeq
<1>3. Taken(s) = SubSeq(s, 1, n) /\ Left(s) = SubSeq(s, n + 1, Len(s))
  BY DEF Taken, Left
<1> HIDE DEF n
<1>4. /\ Len(SubSeq(s, 1, n)) = n
      /\ \A i \in 1 .. n : SubSeq(s, 1, n)[i] = s[i]
  <2>1. \A i \in 1 .. n : s[i] \in S
    BY <1>1, <1>2
  <2> QED
    BY <1>1, <2>1, SubSeqProperties
<1>5. /\ Len(SubSeq(s, n + 1, Len(s))) = Len(s) - n
      /\ \A i \in 1 .. (Len(s) - n) : SubSeq(s, n + 1, Len(s))[i] = s[n + i]
  <2>1. \A i \in (n + 1) .. Len(s) : s[i] \in S
    BY <1>1, <1>2
  <2> QED
    BY <1>1, <2>1, SubSeqProperties
<1> QED
  BY <1>1, <1>3, <1>4, <1>5

\* Storing a sample appends it to what is there, or to all but the oldest.
LEMMA KeepLastAppends ==
  ASSUME NEW S, NEW s \in Seq(S), NEW m \in S
  PROVE  \E n \in 0 .. 1 :
           /\ n <= Len(s)
           /\ Len(KeepLast(s, m)) = Len(s) - n + 1
           /\ \A i \in 1 .. (Len(s) - n) : KeepLast(s, m)[i] = s[n + i]
           /\ KeepLast(s, m)[Len(s) - n + 1] = m
<1>0. Len(s) \in Nat
  BY LenProperties
<1>1. CASE Len(s) < Depth
  <2>1. KeepLast(s, m) = Append(s, m)
    BY <1>1 DEF KeepLast
  <2>2. WITNESS 0 \in 0 .. 1
  <2> QED
    BY <1>0, <2>1, AppendProperties
<1>2. CASE ~(Len(s) < Depth)
  <2>1. s # <<>> /\ Len(s) > 0
    BY <1>0, <1>2, ReaderAssumption, EmptySeq
  <2>2. /\ Tail(s) \in Seq(S) /\ Len(Tail(s)) = Len(s) - 1
        /\ \A i \in 1 .. (Len(s) - 1) : Tail(s)[i] = s[1 + i]
    BY <1>0, <2>1, HeadTailProperties
  <2>3. KeepLast(s, m) = Append(Tail(s), m)
    BY <1>2 DEF KeepLast
  <2>4. /\ Len(Append(Tail(s), m)) = Len(s)
        /\ \A i \in 1 .. (Len(s) - 1) : Append(Tail(s), m)[i] = Tail(s)[i]
        /\ Append(Tail(s), m)[Len(s)] = m
    BY <1>0, <2>1, <2>2, AppendProperties
  <2>5. WITNESS 1 \in 0 .. 1
  <2> QED
    BY <1>0, <2>1, <2>2, <2>3, <2>4
<1> QED
  BY <1>1, <1>2

\* A reader never holds more than Depth samples.
LEMMA KeepLastBounded ==
  ASSUME NEW S, NEW s \in Seq(S), NEW m \in S, Len(s) <= Depth
  PROVE  Len(KeepLast(s, m)) <= Depth
<1>0. Len(s) \in Nat /\ Depth \in Nat \ {0}
  BY LenProperties, ReaderAssumption
<1>1. CASE Len(s) < Depth
  BY <1>0, <1>1, AppendProperties DEF KeepLast
<1>2. CASE ~(Len(s) < Depth)
  <2>1. s # <<>> /\ Len(s) > 0
    BY <1>0, <1>2, EmptySeq
  <2>2. Tail(s) \in Seq(S) /\ Len(Tail(s)) = Len(s) - 1
    BY <2>1, HeadTailProperties
  <2> QED
    BY <1>0, <1>2, <2>2, AppendProperties DEF KeepLast
<1> QED
  BY <1>1, <1>2

\* A take that may return as many samples as there are leaves none.
LEMMA LeftEmpty ==
  ASSUME NEW S, NEW s \in Seq(S), Len(s) <= TakeMax
  PROVE  Len(Left(s)) = 0
<1>0. Len(s) \in Nat /\ TakeMax \in Nat \ {0}
  BY LenProperties, ReaderAssumption
<1>1. Least(TakeMax, Len(s)) = Len(s)
  BY <1>0 DEF Least
<1>2. Left(s) = SubSeq(s, Len(s) + 1, Len(s))
  BY <1>1 DEF Left
<1> QED
  BY <1>0, <1>2, SubSeqProperties

=============================================================================
