--------------------------- MODULE ContinuousProofs ---------------------------
(* Theorems about Continuous, for any publishers, subscribers and reader. *)
EXTENDS Continuous, DataReaderProofs, FiniteSetTheorems

-----------------------------------------------------------------------------
(* Type correctness. *)

\* Every variable starts with a value of its type.
LEMMA InitTypeOK == Init => TypeOK
BY ContinuousBounds DEF Init, TypeOK

\* No step of a publisher, a listener or the network leaves the types.
LEMMA StepTypeOK == TypeOK /\ [Next]_vars => TypeOK'
<1> SUFFICES ASSUME TypeOK, [Next]_vars PROVE TypeOK'
  OBVIOUS
<1> USE DEF TypeOK
<1>1. ASSUME NEW s \in Subscribers, Join(s) PROVE TypeOK'
  BY <1>1 DEF Join
<1>2. ASSUME NEW s \in Subscribers, Take(s) PROVE TypeOK'
  <2>1. Taken(cache[s]) \in Seq(Samples) /\ Left(cache[s]) \in Seq(Samples)
    BY TakenType
  <2>2. mail[s] - 1 \in Nat
    BY <1>2 DEF Take, MayTake
  <2> QED
    BY <1>2, <2>1, <2>2 DEF Take
<1>3. ASSUME NEW s \in Subscribers, Callback(s) PROVE TypeOK'
  <2>1. Head(batch[s]) \in Samples /\ Tail(batch[s]) \in Seq(Samples)
    BY <1>3, HeadTailProperties DEF Callback
  <2>2. Append(called[s], Head(batch[s])) \in Seq(Samples)
    BY <2>1, AppendProperties
  <2> QED
    BY <1>3, <2>1, <2>2 DEF Callback, Rest
<1>4. ASSUME NEW p \in Publishers, Publish(p) PROVE TypeOK'
  <2> DEFINE m == [by |-> p, seq |-> published[p] + 1]
  <2>1. published[p] + 1 \in 1 .. MaxSamples
    BY <1>4, ContinuousBounds DEF Publish
  <2>2. m \in Samples
    BY <2>1 DEF Samples
  <2> HIDE DEF m
  <2>3. \A s \in Subscribers : Append(wire[p][s], m) \in Seq(Samples)
    BY <2>2, AppendProperties
  <2>4. wire' = [wire EXCEPT ![p] =
                  [s \in Subscribers |-> IF joined[s] THEN Append(@[s], m) ELSE @[s]]]
    BY <1>4 DEF Publish, m
  <2>5. wire' \in [Publishers -> [Subscribers -> Seq(Samples)]]
    BY <2>3, <2>4
  <2>6. missed' \subseteq Subscribers \X Samples
    BY <1>4, <2>2 DEF Publish, m
  <2>7. published' \in [Publishers -> 0 .. MaxSamples]
    BY <1>4, <2>1 DEF Publish
  <2> QED
    BY <1>4, <2>5, <2>6, <2>7 DEF Publish
<1>5. ASSUME NEW p \in Publishers, PublishPanics(p) PROVE TypeOK'
  BY <1>5 DEF PublishPanics
<1>6. ASSUME NEW p \in Publishers, NEW s \in Subscribers, Deliver(p, s) PROVE TypeOK'
  <2>1. Head(wire[p][s]) \in Samples /\ Tail(wire[p][s]) \in Seq(Samples)
    BY <1>6, HeadTailProperties DEF Deliver
  <2>2. KeepLast(cache[s], Head(wire[p][s])) \in Seq(Samples)
    BY <2>1, KeepLastType
  <2> QED
    BY <1>6, <2>1, <2>2 DEF Deliver, Notifies
<1>7. ASSUME NEW p \in Publishers, NEW s \in Subscribers, Lose(p, s) PROVE TypeOK'
  <2>1. Head(wire[p][s]) \in Samples /\ Tail(wire[p][s]) \in Seq(Samples)
    BY <1>7, HeadTailProperties DEF Lose
  <2> QED
    BY <1>7, <2>1 DEF Lose
<1>8. CASE UNCHANGED vars
  BY <1>8 DEF vars
<1> QED
  BY <1>1, <1>2, <1>3, <1>4, <1>5, <1>6, <1>7, <1>8 DEF Next

\* What is published, on the wires and in the readers always has its type.
THEOREM StreamTypes == Spec => []TypeOK
BY InitTypeOK, StepTypeOK, PTL DEF Spec

-----------------------------------------------------------------------------
(* No sample is left in a reader without a notification. *)

\* Storing a sample adds a notification and at most one sample; a take uses
\* up one notification and leaves fewer samples, if there were any.
LEMMA StepEnoughMail == TypeOK /\ EnoughMail /\ [Next]_vars => EnoughMail'
<1> SUFFICES ASSUME TypeOK, EnoughMail, [Next]_vars PROVE EnoughMail'
  OBVIOUS
<1> USE DEF EnoughMail
<1>0. \A s \in Subscribers : cache[s] \in Seq(Samples) /\ Len(cache[s]) \in Nat /\ mail[s] \in Nat
  BY LenProperties DEF TypeOK
<1>1. ASSUME NEW s \in Subscribers, Take(s) PROVE EnoughMail'
  <2>1. PICK n \in 0 .. Len(cache[s]) :
          (cache[s] # <<>> => n > 0) /\ Len(Left(cache[s])) = Len(cache[s]) - n
    BY <1>0, TakenSplits
  <2>2. Len(Left(cache[s])) <= mail[s] - 1
    <3>1. CASE cache[s] = <<>>
      BY <1>0, <1>1, <2>1, <3>1, EmptySeq DEF Take, MayTake
    <3>2. CASE cache[s] # <<>>
      BY <1>0, <1>1, <2>1, <3>2 DEF Take, MayTake
    <3> QED
      BY <3>1, <3>2
  <2> QED
    BY <1>1, <2>2 DEF Take, TypeOK
<1>2. ASSUME NEW p \in Publishers, NEW s \in Subscribers, Deliver(p, s) PROVE EnoughMail'
  <2>1. Head(wire[p][s]) \in Samples
    BY <1>2, HeadTailProperties DEF Deliver, TypeOK
  <2>2. Len(KeepLast(cache[s], Head(wire[p][s]))) <= mail[s] + 1
    BY <1>0, <2>1, KeepLastAppends
  <2> QED
    BY <1>2, <2>2 DEF Deliver, Notifies, TypeOK
<1>3. ASSUME UNCHANGED <<cache, mail>> PROVE EnoughMail'
  BY <1>3
<1> QED
  BY <1>1, <1>2, <1>3 DEF Next, Join, Callback, Publish, PublishPanics, Lose, vars

\* A sample that a reader holds has a notification, so it will be taken.
THEOREM SamplesAreNoticed == Spec => []NoStrandedSample
<1>1. Init => EnoughMail
  BY EmptySeq DEF Init, EnoughMail
<1>2. TypeOK /\ EnoughMail => NoStrandedSample
  <2> SUFFICES ASSUME TypeOK, EnoughMail, NEW s \in Subscribers, cache[s] # <<>>
               PROVE  mail[s] > 0
    BY DEF NoStrandedSample
  <2>1. Len(cache[s]) \in Nat /\ Len(cache[s]) # 0
    BY EmptySeq, LenProperties DEF TypeOK
  <2> QED
    BY <2>1 DEF EnoughMail, TypeOK
<1> QED
  BY <1>1, <1>2, StepEnoughMail, StreamTypes, PTL DEF Spec

-----------------------------------------------------------------------------
(* Samples reach the callback in the order of their publication.  The first *)
(* lemmas are about the values of one subscriber; see InOrder.              *)

\* r is a stretch of q, from index d + 1 on.
Stretch(r, q, d) ==
  /\ Len(r) \in Nat /\ Len(q) \in Nat /\ d \in Nat
  /\ \A i \in 1 .. Len(r) : d + i \in 1 .. Len(q) /\ r[i] = q[d + i]

\* A stretch of samples in order is in order, before and after all they were.
LEMMA StretchInOrder ==
  ASSUME NEW q, NEW r, NEW d, Stretch(r, q, d)
  PROVE  /\ Ascending(q) => Ascending(r)
         /\ \A x : Precedes(q, x) => Precedes(r, x)
         /\ \A x : Precedes(x, q) => Precedes(x, r)
<1>1. Ascending(q) => Ascending(r)
  BY DEF Ascending, Stretch
<1>2. ASSUME NEW x, Precedes(q, x) PROVE Precedes(r, x)
  BY <1>2 DEF Precedes, Stretch
<1>3. ASSUME NEW x, Precedes(x, q) PROVE Precedes(x, r)
  BY <1>3 DEF Precedes, Stretch
<1> QED
  BY <1>1, <1>2, <1>3

\* A stretch of what has arrived has arrived.
LEMMA StretchArrived ==
  ASSUME NEW q, NEW r, NEW d, Stretch(r, q, d), NEW wires, NEW count, Arrived(q, wires, count)
  PROVE  Arrived(r, wires, count)
<1>1. Ascending(r) /\ \A p \in Publishers : Precedes(r, wires[p])
  BY StretchInOrder DEF Arrived
<1>2. \A i \in 1 .. Len(r) : r[i].seq <= count[r[i].by]
  BY DEF Arrived, Stretch
<1> QED
  BY <1>1, <1>2 DEF Arrived

\* r is q and one more sample m.
Extends(r, q, m) ==
  /\ Len(q) \in Nat /\ Len(r) = Len(q) + 1
  /\ \A i \in 1 .. Len(q) : r[i] = q[i]
  /\ r[Len(r)] = m

\* A newer sample after samples in order keeps the order, on both sides.
LEMMA ExtendsInOrder ==
  ASSUME NEW q, NEW r, NEW m, Extends(r, q, m)
  PROVE  /\ Ascending(q) /\ (\A i \in 1 .. Len(q) : Older(q[i], m)) => Ascending(r)
         /\ \A x : /\ Precedes(q, x)
                   /\ \A j \in 1 .. Len(x) : Older(m, x[j])
                   => Precedes(r, x)
         /\ \A x : /\ Precedes(x, q)
                   /\ \A j \in 1 .. Len(x) : Older(x[j], m)
                   => Precedes(x, r)
<1>0. \A i \in 1 .. Len(r) : (i \in 1 .. Len(q) /\ r[i] = q[i]) \/ (i = Len(q) + 1 /\ r[i] = m)
  BY DEF Extends
<1>1. ASSUME Ascending(q), \A i \in 1 .. Len(q) : Older(q[i], m) PROVE Ascending(r)
  <2> SUFFICES ASSUME NEW i \in 1 .. Len(r), NEW j \in 1 .. Len(r), i < j
               PROVE  Older(r[i], r[j])
    BY DEF Ascending
  <2>1. i \in 1 .. Len(q) /\ r[i] = q[i]
    BY DEF Extends
  <2> QED
    BY <1>0, <1>1, <2>1 DEF Ascending
<1>2. ASSUME NEW x, Precedes(q, x), \A j \in 1 .. Len(x) : Older(m, x[j]) PROVE Precedes(r, x)
  BY <1>0, <1>2 DEF Precedes
<1>3. ASSUME NEW x, Precedes(x, q), \A j \in 1 .. Len(x) : Older(x[j], m) PROVE Precedes(x, r)
  BY <1>0, <1>3 DEF Precedes
<1> QED
  BY <1>1, <1>2, <1>3

\* Take: the oldest samples of the cache become the batch, which was empty.
LEMMA TakeInOrder ==
  ASSUME NEW done, NEW held \in Seq(Samples), NEW wires, NEW count,
         InOrder(done, <<>>, held, wires, count)
  PROVE  InOrder(done, Taken(held), Left(held), wires, count)
<1>1. PICK n \in 0 .. Len(held) :
        /\ Len(Taken(held)) = n /\ Len(Left(held)) = Len(held) - n
        /\ \A i \in 1 .. n : Taken(held)[i] = held[i]
        /\ \A i \in 1 .. (Len(held) - n) : Left(held)[i] = held[n + i]
  BY TakenSplits
<1>2. Len(held) \in Nat
  BY LenProperties
<1>3. Stretch(Taken(held), held, 0) /\ Stretch(Left(held), held, n)
  BY <1>1, <1>2 DEF Stretch
<1>4. Arrived(Taken(held), wires, count) /\ Arrived(Left(held), wires, count)
  BY <1>3, StretchArrived DEF InOrder
<1>5. Precedes(done, Taken(held)) /\ Precedes(done, Left(held))
  BY <1>3, StretchInOrder DEF InOrder
<1>6. Precedes(Taken(held), Left(held))
  <2>1. \A i \in 1 .. n : \A j \in 1 .. (Len(held) - n) : Older(held[i], held[n + j])
    BY <1>2 DEF InOrder, Arrived, Ascending
  <2> QED
    BY <1>1, <2>1 DEF Precedes
<1> QED
  BY <1>4, <1>5, <1>6 DEF InOrder

\* Callback: the head of the batch is what the callback is called with.
LEMMA CallbackInOrder ==
  ASSUME NEW done \in Seq(Samples), NEW taken \in Seq(Samples), NEW held, NEW wires, NEW count,
         taken # <<>>, InOrder(done, taken, held, wires, count)
  PROVE  InOrder(Append(done, Head(taken)), Tail(taken), held, wires, count)
<1> DEFINE m    == Head(taken)
           done2 == Append(done, m)
<1>1. /\ Len(taken) \in Nat \ {0} /\ m = taken[1] /\ m \in Samples
      /\ Stretch(Tail(taken), taken, 1)
  <2>1. Len(taken) \in Nat /\ Len(taken) # 0
    BY LenProperties, EmptySeq
  <2> QED
    BY <2>1, HeadTailProperties DEF Stretch
<1>2. Extends(done2, done, m)
  BY <1>1, AppendProperties, LenProperties DEF Extends
<1>3. /\ \A i \in 1 .. Len(done) : Older(done[i], m)
      /\ \A j \in 1 .. Len(held) : Older(m, held[j])
      /\ \A p \in Publishers : \A j \in 1 .. Len(wires[p]) : Older(m, wires[p][j])
      /\ m.seq <= count[m.by]
  BY <1>1 DEF InOrder, Arrived, Precedes
<1>4. \A j \in 1 .. Len(Tail(taken)) : Older(m, Tail(taken)[j])
  <2>1. \A j \in 1 .. Len(Tail(taken)) : 1 + j \in 1 .. Len(taken) /\ Tail(taken)[j] = taken[1 + j]
    BY <1>1 DEF Stretch
  <2> QED
    BY <1>1, <2>1 DEF InOrder, Arrived, Ascending
<1>5. Arrived(Tail(taken), wires, count)
  BY <1>1, StretchArrived DEF InOrder
<1>6. Precedes(done, Tail(taken)) /\ Precedes(Tail(taken), held)
  BY <1>1, StretchInOrder DEF InOrder
<1> HIDE DEF m, done2
<1>7. Ascending(done2)
  BY <1>2, <1>3, ExtendsInOrder DEF InOrder, Arrived
<1>8. \A p \in Publishers : Precedes(done2, wires[p])
  BY <1>2, <1>3, ExtendsInOrder DEF InOrder, Arrived
<1>9. Precedes(done2, Tail(taken)) /\ Precedes(done2, held)
  <2>1. ASSUME NEW x, Precedes(done, x), \A j \in 1 .. Len(x) : Older(m, x[j])
        PROVE  Precedes(done2, x)
    BY <1>2, <2>1, ExtendsInOrder
  <2>2. Precedes(done2, Tail(taken))
    BY <1>4, <1>6, <2>1
  <2>3. Precedes(done2, held)
    BY <1>3, <2>1 DEF InOrder
  <2> QED
    BY <2>2, <2>3
<1>10. \A i \in 1 .. Len(done2) : done2[i].seq <= count[done2[i].by]
  BY <1>2, <1>3 DEF InOrder, Arrived, Extends
<1>11. Arrived(done2, wires, count)
  BY <1>7, <1>8, <1>10 DEF Arrived
<1> QED
  BY <1>5, <1>6, <1>9, <1>11 DEF InOrder, m, done2

\* The wires after the first sample of p's wire has left it.
Shorter(wires2, wires, p) ==
  /\ \E d \in Nat : Stretch(wires2[p], wires[p], d)
  /\ \A x \in Publishers : x # p => wires2[x] = wires[x]

\* A sample that leaves a wire leaves the others in order.
LEMMA LoseInOrder ==
  ASSUME NEW done, NEW taken, NEW held, NEW wires, NEW wires2, NEW count, NEW p \in Publishers,
         InOrder(done, taken, held, wires, count), Shorter(wires2, wires, p)
  PROVE  InOrder(done, taken, held, wires2, count)
<1>1. PICK d \in Nat : Stretch(wires2[p], wires[p], d)
  BY DEF Shorter
<1>2. ASSUME NEW q, Arrived(q, wires, count) PROVE Arrived(q, wires2, count)
  <2>1. \A x \in Publishers : Precedes(q, wires2[x])
    BY <1>1, <1>2, StretchInOrder DEF Arrived, Shorter
  <2> QED
    BY <1>2, <2>1 DEF Arrived
<1>3. ASSUME NEW x \in Publishers PROVE OnWire(x, wires2, count)
  <2>1. CASE x = p
    <3>1. Ascending(wires2[p])
      BY <1>1, StretchInOrder DEF InOrder, OnWire
    <3>2. \A i \in 1 .. Len(wires2[p]) :
            wires2[p][i].by = p /\ wires2[p][i].seq <= count[p]
      BY <1>1 DEF InOrder, OnWire, Stretch
    <3> QED
      BY <2>1, <3>1, <3>2 DEF OnWire
  <2>2. CASE x # p
    BY <2>2 DEF InOrder, OnWire, Shorter
  <2> QED
    BY <2>1, <2>2
<1> QED
  BY <1>2, <1>3 DEF InOrder

\* Deliver: the head of a wire is stored in the cache.
LEMMA DeliverInOrder ==
  ASSUME NEW done, NEW taken, NEW held \in Seq(Samples), NEW wires, NEW wires2, NEW count,
         NEW p \in Publishers, InOrder(done, taken, held, wires, count),
         wires[p] \in Seq(Samples), wires[p] # <<>>,
         wires2[p] = Tail(wires[p]), \A x \in Publishers : x # p => wires2[x] = wires[x]
  PROVE  InOrder(done, taken, KeepLast(held, Head(wires[p])), wires2, count)
<1> DEFINE m == Head(wires[p])
           kept == KeepLast(held, m)
<1>1. /\ Len(wires[p]) \in Nat \ {0} /\ m = wires[p][1] /\ m \in Samples
      /\ Stretch(wires2[p], wires[p], 1)
  <2>1. Len(wires[p]) \in Nat /\ Len(wires[p]) # 0
    BY LenProperties, EmptySeq
  <2> QED
    BY <2>1, HeadTailProperties DEF Stretch
<1>2. InOrder(done, taken, held, wires2, count)
  BY <1>1, LoseInOrder DEF Shorter
<1>3. PICK n \in 0 .. 1 :
        /\ n <= Len(held)
        /\ Len(kept) = Len(held) - n + 1
        /\ \A i \in 1 .. (Len(held) - n) : kept[i] = held[n + i]
        /\ kept[Len(held) - n + 1] = m
  BY <1>1, KeepLastAppends
<1>4. /\ m.by = p /\ m.seq <= count[p]
      /\ \A i \in 1 .. Len(held) : Older(held[i], m)
      /\ \A i \in 1 .. Len(done) : Older(done[i], m)
      /\ \A i \in 1 .. Len(taken) : Older(taken[i], m)
  BY <1>1 DEF InOrder, Arrived, OnWire, Precedes
<1>5. ASSUME NEW x \in Publishers, NEW j \in 1 .. Len(wires2[x]) PROVE Older(m, wires2[x][j])
  <2>1. CASE x = p
    <3>1. 1 + j \in 1 .. Len(wires[p]) /\ wires2[p][j] = wires[p][1 + j]
      BY <1>1, <1>5, <2>1 DEF Stretch
    <3>2. j \in Nat /\ j > 0
      BY <1>1, <1>5, <2>1 DEF Stretch
    <3>3. Older(wires[p][1], wires[p][1 + j])
      BY <1>1, <3>1, <3>2 DEF InOrder, OnWire, Ascending
    <3> QED
      BY <1>1, <2>1, <3>1, <3>3
  <2>2. CASE x # p
    BY <1>2, <1>4, <1>5, <2>2 DEF InOrder, OnWire, Older
  <2> QED
    BY <2>1, <2>2
<1>6. Len(held) \in Nat
  BY LenProperties
<1> HIDE DEF m, kept
<1>7. \A i \in 1 .. Len(kept) :
        \/ i \in 1 .. (Len(held) - n) /\ n + i \in 1 .. Len(held) /\ kept[i] = held[n + i]
        \/ i = Len(held) - n + 1 /\ kept[i] = m
  BY <1>3, <1>6
<1>8. Ascending(kept)
  <2> SUFFICES ASSUME NEW i \in 1 .. Len(kept), NEW j \in 1 .. Len(kept), i < j
               PROVE  Older(kept[i], kept[j])
    BY DEF Ascending
  <2>1. n + i \in 1 .. Len(held) /\ kept[i] = held[n + i]
    BY <1>3, <1>6, <1>7
  <2>2. CASE kept[j] = m
    BY <1>4, <2>1, <2>2
  <2>3. CASE n + j \in 1 .. Len(held) /\ kept[j] = held[n + j]
    BY <1>2, <2>1, <2>3 DEF InOrder, Arrived, Ascending
  <2> QED
    BY <1>7, <2>2, <2>3
<1>9. \A i \in 1 .. Len(kept) : kept[i].seq <= count[kept[i].by]
  BY <1>2, <1>4, <1>7 DEF InOrder, Arrived
<1>10. \A x \in Publishers : Precedes(kept, wires2[x])
  BY <1>2, <1>5, <1>7 DEF InOrder, Arrived, Precedes
<1>11. Precedes(done, kept) /\ Precedes(taken, kept)
  BY <1>2, <1>4, <1>7 DEF InOrder, Precedes
<1> QED
  BY <1>2, <1>8, <1>9, <1>10, <1>11 DEF InOrder, Arrived, kept, m

\* Publisher p publishes its next sample, and it goes on the wire or not.
Published(p, wires, wires2, count, count2) ==
  /\ \A x \in Publishers : count[x] \in Nat /\ wires[x] \in Seq(Samples)
  /\ \A x \in Publishers : count2[x] = IF x = p THEN count[x] + 1 ELSE count[x]
  /\ \A x \in Publishers : x # p => wires2[x] = wires[x]
  /\ \/ wires2[p] = wires[p]
     \/ Extends(wires2[p], wires[p], [by |-> p, seq |-> count[p] + 1])

\* Publish: the next sample of p goes on its wire, if the subscriber is there.
LEMMA PublishInOrder ==
  ASSUME NEW done \in Seq(Samples), NEW taken \in Seq(Samples), NEW held \in Seq(Samples),
         NEW wires, NEW wires2, NEW count, NEW count2, NEW p \in Publishers,
         InOrder(done, taken, held, wires, count), Published(p, wires, wires2, count, count2)
  PROVE  InOrder(done, taken, held, wires2, count2)
<1> DEFINE m == [by |-> p, seq |-> count[p] + 1]
<1>0. /\ \A x \in Publishers : count[x] \in Nat /\ wires[x] \in Seq(Samples)
      /\ \A x \in Publishers : count2[x] = IF x = p THEN count[x] + 1 ELSE count[x]
      /\ \A x \in Publishers : x # p => wires2[x] = wires[x]
      /\ wires2[p] = wires[p] \/ Extends(wires2[p], wires[p], m)
      /\ m.by = p /\ m.seq = count[p] + 1
  BY DEF Published
<1> HIDE DEF m
<1>1. ASSUME NEW q \in Seq(Samples), Arrived(q, wires, count) PROVE Arrived(q, wires2, count2)
  <2>1. \A i \in 1 .. Len(q) : q[i].by \in Publishers /\ q[i].seq \in Int
    <3>1. \A i \in 1 .. Len(q) : q[i] \in Samples
      BY ElementOfSeq
    <3> QED
      BY <3>1 DEF Samples
  <2>2. \A i \in 1 .. Len(q) : q[i].seq <= count2[q[i].by]
    BY <1>0, <1>1, <2>1 DEF Arrived
  <2>3. \A i \in 1 .. Len(q) : Older(q[i], m)
    BY <1>0, <1>1, <2>1 DEF Arrived, Older
  <2>4. Precedes(q, wires[p])
    BY <1>1 DEF Arrived
  <2>5. CASE wires2[p] = wires[p]
    BY <1>0, <1>1, <2>2, <2>5 DEF Arrived
  <2>6. CASE Extends(wires2[p], wires[p], m)
    <3>1. Precedes(q, wires2[p])
      BY <2>3, <2>4, <2>6, ExtendsInOrder
    <3> QED
      BY <1>0, <1>1, <2>2, <3>1 DEF Arrived
  <2> QED
    BY <1>0, <2>5, <2>6
<1>2. ASSUME NEW x \in Publishers PROVE OnWire(x, wires2, count2)
  <2>0. \A i \in 1 .. Len(wires[x]) : wires[x][i].seq \in Int
    <3>1. \A i \in 1 .. Len(wires[x]) : wires[x][i] \in Samples
      BY <1>0, ElementOfSeq
    <3> QED
      BY <3>1 DEF Samples
  <2>1. CASE wires2[x] = wires[x]
    <3>1. Ascending(wires[x]) /\ \A i \in 1 .. Len(wires[x]) :
            wires[x][i].by = x /\ wires[x][i].seq <= count[x]
      BY DEF InOrder, OnWire
    <3>2. count[x] \in Nat /\ count2[x] \in Nat /\ count[x] <= count2[x]
      BY <1>0
    <3>3. \A i \in 1 .. Len(wires[x]) : wires[x][i].seq <= count2[x]
      BY <2>0, <3>1, <3>2
    <3> QED
      BY <2>1, <3>1, <3>3 DEF OnWire
  <2>2. CASE x = p /\ Extends(wires2[p], wires[p], m)
    <3>1. \A i \in 1 .. Len(wires[p]) : Older(wires[p][i], m)
      BY <1>0, <2>0, <2>2 DEF InOrder, OnWire, Older
    <3>2. Ascending(wires2[p])
      BY <2>2, <3>1, ExtendsInOrder DEF InOrder, OnWire
    <3>3. \A i \in 1 .. Len(wires2[p]) :
            wires2[p][i].by = p /\ wires2[p][i].seq <= count2[p]
      <4>1. \A i \in 1 .. Len(wires2[p]) :
              (i \in 1 .. Len(wires[p]) /\ wires2[p][i] = wires[p][i]) \/ wires2[p][i] = m
        BY <2>2 DEF Extends
      <4>2. m.by = p /\ m.seq <= count2[p] /\ count2[p] = count[p] + 1 /\ count[p] \in Nat
        BY <1>0
      <4>3. \A i \in 1 .. Len(wires[p]) :
              wires[p][i].by = p /\ wires[p][i].seq <= count2[p]
        BY <1>0, <2>0, <2>2, <4>2 DEF InOrder, OnWire
      <4> QED
        BY <4>1, <4>2, <4>3
    <3> QED
      BY <2>2, <3>2, <3>3 DEF OnWire
  <2> QED
    BY <1>0, <2>1, <2>2
<1> QED
  BY <1>1, <1>2 DEF InOrder

\* The wires to one subscriber.
WiresTo(s) == [p \in Publishers |-> wire[p][s]]

\* Empty sequences are in order.
LEMMA InitStreamsInOrder == Init => StreamsInOrder
<1> SUFFICES ASSUME Init, NEW s \in Subscribers
             PROVE  InOrder(called[s], batch[s], cache[s], WiresTo(s), published)
  BY DEF StreamsInOrder, WiresTo
<1>1. /\ called[s] = <<>> /\ batch[s] = <<>> /\ cache[s] = <<>>
      /\ \A p \in Publishers : WiresTo(s)[p] = <<>>
  BY DEF Init, WiresTo
<1> QED
  BY <1>1, EmptySeq DEF InOrder, Arrived, OnWire, Ascending, Precedes

\* Every step keeps the samples of every subscriber in order.
LEMMA StepStreamsInOrder == TypeOK /\ StreamsInOrder /\ [Next]_vars => StreamsInOrder'
<1> SUFFICES ASSUME TypeOK, StreamsInOrder, [Next]_vars, NEW s \in Subscribers
             PROVE  InOrder(called'[s], batch'[s], cache'[s], WiresTo(s)', published')
  BY DEF StreamsInOrder, WiresTo
<1>0. /\ InOrder(called[s], batch[s], cache[s], WiresTo(s), published)
      /\ called[s] \in Seq(Samples) /\ batch[s] \in Seq(Samples) /\ cache[s] \in Seq(Samples)
      /\ \A p \in Publishers : WiresTo(s)[p] = wire[p][s] /\ WiresTo(s)[p] \in Seq(Samples)
      /\ \A p \in Publishers : WiresTo(s)'[p] = wire'[p][s]
  BY DEF StreamsInOrder, WiresTo, TypeOK
<1>1. ASSUME called'[s] = called[s], batch'[s] = batch[s], cache'[s] = cache[s],
             \A p \in Publishers : wire'[p][s] = wire[p][s], published' = published
      PROVE  InOrder(called'[s], batch'[s], cache'[s], WiresTo(s)', published')
  BY <1>0, <1>1 DEF WiresTo
<1>2. ASSUME NEW t \in Subscribers, Take(t)
      PROVE  InOrder(called'[s], batch'[s], cache'[s], WiresTo(s)', published')
  <2>1. called' = called /\ wire' = wire /\ published' = published
    BY <1>2 DEF Take
  <2>2. CASE t = s
    <3>1. batch[s] = <<>> /\ batch'[s] = Taken(cache[s]) /\ cache'[s] = Left(cache[s])
      BY <1>2, <2>2 DEF Take, MayTake, TypeOK
    <3>2. InOrder(called[s], Taken(cache[s]), Left(cache[s]), WiresTo(s), published)
      BY <1>0, <3>1, TakeInOrder
    <3> QED
      BY <2>1, <3>1, <3>2 DEF WiresTo
  <2>3. CASE t # s
    BY <1>1, <1>2, <2>1, <2>3 DEF Take, TypeOK
  <2> QED
    BY <2>2, <2>3
<1>3. ASSUME NEW t \in Subscribers, Callback(t)
      PROVE  InOrder(called'[s], batch'[s], cache'[s], WiresTo(s)', published')
  <2>1. cache' = cache /\ wire' = wire /\ published' = published
    BY <1>3 DEF Callback
  <2>2. CASE t = s
    <3>1. /\ batch[s] # <<>> /\ batch'[s] = Tail(batch[s])
          /\ called'[s] = Append(called[s], Head(batch[s]))
      BY <1>3, <2>2 DEF Callback, Rest, TypeOK
    <3>2. InOrder(Append(called[s], Head(batch[s])), Tail(batch[s]), cache[s],
                  WiresTo(s), published)
      BY <1>0, <3>1, CallbackInOrder
    <3> QED
      BY <2>1, <3>1, <3>2 DEF WiresTo
  <2>3. CASE t # s
    BY <1>1, <1>3, <2>1, <2>3 DEF Callback, TypeOK
  <2> QED
    BY <2>2, <2>3
<1>4. ASSUME NEW p \in Publishers, NEW t \in Subscribers, Deliver(p, t)
      PROVE  InOrder(called'[s], batch'[s], cache'[s], WiresTo(s)', published')
  <2>1. called' = called /\ batch' = batch /\ published' = published
    BY <1>4 DEF Deliver
  <2>2. CASE t = s
    <3>1. /\ wire[p][s] # <<>> /\ wire'[p][s] = Tail(wire[p][s])
          /\ \A x \in Publishers : x # p => wire'[x][s] = wire[x][s]
          /\ cache'[s] = KeepLast(cache[s], Head(wire[p][s]))
      BY <1>4, <2>2 DEF Deliver, TypeOK
    <3>2. InOrder(called[s], batch[s], KeepLast(cache[s], Head(WiresTo(s)[p])),
                  WiresTo(s)', published)
      BY <1>0, <3>1, DeliverInOrder
    <3> QED
      BY <1>0, <2>1, <3>1, <3>2
  <2>3. CASE t # s
    BY <1>1, <1>4, <2>1, <2>3 DEF Deliver, TypeOK
  <2> QED
    BY <2>2, <2>3
<1>5. ASSUME NEW p \in Publishers, NEW t \in Subscribers, Lose(p, t)
      PROVE  InOrder(called'[s], batch'[s], cache'[s], WiresTo(s)', published')
  <2>1. called' = called /\ batch' = batch /\ cache' = cache /\ published' = published
    BY <1>5 DEF Lose
  <2>2. CASE t = s
    <3>1. /\ wire[p][s] # <<>> /\ wire'[p][s] = Tail(wire[p][s])
          /\ \A x \in Publishers : x # p => wire'[x][s] = wire[x][s]
      BY <1>5, <2>2 DEF Lose, TypeOK
    <3>2. Stretch(WiresTo(s)'[p], WiresTo(s)[p], 1)
      <4>1. wire[p][s] \in Seq(Samples)
        BY DEF TypeOK
      <4>2. /\ Len(wire[p][s]) \in Nat /\ Len(wire[p][s]) # 0
            /\ Len(Tail(wire[p][s])) = Len(wire[p][s]) - 1
            /\ \A i \in 1 .. Len(Tail(wire[p][s])) : Tail(wire[p][s])[i] = wire[p][s][i + 1]
        BY <3>1, <4>1, LenProperties, EmptySeq, HeadTailProperties
      <4>3. Stretch(Tail(wire[p][s]), wire[p][s], 1)
        BY <4>2 DEF Stretch
      <4> QED
        BY <1>0, <3>1, <4>3
    <3>3. Shorter(WiresTo(s)', WiresTo(s), p)
      BY <1>0, <3>1, <3>2 DEF Shorter
    <3> QED
      BY <1>0, <2>1, <3>3, LoseInOrder
  <2>3. CASE t # s
    BY <1>1, <1>5, <2>1, <2>3 DEF Lose, TypeOK
  <2> QED
    BY <2>2, <2>3
<1>6. ASSUME NEW p \in Publishers, Publish(p)
      PROVE  InOrder(called'[s], batch'[s], cache'[s], WiresTo(s)', published')
  <2> DEFINE m == [by |-> p, seq |-> published[p] + 1]
  <2>1. called' = called /\ batch' = batch /\ cache' = cache
    BY <1>6 DEF Publish
  <2>2. /\ wire'[p][s] = IF joined[s] THEN Append(wire[p][s], m) ELSE wire[p][s]
        /\ \A x \in Publishers : x # p => wire'[x][s] = wire[x][s]
    BY <1>6 DEF Publish, TypeOK
  <2>3. /\ \A x \in Publishers : published[x] \in Nat
        /\ \A x \in Publishers : published'[x] = IF x = p THEN published[x] + 1 ELSE published[x]
    BY <1>6, ContinuousBounds DEF Publish, TypeOK
  <2>4. m \in Samples
    BY <1>6, ContinuousBounds DEF Publish, Samples, TypeOK
  <2>5. Extends(Append(wire[p][s], m), wire[p][s], m)
    <3>1. wire[p][s] \in Seq(Samples)
      BY <1>0
    <3> HIDE DEF m
    <3> QED
      BY <2>4, <3>1, AppendProperties, LenProperties DEF Extends
  <2>6. /\ \A x \in Publishers : x # p => WiresTo(s)'[x] = WiresTo(s)[x]
        /\ WiresTo(s)'[p] = WiresTo(s)[p] \/ Extends(WiresTo(s)'[p], WiresTo(s)[p], m)
    <3>1. WiresTo(s)'[p] = wire'[p][s] /\ WiresTo(s)[p] = wire[p][s]
      BY <1>0
    <3>2. \A x \in Publishers : x # p => WiresTo(s)'[x] = WiresTo(s)[x]
      BY <1>0, <2>2
    <3> HIDE DEF m
    <3>3. CASE joined[s]
      BY <2>2, <2>5, <3>1, <3>2, <3>3
    <3>4. CASE ~joined[s]
      BY <2>2, <3>1, <3>2, <3>4
    <3> QED
      BY <3>3, <3>4
  <2>7. InOrder(called[s], batch[s], cache[s], WiresTo(s)', published')
    <3>1. Published(p, WiresTo(s), WiresTo(s)', published, published')
      BY <1>0, <2>3, <2>6 DEF Published
    <3> QED
      BY <1>0, <3>1, PublishInOrder
  <2> QED
    BY <2>1, <2>7
<1>7. ASSUME UNCHANGED <<called, batch, cache, wire, published>>
      PROVE  InOrder(called'[s], batch'[s], cache'[s], WiresTo(s)', published')
  BY <1>1, <1>7
<1> QED
  BY <1>2, <1>3, <1>4, <1>5, <1>6, <1>7 DEF Next, Join, PublishPanics, vars

\* No callback sees a sample twice or an older one after a newer one of the
\* same publisher, for any number of both, whatever is lost on the way.
THEOREM CallbacksInOrder == Spec => []CalledInOrder
<1>1. StreamsInOrder => CalledInOrder
  BY DEF StreamsInOrder, InOrder, Arrived, CalledInOrder
<1> QED
  BY <1>1, InitStreamsInOrder, StepStreamsInOrder, StreamTypes, PTL DEF Spec

-----------------------------------------------------------------------------
(* A reader that has room for a whole stream drops none of it. *)

FewPublishers == IsFiniteSet(Publishers)

\* Only so many samples can be published.
LEMMA SamplesFinite == ASSUME FewPublishers PROVE IsFiniteSet(Samples)
<1> DEFINE P == Publishers \X (1 .. MaxSamples)
           f == [x \in P |-> [by |-> x[1], seq |-> x[2]]]
<1>1. IsFiniteSet(P)
  <2>1. IsFiniteSet(1 .. MaxSamples)
    BY FS_Interval, ContinuousBounds
  <2> QED
    BY <2>1, FS_Product DEF FewPublishers
<1>2. f \in Surjection(P, Samples)
  <2>1. f \in [P -> Samples]
    BY DEF Samples
  <2>2. ASSUME NEW m \in Samples PROVE \E x \in P : f[x] = m
    <3>1. <<m.by, m.seq>> \in P /\ f[<<m.by, m.seq>>] = m
      BY DEF Samples
    <3> QED
      BY <3>1
  <2> QED
    BY <2>1, <2>2 DEF Surjection
<1> QED
  BY <1>1, <1>2, FS_Surjection

\* A sample that is handed on is still where it was or where it goes.
LEMMA IsInAppend ==
  ASSUME NEW q \in Seq(Samples), NEW x \in Samples, NEW m
  PROVE  /\ IsIn(q, m) => IsIn(Append(q, x), m)
         /\ IsIn(Append(q, x), x)
<1>1. /\ Len(q) \in Nat /\ Len(Append(q, x)) = Len(q) + 1
      /\ \A i \in 1 .. Len(q) : Append(q, x)[i] = q[i]
      /\ Append(q, x)[Len(q) + 1] = x
  BY AppendProperties, LenProperties
<1>2. Len(q) + 1 \in 1 .. Len(Append(q, x)) /\ 1 .. Len(q) \subseteq 1 .. Len(Append(q, x))
  BY <1>1
<1> QED
  BY <1>1, <1>2 DEF IsIn

\* What is not the first of a sequence is in its tail.
LEMMA IsInTail ==
  ASSUME NEW q \in Seq(Samples), q # <<>>, NEW m, IsIn(q, m)
  PROVE  m = Head(q) \/ IsIn(Tail(q), m)
<1>1. /\ Len(q) \in Nat /\ Len(Tail(q)) = Len(q) - 1 /\ Head(q) = q[1]
      /\ \A i \in 1 .. Len(Tail(q)) : Tail(q)[i] = q[i + 1]
  BY HeadTailProperties, LenProperties
<1>2. PICK i \in 1 .. Len(q) : q[i] = m
  BY DEF IsIn
<1>3. i # 1 => i - 1 \in 1 .. Len(Tail(q)) /\ (i - 1) + 1 = i
  BY <1>1, <1>2
<1> QED
  BY <1>1, <1>2, <1>3 DEF IsIn

\* A take returns a sample or leaves it.
LEMMA IsInTaken ==
  ASSUME NEW q \in Seq(Samples), NEW m, IsIn(q, m)
  PROVE  IsIn(Taken(q), m) \/ IsIn(Left(q), m)
<1>1. PICK n \in 0 .. Len(q) :
        /\ Len(Taken(q)) = n /\ Len(Left(q)) = Len(q) - n
        /\ \A i \in 1 .. n : Taken(q)[i] = q[i]
        /\ \A i \in 1 .. (Len(q) - n) : Left(q)[i] = q[n + i]
  BY TakenSplits
<1>2. PICK i \in 1 .. Len(q) : q[i] = m
  BY DEF IsIn
<1>3. Len(q) \in Nat
  BY LenProperties
<1>4. CASE i <= n
  <2>1. i \in 1 .. n
    BY <1>3, <1>4
  <2> QED
    BY <1>1, <1>2, <2>1 DEF IsIn
<1>5. CASE i > n
  <2>1. i - n \in 1 .. (Len(q) - n) /\ n + (i - n) = i
    BY <1>3, <1>5
  <2> QED
    BY <1>1, <1>2, <2>1 DEF IsIn
<1> QED
  BY <1>4, <1>5, <1>3

\* A reader whose samples and the next one were all published, each once,
\* and that has room for all that was published, has room for the next one.
LEMMA RoomForNext ==
  ASSUME FewPublishers, NEW q \in Seq(Samples), NEW x \in Sent, Cardinality(Sent) <= Depth,
         \A i \in 1 .. Len(q) : q[i] \in Sent /\ q[i] # x,
         \A i, j \in 1 .. Len(q) : i # j => q[i] # q[j]
  PROVE  Len(q) < Depth
<1> DEFINE n == Len(q) + 1
           f == [i \in 1 .. n |-> IF i = n THEN x ELSE q[i]]
<1>1. Len(q) \in Nat /\ Depth \in Nat
  BY LenProperties, ReaderAssumption
<1>2. IsFiniteSet(Sent) /\ Cardinality(Sent) \in Nat
  BY SamplesFinite, FS_Subset, FS_CardinalityType DEF Sent
<1>3. \A i \in 1 .. n : i # n => i \in 1 .. Len(q)
  BY <1>1
<1>4. f \in [1 .. n -> Sent]
  BY <1>3
<1>5. \A i, j \in 1 .. n : f[i] = f[j] => i = j
  BY <1>3
<1>6. f \in Injection(1 .. n, Sent)
  BY <1>4, <1>5 DEF Injection, IsInjective
<1>7. Cardinality(1 .. n) = n
  BY <1>1, FS_Interval
<1>8. n <= Cardinality(Sent)
  BY <1>2, <1>6, <1>7, FS_Injection
<1> QED
  BY <1>1, <1>2, <1>8

\* Samples are published, never taken back.
LEMMA SentGrows == TypeOK /\ [Next]_vars => Sent \subseteq Sent'
<1> SUFFICES ASSUME TypeOK, [Next]_vars PROVE Sent \subseteq Sent'
  OBVIOUS
<1>1. ASSUME NEW p \in Publishers, Publish(p) PROVE Sent \subseteq Sent'
  <2>1. \A m \in Samples : published[m.by] <= published'[m.by] /\ m.seq \in Nat
                           /\ published[m.by] \in Nat /\ published'[m.by] \in Nat
    BY <1>1, ContinuousBounds DEF Publish, TypeOK, Samples
  <2> QED
    BY <2>1 DEF Sent
<1>2. ASSUME UNCHANGED published PROVE Sent \subseteq Sent'
  BY <1>2 DEF Sent
<1> QED
  BY <1>1, <1>2 DEF Next, Join, Take, Callback, PublishPanics, Deliver, Lose, vars

\* A sample is handed on at every step: from the wire to the reader, which
\* has room for it (RoomForNext), to the batch and to the callback.
LEMMA StepNoneDropped ==
  ASSUME FewPublishers
  PROVE  TypeOK /\ StreamsInOrder /\ NoneDropped /\ [Next]_vars => NoneDropped'
<1> SUFFICES ASSUME TypeOK, StreamsInOrder, NoneDropped, [Next]_vars, (Cardinality(Sent) <= Depth)',
                    NEW t \in Subscribers, NEW m \in Sent'
             PROVE  KeptFor(t, m)'
  BY DEF NoneDropped
<1>0. m \in Samples /\ m.by \in Publishers /\ Sent \subseteq Sent'
  BY SentGrows DEF Sent, Samples
<1>a. Cardinality(Sent) <= Depth
  <2>1. IsFiniteSet(Sent') /\ Sent' \subseteq Samples
    BY SamplesFinite, FS_Subset DEF Sent
  <2>2. Cardinality(Sent) <= Cardinality(Sent')
    BY <1>0, <2>1, FS_Subset
  <2>3. Cardinality(Sent) \in Nat /\ Cardinality(Sent') \in Nat
    BY <1>0, <2>1, FS_Subset, FS_CardinalityType
  <2> QED
    BY <2>2, <2>3, ReaderAssumption
<1>b. m \in Sent => KeptFor(t, m)
  BY <1>a DEF NoneDropped
<1>c. /\ wire[m.by][t] \in Seq(Samples) /\ cache[t] \in Seq(Samples)
      /\ batch[t] \in Seq(Samples) /\ called[t] \in Seq(Samples)
  BY <1>0 DEF TypeOK
<1>1. ASSUME UNCHANGED published PROVE m \in Sent
  BY <1>1 DEF Sent
<1>2. ASSUME NEW p \in Publishers, Publish(p) PROVE KeptFor(t, m)'
  <2> DEFINE x == [by |-> p, seq |-> published[p] + 1]
  <2>1. /\ UNCHANGED <<joined, cache, batch, called>> /\ missed \subseteq missed'
        /\ x \in Samples
    BY <1>2, ContinuousBounds DEF Publish, Samples, TypeOK
  <2>2. /\ published' = [published EXCEPT ![p] = @ + 1]
        /\ wire'[m.by][t] = wire[m.by][t]
             \/ (joined[t] /\ m.by = p /\ wire'[m.by][t] = Append(wire[m.by][t], x))
    BY <1>0, <1>2 DEF Publish, TypeOK
  <2>3. CASE m = x
    <3>1. CASE joined[t]
      <4>1. wire'[m.by][t] = Append(wire[m.by][t], x)
        BY <1>0, <1>2, <2>3, <3>1 DEF Publish, TypeOK
      <4> QED
        BY <1>c, <2>1, <2>3, <4>1, IsInAppend DEF KeptFor
    <3>2. CASE ~joined[t]
      <4>1. <<t, x>> \in missed'
        BY <1>2, <3>2 DEF Publish
      <4> QED
        BY <2>3, <4>1 DEF KeptFor
    <3> QED
      BY <3>1, <3>2
  <2>4. m # x => m \in Sent
    <3>1. m # x => m.by # p \/ m.seq # published[p] + 1
      BY <1>0 DEF Samples
    <3>2. m.seq <= published'[m.by] /\ m.seq \in Int /\ published[m.by] \in Int
      BY <1>0 DEF Sent, Samples, TypeOK
    <3> QED
      BY <1>0, <2>2, <3>1, <3>2 DEF Sent, TypeOK
  <2> HIDE DEF x
  <2>5. CASE m # x
    <3>1. IsIn(wire[m.by][t], m) => IsIn(wire'[m.by][t], m)
      BY <1>c, <2>1, <2>2, IsInAppend
    <3> QED
      BY <1>b, <2>1, <2>4, <2>5, <3>1 DEF KeptFor, IsIn
  <2> QED
    BY <2>3, <2>5
<1>3. ASSUME NEW s \in Subscribers, Take(s) PROVE KeptFor(t, m)'
  <2>1. /\ UNCHANGED <<published, wire, called, missed>> /\ batch[s] = <<>>
        /\ batch' = [batch EXCEPT ![s] = Taken(cache[s])]
        /\ cache' = [cache EXCEPT ![s] = Left(@)]
    BY <1>3 DEF Take, MayTake
  <2>2. CASE s = t
    <3>1. batch'[t] = Taken(cache[t]) /\ cache'[t] = Left(cache[t])
      BY <2>1, <2>2 DEF TypeOK
    <3>2. ~IsIn(batch[t], m)
      BY <2>1, <2>2, EmptySeq DEF IsIn
    <3>3. IsIn(cache[t], m) => IsIn(batch'[t], m) \/ IsIn(cache'[t], m)
      BY <1>c, <3>1, IsInTaken
    <3> QED
      BY <1>b, <1>1, <2>1, <3>2, <3>3 DEF KeptFor, IsIn
  <2>3. CASE s # t
    BY <1>b, <1>1, <2>1, <2>3 DEF KeptFor, IsIn, TypeOK
  <2> QED
    BY <2>2, <2>3
<1>4. ASSUME NEW s \in Subscribers, Callback(s) PROVE KeptFor(t, m)'
  <2>1. /\ UNCHANGED <<published, wire, cache, missed>> /\ batch[s] # <<>>
        /\ called' = [called EXCEPT ![s] = Append(@, Head(batch[s]))]
        /\ batch' = [batch EXCEPT ![s] = Tail(@)]
    BY <1>4 DEF Callback, Rest
  <2>2. CASE s = t
    <3>1. batch'[t] = Tail(batch[t]) /\ called'[t] = Append(called[t], Head(batch[t]))
      BY <2>1, <2>2 DEF TypeOK
    <3>2. Head(batch[t]) \in Samples
      BY <1>c, <2>1, <2>2, HeadTailProperties
    <3>3. IsIn(batch[t], m) => IsIn(called'[t], m) \/ IsIn(batch'[t], m)
      BY <1>c, <2>1, <2>2, <3>1, <3>2, IsInTail, IsInAppend
    <3>4. IsIn(called[t], m) => IsIn(called'[t], m)
      BY <1>c, <3>1, <3>2, IsInAppend
    <3> QED
      BY <1>b, <1>1, <2>1, <3>3, <3>4 DEF KeptFor, IsIn
  <2>3. CASE s # t
    BY <1>b, <1>1, <2>1, <2>3 DEF KeptFor, IsIn, TypeOK
  <2> QED
    BY <2>2, <2>3
<1>5. ASSUME NEW p \in Publishers, NEW s \in Subscribers, Deliver(p, s) PROVE KeptFor(t, m)'
  <2> DEFINE x == Head(wire[p][s])
  <2>1. /\ UNCHANGED <<published, batch, called, missed>> /\ wire[p][s] # <<>>
        /\ wire' = [wire EXCEPT ![p][s] = Tail(@)]
        /\ cache' = [cache EXCEPT ![s] = KeepLast(@, x)]
    BY <1>5 DEF Deliver
  <2>2. CASE s = t
    <3>1. wire[p][t] \in Seq(Samples) /\ x = wire[p][t][1] /\ 1 \in 1 .. Len(wire[p][t]) /\ x \in Samples
      <4>1. wire[p][t] \in Seq(Samples) /\ wire[p][t] # <<>>
        BY <2>1, <2>2 DEF TypeOK
      <4> QED
        BY <2>2, <4>1, HeadTailProperties, LenProperties, EmptySeq
    <3> DEFINE W == [r \in Publishers |-> wire[r][t]]
    <3>2. Arrived(cache[t], W, published) /\ OnWire(p, W, published) /\ W[p] = wire[p][t]
      BY DEF StreamsInOrder, InOrder
    <3> HIDE DEF W, x
    <3>3. x.by = p /\ x \in Sent
      BY <3>1, <3>2 DEF OnWire, Sent
    <3>4. ASSUME NEW i \in 1 .. Len(cache[t]) PROVE cache[t][i] \in Sent /\ cache[t][i] # x
      <4>1. cache[t][i] \in Samples
        BY <1>c, ElementOfSeq
      <4>2. Older(cache[t][i], x)
        BY <3>1, <3>2 DEF Arrived, Precedes
      <4> QED
        BY <3>1, <3>2, <4>1, <4>2 DEF Older, Arrived, Sent, Samples
    <3>5. ASSUME NEW i \in 1 .. Len(cache[t]), NEW j \in 1 .. Len(cache[t]), i < j
          PROVE  cache[t][i] # cache[t][j]
      <4>1. cache[t][i] \in Samples /\ cache[t][j] \in Samples
        BY <1>c, ElementOfSeq
      <4>2. Older(cache[t][i], cache[t][j])
        BY <3>2, <3>5 DEF Arrived, Ascending
      <4> QED
        BY <4>1, <4>2 DEF Older, Samples
    <3>6. \A i, j \in 1 .. Len(cache[t]) : i # j => cache[t][i] # cache[t][j]
      BY <3>5
    <3>7. Len(cache[t]) < Depth
      BY <1>a, <1>c, <3>3, <3>4, <3>6, RoomForNext
    <3>8. cache'[t] = Append(cache[t], x)
      BY <2>1, <2>2, <3>7 DEF KeepLast, TypeOK
    <3>9. IsIn(wire[m.by][t], m) => IsIn(wire'[m.by][t], m) \/ IsIn(cache'[t], m)
      <4>1. CASE m.by = p
        <5>1. wire'[m.by][t] = Tail(wire[m.by][t])
          BY <1>0, <2>1, <2>2, <4>1 DEF TypeOK
        <5>2. wire[m.by][t] # <<>> /\ x = Head(wire[m.by][t])
          BY <2>1, <2>2, <4>1 DEF x
        <5>3. IsIn(wire[m.by][t], m) => m = x \/ IsIn(wire'[m.by][t], m)
          BY <1>c, <5>1, <5>2, IsInTail
        <5>4. IsIn(cache'[t], x)
          BY <1>c, <3>1, <3>8, IsInAppend
        <5> QED
          BY <5>3, <5>4
      <4>2. CASE m.by # p
        <5>1. wire'[m.by][t] = wire[m.by][t]
          BY <1>0, <2>1, <4>2 DEF TypeOK
        <5> QED
          BY <5>1
      <4> QED
        BY <4>1, <4>2
    <3>10. IsIn(cache[t], m) => IsIn(cache'[t], m)
      BY <1>c, <3>1, <3>8, IsInAppend
    <3> QED
      BY <1>b, <1>1, <2>1, <3>9, <3>10 DEF KeptFor, IsIn
  <2>3. CASE s # t
    <3>1. wire'[m.by][t] = wire[m.by][t] /\ cache'[t] = cache[t]
      BY <1>0, <2>1, <2>3 DEF TypeOK
    <3> QED
      BY <1>b, <1>1, <2>1, <3>1 DEF KeptFor, IsIn
  <2> QED
    BY <2>2, <2>3
<1>6. ASSUME NEW p \in Publishers, NEW s \in Subscribers, Lose(p, s) PROVE KeptFor(t, m)'
  <2>1. /\ UNCHANGED <<published, cache, batch, called>> /\ wire[p][s] # <<>>
        /\ wire' = [wire EXCEPT ![p][s] = Tail(@)]
        /\ missed' = missed \cup {<<s, Head(wire[p][s])>>}
    BY <1>6 DEF Lose
  <2>2. IsIn(wire[m.by][t], m) => IsIn(wire'[m.by][t], m) \/ <<t, m>> \in missed'
    <3>1. CASE m.by = p /\ s = t
      <4>1. wire'[m.by][t] = Tail(wire[m.by][t])
        BY <1>0, <2>1, <3>1 DEF TypeOK
      <4> QED
        BY <1>c, <2>1, <3>1, <4>1, IsInTail
    <3>2. CASE ~(m.by = p /\ s = t)
      BY <1>0, <2>1, <3>2 DEF TypeOK
    <3> QED
      BY <3>1, <3>2
  <2> QED
    BY <1>b, <1>1, <2>1, <2>2 DEF KeptFor, IsIn
<1>7. ASSUME UNCHANGED <<published, wire, cache, batch, called, missed>> PROVE KeptFor(t, m)'
  BY <1>b, <1>1, <1>7 DEF KeptFor, IsIn
<1> QED
  BY <1>2, <1>3, <1>4, <1>5, <1>6, <1>7 DEF Next, Join, PublishPanics, vars

\* Once everything is quiet, the callback has run for every sample of streams
\* that the reader has room for, except for those that the network lost or
\* that were published before the reader was created.
THEOREM ShortStreamsComplete == ASSUME FewPublishers PROVE Spec => []ShortStreamsArrive
<1>1. Init => NoneDropped
  <2>1. Init => Sent = {}
    BY DEF Init, Sent, Samples
  <2> QED
    BY <2>1 DEF NoneDropped
<1>2. TypeOK /\ NoStrandedSample /\ NoneDropped => ShortStreamsArrive
  <2> SUFFICES ASSUME TypeOK, NoStrandedSample, NoneDropped, Cardinality(Sent) <= Depth,
                      NEW s \in Subscribers, Quiet(s),
                      NEW p \in Publishers, NEW n \in 1 .. published[p],
                      <<s, [by |-> p, seq |-> n]>> \notin missed
               PROVE  \E i \in 1 .. Len(called[s]) : called[s][i] = [by |-> p, seq |-> n]
    BY DEF ShortStreamsArrive, AllArrived
  <2> DEFINE m == [by |-> p, seq |-> n]
  <2>1. m \in Sent
    BY ContinuousBounds DEF Sent, Samples, TypeOK
  <2>2. wire[p][s] = <<>> /\ cache[s] = <<>> /\ batch[s] = <<>>
    BY DEF Quiet, NoStrandedSample
  <2>3. ~IsIn(<<>>, m)
    BY EmptySeq DEF IsIn
  <2>4. KeptFor(s, m)
    BY <2>1 DEF NoneDropped
  <2> QED
    BY <2>2, <2>3, <2>4 DEF KeptFor, IsIn
<1>3. Spec => []StreamsInOrder
  BY InitStreamsInOrder, StepStreamsInOrder, StreamTypes, PTL DEF Spec
<1> QED
  BY <1>1, <1>2, <1>3, StepNoneDropped, StreamTypes, SamplesAreNoticed, PTL DEF Spec

=============================================================================
