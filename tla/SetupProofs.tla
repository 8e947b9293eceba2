---------------------------- MODULE SetupProofs ----------------------------
(***************************************************************************)
(* The safety of setup, for every list of jobs, every sharing of           *)
(* participants and every number of failures.                              *)
(***************************************************************************)
EXTENDS Setup, SequenceTheorems, WellFoundedInduction, TLAPS

-----------------------------------------------------------------------------
(* Induction over the naturals, for a set instead of a predicate.          *)

LEMMA LeastElement ==
  ASSUME NEW T \in SUBSET Nat, T # {}
  PROVE  \E x \in T : \A y \in T : ~ (y < x)
<1> DEFINE R == OpToRel(<, Nat)
<1>1. IsWellFoundedOn(R, Nat)
  BY NatLessThanWellFounded
<1>2. \A x, y \in Nat : y < x => <<y, x>> \in R
  BY DEF OpToRel
<1> HIDE DEF R
<1>3. PICK x \in T : \A y \in T : ~ (<<y, x>> \in R)
  BY <1>1, WFMin
<1>4. \A y \in T : ~ (y < x)
  BY <1>2, <1>3
<1> QED
  BY <1>4

LEMMA SetInduction ==
  ASSUME NEW S, 0 \in S, \A n \in Nat : n \in S => n + 1 \in S
  PROVE  \A n \in Nat : n \in S
<1> SUFFICES ASSUME NEW n \in Nat, n \notin S
             PROVE  FALSE
  OBVIOUS
<1> DEFINE T == {m \in Nat : m \notin S}
<1>1. PICK x \in T : \A y \in T : ~ (y < x)
  BY LeastElement
<1>2. x # 0 /\ x - 1 \in Nat /\ x - 1 < x
  BY <1>1
<1>3. x - 1 \in S
  BY <1>1, <1>2
<1> QED
  BY <1>1, <1>2, <1>3

-----------------------------------------------------------------------------
(* Flattening.                                                             *)

\* The recursive function in FlattenSeq exists.
LEMMA FlattenExists ==
  ASSUME NEW ss, NEW n \in Nat
  PROVE  \E f : f = [i \in 1 .. n |-> IF i = 1 THEN ss[i] ELSE f[i - 1] \o ss[i]]
<1> DEFINE Item(g, i) == IF i = 1 THEN ss[i] ELSE g[i - 1] \o ss[i]
           P == {m \in Nat : \E f : f = [i \in 1 .. m |-> Item(f, i)]}
<1>1. 0 \in P
  <2> DEFINE f == [i \in 1 .. 0 |-> ss[i]]
  <2>1. f = [i \in 1 .. 0 |-> Item(f, i)]
    OBVIOUS
  <2> QED
    BY <2>1
<1>2. ASSUME NEW m \in Nat, m \in P
      PROVE  m + 1 \in P
  <2>1. PICK f : f = [i \in 1 .. m |-> Item(f, i)]
    BY <1>2
  <2> DEFINE g == [i \in 1 .. m + 1 |-> IF i = m + 1 THEN Item(f, i) ELSE f[i]]
  <2>2. ASSUME NEW i \in 1 .. m + 1
        PROVE  g[i] = Item(g, i)
    <3>1. i # 1 => i - 1 \in 1 .. m /\ i - 1 # m + 1 /\ i - 1 \in 1 .. m + 1
      OBVIOUS
    <3>2. i # 1 => g[i - 1] = f[i - 1]
      BY <3>1
    <3>3. i # m + 1 => i \in 1 .. m
      OBVIOUS
    <3>4. i # m + 1 => f[i] = Item(f, i)
      BY <2>1, <3>3, Zenon
    <3>5. g[i] = Item(f, i)
      BY <3>4
    <3> QED
      BY <3>2, <3>5
  <2>3. g = [i \in 1 .. m + 1 |-> Item(g, i)]
    BY <2>2
  <2> HIDE DEF g
  <2>4. \E h : h = [i \in 1 .. m + 1 |-> Item(h, i)]
    BY <2>3, Zenon
  <2>5. m + 1 \in Nat
    OBVIOUS
  <2> QED
    BY <2>4, <2>5, Zenon
<1> HIDE DEF P
<1>3. n \in P
  BY <1>1, <1>2, SetInduction
<1> QED
  BY <1>3 DEF P

\* What holds of the first sequence and is kept when the next one is
\* appended holds of the whole.
LEMMA FlattenInduction ==
  ASSUME NEW ss, NEW n \in Nat, n # 0, Len(ss) = n, NEW Good,
         <<1, ss[1]>> \in Good,
         \A m \in 1 .. n - 1 : \A s : <<m, s>> \in Good => <<m + 1, s \o ss[m + 1]>> \in Good
  PROVE  <<n, FlattenSeq(ss)>> \in Good
<1> DEFINE f == CHOOSE f : f = [i \in 1 .. n |-> IF i = 1 THEN ss[i] ELSE f[i - 1] \o ss[i]]
<1>1. f = [i \in 1 .. n |-> IF i = 1 THEN ss[i] ELSE f[i - 1] \o ss[i]]
  BY FlattenExists, Zenon
<1>2. FlattenSeq(ss) = f[n]
  BY DEF FlattenSeq
<1> HIDE DEF f
<1>3. f[1] = ss[1]
  BY <1>1
<1>4. \A m \in 1 .. n - 1 : f[m + 1] = f[m] \o ss[m + 1]
  <2> TAKE m \in 1 .. n - 1
  <2>1. m + 1 \in 1 .. n /\ m + 1 # 1 /\ (m + 1) - 1 = m
    OBVIOUS
  <2>2. f[m + 1] = f[(m + 1) - 1] \o ss[m + 1]
    BY <1>1, <2>1, Zenon
  <2> QED
    BY <2>1, <2>2
<1> DEFINE P == {m \in Nat : m + 1 \in 1 .. n => <<m + 1, f[m + 1]>> \in Good}
<1>5. 0 \in P
  BY <1>3
<1>6. ASSUME NEW m \in Nat, m \in P
      PROVE  m + 1 \in P
  <2> SUFFICES ASSUME (m + 1) + 1 \in 1 .. n
               PROVE  <<(m + 1) + 1, f[(m + 1) + 1]>> \in Good
    OBVIOUS
  <2>1. m + 1 \in 1 .. n - 1
    OBVIOUS
  <2>2. <<m + 1, f[m + 1]>> \in Good
    BY <1>6, <2>1
  <2> QED
    BY <1>4, <2>1, <2>2
<1> HIDE DEF P
<1>7. n - 1 \in P
  BY <1>5, <1>6, SetInduction
<1> QED
  BY <1>2, <1>7 DEF P

LEMMA SeqFacts ==
  ASSUME NEW S, NEW s \in Seq(S)
  PROVE  /\ Len(s) \in Nat /\ DOMAIN s = 1 .. Len(s)
         /\ \A i \in 1 .. Len(s) : s[i] \in S
         /\ ToSet(s) \subseteq S
         /\ \A x : x \in ToSet(s) <=> \E i \in 1 .. Len(s) : s[i] = x
<1>1. Len(s) \in Nat /\ DOMAIN s = 1 .. Len(s) /\ \A i \in 1 .. Len(s) : s[i] \in S
  BY LenProperties, ElementOfSeq
<1> QED
  BY <1>1 DEF ToSet

LEMMA JoinElements ==
  ASSUME NEW S, NEW a \in Seq(S), NEW b \in Seq(S)
  PROVE  a \o b \in Seq(S) /\ ToSet(a \o b) = ToSet(a) \cup ToSet(b)
<1>1. /\ a \o b \in Seq(S) /\ Len(a \o b) = Len(a) + Len(b)
      /\ \A i \in 1 .. Len(a) + Len(b) :
           (a \o b)[i] = IF i <= Len(a) THEN a[i] ELSE b[i - Len(a)]
  BY ConcatProperties
<1>2. Len(a) \in Nat /\ Len(b) \in Nat
  BY SeqFacts
<1>3. ASSUME NEW x, x \in ToSet(a \o b)
      PROVE  x \in ToSet(a) \cup ToSet(b)
  <2>1. PICK i \in 1 .. Len(a) + Len(b) : (a \o b)[i] = x
    BY <1>1, <1>3, SeqFacts
  <2>2. CASE i <= Len(a)
    <3>1. i \in 1 .. Len(a) /\ a[i] = x
      BY <1>1, <1>2, <2>1, <2>2
    <3> QED
      BY <3>1, SeqFacts
  <2>3. CASE ~(i <= Len(a))
    <3>1. i - Len(a) \in 1 .. Len(b) /\ b[i - Len(a)] = x
      BY <1>1, <1>2, <2>1, <2>3
    <3> QED
      BY <3>1, SeqFacts
  <2> QED
    BY <2>2, <2>3
<1>4. ASSUME NEW x, x \in ToSet(a)
      PROVE  x \in ToSet(a \o b)
  <2>1. PICK i \in 1 .. Len(a) : a[i] = x
    BY <1>4, SeqFacts
  <2>2. i \in 1 .. Len(a) + Len(b) /\ (a \o b)[i] = x
    BY <1>1, <1>2, <2>1
  <2> QED
    BY <1>1, <2>2, SeqFacts
<1>5. ASSUME NEW x, x \in ToSet(b)
      PROVE  x \in ToSet(a \o b)
  <2>1. PICK i \in 1 .. Len(b) : b[i] = x
    BY <1>5, SeqFacts
  <2> DEFINE k == i + Len(a)
  <2>2. k \in 1 .. Len(a) + Len(b) /\ ~(k <= Len(a)) /\ k - Len(a) = i
    BY <1>2
  <2> HIDE DEF k
  <2>3. (a \o b)[k] = x
    BY <1>1, <2>1, <2>2
  <2> QED
    BY <1>1, <2>2, <2>3, SeqFacts
<1> QED
  BY <1>1, <1>3, <1>4, <1>5

\* Flattening a sequence of sequences loses nothing and adds nothing.
LEMMA FlattenElements ==
  ASSUME NEW S, NEW ss \in Seq(Seq(S))
  PROVE  /\ FlattenSeq(ss) \in Seq(S)
         /\ ToSet(FlattenSeq(ss)) = UNION {ToSet(ss[i]) : i \in 1 .. Len(ss)}
<1>1. Len(ss) \in Nat /\ \A i \in 1 .. Len(ss) : ss[i] \in Seq(S)
  BY SeqFacts
<1>2. CASE Len(ss) = 0
  <2>1. ss = <<>>
    BY <1>2, EmptySeq
  <2>2. FlattenSeq(ss) = <<>>
    BY <1>2, <2>1 DEF FlattenSeq
  <2>3. ToSet(<<>>) = {}
    BY DEF ToSet
  <2> QED
    BY <1>2, <2>2, <2>3
<1>3. CASE Len(ss) # 0
  <2> DEFINE Upto(m) == UNION {ToSet(ss[i]) : i \in 1 .. m}
             Good == {p \in (1 .. Len(ss)) \X Seq(S) : ToSet(p[2]) = Upto(p[1])}
  <2>1. <<1, ss[1]>> \in Good
    <3>1. 1 .. 1 = {1}
      OBVIOUS
    <3>2. Upto(1) = ToSet(ss[1])
      BY <3>1
    <3> QED
      BY <1>1, <1>3, <3>2
  <2>2. ASSUME NEW m \in 1 .. Len(ss) - 1, NEW s, <<m, s>> \in Good
        PROVE  <<m + 1, s \o ss[m + 1]>> \in Good
    <3>1. m + 1 \in 1 .. Len(ss) /\ s \in Seq(S) /\ ToSet(s) = Upto(m)
      BY <1>1, <2>2
    <3>2. s \o ss[m + 1] \in Seq(S) /\ ToSet(s \o ss[m + 1]) = Upto(m) \cup ToSet(ss[m + 1])
      BY <1>1, <3>1, JoinElements
    <3>3. 1 .. m + 1 = (1 .. m) \cup {m + 1}
      OBVIOUS
    <3>4. Upto(m + 1) = Upto(m) \cup ToSet(ss[m + 1])
      BY <3>3
    <3> QED
      BY <3>1, <3>2, <3>4
  <2> HIDE DEF Good
  <2>3. <<Len(ss), FlattenSeq(ss)>> \in Good
    BY <1>1, <1>3, <2>1, <2>2, FlattenInduction
  <2> QED
    BY <2>3 DEF Good
<1> QED
  BY <1>2, <1>3

\* Every element of s that is in R comes after x.
Before(x, R, s) == \A k \in DOMAIN s : s[k] \in R => \E j \in 1 .. k - 1 : s[j] = x

LEMMA JoinBefore ==
  ASSUME NEW S, NEW a \in Seq(S), NEW b \in Seq(S), NEW x, NEW R,
         Before(x, R, a), Before(x, R, b)
  PROVE  Before(x, R, a \o b)
<1>1. /\ a \o b \in Seq(S) /\ Len(a \o b) = Len(a) + Len(b)
      /\ \A i \in 1 .. Len(a) + Len(b) :
           (a \o b)[i] = IF i <= Len(a) THEN a[i] ELSE b[i - Len(a)]
  BY ConcatProperties
<1>2. /\ Len(a) \in Nat /\ Len(b) \in Nat
      /\ DOMAIN a = 1 .. Len(a) /\ DOMAIN b = 1 .. Len(b)
      /\ DOMAIN (a \o b) = 1 .. Len(a) + Len(b)
  BY <1>1, SeqFacts
<1> SUFFICES ASSUME NEW k \in 1 .. Len(a) + Len(b), (a \o b)[k] \in R
             PROVE  \E j \in 1 .. k - 1 : (a \o b)[j] = x
  BY <1>2 DEF Before
<1>3. CASE k <= Len(a)
  <2>1. k \in DOMAIN a /\ a[k] \in R
    BY <1>1, <1>2, <1>3
  <2>2. PICK j \in 1 .. k - 1 : a[j] = x
    BY <2>1 DEF Before
  <2>3. j \in 1 .. Len(a) + Len(b) /\ j <= Len(a)
    BY <1>2, <1>3
  <2> QED
    BY <1>1, <2>2, <2>3
<1>4. CASE ~(k <= Len(a))
  <2>1. k - Len(a) \in DOMAIN b /\ b[k - Len(a)] \in R
    BY <1>1, <1>2, <1>4
  <2>2. PICK j \in 1 .. (k - Len(a)) - 1 : b[j] = x
    BY <2>1 DEF Before
  <2> DEFINE i == j + Len(a)
  <2>3. i \in 1 .. k - 1 /\ i \in 1 .. Len(a) + Len(b) /\ ~(i <= Len(a)) /\ i - Len(a) = j
    BY <1>2, <1>4
  <2> HIDE DEF i
  <2> QED
    BY <1>1, <2>2, <2>3
<1> QED
  BY <1>3, <1>4

LEMMA FlattenBefore ==
  ASSUME NEW S, NEW ss \in Seq(Seq(S)), NEW x, NEW R,
         \A i \in 1 .. Len(ss) : Before(x, R, ss[i])
  PROVE  Before(x, R, FlattenSeq(ss))
<1>1. Len(ss) \in Nat /\ \A i \in 1 .. Len(ss) : ss[i] \in Seq(S)
  BY SeqFacts
<1>2. CASE Len(ss) = 0
  <2>1. ss = <<>>
    BY <1>2, EmptySeq
  <2>2. FlattenSeq(ss) = <<>>
    BY <1>2, <2>1 DEF FlattenSeq
  <2> QED
    BY <2>2 DEF Before
<1>3. CASE Len(ss) # 0
  <2> DEFINE Good == {p \in (1 .. Len(ss)) \X Seq(S) : Before(x, R, p[2])}
  <2>1. <<1, ss[1]>> \in Good
    BY <1>1, <1>3
  <2>2. ASSUME NEW m \in 1 .. Len(ss) - 1, NEW s, <<m, s>> \in Good
        PROVE  <<m + 1, s \o ss[m + 1]>> \in Good
    <3>1. m + 1 \in 1 .. Len(ss) /\ s \in Seq(S) /\ Before(x, R, s)
      BY <1>1, <2>2
    <3>2. s \o ss[m + 1] \in Seq(S) /\ Before(x, R, s \o ss[m + 1])
      BY <1>1, <3>1, JoinElements, JoinBefore
    <3> QED
      BY <3>1, <3>2
  <2> HIDE DEF Good
  <2>3. <<Len(ss), FlattenSeq(ss)>> \in Good
    BY <1>1, <1>3, <2>1, <2>2, FlattenInduction
  <2> QED
    BY <2>3 DEF Good
<1> QED
  BY <1>2, <1>3

LEMMA NoneBefore ==
  ASSUME NEW S, NEW s \in Seq(S), NEW x, NEW R, ToSet(s) \cap R = {}
  PROVE  Before(x, R, s)
  BY SeqFacts DEF Before

\* ss lists what c gives for the elements of fns, as Each does for Calls.
IsEach(ss, fns, c, F, S) ==
  /\ fns \in Seq(F) /\ c \in [F -> Seq(S)] /\ ss \in [DOMAIN fns -> Seq(S)]
  /\ \A i \in DOMAIN fns : ss[i] = c[fns[i]]

LEMMA EachElements ==
  ASSUME NEW F, NEW fns, NEW S, NEW c, NEW ss, IsEach(ss, fns, c, F, S)
  PROVE  /\ FlattenSeq(ss) \in Seq(S)
         /\ ToSet(FlattenSeq(ss)) = UNION {ToSet(c[f]) : f \in ToSet(fns)}
<1>0. /\ fns \in Seq(F) /\ c \in [F -> Seq(S)] /\ ss \in [DOMAIN fns -> Seq(S)]
      /\ \A i \in DOMAIN fns : ss[i] = c[fns[i]]
  BY DEF IsEach
<1>1. /\ Len(fns) \in Nat /\ DOMAIN fns = 1 .. Len(fns)
      /\ \A i \in 1 .. Len(fns) : fns[i] \in F /\ fns[i] \in ToSet(fns)
      /\ \A f : f \in ToSet(fns) <=> \E i \in 1 .. Len(fns) : fns[i] = f
  BY <1>0, SeqFacts
<1>2. ss \in [1 .. Len(fns) -> Seq(S)]
  BY <1>0, <1>1
<1>3. ss \in Seq(Seq(S)) /\ 1 .. Len(ss) = 1 .. Len(fns)
  <2>1. ss \in Seq(Seq(S))
    <3>1. ss \in UNION {[1 .. n -> Seq(S)] : n \in Nat}
      BY <1>1, <1>2
    <3> QED
      BY <3>1, SeqDef, Zenon
  <2>2. DOMAIN ss = 1 .. Len(fns) /\ DOMAIN ss = 1 .. Len(ss)
    BY <1>2, <2>1, SeqFacts
  <2> QED
    BY <2>1, <2>2
<1>4. \A i \in 1 .. Len(fns) : ss[i] = c[fns[i]]
  BY <1>0, <1>1
<1>5. {ToSet(ss[i]) : i \in 1 .. Len(ss)} = {ToSet(c[f]) : f \in ToSet(fns)}
  BY <1>1, <1>3, <1>4
<1>6. /\ FlattenSeq(ss) \in Seq(S)
      /\ ToSet(FlattenSeq(ss)) = UNION {ToSet(ss[i]) : i \in 1 .. Len(ss)}
  BY <1>3, FlattenElements
<1> QED
  BY <1>5, <1>6

LEMMA EachBefore ==
  ASSUME NEW F, NEW fns, NEW S, NEW c, NEW ss, IsEach(ss, fns, c, F, S),
         NEW x, NEW R, \A f \in ToSet(fns) : Before(x, R, c[f])
  PROVE  Before(x, R, FlattenSeq(ss))
<1>0. /\ fns \in Seq(F) /\ c \in [F -> Seq(S)] /\ ss \in [DOMAIN fns -> Seq(S)]
      /\ \A i \in DOMAIN fns : ss[i] = c[fns[i]]
  BY DEF IsEach
<1>1. /\ Len(fns) \in Nat /\ DOMAIN fns = 1 .. Len(fns)
      /\ \A i \in 1 .. Len(fns) : fns[i] \in F /\ fns[i] \in ToSet(fns)
  BY <1>0, SeqFacts
<1>2. ss \in [1 .. Len(fns) -> Seq(S)]
  BY <1>0, <1>1
<1>3. ss \in Seq(Seq(S)) /\ 1 .. Len(ss) = 1 .. Len(fns)
  <2>1. ss \in Seq(Seq(S))
    <3>1. ss \in UNION {[1 .. n -> Seq(S)] : n \in Nat}
      BY <1>1, <1>2
    <3> QED
      BY <3>1, SeqDef, Zenon
  <2>2. DOMAIN ss = 1 .. Len(fns) /\ DOMAIN ss = 1 .. Len(ss)
    BY <1>2, <2>1, SeqFacts
  <2> QED
    BY <2>1, <2>2
<1>4. \A i \in 1 .. Len(ss) : Before(x, R, ss[i])
  BY <1>0, <1>1, <1>3
<1> QED
  BY <1>3, <1>4, FlattenBefore

-----------------------------------------------------------------------------
(* The calls of a plan.                                                    *)

Callable == {f \in Functionalities : IsCall(f)}

AllTopics ==
  {ProvidedRequest(f) : f \in Functionalities} \cup {ProvidedResponse(f) : f \in Functionalities}
  \cup {ProvidedStream(f) : f \in Functionalities}
  \cup {ConsumedRequest(f) : f \in Functionalities} \cup {ConsumedResponse(f) : f \in Functionalities}
  \cup {ConsumedStream(f) : f \in Functionalities}
  \cup {PlainTopic("ProviderRegistration"), PlainTopic("ConsumerDiscovery")}

TopicCalls    == {Topic(x) : x \in AllTopics}
EndpointCalls ==
  {Writer(x) : x \in AllTopics} \cup {Reader(x, l) : x \in AllTopics, l \in BOOLEAN}
AnnounceCalls == {[call |-> "announce", fns |-> fns] : fns \in Seq(Callable)}

AllCalls == TopicCalls \cup EndpointCalls \cup AnnounceCalls

LEMMA CallFields ==
  ASSUME NEW x \in AllCalls
  PROVE  /\ x.call = "topic" => x \in TopicCalls
         /\ x.call \in {"writer", "reader"} =>
              x = [call |-> x.call, topic |-> x.topic, listener |-> x.listener]
         /\ x.call = "announce" => \A f \in ToSet(x.fns) : IsCall(f)
<1>1. CASE x \in TopicCalls
  BY <1>1 DEF TopicCalls, Topic
<1>2. CASE x \in EndpointCalls
  BY <1>2 DEF EndpointCalls, Writer, Reader
<1>3. CASE x \in AnnounceCalls
  <2>1. PICK fns \in Seq(Callable) : x = [call |-> "announce", fns |-> fns]
    BY <1>3 DEF AnnounceCalls
  <2>2. \A f \in ToSet(fns) : IsCall(f)
    BY SeqFacts DEF Callable
  <2> QED
    BY <2>1, <2>2
<1> QED
  BY <1>1, <1>2, <1>3 DEF AllCalls

LEMMA OneElement ==
  ASSUME NEW S, NEW x \in S
  PROVE  <<x>> \in Seq(S) /\ ToSet(<<x>>) = {x}
  BY DEF ToSet

LEMMA NoElement ==
  ASSUME NEW S
  PROVE  <<>> \in Seq(S) /\ ToSet(<<>>) = {}
  BY DEF ToSet

LEMMA CallsOfElements ==
  ASSUME NEW fns \in Seq(Functionalities)
  PROVE  /\ CallsOf(fns) \in Seq(Callable)
         /\ ToSet(CallsOf(fns)) = {f \in ToSet(fns) : IsCall(f)}
<1> DEFINE c == [f \in Functionalities |-> IF IsCall(f) THEN <<f>> ELSE <<>>]
           ss == [i \in DOMAIN fns |-> IF IsCall(fns[i]) THEN <<fns[i]>> ELSE <<>>]
<1>1. /\ \A f \in Functionalities : c[f] \in Seq(Callable)
      /\ \A f \in Functionalities : ToSet(c[f]) = IF IsCall(f) THEN {f} ELSE {}
  BY OneElement, NoElement DEF Callable
<1>2. c \in [Functionalities -> Seq(Callable)]
  BY <1>1
<1>3. IsEach(ss, fns, c, Functionalities, Callable)
  <2>1. \A i \in DOMAIN fns : fns[i] \in Functionalities
    BY SeqFacts
  <2>2. \A i \in DOMAIN fns : ss[i] = c[fns[i]]
    BY <2>1 DEF c, ss
  <2>3. DOMAIN ss = DOMAIN fns /\ ss = [i \in DOMAIN fns |-> ss[i]]
    BY DEF ss
  <2> HIDE DEF c, ss
  <2> QED
    BY <1>2, <2>1, <2>2, <2>3 DEF IsEach
<1>4. CallsOf(fns) = FlattenSeq(ss)
  BY DEF CallsOf, Each
<1> HIDE DEF c, ss
<1>5. /\ FlattenSeq(ss) \in Seq(Callable)
      /\ ToSet(FlattenSeq(ss)) = UNION {ToSet(c[f]) : f \in ToSet(fns)}
  BY <1>3, EachElements
<1>6. UNION {ToSet(c[f]) : f \in ToSet(fns)} = {f \in ToSet(fns) : IsCall(f)}
  <2>1. ToSet(fns) \subseteq Functionalities
    BY SeqFacts
  <2>2. \A f \in ToSet(fns) : ToSet(c[f]) = IF IsCall(f) THEN {f} ELSE {}
    BY <1>1, <2>1
  <2> QED
    BY <2>2
<1> QED
  BY <1>4, <1>5, <1>6

LEMMA StreamsElements ==
  ASSUME NEW fns \in Seq(Functionalities)
  PROVE  /\ Streams(fns) \in Seq(Functionalities)
         /\ ToSet(Streams(fns)) = {f \in ToSet(fns) : IsStream(f)}
<1> DEFINE c == [f \in Functionalities |-> IF IsStream(f) THEN <<f>> ELSE <<>>]
           ss == [i \in DOMAIN fns |-> IF IsStream(fns[i]) THEN <<fns[i]>> ELSE <<>>]
<1>1. /\ \A f \in Functionalities : c[f] \in Seq(Functionalities)
      /\ \A f \in Functionalities : ToSet(c[f]) = IF IsStream(f) THEN {f} ELSE {}
  BY OneElement, NoElement
<1>2. c \in [Functionalities -> Seq(Functionalities)]
  BY <1>1
<1>3. IsEach(ss, fns, c, Functionalities, Functionalities)
  <2>1. \A i \in DOMAIN fns : fns[i] \in Functionalities
    BY SeqFacts
  <2>2. \A i \in DOMAIN fns : ss[i] = c[fns[i]]
    BY <2>1 DEF c, ss
  <2>3. DOMAIN ss = DOMAIN fns /\ ss = [i \in DOMAIN fns |-> ss[i]]
    BY DEF ss
  <2> HIDE DEF c, ss
  <2> QED
    BY <1>2, <2>1, <2>2, <2>3 DEF IsEach
<1>4. Streams(fns) = FlattenSeq(ss)
  BY DEF Streams, Each
<1> HIDE DEF c, ss
<1>5. /\ FlattenSeq(ss) \in Seq(Functionalities)
      /\ ToSet(FlattenSeq(ss)) = UNION {ToSet(c[f]) : f \in ToSet(fns)}
  BY <1>3, EachElements
<1>6. UNION {ToSet(c[f]) : f \in ToSet(fns)} = {f \in ToSet(fns) : IsStream(f)}
  <2>1. ToSet(fns) \subseteq Functionalities
    BY SeqFacts
  <2>2. \A f \in ToSet(fns) : ToSet(c[f]) = IF IsStream(f) THEN {f} ELSE {}
    BY <1>1, <2>1
  <2> QED
    BY <2>2
<1> QED
  BY <1>4, <1>5, <1>6

\* The calls of one job are among these.
LEMMA CallsIn ==
  ASSUME NEW x \in AllTopics
  PROVE  Topic(x) \in AllCalls /\ Writer(x) \in AllCalls /\ \A l \in BOOLEAN : Reader(x, l) \in AllCalls
  BY DEF AllCalls, TopicCalls, EndpointCalls

LEMMA TopicsIn ==
  ASSUME NEW f \in Functionalities
  PROVE  /\ ProvidedRequest(f) \in AllTopics /\ ProvidedResponse(f) \in AllTopics
         /\ ProvidedStream(f) \in AllTopics
         /\ ConsumedRequest(f) \in AllTopics /\ ConsumedResponse(f) \in AllTopics
         /\ ConsumedStream(f) \in AllTopics
  BY DEF AllTopics

\* One call for each element.
IsEachOne(ss, fns, d, F, S) ==
  /\ fns \in Seq(F) /\ d \in [F -> S]
  /\ ss = [i \in DOMAIN fns |-> <<d[fns[i]]>>]

LEMMA EachOneElements ==
  ASSUME NEW F, NEW fns, NEW S, NEW d, NEW ss, IsEachOne(ss, fns, d, F, S)
  PROVE  /\ FlattenSeq(ss) \in Seq(S)
         /\ ToSet(FlattenSeq(ss)) = {d[f] : f \in ToSet(fns)}
<1> DEFINE c == [f \in F |-> <<d[f]>>]
<1>1. fns \in Seq(F) /\ d \in [F -> S] /\ ss = [i \in DOMAIN fns |-> <<d[fns[i]]>>]
  BY DEF IsEachOne
<1>2. /\ \A i \in DOMAIN fns : fns[i] \in F
      /\ ToSet(fns) \subseteq F
  BY <1>1, SeqFacts
<1>3. /\ \A f \in F : c[f] \in Seq(S) /\ ToSet(c[f]) = {d[f]}
  BY <1>1, OneElement
<1>4. c \in [F -> Seq(S)]
  BY <1>3
<1>5. \A i \in DOMAIN fns : ss[i] = c[fns[i]]
  BY <1>1, <1>2
<1> HIDE DEF c
<1>6. IsEach(ss, fns, c, F, S)
  BY <1>1, <1>2, <1>4, <1>5 DEF IsEach
<1>7. UNION {ToSet(c[f]) : f \in ToSet(fns)} = {d[f] : f \in ToSet(fns)}
  BY <1>2, <1>3
<1> QED
  BY <1>6, <1>7, EachElements

\* create_continuous_handle: the topic and the writer of each stream.
LEMMA TopicForEach ==
  ASSUME NEW fns \in Seq(Functionalities)
  PROVE  LET s == Each(fns, LAMBDA f : <<Topic(ProvidedStream(f))>>)
         IN  s \in Seq(AllCalls) /\ ToSet(s) = {Topic(ProvidedStream(f)) : f \in ToSet(fns)}
<1> DEFINE d == [f \in Functionalities |-> Topic(ProvidedStream(f))]
           ss == [i \in DOMAIN fns |-> <<Topic(ProvidedStream(fns[i]))>>]
<1>1. d \in [Functionalities -> AllCalls]
  BY TopicsIn, CallsIn
<1>2. ToSet(fns) \subseteq Functionalities /\ \A i \in DOMAIN fns : fns[i] \in Functionalities
  BY SeqFacts
<1>3. IsEachOne(ss, fns, d, Functionalities, AllCalls)
  BY <1>1, <1>2 DEF IsEachOne
<1>4. Each(fns, LAMBDA f : <<Topic(ProvidedStream(f))>>) = FlattenSeq(ss)
  BY DEF Each
<1>5. {d[f] : f \in ToSet(fns)} = {Topic(ProvidedStream(f)) : f \in ToSet(fns)}
  BY <1>2
<1> HIDE DEF d, ss
<1>6. FlattenSeq(ss) \in Seq(AllCalls) /\ ToSet(FlattenSeq(ss)) = {d[f] : f \in ToSet(fns)}
  BY <1>3, EachOneElements
<1> QED
  BY <1>4, <1>5, <1>6

LEMMA StreamWriterForEach ==
  ASSUME NEW fns \in Seq(Functionalities)
  PROVE  LET s == Each(fns, LAMBDA f : <<Writer(ProvidedStream(f))>>)
         IN  s \in Seq(AllCalls) /\ ToSet(s) = {Writer(ProvidedStream(f)) : f \in ToSet(fns)}
<1> DEFINE d == [f \in Functionalities |-> Writer(ProvidedStream(f))]
           ss == [i \in DOMAIN fns |-> <<Writer(ProvidedStream(fns[i]))>>]
<1>1. d \in [Functionalities -> AllCalls]
  BY TopicsIn, CallsIn
<1>2. ToSet(fns) \subseteq Functionalities /\ \A i \in DOMAIN fns : fns[i] \in Functionalities
  BY SeqFacts
<1>3. IsEachOne(ss, fns, d, Functionalities, AllCalls)
  BY <1>1, <1>2 DEF IsEachOne
<1>4. Each(fns, LAMBDA f : <<Writer(ProvidedStream(f))>>) = FlattenSeq(ss)
  BY DEF Each
<1>5. {d[f] : f \in ToSet(fns)} = {Writer(ProvidedStream(f)) : f \in ToSet(fns)}
  BY <1>2
<1> HIDE DEF d, ss
<1>6. FlattenSeq(ss) \in Seq(AllCalls) /\ ToSet(FlattenSeq(ss)) = {d[f] : f \in ToSet(fns)}
  BY <1>3, EachOneElements
<1> QED
  BY <1>4, <1>5, <1>6

\* init: the writer and the reader of each call, the reader of each stream.
LEMMA RequestWriterForEach ==
  ASSUME NEW fns \in Seq(Functionalities)
  PROVE  LET s == Each(fns, LAMBDA f : <<Writer(ConsumedRequest(f))>>)
         IN  s \in Seq(AllCalls) /\ ToSet(s) = {Writer(ConsumedRequest(f)) : f \in ToSet(fns)}
<1> DEFINE d == [f \in Functionalities |-> Writer(ConsumedRequest(f))]
           ss == [i \in DOMAIN fns |-> <<Writer(ConsumedRequest(fns[i]))>>]
<1>1. d \in [Functionalities -> AllCalls]
  BY TopicsIn, CallsIn
<1>2. ToSet(fns) \subseteq Functionalities /\ \A i \in DOMAIN fns : fns[i] \in Functionalities
  BY SeqFacts
<1>3. IsEachOne(ss, fns, d, Functionalities, AllCalls)
  BY <1>1, <1>2 DEF IsEachOne
<1>4. Each(fns, LAMBDA f : <<Writer(ConsumedRequest(f))>>) = FlattenSeq(ss)
  BY DEF Each
<1>5. {d[f] : f \in ToSet(fns)} = {Writer(ConsumedRequest(f)) : f \in ToSet(fns)}
  BY <1>2
<1> HIDE DEF d, ss
<1>6. FlattenSeq(ss) \in Seq(AllCalls) /\ ToSet(FlattenSeq(ss)) = {d[f] : f \in ToSet(fns)}
  BY <1>3, EachOneElements
<1> QED
  BY <1>4, <1>5, <1>6

LEMMA ResponseReaderForEach ==
  ASSUME NEW fns \in Seq(Functionalities)
  PROVE  LET s == Each(fns, LAMBDA f : <<Reader(ConsumedResponse(f), FALSE)>>)
         IN  s \in Seq(AllCalls) /\ ToSet(s) = {Reader(ConsumedResponse(f), FALSE) : f \in ToSet(fns)}
<1> DEFINE d == [f \in Functionalities |-> Reader(ConsumedResponse(f), FALSE)]
           ss == [i \in DOMAIN fns |-> <<Reader(ConsumedResponse(fns[i]), FALSE)>>]
<1>1. d \in [Functionalities -> AllCalls]
  BY TopicsIn, CallsIn
<1>2. ToSet(fns) \subseteq Functionalities /\ \A i \in DOMAIN fns : fns[i] \in Functionalities
  BY SeqFacts
<1>3. IsEachOne(ss, fns, d, Functionalities, AllCalls)
  BY <1>1, <1>2 DEF IsEachOne
<1>4. Each(fns, LAMBDA f : <<Reader(ConsumedResponse(f), FALSE)>>) = FlattenSeq(ss)
  BY DEF Each
<1>5. {d[f] : f \in ToSet(fns)} = {Reader(ConsumedResponse(f), FALSE) : f \in ToSet(fns)}
  BY <1>2
<1> HIDE DEF d, ss
<1>6. FlattenSeq(ss) \in Seq(AllCalls) /\ ToSet(FlattenSeq(ss)) = {d[f] : f \in ToSet(fns)}
  BY <1>3, EachOneElements
<1> QED
  BY <1>4, <1>5, <1>6

LEMMA StreamReaderForEach ==
  ASSUME NEW fns \in Seq(Functionalities)
  PROVE  LET s == Each(fns, StreamReader)
         IN  s \in Seq(AllCalls) /\ ToSet(s) = {Reader(ConsumedStream(f), TRUE) : f \in ToSet(fns)}
<1> DEFINE d == [f \in Functionalities |-> Reader(ConsumedStream(f), TRUE)]
           ss == [i \in DOMAIN fns |-> <<Reader(ConsumedStream(fns[i]), TRUE)>>]
<1>1. d \in [Functionalities -> AllCalls]
  BY TopicsIn, CallsIn
<1>2. ToSet(fns) \subseteq Functionalities /\ \A i \in DOMAIN fns : fns[i] \in Functionalities
  BY SeqFacts
<1>3. IsEachOne(ss, fns, d, Functionalities, AllCalls)
  BY <1>1, <1>2 DEF IsEachOne
<1>4. Each(fns, StreamReader) = FlattenSeq(ss)
  BY DEF Each, StreamReader
<1>5. {d[f] : f \in ToSet(fns)} = {Reader(ConsumedStream(f), TRUE) : f \in ToSet(fns)}
  BY <1>2
<1> HIDE DEF d, ss
<1>6. FlattenSeq(ss) \in Seq(AllCalls) /\ ToSet(FlattenSeq(ss)) = {d[f] : f \in ToSet(fns)}
  BY <1>3, EachOneElements
<1> QED
  BY <1>4, <1>5, <1>6

LEMMA ConsumerTopicsForEach ==
  ASSUME NEW fns \in Seq(Functionalities)
  PROVE  Each(fns, ConsumerTopics) \in Seq(TopicCalls)
<1> DEFINE c == [f \in Functionalities |-> ConsumerTopics(f)]
           ss == [i \in DOMAIN fns |-> ConsumerTopics(fns[i])]
<1>1. ASSUME NEW f \in Functionalities
      PROVE  ConsumerTopics(f) \in Seq(TopicCalls)
  <2>1. /\ Topic(ConsumedStream(f)) \in TopicCalls
        /\ Topic(ConsumedRequest(f)) \in TopicCalls
        /\ Topic(ConsumedResponse(f)) \in TopicCalls
    BY TopicsIn DEF TopicCalls
  <2>2. CASE IsStream(f)
    <3>1. ConsumerTopics(f) = <<Topic(ConsumedStream(f))>>
      BY <2>2 DEF ConsumerTopics
    <3> QED
      BY <2>1, <3>1
  <2>3. CASE ~IsStream(f)
    <3>1. ConsumerTopics(f) = <<Topic(ConsumedRequest(f)), Topic(ConsumedResponse(f))>>
      BY <2>3 DEF ConsumerTopics
    <3> QED
      BY <2>1, <3>1
  <2> QED
    BY <2>2, <2>3
<1>2. c \in [Functionalities -> Seq(TopicCalls)]
  BY <1>1
<1>3. \A i \in DOMAIN fns : fns[i] \in Functionalities
  BY SeqFacts
<1>4. ss \in [DOMAIN fns -> Seq(TopicCalls)] /\ \A i \in DOMAIN fns : ss[i] = c[fns[i]]
  BY <1>1, <1>3
<1>5. Each(fns, ConsumerTopics) = FlattenSeq(ss)
  BY DEF Each
<1> HIDE DEF c, ss
<1>6. IsEach(ss, fns, c, Functionalities, TopicCalls)
  BY <1>2, <1>4 DEF IsEach
<1> QED
  BY <1>5, <1>6, EachElements

-----------------------------------------------------------------------------
(* A reader of requests comes after the writer of their responses.         *)

Answer(f)      == Writer(ProvidedResponse(f))
Intake(f)      == Reader(ProvidedRequest(f), TRUE)
ReaderCalls(f) == {Reader(ProvidedRequest(f), l) : l \in BOOLEAN}

LEMMA TopicsApart ==
  ASSUME NEW f, NEW g
  PROVE  /\ ConsumedResponse(g) # ProvidedRequest(f)
         /\ ConsumedStream(g) # ProvidedRequest(f)
         /\ \A n : PlainTopic(n) # ProvidedRequest(f)
         /\ ProvidedRequest(g) = ProvidedRequest(f) => g.name = f.name
<1>1. /\ ConsumedResponse(g).name # ProvidedRequest(f).name
      /\ ConsumedStream(g).name # ProvidedRequest(f).name
      /\ ProvidedRequest(g).name = ProvidedRequest(f).name => g.name = f.name
  BY DEF ConsumedResponse, ConsumedStream, ProvidedRequest, TopicNames
<1>2. ASSUME NEW n, PlainTopic(n).name = ProvidedRequest(f).name
      PROVE  FALSE
  <2>1. <<n>> = <<"request", f.name>>
    BY <1>2 DEF PlainTopic, ProvidedRequest, TopicNames
  <2>2. Len(<<n>>) = 1 /\ Len(<<"request", f.name>>) = 2
    OBVIOUS
  <2> QED
    BY <2>1, <2>2
<1> QED
  BY <1>1, <1>2

LEMMA NoReaderCall ==
  ASSUME NEW f, NEW x, NEW l
  PROVE  /\ Topic(x) \notin ReaderCalls(f)
         /\ Writer(x) \notin ReaderCalls(f)
         /\ Reader(x, l) \in ReaderCalls(f) => x = ProvidedRequest(f)
  BY DEF ReaderCalls, Topic, Writer, Reader

LEMMA ExecutionInOrder ==
  ASSUME NEW g \in Callable
  PROVE  /\ ExecutionObjects(g) \in Seq(AllCalls)
         /\ ToSet(ExecutionObjects(g)) =
              {Topic(ProvidedRequest(g)), Topic(ProvidedResponse(g)), Answer(g), Intake(g)}
         /\ \A f \in Callable : (g.name = f.name => g.out = f.out) =>
              Before(Answer(f), ReaderCalls(f), ExecutionObjects(g))
<1> DEFINE s == << Topic(ProvidedRequest(g)), Topic(ProvidedResponse(g)), Answer(g), Intake(g) >>
<1>1. ExecutionObjects(g) = s
  BY DEF ExecutionObjects, Callable, IsStream, IsCall, Answer, Intake
<1>2. s \in Seq(AllCalls)
  <2>1. /\ Topic(ProvidedRequest(g)) \in AllCalls /\ Topic(ProvidedResponse(g)) \in AllCalls
        /\ Answer(g) \in AllCalls /\ Intake(g) \in AllCalls
    BY TopicsIn, CallsIn DEF Callable, Answer, Intake
  <2> QED
    BY <2>1
<1>3. DOMAIN s = {1, 2, 3, 4}
  OBVIOUS
<1>4. s[1] = Topic(ProvidedRequest(g)) /\ s[2] = Topic(ProvidedResponse(g)) /\ s[3] = Answer(g) /\ s[4] = Intake(g)
  OBVIOUS
<1> HIDE DEF s
<1>5. ToSet(s) = {Topic(ProvidedRequest(g)), Topic(ProvidedResponse(g)), Answer(g), Intake(g)}
  BY <1>3, <1>4 DEF ToSet
<1>6. ASSUME NEW f \in Callable, g.name = f.name => g.out = f.out
      PROVE  Before(Answer(f), ReaderCalls(f), s)
  <2> SUFFICES ASSUME NEW k \in DOMAIN s, s[k] \in ReaderCalls(f)
               PROVE  \E j \in 1 .. k - 1 : s[j] = Answer(f)
    BY DEF Before
  <2>1. k = 4
    BY <1>3, <1>4, NoReaderCall DEF Answer
  <2>2. ProvidedRequest(g) = ProvidedRequest(f)
    BY <1>4, <2>1, NoReaderCall DEF Intake
  <2>3. Answer(g) = Answer(f)
    BY <1>6, <2>2, TopicsApart DEF Answer, ProvidedResponse, TopicNames
  <2>4. 3 \in 1 .. k - 1
    BY <2>1
  <2> QED
    BY <1>4, <2>3, <2>4
<1> QED
  BY <1>1, <1>2, <1>5, <1>6

\* Functionalities of one name have one output type.
SameOutput(f, fns) == \A g \in fns : IsCall(g) /\ g.name = f.name => g.out = f.out

LEMMA ExecutionForEach ==
  ASSUME NEW fns \in Seq(Callable)
  PROVE  LET s == Each(fns, ExecutionObjects)
         IN  /\ s \in Seq(AllCalls)
             /\ \A f \in ToSet(fns) : Answer(f) \in ToSet(s) /\ Intake(f) \in ToSet(s)
             /\ \A f \in Callable : SameOutput(f, ToSet(fns)) => Before(Answer(f), ReaderCalls(f), s)
<1> DEFINE c == [f \in Callable |-> ExecutionObjects(f)]
           ss == [i \in DOMAIN fns |-> ExecutionObjects(fns[i])]
<1>1. c \in [Callable -> Seq(AllCalls)]
  BY ExecutionInOrder
<1>2. ToSet(fns) \subseteq Callable /\ \A i \in DOMAIN fns : fns[i] \in Callable
  BY SeqFacts
<1>3. ss \in [DOMAIN fns -> Seq(AllCalls)] /\ \A i \in DOMAIN fns : ss[i] = c[fns[i]]
  BY <1>2, ExecutionInOrder
<1>4. Each(fns, ExecutionObjects) = FlattenSeq(ss)
  BY DEF Each
<1>5. \A f \in Callable : c[f] = ExecutionObjects(f)
  OBVIOUS
<1> HIDE DEF c, ss
<1>6. IsEach(ss, fns, c, Callable, AllCalls)
  BY <1>1, <1>3 DEF IsEach
<1>7. /\ FlattenSeq(ss) \in Seq(AllCalls)
      /\ ToSet(FlattenSeq(ss)) = UNION {ToSet(c[f]) : f \in ToSet(fns)}
  BY <1>6, EachElements
<1>8. ASSUME NEW f \in ToSet(fns)
      PROVE  Answer(f) \in ToSet(FlattenSeq(ss)) /\ Intake(f) \in ToSet(FlattenSeq(ss))
  <2>1. f \in Callable /\ c[f] = ExecutionObjects(f)
    BY <1>2, <1>5
  <2>2. Answer(f) \in ToSet(c[f]) /\ Intake(f) \in ToSet(c[f])
    BY <2>1, ExecutionInOrder
  <2> QED
    BY <1>7, <2>2
<1>9. ASSUME NEW f \in Callable, SameOutput(f, ToSet(fns))
      PROVE  Before(Answer(f), ReaderCalls(f), FlattenSeq(ss))
  <2>1. ASSUME NEW g \in ToSet(fns)
        PROVE  Before(Answer(f), ReaderCalls(f), c[g])
    <3>1. g \in Callable /\ IsCall(g)
      BY <1>2 DEF Callable
    <3>2. g.name = f.name => g.out = f.out
      BY <1>9, <3>1 DEF SameOutput
    <3> QED
      BY <1>5, <3>1, <3>2, ExecutionInOrder
  <2> QED
    BY <1>6, <2>1, EachBefore
<1> QED
  BY <1>4, <1>7, <1>8, <1>9

LEMMA HandlePlan ==
  ASSUME NEW fns \in Seq(Functionalities)
  PROVE  /\ HandleCalls(fns) \in Seq(AllCalls)
         /\ \A f \in ToSet(fns) : IsStream(f) => Writer(ProvidedStream(f)) \in ToSet(HandleCalls(fns))
         /\ \A f : ToSet(HandleCalls(fns)) \cap ReaderCalls(f) = {}
<1> DEFINE a == Each(Streams(fns), LAMBDA f : <<Topic(ProvidedStream(f))>>)
           b == Each(Streams(fns), LAMBDA f : <<Writer(ProvidedStream(f))>>)
<1>1. /\ Streams(fns) \in Seq(Functionalities)
      /\ ToSet(Streams(fns)) = {f \in ToSet(fns) : IsStream(f)}
  BY StreamsElements
<1>2. a \in Seq(AllCalls) /\ ToSet(a) = {Topic(ProvidedStream(f)) : f \in ToSet(Streams(fns))}
  BY <1>1, TopicForEach
<1>3. b \in Seq(AllCalls) /\ ToSet(b) = {Writer(ProvidedStream(f)) : f \in ToSet(Streams(fns))}
  BY <1>1, StreamWriterForEach
<1>4. HandleCalls(fns) = a \o b
  BY DEF HandleCalls
<1> HIDE DEF a, b
<1>5. /\ HandleCalls(fns) \in Seq(AllCalls)
      /\ ToSet(HandleCalls(fns)) = ToSet(a) \cup ToSet(b)
  BY <1>2, <1>3, <1>4, JoinElements
<1>6. \A f : ToSet(a) \cap ReaderCalls(f) = {} /\ ToSet(b) \cap ReaderCalls(f) = {}
  BY <1>2, <1>3, NoReaderCall
<1> QED
  BY <1>1, <1>3, <1>5, <1>6

LEMMA RegisterPlan ==
  ASSUME NEW fns \in Seq(Functionalities)
  PROVE  /\ RegisterCalls(fns) \in Seq(AllCalls)
         /\ \A f \in ToSet(fns) :
              /\ IsStream(f) => Writer(ProvidedStream(f)) \in ToSet(RegisterCalls(fns))
              /\ IsCall(f) => /\ Answer(f) \in ToSet(RegisterCalls(fns))
                              /\ Intake(f) \in ToSet(RegisterCalls(fns))
         /\ \A f \in Callable : SameOutput(f, ToSet(fns)) =>
              Before(Answer(f), ReaderCalls(f), RegisterCalls(fns))
<1> DEFINE m == [call |-> "announce", fns |-> Announced(fns)]
           b == Each(Announced(fns), ExecutionObjects)
           a == <<m>> \o b
           h == HandleCalls(fns)
<1>1. /\ Announced(fns) \in Seq(Callable)
      /\ ToSet(Announced(fns)) = {f \in ToSet(fns) : IsCall(f)}
  BY CallsOfElements DEF Announced
<1>2. m \in AllCalls
  BY <1>1 DEF AllCalls, AnnounceCalls
<1>3. <<m>> \in Seq(AllCalls) /\ ToSet(<<m>>) = {m}
  BY <1>2, OneElement
<1>4. \A f : {m} \cap ReaderCalls(f) = {}
  BY DEF ReaderCalls, Reader
<1>5. /\ b \in Seq(AllCalls)
      /\ \A f \in ToSet(Announced(fns)) : Answer(f) \in ToSet(b) /\ Intake(f) \in ToSet(b)
      /\ \A f \in Callable : SameOutput(f, ToSet(Announced(fns))) => Before(Answer(f), ReaderCalls(f), b)
  BY <1>1, ExecutionForEach
<1>6. RegisterCalls(fns) = a \o h
  BY DEF RegisterCalls
<1> HIDE DEF m, b
<1>7. a \in Seq(AllCalls) /\ ToSet(a) = ToSet(<<m>>) \cup ToSet(b)
  BY <1>3, <1>5, JoinElements
<1>10. /\ h \in Seq(AllCalls)
       /\ \A f \in ToSet(fns) : IsStream(f) => Writer(ProvidedStream(f)) \in ToSet(h)
       /\ \A f : ToSet(h) \cap ReaderCalls(f) = {}
  BY HandlePlan
<1>8. /\ RegisterCalls(fns) \in Seq(AllCalls)
      /\ ToSet(RegisterCalls(fns)) = ToSet(a) \cup ToSet(h)
  <2> HIDE DEF a, h
  <2> QED
    BY <1>6, <1>7, <1>10, JoinElements
<1>9. ASSUME NEW f \in Callable, SameOutput(f, ToSet(fns))
      PROVE  Before(Answer(f), ReaderCalls(f), RegisterCalls(fns))
  <2>1. Before(Answer(f), ReaderCalls(f), <<m>>)
    BY <1>3, <1>4, NoneBefore
  <2>2. Before(Answer(f), ReaderCalls(f), b)
    BY <1>1, <1>5, <1>9 DEF SameOutput
  <2>3. Before(Answer(f), ReaderCalls(f), a)
    BY <1>3, <1>5, <2>1, <2>2, JoinBefore
  <2> HIDE DEF a, h
  <2>4. Before(Answer(f), ReaderCalls(f), h)
    BY <1>10, NoneBefore
  <2> QED
    BY <1>6, <1>7, <1>10, <2>3, <2>4, JoinBefore
<1> HIDE DEF a, h
<1> QED
  BY <1>1, <1>5, <1>7, <1>8, <1>9, <1>10

LEMMA InitPlan ==
  ASSUME NEW fns \in Seq(Functionalities)
  PROVE  /\ InitCalls(fns) \in Seq(AllCalls)
         /\ \A f \in ToSet(fns) :
              /\ IsStream(f) => Reader(ConsumedStream(f), TRUE) \in ToSet(InitCalls(fns))
              /\ IsCall(f) => /\ Writer(ConsumedRequest(f)) \in ToSet(InitCalls(fns))
                              /\ Reader(ConsumedResponse(f), FALSE) \in ToSet(InitCalls(fns))
         /\ \A f : Before(Answer(f), ReaderCalls(f), InitCalls(fns))
<1> DEFINE a == Each(fns, ConsumerTopics)
           b == Each(CallsOf(fns), LAMBDA f : <<Writer(ConsumedRequest(f))>>)
           c == Each(CallsOf(fns), LAMBDA f : <<Reader(ConsumedResponse(f), FALSE)>>)
           d == Each(Streams(fns), StreamReader)
           ab == a \o b
           abc == ab \o c
<1>1. /\ Streams(fns) \in Seq(Functionalities)
      /\ ToSet(Streams(fns)) = {f \in ToSet(fns) : IsStream(f)}
      /\ CallsOf(fns) \in Seq(Functionalities)
      /\ ToSet(CallsOf(fns)) = {f \in ToSet(fns) : IsCall(f)}
  <2>1. Callable \subseteq Functionalities
    BY DEF Callable
  <2> QED
    BY <2>1, StreamsElements, CallsOfElements, SeqMonotonic
<1>2. a \in Seq(AllCalls) /\ ToSet(a) \subseteq TopicCalls
  <2>1. TopicCalls \subseteq AllCalls
    BY DEF AllCalls
  <2>2. a \in Seq(TopicCalls)
    BY ConsumerTopicsForEach
  <2> HIDE DEF a
  <2> QED
    BY <2>1, <2>2, SeqMonotonic, SeqFacts
<1>3. b \in Seq(AllCalls) /\ ToSet(b) = {Writer(ConsumedRequest(f)) : f \in ToSet(CallsOf(fns))}
  BY <1>1, RequestWriterForEach
<1>4. /\ c \in Seq(AllCalls)
      /\ ToSet(c) = {Reader(ConsumedResponse(f), FALSE) : f \in ToSet(CallsOf(fns))}
  BY <1>1, ResponseReaderForEach
<1>5. d \in Seq(AllCalls) /\ ToSet(d) = {Reader(ConsumedStream(f), TRUE) : f \in ToSet(Streams(fns))}
  BY <1>1, StreamReaderForEach
<1>6. InitCalls(fns) = abc \o d /\ abc = ab \o c /\ ab = a \o b
  BY DEF InitCalls
<1> HIDE DEF a, b, c, d, ab, abc
<1>7. ab \in Seq(AllCalls) /\ ToSet(ab) = ToSet(a) \cup ToSet(b)
  BY <1>2, <1>3, <1>6, JoinElements
<1>8. abc \in Seq(AllCalls) /\ ToSet(abc) = ToSet(ab) \cup ToSet(c)
  <2>1. ab \in Seq(AllCalls) /\ c \in Seq(AllCalls)
    BY <1>4, <1>7
  <2>2. ab \o c \in Seq(AllCalls) /\ ToSet(ab \o c) = ToSet(ab) \cup ToSet(c)
    BY <2>1, JoinElements
  <2> QED
    BY <1>6, <2>2
<1>9. /\ InitCalls(fns) \in Seq(AllCalls)
      /\ ToSet(InitCalls(fns)) = ToSet(abc) \cup ToSet(d)
  <2>1. abc \in Seq(AllCalls) /\ d \in Seq(AllCalls)
    BY <1>5, <1>8
  <2>2. abc \o d \in Seq(AllCalls) /\ ToSet(abc \o d) = ToSet(abc) \cup ToSet(d)
    BY <2>1, JoinElements
  <2> QED
    BY <1>6, <2>2
<1>10. ToSet(InitCalls(fns)) = ToSet(a) \cup ToSet(b) \cup ToSet(c) \cup ToSet(d)
  BY <1>7, <1>8, <1>9
<1>11. ASSUME NEW f
       PROVE  ToSet(InitCalls(fns)) \cap ReaderCalls(f) = {}
  <2>1. ToSet(a) \cap ReaderCalls(f) = {}
    BY <1>2, NoReaderCall DEF TopicCalls
  <2>2. ToSet(b) \cap ReaderCalls(f) = {}
    BY <1>3, NoReaderCall
  <2>3. ToSet(c) \cap ReaderCalls(f) = {}
    BY <1>4, NoReaderCall, TopicsApart
  <2>4. ToSet(d) \cap ReaderCalls(f) = {}
    BY <1>5, NoReaderCall, TopicsApart
  <2> QED
    BY <1>10, <2>1, <2>2, <2>3, <2>4
<1>12. \A f : Before(Answer(f), ReaderCalls(f), InitCalls(fns))
  BY <1>9, <1>11, NoneBefore
<1> QED
  BY <1>1, <1>3, <1>4, <1>5, <1>9, <1>10, <1>12

LEMMA NewPlan ==
  NewCalls \in Seq(AllCalls) /\ \A f : Before(Answer(f), ReaderCalls(f), NewCalls)
<1> DEFINE P == PlainTopic("ProviderRegistration")
           D == PlainTopic("ConsumerDiscovery")
           s == <<Topic(P), Topic(D), Writer(P), Reader(D, FALSE)>>
<1>1. P \in AllTopics /\ D \in AllTopics
  BY DEF AllTopics
<1>2. \A f : P # ProvidedRequest(f) /\ D # ProvidedRequest(f)
  BY TopicsApart
<1>3. NewCalls = s
  BY DEF NewCalls
<1> HIDE DEF P, D
<1>4. /\ Topic(P) \in AllCalls /\ Topic(D) \in AllCalls
      /\ Writer(P) \in AllCalls /\ Reader(D, FALSE) \in AllCalls
  BY <1>1, CallsIn
<1>5. s \in Seq(AllCalls)
  <2> HIDE DEF s
  <2>1. \A x, y, z, u \in AllCalls : <<x, y, z, u>> \in Seq(AllCalls)
    OBVIOUS
  <2> QED
    BY <1>4, <2>1 DEF s
<1>6. ToSet(s) = {Topic(P), Topic(D), Writer(P), Reader(D, FALSE)}
  <2>1. DOMAIN s = {1, 2, 3, 4}
    OBVIOUS
  <2>2. s[1] = Topic(P) /\ s[2] = Topic(D) /\ s[3] = Writer(P) /\ s[4] = Reader(D, FALSE)
    OBVIOUS
  <2> HIDE DEF s
  <2> QED
    BY <2>1, <2>2 DEF ToSet
<1>7. \A f : ToSet(s) \cap ReaderCalls(f) = {}
  BY <1>2, <1>6, NoReaderCall
<1> HIDE DEF s
<1> QED
  BY <1>3, <1>5, <1>7, NoneBefore

JobRecords == [job : {"new", "register", "init"}, fns : Seq(Functionalities)]

LEMMA JobPlan ==
  ASSUME NEW j \in JobRecords
  PROVE  /\ JobCalls(j) \in Seq(AllCalls)
         /\ j.job = "new" => JobCalls(j) = NewCalls
         /\ j.job = "register" => JobCalls(j) = RegisterCalls(j.fns)
         /\ j.job = "init" => JobCalls(j) = InitCalls(j.fns)
         /\ \A f \in Callable : (j.job = "register" => SameOutput(f, ToSet(j.fns))) =>
              Before(Answer(f), ReaderCalls(f), JobCalls(j))
<1>1. j.job \in {"new", "register", "init"} /\ j.fns \in Seq(Functionalities)
  BY DEF JobRecords
<1>2. /\ j.job = "new" => JobCalls(j) = NewCalls
      /\ j.job = "register" => JobCalls(j) = RegisterCalls(j.fns)
      /\ j.job = "init" => JobCalls(j) = InitCalls(j.fns)
  BY DEF JobCalls
<1>3. CASE j.job = "new"
  BY <1>2, <1>3, NewPlan
<1>4. CASE j.job = "register"
  BY <1>1, <1>2, <1>4, RegisterPlan
<1>5. CASE j.job = "init"
  BY <1>1, <1>2, <1>5, InitPlan
<1> QED
  BY <1>1, <1>2, <1>3, <1>4, <1>5

\* Functionalities of one name that one task registers have one output type.
OutputsAgree ==
  \A t \in Tasks : \A f \in Declared(t, "register") : SameOutput(f, Declared(t, "register"))

LEMMA PlanParts ==
  ASSUME NEW t \in Tasks
  PROVE  /\ Plan[t] \in Seq(AllCalls)
         /\ ToSet(Plan[t]) = UNION {ToSet(JobCalls(j)) : j \in ToSet(Jobs[t])}
         /\ \A x, R : (\A j \in ToSet(Jobs[t]) : Before(x, R, JobCalls(j))) => Before(x, R, Plan[t])
<1> DEFINE c == [j \in JobRecords |-> JobCalls(j)]
           ss == [i \in DOMAIN Jobs[t] |-> JobCalls(Jobs[t][i])]
<1>1. Jobs[t] \in Seq(JobRecords)
  BY SetupAssumption DEF JobRecords
<1>2. ToSet(Jobs[t]) \subseteq JobRecords /\ \A i \in DOMAIN Jobs[t] : Jobs[t][i] \in JobRecords
  BY <1>1, SeqFacts
<1>3. c \in [JobRecords -> Seq(AllCalls)] /\ \A j \in JobRecords : c[j] = JobCalls(j)
  BY JobPlan
<1>4. ss \in [DOMAIN Jobs[t] -> Seq(AllCalls)] /\ \A i \in DOMAIN Jobs[t] : ss[i] = c[Jobs[t][i]]
  BY <1>2, JobPlan
<1>5. Plan[t] = FlattenSeq(ss)
  BY DEF Plan, Each
<1> HIDE DEF c, ss
<1>6. IsEach(ss, Jobs[t], c, JobRecords, AllCalls)
  BY <1>1, <1>3, <1>4 DEF IsEach
<1>7. /\ Plan[t] \in Seq(AllCalls)
      /\ ToSet(Plan[t]) = UNION {ToSet(c[j]) : j \in ToSet(Jobs[t])}
  BY <1>5, <1>6, EachElements
<1>8. {ToSet(c[j]) : j \in ToSet(Jobs[t])} = {ToSet(JobCalls(j)) : j \in ToSet(Jobs[t])}
  BY <1>2, <1>3
<1>9. ASSUME NEW x, NEW R, \A j \in ToSet(Jobs[t]) : Before(x, R, JobCalls(j))
      PROVE  Before(x, R, Plan[t])
  <2>1. \A j \in ToSet(Jobs[t]) : Before(x, R, c[j])
    BY <1>2, <1>3, <1>9
  <2> QED
    BY <1>5, <1>6, <2>1, EachBefore
<1> QED
  BY <1>7, <1>8, <1>9

LEMMA DeclaredBy ==
  ASSUME NEW t \in Tasks, NEW job, NEW f \in Declared(t, job)
  PROVE  \E j \in ToSet(Jobs[t]) : j \in JobRecords /\ j.job = job /\ f \in ToSet(j.fns)
<1>1. Jobs[t] \in Seq(JobRecords)
  BY SetupAssumption DEF JobRecords
<1>2. PICK i \in DOMAIN Jobs[t] : Jobs[t][i].job = job /\ f \in ToSet(Jobs[t][i].fns)
  BY DEF Declared
<1>3. Jobs[t][i] \in ToSet(Jobs[t]) /\ Jobs[t][i] \in JobRecords
  BY <1>1, SeqFacts
<1> QED
  BY <1>2, <1>3

LEMMA DeclaredKnown ==
  ASSUME NEW t \in Tasks, NEW job, NEW f \in Declared(t, job)
  PROVE  f \in Functionalities /\ (IsStream(f) \/ f \in Callable)
<1>1. f \in Functionalities
  <2>1. PICK j \in ToSet(Jobs[t]) : j \in JobRecords /\ f \in ToSet(j.fns)
    BY DeclaredBy
  <2> QED
    BY <2>1, SeqFacts DEF JobRecords
<1>2. f.kind \in Kinds
  BY <1>1, SetupAssumption
<1> QED
  BY <1>1, <1>2 DEF Callable, Kinds, IsStream, IsCall

\* A plan makes what its task declares.
LEMMA PlanMakes ==
  ASSUME NEW t \in Tasks
  PROVE  /\ \A f \in Declared(t, "register") :
              /\ IsStream(f) => Writer(ProvidedStream(f)) \in ToSet(Plan[t])
              /\ IsCall(f) => Answer(f) \in ToSet(Plan[t]) /\ Intake(f) \in ToSet(Plan[t])
         /\ \A f \in Declared(t, "init") :
              /\ IsStream(f) => Reader(ConsumedStream(f), TRUE) \in ToSet(Plan[t])
              /\ IsCall(f) => /\ Writer(ConsumedRequest(f)) \in ToSet(Plan[t])
                              /\ Reader(ConsumedResponse(f), FALSE) \in ToSet(Plan[t])
<1>1. \A j \in ToSet(Jobs[t]) : ToSet(JobCalls(j)) \subseteq ToSet(Plan[t])
  BY PlanParts
<1>2. ASSUME NEW f \in Declared(t, "register")
      PROVE  /\ IsStream(f) => Writer(ProvidedStream(f)) \in ToSet(Plan[t])
             /\ IsCall(f) => Answer(f) \in ToSet(Plan[t]) /\ Intake(f) \in ToSet(Plan[t])
  <2>1. PICK j \in ToSet(Jobs[t]) : j \in JobRecords /\ j.job = "register" /\ f \in ToSet(j.fns)
    BY DeclaredBy
  <2>2. j.fns \in Seq(Functionalities) /\ JobCalls(j) = RegisterCalls(j.fns)
    BY <2>1, JobPlan DEF JobRecords
  <2> QED
    BY <1>1, <2>1, <2>2, RegisterPlan
<1>3. ASSUME NEW f \in Declared(t, "init")
      PROVE  /\ IsStream(f) => Reader(ConsumedStream(f), TRUE) \in ToSet(Plan[t])
             /\ IsCall(f) => /\ Writer(ConsumedRequest(f)) \in ToSet(Plan[t])
                             /\ Reader(ConsumedResponse(f), FALSE) \in ToSet(Plan[t])
  <2>1. PICK j \in ToSet(Jobs[t]) : j \in JobRecords /\ j.job = "init" /\ f \in ToSet(j.fns)
    BY DeclaredBy
  <2>2. j.fns \in Seq(Functionalities) /\ JobCalls(j) = InitCalls(j.fns)
    BY <2>1, JobPlan DEF JobRecords
  <2> QED
    BY <1>1, <2>1, <2>2, InitPlan
<1> QED
  BY <1>2, <1>3

\* No plan has a reader of requests before the writer of their responses.
LEMMA PlanInOrder ==
  ASSUME OutputsAgree, NEW t \in Tasks, NEW f \in Declared(t, "register"), IsCall(f)
  PROVE  Before(Answer(f), ReaderCalls(f), Plan[t])
<1>1. f \in Callable
  BY DeclaredKnown DEF Callable
<1>2. ASSUME NEW j \in ToSet(Jobs[t])
      PROVE  Before(Answer(f), ReaderCalls(f), JobCalls(j))
  <2>1. Jobs[t] \in Seq(JobRecords)
    BY SetupAssumption DEF JobRecords
  <2>2. j \in JobRecords
    BY <2>1, SeqFacts
  <2>3. j.job = "register" => ToSet(j.fns) \subseteq Declared(t, "register")
    BY DEF Declared, ToSet
  <2>4. j.job = "register" => SameOutput(f, ToSet(j.fns))
    BY <2>3 DEF OutputsAgree, SameOutput
  <2> QED
    BY <1>1, <2>2, <2>4, JobPlan
<1> QED
  BY <1>2, PlanParts

-----------------------------------------------------------------------------
(* The steps of a task.                                                    *)

CallOf(e)        == [call |-> e.kind, topic |-> e.topic, listener |-> e.listener]
EndpointOf(t, x) == [owner |-> t, kind |-> x.call, topic |-> x.topic, listener |-> x.listener]

\* Every writer and reader comes from a call its owner has made ...
Planned == \A e \in endpoints : \E k \in 1 .. step[e.owner] : Plan[e.owner][k] = CallOf(e)

\* ... and every such call has left its writer or reader.
Made ==
  \A t \in Tasks : \A k \in 1 .. step[t] :
    Plan[t][k].call \in {"writer", "reader"} => EndpointOf(t, Plan[t][k]) \in endpoints

SetupInv == TypeOK /\ Planned /\ Made

LEMMA NextCall ==
  ASSUME TypeOK, NEW t \in Tasks, Pending(t)
  PROVE  /\ step[t] \in Nat /\ step[t] + 1 \in 1 .. Len(Plan[t]) /\ Len(Plan[t]) \in Nat
         /\ Call(t) \in AllCalls
<1>1. Plan[t] \in Seq(AllCalls)
  BY PlanParts
<1>2. Len(Plan[t]) \in Nat /\ \A k \in 1 .. Len(Plan[t]) : Plan[t][k] \in AllCalls
  BY <1>1, SeqFacts
<1>3. step[t] \in Nat /\ step[t] <= Len(Plan[t]) /\ step[t] # Len(Plan[t])
  BY DEF TypeOK, Pending, Done
<1>4. step[t] + 1 \in 1 .. Len(Plan[t])
  BY <1>2, <1>3
<1> QED
  BY <1>2, <1>3, <1>4 DEF Call

\* A step makes the next call of one task, or leaves the calls alone.
LEMMA StepMakesCall ==
  ASSUME TypeOK, [Next]_vars
  PROVE  \/ UNCHANGED <<step, endpoints>>
         \/ \E t \in Tasks :
              /\ Pending(t) /\ step' = [step EXCEPT ![t] = @ + 1]
              /\ endpoints' = IF Call(t).call \in {"writer", "reader"}
                              THEN endpoints \cup {EndpointOf(t, Call(t))} ELSE endpoints
<1>1. CASE UNCHANGED vars
  BY <1>1 DEF vars
<1>2. ASSUME NEW t \in Tasks, CreateTopic(t)
      PROVE  /\ Pending(t) /\ step' = [step EXCEPT ![t] = @ + 1]
             /\ Call(t).call \notin {"writer", "reader"} /\ endpoints' = endpoints
  BY <1>2 DEF CreateTopic
<1>3. ASSUME NEW t \in Tasks, CreateEndpoint(t)
      PROVE  /\ Pending(t) /\ step' = [step EXCEPT ![t] = @ + 1]
             /\ Call(t).call \in {"writer", "reader"}
             /\ endpoints' = endpoints \cup {EndpointOf(t, Call(t))}
  BY <1>3 DEF CreateEndpoint, EndpointOf
<1>4. ASSUME NEW t \in Tasks, Announce(t)
      PROVE  /\ Pending(t) /\ step' = [step EXCEPT ![t] = @ + 1]
             /\ Call(t).call \notin {"writer", "reader"} /\ endpoints' = endpoints
  BY <1>4 DEF Announce
<1>5. ASSUME NEW t \in Tasks, Panics(t) \/ CallFails(t)
      PROVE  UNCHANGED <<step, endpoints>>
  BY <1>5 DEF Panics, CallFails
<1>6. CASE Next
  BY <1>2, <1>3, <1>4, <1>5, <1>6 DEF Next, Step
<1> QED
  BY <1>1, <1>6

LEMMA TypeStep == TypeOK /\ [Next]_vars => TypeOK'
<1> SUFFICES ASSUME TypeOK, [Next]_vars
             PROVE  TypeOK'
  OBVIOUS
<1>1. ASSUME NEW t \in Tasks, Pending(t), step' = [step EXCEPT ![t] = @ + 1]
      PROVE  step' \in [Tasks -> Nat] /\ \A u \in Tasks : step'[u] <= Len(Plan[u])
  BY <1>1, NextCall DEF TypeOK
<1>2. CASE UNCHANGED vars
  BY <1>2 DEF vars, TypeOK
<1>3. ASSUME NEW t \in Tasks, CreateTopic(t)
      PROVE  TypeOK'
  <2>1. step' \in [Tasks -> Nat] /\ \A u \in Tasks : step'[u] <= Len(Plan[u])
    BY <1>1, <1>3 DEF CreateTopic
  <2>2. PartOf[t] \in Participants
    BY SetupAssumption
  <2>3. \A x \in topics' : x.part \in Participants /\ x.owner \in Tasks
    BY <1>3, <2>2 DEF CreateTopic, TypeOK
  <2> QED
    BY <1>3, <2>1, <2>3 DEF CreateTopic, TypeOK
<1>4. ASSUME NEW t \in Tasks, CreateEndpoint(t)
      PROVE  TypeOK'
  <2>1. step' \in [Tasks -> Nat] /\ \A u \in Tasks : step'[u] <= Len(Plan[u])
    BY <1>1, <1>4 DEF CreateEndpoint
  <2>2. \A e \in endpoints' : e.owner \in Tasks /\ e.kind \in {"writer", "reader"}
    BY <1>4 DEF CreateEndpoint, TypeOK
  <2> QED
    BY <1>4, <2>1, <2>2 DEF CreateEndpoint, TypeOK
<1>5. ASSUME NEW t \in Tasks, Announce(t)
      PROVE  TypeOK'
  <2>1. \A f \in ToSet(Call(t).fns) : IsCall(f)
    BY <1>5, NextCall, CallFields DEF Announce
  <2>2. step' \in [Tasks -> Nat] /\ \A u \in Tasks : step'[u] <= Len(Plan[u])
    BY <1>1, <1>5 DEF Announce
  <2>3. announced' = announced \cup {<<t, f>> : f \in ToSet(Call(t).fns)}
    BY <1>5 DEF Announce
  <2>4. \A f : <<t, f>>[1] = t /\ <<t, f>>[2] = f
    OBVIOUS
  <2>5. \A a \in announced' : a[1] \in Tasks /\ IsCall(a[2])
    BY <2>1, <2>3, <2>4 DEF TypeOK
  <2> QED
    BY <1>5, <2>2, <2>5 DEF Announce, TypeOK
<1>6. ASSUME NEW t \in Tasks, Panics(t)
      PROVE  TypeOK'
  BY <1>6 DEF Panics, TypeOK
<1>7. ASSUME NEW t \in Tasks, CallFails(t)
      PROVE  TypeOK'
  BY <1>7, SetupAssumption DEF CallFails, TypeOK
<1> QED
  BY <1>2, <1>3, <1>4, <1>5, <1>6, <1>7 DEF Next, Step

LEMMA PlannedStep ==
  ASSUME TypeOK, Planned, [Next]_vars
  PROVE  Planned'
<1>1. CASE UNCHANGED <<step, endpoints>>
  BY <1>1 DEF Planned
<1>2. ASSUME NEW t \in Tasks, Pending(t), step' = [step EXCEPT ![t] = @ + 1],
             endpoints' = IF Call(t).call \in {"writer", "reader"}
                          THEN endpoints \cup {EndpointOf(t, Call(t))} ELSE endpoints
      PROVE  Planned'
  <2>1. /\ step[t] \in Nat /\ step[t] + 1 \in 1 .. step'[t]
        /\ Call(t) \in AllCalls /\ Call(t) = Plan[t][step[t] + 1]
    BY <1>2, NextCall DEF TypeOK, Call
  <2>2. \A u \in Tasks : 1 .. step[u] \subseteq 1 .. step'[u]
    BY <1>2 DEF TypeOK
  <2>3. ASSUME NEW e \in endpoints
        PROVE  \E k \in 1 .. step'[e.owner] : Plan[e.owner][k] = CallOf(e)
    BY <2>2 DEF Planned, TypeOK
  <2>4. ASSUME Call(t).call \in {"writer", "reader"}
        PROVE  CallOf(EndpointOf(t, Call(t))) = Plan[t][step[t] + 1]
    <3>1. Call(t) = [call |-> Call(t).call, topic |-> Call(t).topic, listener |-> Call(t).listener]
      BY <2>1, <2>4, CallFields
    <3> QED
      BY <2>1, <3>1 DEF CallOf, EndpointOf
  <2>5. EndpointOf(t, Call(t)).owner = t
    BY DEF EndpointOf
  <2>6. \A e \in endpoints' : \E k \in 1 .. step'[e.owner] : Plan[e.owner][k] = CallOf(e)
    BY <1>2, <2>1, <2>3, <2>4, <2>5
  <2> QED
    BY <2>6 DEF Planned, CallOf
<1> QED
  BY <1>1, <1>2, StepMakesCall

LEMMA MadeStep ==
  ASSUME TypeOK, Made, [Next]_vars
  PROVE  Made'
<1>1. CASE UNCHANGED <<step, endpoints>>
  BY <1>1 DEF Made
<1>2. ASSUME NEW t \in Tasks, Pending(t), step' = [step EXCEPT ![t] = @ + 1],
             endpoints' = IF Call(t).call \in {"writer", "reader"}
                          THEN endpoints \cup {EndpointOf(t, Call(t))} ELSE endpoints
      PROVE  Made'
  <2> SUFFICES ASSUME NEW u \in Tasks, NEW k \in 1 .. step'[u],
                      Plan[u][k].call \in {"writer", "reader"}
               PROVE  EndpointOf(u, Plan[u][k]) \in endpoints'
    BY DEF Made, EndpointOf
  <2>1. endpoints \subseteq endpoints'
    BY <1>2
  <2>2. CASE k \in 1 .. step[u]
    BY <2>1, <2>2 DEF Made
  <2>3. CASE k \notin 1 .. step[u]
    <3>1. u = t /\ k = step[t] + 1
      BY <1>2, <2>3 DEF TypeOK
    <3>2. Plan[u][k] = Call(t)
      BY <3>1 DEF Call
    <3> QED
      BY <1>2, <3>1, <3>2
  <2> QED
    BY <2>2, <2>3
<1> QED
  BY <1>1, <1>2, StepMakesCall

LEMMA AlwaysSetupInv == Spec => []SetupInv
<1>1. Init => SetupInv
  <2> SUFFICES ASSUME Init
               PROVE  SetupInv
    OBVIOUS
  <2>1. \A t \in Tasks : Len(Plan[t]) \in Nat
    BY PlanParts, SeqFacts
  <2>2. TypeOK
    BY <2>1, SetupAssumption DEF Init, TypeOK
  <2>3. Planned /\ Made
    BY DEF Init, Planned, Made
  <2> QED
    BY <2>2, <2>3 DEF SetupInv
<1>2. SetupInv /\ [Next]_vars => SetupInv'
  BY TypeStep, PlannedStep, MadeStep DEF SetupInv
<1> QED
  BY <1>1, <1>2, PTL DEF Spec

\* Every task is within its plan and only calls, never streams, are
\* announced, whatever the jobs are.
THEOREM SetupTypeCorrect == Spec => []TypeOK
  BY AlwaysSetupInv, PTL DEF SetupInv

-----------------------------------------------------------------------------
(* What the endpoints of a task are, at any moment and when it is done.    *)

\* Whatever reads requests on a provider's topic, it writes the responses.
LEMMA WriterFirst ==
  ASSUME OutputsAgree, SetupInv, NEW t \in Tasks, NEW f \in Declared(t, "register"), IsCall(f),
         NEW e \in endpoints, e.owner = t, e.kind = "reader", e.topic = ProvidedRequest(f)
  PROVE  \E w \in endpoints : w.owner = t /\ w.kind = "writer" /\ w.topic = ProvidedResponse(f)
<1>2. PICK k \in 1 .. step[t] : Plan[t][k] = CallOf(e)
  BY DEF SetupInv, Planned
<1>3. step[t] \in Nat /\ step[t] <= Len(Plan[t])
  BY DEF SetupInv, TypeOK
<1>4. Plan[t] \in Seq(AllCalls)
  BY PlanParts
<1>5. Len(Plan[t]) \in Nat /\ DOMAIN Plan[t] = 1 .. Len(Plan[t])
  BY <1>4, SeqFacts
<1>6. k \in DOMAIN Plan[t] /\ Plan[t][k] \in AllCalls
  BY <1>3, <1>4, <1>5, SeqFacts
<1>7. Plan[t][k] \in ReaderCalls(f)
  <2>1. e.listener \in BOOLEAN
    <3>1. /\ Plan[t][k] \in AllCalls /\ Plan[t][k].call = "reader"
          /\ Plan[t][k].listener = e.listener
      BY <1>2, <1>6 DEF CallOf
    <3>2. Plan[t][k] \in EndpointCalls
      BY <3>1 DEF AllCalls, TopicCalls, AnnounceCalls, Topic
    <3> QED
      BY <3>1, <3>2 DEF EndpointCalls, Writer, Reader
  <2> QED
    BY <1>2, <2>1 DEF CallOf, ReaderCalls, Reader
<1>8. PICK j \in 1 .. k - 1 : Plan[t][j] = Answer(f)
  BY <1>6, <1>7, PlanInOrder DEF Before
<1>9. j \in 1 .. step[t] /\ Plan[t][j].call = "writer" /\ Plan[t][j].topic = ProvidedResponse(f)
  BY <1>3, <1>8 DEF Answer, Writer
<1>10. EndpointOf(t, Plan[t][j]) \in endpoints
  BY <1>9 DEF SetupInv, Made
<1> QED
  BY <1>9, <1>10 DEF EndpointOf

\* A task that is done has every endpoint of its plan.
LEMMA DoneHas ==
  ASSUME SetupInv, NEW t \in Tasks, Done(t), NEW x \in ToSet(Plan[t]),
         x.call \in {"writer", "reader"}
  PROVE  EndpointOf(t, x) \in endpoints
<1>1. Plan[t] \in Seq(AllCalls)
  BY PlanParts
<1>2. PICK k \in 1 .. Len(Plan[t]) : Plan[t][k] = x
  BY <1>1, SeqFacts
<1>3. k \in 1 .. step[t]
  BY DEF Done
<1> QED
  BY <1>2, <1>3 DEF SetupInv, Made

LEMMA WriterMade ==
  ASSUME SetupInv, NEW t \in Tasks, Done(t), NEW y, Writer(y) \in ToSet(Plan[t])
  PROVE  [owner |-> t, kind |-> "writer", topic |-> y, listener |-> FALSE] \in endpoints
<1>1. Writer(y).call \in {"writer", "reader"}
  BY DEF Writer
<1>2. EndpointOf(t, Writer(y)) \in endpoints
  BY <1>1, DoneHas
<1> QED
  BY <1>2 DEF EndpointOf, Writer

LEMMA ReaderMade ==
  ASSUME SetupInv, NEW t \in Tasks, Done(t), NEW y, NEW l, Reader(y, l) \in ToSet(Plan[t])
  PROVE  [owner |-> t, kind |-> "reader", topic |-> y, listener |-> l] \in endpoints
<1>1. Reader(y, l).call \in {"writer", "reader"}
  BY DEF Reader
<1>2. EndpointOf(t, Reader(y, l)) \in endpoints
  BY <1>1, DoneHas
<1> QED
  BY <1>2 DEF EndpointOf, Reader

LEMMA BothMade ==
  ASSUME SetupInv, NEW t \in Tasks, NEW u \in Tasks, Done(t), Done(u), NEW y, NEW z, NEW l,
         Writer(y) \in ToSet(Plan[t]), Reader(z, l) \in ToSet(Plan[u]),
         y.name = z.name, y.type = z.type
  PROVE  Connected(t, y, u, z, l)
<1> DEFINE w == [owner |-> t, kind |-> "writer", topic |-> y, listener |-> FALSE]
           r == [owner |-> u, kind |-> "reader", topic |-> z, listener |-> l]
<1>1. w \in endpoints /\ r \in endpoints
  BY WriterMade, ReaderMade
<1>2. Matched(w, r)
  BY DEF Matched
<1>3. w.owner = t /\ w.topic = y /\ r.owner = u /\ r.topic = z /\ r.listener = l
  OBVIOUS
<1> HIDE DEF w, r
<1> QED
  BY <1>1, <1>2, <1>3 DEF Connected

\* Two calls of one name and output have one response topic, and each macro
\* names the topics of a functionality as the other one does.
LEMMA MacrosAgree ==
  ASSUME NEW f, NEW g
  PROVE  /\ ProvidedRequest(f).name = ConsumedRequest(f).name
         /\ ProvidedRequest(f).type = ConsumedRequest(f).type
         /\ ProvidedStream(f).name = ConsumedStream(f).name
         /\ ProvidedStream(f).type = ConsumedStream(f).type
         /\ f.name = g.name /\ f.out = g.out =>
              /\ ProvidedResponse(f).name = ConsumedResponse(g).name
              /\ ProvidedResponse(f).type = ConsumedResponse(g).type
         /\ ConsumedRequest(g).name = ProvidedRequest(f).name => f.name = g.name
  BY DEF ProvidedRequest, ProvidedResponse, ProvidedStream, ProvidedInputName,
         ConsumedRequest, ConsumedResponse, ConsumedStream, ConsumedInputName, TopicNames

LEMMA ReachedAnswers ==
  ASSUME OutputsAgree, SetupInv
  PROVE  AnswersReturn
<1> SUFFICES ASSUME NEW p \in Tasks, NEW c \in Tasks,
                    NEW f \in Declared(p, "register"), NEW g \in Declared(c, "init"),
                    Done(c), IsCall(f), IsCall(g), f.out = g.out,
                    Connected(c, ConsumedRequest(g), p, ProvidedRequest(f), TRUE)
             PROVE  Connected(p, ProvidedResponse(f), c, ConsumedResponse(g), FALSE)
  BY DEF AnswersReturn
<1>1. PICK w, r \in endpoints :
        /\ w.topic = ConsumedRequest(g) /\ r.owner = p /\ r.topic = ProvidedRequest(f)
        /\ Matched(w, r)
  BY DEF Connected
<1>2. r.kind = "reader" /\ f.name = g.name
  <2>1. r.kind = "reader" /\ ConsumedRequest(g).name = ProvidedRequest(f).name
    BY <1>1 DEF Matched
  <2>2. ConsumedRequest(g).name = ProvidedRequest(f).name => f.name = g.name
    BY MacrosAgree
  <2> QED
    BY <2>1, <2>2
<1>3. PICK x \in endpoints : x.owner = p /\ x.kind = "writer" /\ x.topic = ProvidedResponse(f)
  BY <1>1, <1>2, WriterFirst
<1> DEFINE y == [owner |-> c, kind |-> "reader", topic |-> ConsumedResponse(g), listener |-> FALSE]
<1>4. y \in endpoints
  BY PlanMakes, ReaderMade
<1>5. Matched(x, y)
  <2>1. /\ ProvidedResponse(f).name = ConsumedResponse(g).name
        /\ ProvidedResponse(f).type = ConsumedResponse(g).type
    BY <1>2, MacrosAgree
  <2>2. y.kind = "reader" /\ y.topic = ConsumedResponse(g)
    OBVIOUS
  <2> HIDE DEF y
  <2> QED
    BY <1>3, <2>1, <2>2 DEF Matched
<1>6. y.owner = c /\ y.topic = ConsumedResponse(g) /\ y.listener = FALSE
  OBVIOUS
<1> HIDE DEF y
<1> QED
  BY <1>3, <1>4, <1>5, <1>6 DEF Connected

\* Wherever the setup of a provider is or has stopped, and whatever other
\* tasks do: a request of a consumer that reaches a listener of the provider
\* can be answered, since the writer of the responses is there and matches
\* the consumer's reader.
THEOREM RequestsCanBeAnswered ==
  ASSUME OutputsAgree
  PROVE  Spec => []AnswersReturn
<1>1. SetupInv => AnswersReturn
  BY ReachedAnswers
<1> QED
  BY <1>1, AlwaysSetupInv, PTL

LEMMA DoneConnected ==
  ASSUME SetupInv
  PROVE  DeclaredIsConnected
<1> SUFFICES ASSUME NEW p \in Tasks, NEW c \in Tasks, Done(p), Done(c),
                    NEW f \in Declared(p, "register") \cap Declared(c, "init")
             PROVE  IF IsStream(f)
                    THEN Connected(p, ProvidedStream(f), c, ConsumedStream(f), TRUE)
                    ELSE /\ Connected(c, ConsumedRequest(f), p, ProvidedRequest(f), TRUE)
                         /\ Connected(p, ProvidedResponse(f), c, ConsumedResponse(f), FALSE)
  BY DEF DeclaredIsConnected
<1>1. CASE IsStream(f)
  <2>1. /\ Writer(ProvidedStream(f)) \in ToSet(Plan[p])
        /\ Reader(ConsumedStream(f), TRUE) \in ToSet(Plan[c])
    BY <1>1, PlanMakes
  <2> QED
    BY <1>1, <2>1, BothMade, MacrosAgree
<1>2. CASE ~IsStream(f)
  <2>1. IsCall(f)
    BY <1>2, DeclaredKnown DEF Callable
  <2>2. /\ Writer(ProvidedResponse(f)) \in ToSet(Plan[p])
        /\ Reader(ProvidedRequest(f), TRUE) \in ToSet(Plan[p])
        /\ Writer(ConsumedRequest(f)) \in ToSet(Plan[c])
        /\ Reader(ConsumedResponse(f), FALSE) \in ToSet(Plan[c])
    BY <2>1, PlanMakes DEF Answer, Intake
  <2>3. Connected(c, ConsumedRequest(f), p, ProvidedRequest(f), TRUE)
    BY <2>2, BothMade, MacrosAgree
  <2>4. Connected(p, ProvidedResponse(f), c, ConsumedResponse(f), FALSE)
    BY <2>2, BothMade, MacrosAgree
  <2> QED
    BY <1>2, <2>3, <2>4
<1> QED
  BY <1>1, <1>2

\* A provider and a consumer that declare the same functionality, whose
\* topics, writers and readers come from two different macros, are connected
\* in every direction it needs once both have finished their setup.
THEOREM DeclarationsConnect == Spec => []DeclaredIsConnected
<1>1. SetupInv => DeclaredIsConnected
  BY DoneConnected
<1> QED
  BY <1>1, AlwaysSetupInv, PTL

-----------------------------------------------------------------------------
(* Two declarations make two calls.                                        *)

\* x and y stand at two different places of s.
Twice(x, y, s) == \E j, k \in DOMAIN s : j # k /\ s[j] = x /\ s[k] = y

LEMMA JoinTwice ==
  ASSUME NEW S, NEW a \in Seq(S), NEW b \in Seq(S), NEW x, NEW y
  PROVE  /\ Twice(x, y, a) => Twice(x, y, a \o b)
         /\ Twice(x, y, b) => Twice(x, y, a \o b)
         /\ x \in ToSet(a) /\ y \in ToSet(b) => Twice(x, y, a \o b)
         /\ x \in ToSet(b) /\ y \in ToSet(a) => Twice(x, y, a \o b)
<1>1. /\ a \o b \in Seq(S) /\ Len(a \o b) = Len(a) + Len(b)
      /\ \A i \in 1 .. Len(a) + Len(b) :
           (a \o b)[i] = IF i <= Len(a) THEN a[i] ELSE b[i - Len(a)]
  BY ConcatProperties
<1>2. /\ Len(a) \in Nat /\ Len(b) \in Nat
      /\ DOMAIN a = 1 .. Len(a) /\ DOMAIN b = 1 .. Len(b)
      /\ DOMAIN (a \o b) = 1 .. Len(a) + Len(b)
  BY <1>1, SeqFacts
<1>3. \A i \in DOMAIN a : i \in DOMAIN (a \o b) /\ i <= Len(a) /\ (a \o b)[i] = a[i]
  BY <1>1, <1>2
<1>4. ASSUME NEW i \in DOMAIN b
      PROVE  i + Len(a) \in DOMAIN (a \o b) /\ ~(i + Len(a) <= Len(a)) /\ (a \o b)[i + Len(a)] = b[i]
  <2>1. i + Len(a) \in 1 .. Len(a) + Len(b) /\ ~(i + Len(a) <= Len(a)) /\ (i + Len(a)) - Len(a) = i
    BY <1>2
  <2> QED
    BY <1>1, <1>2, <2>1
<1>5. /\ \A z \in ToSet(a) : \E i \in DOMAIN a : a[i] = z
      /\ \A z \in ToSet(b) : \E i \in DOMAIN b : b[i] = z
  BY <1>2, SeqFacts
<1>6. ASSUME Twice(x, y, a)
      PROVE  Twice(x, y, a \o b)
  BY <1>3, <1>6 DEF Twice
<1>7. ASSUME Twice(x, y, b)
      PROVE  Twice(x, y, a \o b)
  <2>1. PICK j, k \in DOMAIN b : j # k /\ b[j] = x /\ b[k] = y
    BY <1>7 DEF Twice
  <2>2. j + Len(a) # k + Len(a)
    BY <1>2, <2>1
  <2> QED
    BY <1>4, <2>1, <2>2 DEF Twice
<1>8. ASSUME NEW u \in ToSet(a), NEW v \in ToSet(b)
      PROVE  \E j, k \in DOMAIN (a \o b) : j # k /\ (a \o b)[j] = u /\ (a \o b)[k] = v
  <2>1. PICK j \in DOMAIN a : a[j] = u
    BY <1>5
  <2>2. PICK k \in DOMAIN b : b[k] = v
    BY <1>5
  <2>3. j # k + Len(a)
    BY <1>3, <1>4
  <2> QED
    BY <1>3, <1>4, <2>1, <2>2, <2>3
<1> QED
  BY <1>6, <1>7, <1>8 DEF Twice

LEMMA JoinKeeps ==
  ASSUME NEW S, NEW a \in Seq(S), NEW b \in Seq(S), NEW s, s = a \o b
  PROVE  /\ s \in Seq(S) /\ ToSet(a) \subseteq ToSet(s) /\ ToSet(b) \subseteq ToSet(s)
         /\ \A x, y : Twice(x, y, a) \/ Twice(x, y, b) => Twice(x, y, s)
<1>1. a \o b \in Seq(S) /\ ToSet(a \o b) = ToSet(a) \cup ToSet(b)
  BY JoinElements
<1>2. \A x, y : Twice(x, y, a) \/ Twice(x, y, b) => Twice(x, y, a \o b)
  BY JoinTwice
<1> QED
  BY <1>1, <1>2

\* Two elements of different sequences, or at two places of one, among the
\* first m sequences.
Pairs(x, y, ss, m) ==
  \E i, j \in 1 .. m :
    IF i = j THEN Twice(x, y, ss[i]) ELSE x \in ToSet(ss[i]) /\ y \in ToSet(ss[j])

LEMMA FlattenTwice ==
  ASSUME NEW S, NEW ss \in Seq(Seq(S)), NEW x, NEW y, Pairs(x, y, ss, Len(ss))
  PROVE  Twice(x, y, FlattenSeq(ss))
<1>1. Len(ss) \in Nat /\ \A i \in 1 .. Len(ss) : ss[i] \in Seq(S)
  BY SeqFacts
<1>2. Len(ss) # 0
  BY DEF Pairs
<1> DEFINE Upto(m) == UNION {ToSet(ss[i]) : i \in 1 .. m}
           Good == {p \in (1 .. Len(ss)) \X Seq(S) :
                      /\ ToSet(p[2]) = Upto(p[1])
                      /\ Pairs(x, y, ss, p[1]) => Twice(x, y, p[2])}
<1>3. <<1, ss[1]>> \in Good
  <2>1. 1 .. 1 = {1}
    OBVIOUS
  <2>2. Upto(1) = ToSet(ss[1])
    BY <2>1
  <2>3. Pairs(x, y, ss, 1) => Twice(x, y, ss[1])
    BY <2>1 DEF Pairs
  <2> QED
    BY <1>1, <1>2, <2>2, <2>3
<1>4. ASSUME NEW m \in 1 .. Len(ss) - 1, NEW s, <<m, s>> \in Good
      PROVE  <<m + 1, s \o ss[m + 1]>> \in Good
  <2>1. /\ m + 1 \in 1 .. Len(ss) /\ s \in Seq(S) /\ ToSet(s) = Upto(m)
        /\ ss[m + 1] \in Seq(S)
        /\ Pairs(x, y, ss, m) => Twice(x, y, s)
    BY <1>1, <1>4
  <2> DEFINE b == ss[m + 1]
  <2>2. s \o b \in Seq(S) /\ ToSet(s \o b) = Upto(m) \cup ToSet(b)
    BY <2>1, JoinElements
  <2>3. 1 .. m + 1 = (1 .. m) \cup {m + 1} /\ m + 1 \notin 1 .. m
    BY <1>1
  <2>4. Upto(m + 1) = Upto(m) \cup ToSet(b)
    BY <2>3
  <2>5. ASSUME Pairs(x, y, ss, m + 1)
        PROVE  Twice(x, y, s \o b)
    <3>1. PICK i, j \in 1 .. m + 1 :
            IF i = j THEN Twice(x, y, ss[i]) ELSE x \in ToSet(ss[i]) /\ y \in ToSet(ss[j])
      BY <2>5 DEF Pairs
    <3>2. CASE i \in 1 .. m /\ j \in 1 .. m
      <4>1. Pairs(x, y, ss, m)
        BY <3>1, <3>2 DEF Pairs
      <4> QED
        BY <2>1, <4>1, JoinTwice
    <3>3. CASE i = m + 1 /\ j = m + 1
      <4>1. Twice(x, y, b)
        BY <3>1, <3>3
      <4> QED
        BY <2>1, <4>1, JoinTwice
    <3>4. CASE i \in 1 .. m /\ j = m + 1
      <4>1. i # j /\ x \in ToSet(s) /\ y \in ToSet(b)
        BY <2>1, <2>3, <3>1, <3>4
      <4> QED
        BY <2>1, <4>1, JoinTwice
    <3>5. CASE i = m + 1 /\ j \in 1 .. m
      <4>1. i # j /\ x \in ToSet(b) /\ y \in ToSet(s)
        BY <2>1, <2>3, <3>1, <3>5
      <4> QED
        BY <2>1, <4>1, JoinTwice
    <3> QED
      BY <2>3, <3>2, <3>3, <3>4, <3>5
  <2> QED
    BY <2>1, <2>2, <2>4, <2>5
<1> HIDE DEF Good
<1>5. <<Len(ss), FlattenSeq(ss)>> \in Good
  BY <1>1, <1>2, <1>3, <1>4, FlattenInduction
<1> QED
  BY <1>5 DEF Good

LEMMA EachTwice ==
  ASSUME NEW F, NEW fns, NEW S, NEW c, NEW ss, IsEach(ss, fns, c, F, S), NEW x, NEW y
  PROVE  /\ \A f, g : Twice(f, g, fns) /\ x \in ToSet(c[f]) /\ y \in ToSet(c[g])
                        => Twice(x, y, FlattenSeq(ss))
         /\ \A f \in ToSet(fns) : Twice(x, y, c[f]) => Twice(x, y, FlattenSeq(ss))
<1>0. /\ fns \in Seq(F) /\ c \in [F -> Seq(S)] /\ ss \in [DOMAIN fns -> Seq(S)]
      /\ \A i \in DOMAIN fns : ss[i] = c[fns[i]]
  BY DEF IsEach
<1>1. /\ Len(fns) \in Nat /\ DOMAIN fns = 1 .. Len(fns)
      /\ \A f : f \in ToSet(fns) <=> \E i \in 1 .. Len(fns) : fns[i] = f
  BY <1>0, SeqFacts
<1>2. ss \in [1 .. Len(fns) -> Seq(S)]
  BY <1>0, <1>1
<1>3. ss \in Seq(Seq(S)) /\ 1 .. Len(ss) = 1 .. Len(fns)
  <2>1. ss \in Seq(Seq(S))
    <3>1. ss \in UNION {[1 .. n -> Seq(S)] : n \in Nat}
      BY <1>1, <1>2
    <3> QED
      BY <3>1, SeqDef, Zenon
  <2>2. DOMAIN ss = 1 .. Len(fns) /\ DOMAIN ss = 1 .. Len(ss)
    BY <1>2, <2>1, SeqFacts
  <2> QED
    BY <2>1, <2>2
<1>4. ASSUME NEW f, NEW g, Twice(f, g, fns), x \in ToSet(c[f]), y \in ToSet(c[g])
      PROVE  Twice(x, y, FlattenSeq(ss))
  <2>1. PICK i, j \in 1 .. Len(ss) : i # j /\ fns[i] = f /\ fns[j] = g
    BY <1>1, <1>3, <1>4 DEF Twice
  <2>2. ss[i] = c[f] /\ ss[j] = c[g]
    BY <1>0, <1>1, <1>3, <2>1
  <2>3. Pairs(x, y, ss, Len(ss))
    BY <1>4, <2>1, <2>2 DEF Pairs
  <2> QED
    BY <1>3, <2>3, FlattenTwice
<1>5. ASSUME NEW f \in ToSet(fns), Twice(x, y, c[f])
      PROVE  Twice(x, y, FlattenSeq(ss))
  <2>1. PICK i \in 1 .. Len(ss) : fns[i] = f
    BY <1>1, <1>3
  <2>2. ss[i] = c[f]
    BY <1>0, <1>1, <1>3, <2>1
  <2>3. Pairs(x, y, ss, Len(ss))
    BY <1>5, <2>1, <2>2 DEF Pairs
  <2> QED
    BY <1>3, <2>3, FlattenTwice
<1> QED
  BY <1>4, <1>5

LEMMA TwiceIn ==
  ASSUME NEW S, NEW s \in Seq(S), NEW x, NEW y, Twice(x, y, s)
  PROVE  x \in ToSet(s) /\ y \in ToSet(s) /\ x \in S /\ y \in S
  BY SeqFacts DEF Twice

LEMMA StreamsTwice ==
  ASSUME NEW fns \in Seq(Functionalities), NEW f, NEW g, Twice(f, g, fns), IsStream(f), IsStream(g)
  PROVE  Twice(f, g, Streams(fns))
<1> DEFINE c == [h \in Functionalities |-> IF IsStream(h) THEN <<h>> ELSE <<>>]
           ss == [i \in DOMAIN fns |-> IF IsStream(fns[i]) THEN <<fns[i]>> ELSE <<>>]
<1>1. f \in Functionalities /\ g \in Functionalities
  BY TwiceIn
<1>2. \A h \in Functionalities : c[h] \in Seq(Functionalities)
  BY OneElement, NoElement
<1>3. f \in ToSet(c[f]) /\ g \in ToSet(c[g])
  BY <1>1, OneElement
<1>4. c \in [Functionalities -> Seq(Functionalities)]
  BY <1>2
<1>5. \A i \in DOMAIN fns : fns[i] \in Functionalities
  BY SeqFacts
<1>6. ss \in [DOMAIN fns -> Seq(Functionalities)] /\ \A i \in DOMAIN fns : ss[i] = c[fns[i]]
  BY <1>2, <1>5
<1>7. Streams(fns) = FlattenSeq(ss)
  BY DEF Streams, Each
<1> HIDE DEF c, ss
<1>8. IsEach(ss, fns, c, Functionalities, Functionalities)
  BY <1>4, <1>6 DEF IsEach
<1> QED
  BY <1>3, <1>7, <1>8, EachTwice

LEMMA CallsOfTwice ==
  ASSUME NEW fns \in Seq(Functionalities), NEW f, NEW g, Twice(f, g, fns), IsCall(f), IsCall(g)
  PROVE  Twice(f, g, CallsOf(fns))
<1> DEFINE c == [h \in Functionalities |-> IF IsCall(h) THEN <<h>> ELSE <<>>]
           ss == [i \in DOMAIN fns |-> IF IsCall(fns[i]) THEN <<fns[i]>> ELSE <<>>]
<1>1. f \in Functionalities /\ g \in Functionalities
  BY TwiceIn
<1>2. \A h \in Functionalities : c[h] \in Seq(Functionalities)
  BY OneElement, NoElement
<1>3. f \in ToSet(c[f]) /\ g \in ToSet(c[g])
  BY <1>1, OneElement
<1>4. c \in [Functionalities -> Seq(Functionalities)]
  BY <1>2
<1>5. \A i \in DOMAIN fns : fns[i] \in Functionalities
  BY SeqFacts
<1>6. ss \in [DOMAIN fns -> Seq(Functionalities)] /\ \A i \in DOMAIN fns : ss[i] = c[fns[i]]
  BY <1>2, <1>5
<1>7. CallsOf(fns) = FlattenSeq(ss)
  BY DEF CallsOf, Each
<1> HIDE DEF c, ss
<1>8. IsEach(ss, fns, c, Functionalities, Functionalities)
  BY <1>4, <1>6 DEF IsEach
<1> QED
  BY <1>3, <1>7, <1>8, EachTwice

LEMMA HandleTwice ==
  ASSUME NEW fns \in Seq(Functionalities), NEW f, NEW g, Twice(f, g, fns)
  PROVE  Twice(Topic(ProvidedStream(f)), Topic(ProvidedStream(g)),
               Each(fns, LAMBDA h : <<Topic(ProvidedStream(h))>>))
<1> DEFINE c == [h \in Functionalities |-> <<Topic(ProvidedStream(h))>>]
           ss == [i \in DOMAIN fns |-> <<Topic(ProvidedStream(fns[i]))>>]
<1>1. f \in Functionalities /\ g \in Functionalities
  BY TwiceIn
<1>2. \A h \in Functionalities : c[h] \in Seq(AllCalls) /\ Topic(ProvidedStream(h)) \in ToSet(c[h])
  BY TopicsIn, CallsIn, OneElement
<1>3. c \in [Functionalities -> Seq(AllCalls)]
  BY <1>2
<1>4. \A i \in DOMAIN fns : fns[i] \in Functionalities
  BY SeqFacts
<1>5. ss \in [DOMAIN fns -> Seq(AllCalls)] /\ \A i \in DOMAIN fns : ss[i] = c[fns[i]]
  <2>1. \A i \in DOMAIN fns : ss[i] = c[fns[i]]
    BY <1>4
  <2> QED
    BY <1>2, <1>4, <2>1
<1>6. Each(fns, LAMBDA h : <<Topic(ProvidedStream(h))>>) = FlattenSeq(ss)
  BY DEF Each
<1> HIDE DEF c, ss
<1>7. IsEach(ss, fns, c, Functionalities, AllCalls)
  BY <1>3, <1>5 DEF IsEach
<1>8. /\ Topic(ProvidedStream(f)) \in ToSet(c[f])
      /\ Topic(ProvidedStream(g)) \in ToSet(c[g])
  BY <1>1, <1>2
<1>9. Twice(Topic(ProvidedStream(f)), Topic(ProvidedStream(g)), FlattenSeq(ss))
  BY <1>7, <1>8, EachTwice
<1> QED
  BY <1>6, <1>9

LEMMA ExecutionTwice ==
  ASSUME NEW fns \in Seq(Callable)
  PROVE  LET s == Each(fns, ExecutionObjects)
         IN  /\ \A f \in ToSet(fns) : Topic(ProvidedRequest(f)) \in ToSet(s)
             /\ \A f, g : Twice(f, g, fns) =>
                  Twice(Topic(ProvidedRequest(f)), Topic(ProvidedRequest(g)), s)
<1> DEFINE c == [f \in Callable |-> ExecutionObjects(f)]
           ss == [i \in DOMAIN fns |-> ExecutionObjects(fns[i])]
<1>1. c \in [Callable -> Seq(AllCalls)]
  BY ExecutionInOrder
<1>2. ToSet(fns) \subseteq Callable /\ \A i \in DOMAIN fns : fns[i] \in Callable
  BY SeqFacts
<1>3. ss \in [DOMAIN fns -> Seq(AllCalls)] /\ \A i \in DOMAIN fns : ss[i] = c[fns[i]]
  BY <1>2, ExecutionInOrder
<1>4. Each(fns, ExecutionObjects) = FlattenSeq(ss)
  BY DEF Each
<1>5. \A f \in Callable : c[f] = ExecutionObjects(f) /\ Topic(ProvidedRequest(f)) \in ToSet(c[f])
  BY ExecutionInOrder
<1> HIDE DEF c, ss
<1>6. IsEach(ss, fns, c, Callable, AllCalls)
  BY <1>1, <1>3 DEF IsEach
<1>7. ToSet(FlattenSeq(ss)) = UNION {ToSet(c[f]) : f \in ToSet(fns)}
  BY <1>6, EachElements
<1>8. \A f \in ToSet(fns) : Topic(ProvidedRequest(f)) \in ToSet(FlattenSeq(ss))
  BY <1>2, <1>5, <1>7
<1>9. ASSUME NEW f, NEW g, Twice(f, g, fns)
      PROVE  Twice(Topic(ProvidedRequest(f)), Topic(ProvidedRequest(g)), FlattenSeq(ss))
  <2>1. f \in Callable /\ g \in Callable
    BY <1>9, TwiceIn
  <2> QED
    BY <1>5, <1>6, <1>9, <2>1, EachTwice
<1> QED
  BY <1>4, <1>8, <1>9

\* The topic a job makes for a functionality.
Needed(job, f) ==
  Topic(IF IsStream(f) THEN IF job = "register" THEN ProvidedStream(f) ELSE ConsumedStream(f)
        ELSE IF job = "register" THEN ProvidedRequest(f) ELSE ConsumedRequest(f))

LEMMA NeededName ==
  ASSUME NEW f, NEW g, Collide(f, g), NEW j, NEW k
  PROVE  /\ Needed(j, f).call = "topic" /\ Needed(k, g).call = "topic"
         /\ Needed(j, f).topic.name = Needed(k, g).topic.name
<1>1. CASE IsStream(f) /\ IsStream(g) /\ Lower[f.name] = Lower[g.name]
  BY <1>1 DEF Needed, Topic, ProvidedStream, ConsumedStream
<1>2. CASE IsCall(f) /\ IsCall(g) /\ f.name = g.name
  <2>1. ~IsStream(f) /\ ~IsStream(g)
    BY <1>2 DEF IsStream, IsCall
  <2> QED
    BY <1>2, <2>1 DEF Needed, Topic, ProvidedRequest, ConsumedRequest, TopicNames
<1> QED
  BY <1>1, <1>2 DEF Collide

LEMMA KnownKind ==
  ASSUME NEW f \in Functionalities
  PROVE  IsCall(f) <=> ~IsStream(f)
<1>1. f.kind \in Kinds
  BY SetupAssumption
<1> QED
  BY <1>1 DEF Kinds, IsCall, IsStream

LEMMA RegisterNeeds ==
  ASSUME NEW fns \in Seq(Functionalities)
  PROVE  /\ \A f \in ToSet(fns) : Needed("register", f) \in ToSet(RegisterCalls(fns))
         /\ \A f, g : Twice(f, g, fns) /\ Collide(f, g) =>
              Twice(Needed("register", f), Needed("register", g), RegisterCalls(fns))
<1> DEFINE m == [call |-> "announce", fns |-> Announced(fns)]
           x == Each(Announced(fns), ExecutionObjects)
           v == Each(Streams(fns), LAMBDA f : <<Topic(ProvidedStream(f))>>)
           w == Each(Streams(fns), LAMBDA f : <<Writer(ProvidedStream(f))>>)
           mx == <<m>> \o x
           vw == v \o w
<1>1. /\ Announced(fns) \in Seq(Callable)
      /\ ToSet(Announced(fns)) = {f \in ToSet(fns) : IsCall(f)}
      /\ Announced(fns) = CallsOf(fns)
  BY CallsOfElements DEF Announced
<1>2. /\ Streams(fns) \in Seq(Functionalities)
      /\ ToSet(Streams(fns)) = {f \in ToSet(fns) : IsStream(f)}
  BY StreamsElements
<1>3. <<m>> \in Seq(AllCalls)
  <2>1. m \in AllCalls
    BY <1>1 DEF AllCalls, AnnounceCalls
  <2> QED
    BY <2>1, OneElement
<1>4. /\ x \in Seq(AllCalls)
      /\ \A f \in ToSet(fns) : IsCall(f) => Topic(ProvidedRequest(f)) \in ToSet(x)
      /\ \A f, g : Twice(f, g, Announced(fns)) =>
           Twice(Topic(ProvidedRequest(f)), Topic(ProvidedRequest(g)), x)
  BY <1>1, ExecutionForEach, ExecutionTwice
<1>5. /\ v \in Seq(AllCalls)
      /\ \A f \in ToSet(fns) : IsStream(f) => Topic(ProvidedStream(f)) \in ToSet(v)
  BY <1>2, TopicForEach
<1>6. \A f, g : Twice(f, g, Streams(fns)) =>
        Twice(Topic(ProvidedStream(f)), Topic(ProvidedStream(g)), v)
  BY <1>2, HandleTwice
<1>7. w \in Seq(AllCalls)
  BY <1>2, StreamWriterForEach
<1>8. RegisterCalls(fns) = mx \o vw
  BY DEF RegisterCalls, HandleCalls
<1> HIDE DEF m, x, v, w
<1>9. /\ mx \in Seq(AllCalls) /\ ToSet(x) \subseteq ToSet(mx)
      /\ \A y, z : Twice(y, z, x) => Twice(y, z, mx)
  BY <1>3, <1>4, JoinKeeps
<1>10. /\ vw \in Seq(AllCalls) /\ ToSet(v) \subseteq ToSet(vw)
       /\ \A y, z : Twice(y, z, v) => Twice(y, z, vw)
  BY <1>5, <1>7, JoinKeeps
<1> HIDE DEF mx, vw
<1>11. /\ ToSet(mx) \subseteq ToSet(RegisterCalls(fns))
       /\ ToSet(vw) \subseteq ToSet(RegisterCalls(fns))
       /\ \A y, z : Twice(y, z, mx) \/ Twice(y, z, vw) => Twice(y, z, RegisterCalls(fns))
  BY <1>8, <1>9, <1>10, JoinKeeps
<1>12. ASSUME NEW f \in ToSet(fns)
       PROVE  Needed("register", f) \in ToSet(RegisterCalls(fns))
  <2>1. f \in Functionalities
    BY SeqFacts
  <2>2. CASE IsStream(f)
    BY <1>5, <1>10, <1>11, <2>2 DEF Needed
  <2>3. CASE ~IsStream(f)
    <3>1. IsCall(f)
      BY <2>1, <2>3, KnownKind
    <3> QED
      BY <1>4, <1>9, <1>11, <2>3, <3>1 DEF Needed
  <2> QED
    BY <2>2, <2>3
<1>13. ASSUME NEW f, NEW g, Twice(f, g, fns), Collide(f, g)
       PROVE  Twice(Needed("register", f), Needed("register", g), RegisterCalls(fns))
  <2>1. CASE IsStream(f) /\ IsStream(g)
    <3>1. Twice(Topic(ProvidedStream(f)), Topic(ProvidedStream(g)), v)
      BY <1>6, <1>13, <2>1, StreamsTwice
    <3>2. Needed("register", f) = Topic(ProvidedStream(f)) /\ Needed("register", g) = Topic(ProvidedStream(g))
      BY <2>1 DEF Needed
    <3> QED
      BY <1>10, <1>11, <3>1, <3>2
  <2>2. CASE IsCall(f) /\ IsCall(g)
    <3>1. Twice(Topic(ProvidedRequest(f)), Topic(ProvidedRequest(g)), x)
      BY <1>1, <1>4, <1>13, <2>2, CallsOfTwice
    <3>2. ~IsStream(f) /\ ~IsStream(g)
      BY <2>2 DEF IsCall, IsStream
    <3>3. Needed("register", f) = Topic(ProvidedRequest(f)) /\ Needed("register", g) = Topic(ProvidedRequest(g))
      BY <3>2 DEF Needed
    <3> QED
      BY <1>9, <1>11, <3>1, <3>3
  <2> QED
    BY <1>13, <2>1, <2>2 DEF Collide
<1> QED
  BY <1>12, <1>13

LEMMA InitNeeds ==
  ASSUME NEW fns \in Seq(Functionalities)
  PROVE  /\ \A f \in ToSet(fns) : Needed("init", f) \in ToSet(InitCalls(fns))
         /\ \A f, g : Twice(f, g, fns) => Twice(Needed("init", f), Needed("init", g), InitCalls(fns))
<1> DEFINE a == Each(fns, ConsumerTopics)
           b == Each(CallsOf(fns), LAMBDA f : <<Writer(ConsumedRequest(f))>>)
           c == Each(CallsOf(fns), LAMBDA f : <<Reader(ConsumedResponse(f), FALSE)>>)
           d == Each(Streams(fns), StreamReader)
           ab == a \o b
           abc == ab \o c
           k == [f \in Functionalities |-> ConsumerTopics(f)]
           ss == [i \in DOMAIN fns |-> ConsumerTopics(fns[i])]
<1>1. /\ Streams(fns) \in Seq(Functionalities) /\ CallsOf(fns) \in Seq(Functionalities)
  <2>1. Callable \subseteq Functionalities
    BY DEF Callable
  <2> QED
    BY <2>1, StreamsElements, CallsOfElements, SeqMonotonic
<1>2. ASSUME NEW f \in Functionalities
      PROVE  ConsumerTopics(f) \in Seq(AllCalls) /\ Needed("init", f) \in ToSet(ConsumerTopics(f))
  <2>1. /\ Topic(ConsumedStream(f)) \in AllCalls
        /\ Topic(ConsumedRequest(f)) \in AllCalls
        /\ Topic(ConsumedResponse(f)) \in AllCalls
    BY TopicsIn, CallsIn
  <2>2. CASE IsStream(f)
    <3>1. ConsumerTopics(f) = <<Topic(ConsumedStream(f))>> /\ Needed("init", f) = Topic(ConsumedStream(f))
      BY <2>2 DEF ConsumerTopics, Needed
    <3> QED
      BY <2>1, <3>1, OneElement
  <2>3. CASE ~IsStream(f)
    <3>1. /\ ConsumerTopics(f) = <<Topic(ConsumedRequest(f)), Topic(ConsumedResponse(f))>>
          /\ Needed("init", f) = Topic(ConsumedRequest(f))
      BY <2>3 DEF ConsumerTopics, Needed
    <3>2. \A y, z \in AllCalls : <<y, z>> \in Seq(AllCalls) /\ y \in ToSet(<<y, z>>)
      BY DEF ToSet
    <3> QED
      BY <2>1, <3>1, <3>2
  <2> QED
    BY <2>2, <2>3
<1>3. k \in [Functionalities -> Seq(AllCalls)] /\ \A f \in Functionalities : k[f] = ConsumerTopics(f)
  BY <1>2
<1>4. ToSet(fns) \subseteq Functionalities /\ \A i \in DOMAIN fns : fns[i] \in Functionalities
  BY SeqFacts
<1>5. ss \in [DOMAIN fns -> Seq(AllCalls)] /\ \A i \in DOMAIN fns : ss[i] = k[fns[i]]
  BY <1>2, <1>4
<1>6. a = FlattenSeq(ss)
  BY DEF Each
<1>7. b \in Seq(AllCalls)
  BY <1>1, RequestWriterForEach
<1>8. c \in Seq(AllCalls)
  BY <1>1, ResponseReaderForEach
<1>9. d \in Seq(AllCalls)
  BY <1>1, StreamReaderForEach
<1>10. InitCalls(fns) = abc \o d /\ abc = ab \o c /\ ab = a \o b
  BY DEF InitCalls
<1> HIDE DEF a, b, c, d, ab, abc, k, ss
<1>11. IsEach(ss, fns, k, Functionalities, AllCalls)
  BY <1>3, <1>5 DEF IsEach
<1>12. a \in Seq(AllCalls) /\ ToSet(a) = UNION {ToSet(k[f]) : f \in ToSet(fns)}
  BY <1>6, <1>11, EachElements
<1>13. /\ ab \in Seq(AllCalls) /\ ToSet(a) \subseteq ToSet(ab)
       /\ \A y, z : Twice(y, z, a) => Twice(y, z, ab)
  BY <1>7, <1>10, <1>12, JoinKeeps
<1>14. /\ abc \in Seq(AllCalls) /\ ToSet(ab) \subseteq ToSet(abc)
       /\ \A y, z : Twice(y, z, ab) => Twice(y, z, abc)
  BY <1>8, <1>10, <1>13, JoinKeeps
<1>15. /\ ToSet(abc) \subseteq ToSet(InitCalls(fns))
       /\ \A y, z : Twice(y, z, abc) => Twice(y, z, InitCalls(fns))
  BY <1>9, <1>10, <1>14, JoinKeeps
<1>16. \A f \in ToSet(fns) : Needed("init", f) \in ToSet(a)
  BY <1>2, <1>3, <1>4, <1>12
<1>17. ASSUME NEW f, NEW g, Twice(f, g, fns)
       PROVE  Twice(Needed("init", f), Needed("init", g), a)
  <2>1. f \in Functionalities /\ g \in Functionalities
    BY <1>17, TwiceIn
  <2>2. Needed("init", f) \in ToSet(k[f]) /\ Needed("init", g) \in ToSet(k[g])
    BY <1>2, <1>3, <2>1
  <2> QED
    BY <1>6, <1>11, <1>17, <2>2, EachTwice
<1> QED
  BY <1>13, <1>14, <1>15, <1>16, <1>17

LEMMA JobTopics ==
  ASSUME NEW j \in JobRecords, j.job # "new"
  PROVE  /\ JobCalls(j) \in Seq(AllCalls)
         /\ \A f \in ToSet(j.fns) : Needed(j.job, f) \in ToSet(JobCalls(j))
         /\ \A f, g : Twice(f, g, j.fns) /\ Collide(f, g) =>
              Twice(Needed(j.job, f), Needed(j.job, g), JobCalls(j))
<1>1. j.fns \in Seq(Functionalities) /\ JobCalls(j) \in Seq(AllCalls)
  BY JobPlan DEF JobRecords
<1>2. CASE j.job = "register"
  <2>1. JobCalls(j) = RegisterCalls(j.fns)
    BY <1>2, JobPlan
  <2> QED
    BY <1>1, <1>2, <2>1, RegisterNeeds
<1>3. CASE j.job = "init"
  <2>1. JobCalls(j) = InitCalls(j.fns)
    BY <1>3, JobPlan
  <2> QED
    BY <1>1, <1>3, <2>1, InitNeeds
<1> QED
  BY <1>2, <1>3 DEF JobRecords

\* The topic that a task makes for what it declares at a place.
PlaceTopic(t, a) == Needed(Jobs[t][a[1]].job, At(t, a))

LEMMA PlaceFacts ==
  ASSUME NEW t \in Tasks, NEW a \in Places(t)
  PROVE  /\ a = <<a[1], a[2]>> /\ a[1] \in DOMAIN Jobs[t]
         /\ Jobs[t][a[1]] \in JobRecords /\ Jobs[t][a[1]] \in ToSet(Jobs[t])
         /\ Jobs[t][a[1]].job # "new"
         /\ a[2] \in DOMAIN Jobs[t][a[1]].fns
         /\ At(t, a) \in ToSet(Jobs[t][a[1]].fns)
<1>1. Jobs[t] \in Seq(JobRecords)
  BY SetupAssumption DEF JobRecords
<1>2. PICK i \in DOMAIN Jobs[t] : \E k \in DOMAIN Jobs[t][i].fns : a = <<i, k>>
  BY DEF Places
<1>3. a = <<a[1], a[2]>> /\ a[1] = i /\ a[2] \in DOMAIN Jobs[t][i].fns
  BY <1>2
<1>4. Jobs[t][i] \in JobRecords /\ Jobs[t][i] \in ToSet(Jobs[t])
  BY <1>1, <1>2, SeqFacts
<1>5. Jobs[t][i].fns \in Seq(Functionalities)
  BY <1>4 DEF JobRecords
<1>6. At(t, a) \in ToSet(Jobs[t][i].fns)
  BY <1>3, <1>5, SeqFacts DEF At
<1>7. Jobs[t][i].job # "new"
  <2>1. DOMAIN <<>> = {}
    OBVIOUS
  <2>2. Jobs[t][i].fns # <<>>
    BY <1>3, <2>1
  <2> QED
    BY <1>2, <2>2, SetupAssumption
<1> QED
  BY <1>2, <1>3, <1>4, <1>6, <1>7

LEMMA PlanTopics ==
  ASSUME NEW t \in Tasks
  PROVE  /\ \A a \in Places(t) : PlaceTopic(t, a) \in ToSet(Plan[t])
         /\ \A a, b \in Places(t) : a # b /\ Collide(At(t, a), At(t, b)) =>
              Twice(PlaceTopic(t, a), PlaceTopic(t, b), Plan[t])
<1> DEFINE c == [j \in JobRecords |-> JobCalls(j)]
           ss == [i \in DOMAIN Jobs[t] |-> JobCalls(Jobs[t][i])]
<1>1. Jobs[t] \in Seq(JobRecords)
  BY SetupAssumption DEF JobRecords
<1>2. \A i \in DOMAIN Jobs[t] : Jobs[t][i] \in JobRecords
  BY <1>1, SeqFacts
<1>3. c \in [JobRecords -> Seq(AllCalls)] /\ \A j \in JobRecords : c[j] = JobCalls(j)
  BY JobPlan
<1>4. ss \in [DOMAIN Jobs[t] -> Seq(AllCalls)] /\ \A i \in DOMAIN Jobs[t] : ss[i] = c[Jobs[t][i]]
  BY <1>2, JobPlan
<1>5. Plan[t] = FlattenSeq(ss)
  BY DEF Plan, Each
<1> HIDE DEF c, ss
<1>6. IsEach(ss, Jobs[t], c, JobRecords, AllCalls)
  BY <1>1, <1>3, <1>4 DEF IsEach
<1>7. ASSUME NEW a \in Places(t)
      PROVE  /\ Jobs[t][a[1]] \in ToSet(Jobs[t]) /\ a[1] \in DOMAIN Jobs[t]
             /\ PlaceTopic(t, a) \in ToSet(c[Jobs[t][a[1]]])
  <2> DEFINE j == Jobs[t][a[1]]
  <2>1. /\ j \in JobRecords /\ j \in ToSet(Jobs[t]) /\ j.job # "new"
        /\ a[1] \in DOMAIN Jobs[t] /\ At(t, a) \in ToSet(j.fns)
    BY PlaceFacts
  <2>2. PlaceTopic(t, a) = Needed(j.job, At(t, a)) /\ c[j] = JobCalls(j)
    BY <1>3, <2>1 DEF PlaceTopic
  <2> HIDE DEF j
  <2>3. PlaceTopic(t, a) \in ToSet(c[j])
    BY <2>1, <2>2, JobTopics
  <2> QED
    BY <2>1, <2>3 DEF j
<1>8. ASSUME NEW a \in Places(t)
      PROVE  PlaceTopic(t, a) \in ToSet(Plan[t])
  <2>1. PlaceTopic(t, a) \in UNION {ToSet(c[j]) : j \in ToSet(Jobs[t])}
    BY <1>7
  <2> QED
    BY <1>5, <1>6, <2>1, EachElements
<1>9. ASSUME NEW a \in Places(t), NEW b \in Places(t), a # b, Collide(At(t, a), At(t, b))
      PROVE  Twice(PlaceTopic(t, a), PlaceTopic(t, b), Plan[t])
  <2>1. CASE a[1] = b[1]
    <3> DEFINE j == Jobs[t][a[1]]
    <3>1. /\ j \in JobRecords /\ j.job # "new" /\ j \in ToSet(Jobs[t])
          /\ a[2] \in DOMAIN j.fns /\ b[2] \in DOMAIN j.fns /\ a[2] # b[2]
      BY <1>9, <2>1, PlaceFacts
    <3>2. Twice(At(t, a), At(t, b), j.fns)
      BY <2>1, <3>1 DEF Twice, At
    <3>3. /\ PlaceTopic(t, a) = Needed(j.job, At(t, a))
          /\ PlaceTopic(t, b) = Needed(j.job, At(t, b))
      BY <2>1 DEF PlaceTopic
    <3> HIDE DEF j
    <3>4. Twice(PlaceTopic(t, a), PlaceTopic(t, b), c[j])
      BY <1>3, <1>9, <3>1, <3>2, <3>3, JobTopics
    <3> QED
      BY <1>5, <1>6, <3>1, <3>4, EachTwice
  <2>2. CASE a[1] # b[1]
    <3>1. Twice(Jobs[t][a[1]], Jobs[t][b[1]], Jobs[t])
      BY <1>7, <2>2 DEF Twice
    <3> QED
      BY <1>5, <1>6, <1>7, <3>1, EachTwice
  <2> QED
    BY <2>1, <2>2
<1> QED
  BY <1>8, <1>9

TopicOf(t, x) == [part |-> PartOf[t], topic |-> x.topic, owner |-> t]

\* Every create_topic a task has made has left its topic ...
TopicMade ==
  \A t \in Tasks : \A k \in 1 .. step[t] :
    Plan[t][k].call = "topic" => TopicOf(t, Plan[t][k]) \in topics

\* ... and no two of one participant had the same name.
TopicsDistinct ==
  \A t, u \in Tasks : \A k \in 1 .. step[t], l \in 1 .. step[u] :
    /\ PartOf[t] = PartOf[u] /\ <<t, k>> # <<u, l>>
    /\ Plan[t][k].call = "topic" /\ Plan[u][l].call = "topic"
    => Plan[t][k].topic.name # Plan[u][l].topic.name

LEMMA StepMakesTopic ==
  ASSUME TypeOK, [Next]_vars
  PROVE  \/ UNCHANGED <<step, topics>>
         \/ \E t \in Tasks :
              /\ Pending(t) /\ step' = [step EXCEPT ![t] = @ + 1]
              /\ \/ Call(t).call # "topic" /\ topics' = topics
                 \/ ~NameTaken(t) /\ topics' = topics \cup {TopicOf(t, Call(t))}
<1>1. CASE UNCHANGED vars
  BY <1>1 DEF vars
<1>2. ASSUME NEW t \in Tasks, CreateTopic(t)
      PROVE  /\ Pending(t) /\ step' = [step EXCEPT ![t] = @ + 1]
             /\ ~NameTaken(t) /\ topics' = topics \cup {TopicOf(t, Call(t))}
  BY <1>2 DEF CreateTopic, TopicOf
<1>3. ASSUME NEW t \in Tasks, CreateEndpoint(t) \/ Announce(t)
      PROVE  /\ Pending(t) /\ step' = [step EXCEPT ![t] = @ + 1]
             /\ Call(t).call # "topic" /\ topics' = topics
  BY <1>3 DEF CreateEndpoint, Announce
<1>4. ASSUME NEW t \in Tasks, Panics(t) \/ CallFails(t)
      PROVE  UNCHANGED <<step, topics>>
  BY <1>4 DEF Panics, CallFails
<1>5. CASE Next
  BY <1>2, <1>3, <1>4, <1>5 DEF Next, Step
<1> QED
  BY <1>1, <1>5

LEMMA TopicsStep ==
  ASSUME TypeOK, TopicMade, TopicsDistinct, [Next]_vars
  PROVE  TopicMade' /\ TopicsDistinct'
<1>1. CASE UNCHANGED <<step, topics>>
  BY <1>1 DEF TopicMade, TopicsDistinct
<1>2. ASSUME NEW s \in Tasks, Pending(s), step' = [step EXCEPT ![s] = @ + 1],
             \/ Call(s).call # "topic" /\ topics' = topics
             \/ ~NameTaken(s) /\ topics' = topics \cup {TopicOf(s, Call(s))}
      PROVE  TopicMade' /\ TopicsDistinct'
  <2>1. ASSUME NEW t \in Tasks, NEW k \in 1 .. step'[t]
        PROVE  k \in 1 .. step[t] \/ (t = s /\ k = step[s] + 1 /\ Plan[t][k] = Call(s))
    BY <1>2 DEF TypeOK, Call
  <2>2. topics \subseteq topics'
    BY <1>2
  <2>3. TopicMade'
    <3> SUFFICES ASSUME NEW t \in Tasks, NEW k \in 1 .. step'[t], Plan[t][k].call = "topic"
                 PROVE  TopicOf(t, Plan[t][k]) \in topics'
      BY DEF TopicMade, TopicOf
    <3>1. CASE k \in 1 .. step[t]
      BY <2>2, <3>1 DEF TopicMade
    <3>2. CASE t = s /\ Plan[t][k] = Call(s)
      BY <1>2, <3>2
    <3> QED
      BY <2>1, <3>1, <3>2
  <2>4. ASSUME NEW t \in Tasks, NEW k \in 1 .. step[t], PartOf[t] = PartOf[s],
               Plan[t][k].call = "topic", Call(s).call = "topic"
        PROVE  Plan[t][k].topic.name # Call(s).topic.name
    <3>1. TopicOf(t, Plan[t][k]) \in topics
      BY <2>4 DEF TopicMade
    <3>2. ~NameTaken(s)
      BY <1>2, <2>4
    <3> QED
      BY <2>4, <3>1, <3>2 DEF NameTaken, TopicOf
  <2>5. TopicsDistinct'
    <3> SUFFICES ASSUME NEW t \in Tasks, NEW u \in Tasks,
                        NEW k \in 1 .. step'[t], NEW l \in 1 .. step'[u],
                        PartOf[t] = PartOf[u], <<t, k>> # <<u, l>>,
                        Plan[t][k].call = "topic", Plan[u][l].call = "topic"
                 PROVE  Plan[t][k].topic.name # Plan[u][l].topic.name
      BY DEF TopicsDistinct
    <3>1. CASE k \in 1 .. step[t] /\ l \in 1 .. step[u]
      BY <3>1 DEF TopicsDistinct
    <3>2. CASE k \in 1 .. step[t] /\ u = s /\ Plan[u][l] = Call(s)
      BY <2>4, <3>2
    <3>3. CASE l \in 1 .. step[u] /\ t = s /\ Plan[t][k] = Call(s)
      BY <2>4, <3>3
    <3> QED
      BY <2>1, <3>1, <3>2, <3>3
  <2> QED
    BY <2>3, <2>5
<1> QED
  BY <1>1, <1>2, StepMakesTopic

LEMMA DistinctApart ==
  ASSUME TopicsDistinct
  PROVE  NamesApart
<1> SUFFICES ASSUME NEW t \in Tasks, NEW u \in Tasks, Done(t), Done(u),
                    NEW a \in Places(t), NEW b \in Places(u), Rivals(t, a, u, b)
             PROVE  FALSE
  BY DEF NamesApart
<1> DEFINE x == PlaceTopic(t, a)
           y == PlaceTopic(u, b)
<1>1. PartOf[t] = PartOf[u] /\ <<t, a>> # <<u, b>> /\ Collide(At(t, a), At(u, b))
  BY DEF Rivals
<1>2. x.call = "topic" /\ y.call = "topic" /\ x.topic.name = y.topic.name
  BY <1>1, NeededName DEF PlaceTopic
<1>3. /\ Plan[t] \in Seq(AllCalls) /\ DOMAIN Plan[t] = 1 .. step[t]
      /\ Plan[u] \in Seq(AllCalls) /\ DOMAIN Plan[u] = 1 .. step[u]
  BY PlanParts, SeqFacts DEF Done
<1>4. x \in ToSet(Plan[t]) /\ y \in ToSet(Plan[u])
  BY PlanTopics
<1>5. t = u => Twice(x, y, Plan[t])
  BY <1>1, PlanTopics
<1> HIDE DEF x, y
<1>6. PICK k \in 1 .. step[t], l \in 1 .. step[u] :
        <<t, k>> # <<u, l>> /\ Plan[t][k] = x /\ Plan[u][l] = y
  <2>1. CASE t = u
    BY <1>3, <1>5, <2>1 DEF Twice
  <2>2. CASE t # u
    <3>1. PICK k \in 1 .. step[t] : Plan[t][k] = x
      BY <1>3, <1>4, SeqFacts DEF Done
    <3>2. PICK l \in 1 .. step[u] : Plan[u][l] = y
      BY <1>3, <1>4, SeqFacts DEF Done
    <3> QED
      BY <2>2, <3>1, <3>2
  <2> QED
    BY <2>1, <2>2
<1> QED
  BY <1>1, <1>2, <1>6 DEF TopicsDistinct

\* Declarations that collide, of two tasks on one participant or of one task
\* with itself, never all come into being, whatever the jobs are and however
\* their calls interleave.
THEOREM NamesStayApart == Spec => []NamesApart
<1>1. Init => TopicMade /\ TopicsDistinct
  BY DEF Init, TopicMade, TopicsDistinct
<1>2. SetupInv /\ TopicMade /\ TopicsDistinct /\ [Next]_vars => TopicMade' /\ TopicsDistinct'
  BY TopicsStep DEF SetupInv
<1>3. TopicsDistinct => NamesApart
  BY DistinctApart
<1> QED
  BY <1>1, <1>2, <1>3, AlwaysSetupInv, PTL DEF Spec

=============================================================================
