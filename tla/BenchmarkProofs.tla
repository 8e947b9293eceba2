-------------------------- MODULE BenchmarkProofs --------------------------
(***************************************************************************)
(* The main task of a benchmark uses the rate limiter as RateLimiter       *)
(* describes it, so that what is proved of the limiter holds of the        *)
(* process; and the percentiles of a report are ordered.                   *)
(***************************************************************************)
EXTENDS Benchmark, RateLimiterProofs, FiniteSetTheorems

-----------------------------------------------------------------------------
(* The config is numbers, whatever the command line. *)

ConfigOK == config \in [Fields -> Nat]

LEMMA AssignedOK ==
  ASSUME ConfigOK, NEW field, NEW text
  PROVE  Assigned(field, text) \in [Fields -> Nat]
  BY ConfigAssumption DEF ConfigOK, Assigned

LEMMA ConfigInit == Init => ConfigOK
  BY ConfigAssumption DEF Init, ConfigOK

LEMMA ConfigStep == ConfigOK /\ [Next]_vars => ConfigOK'
<1> SUFFICES ASSUME ConfigOK, [Next]_vars PROVE ConfigOK'
  OBVIOUS
<1>1. CASE UNCHANGED config
  BY <1>1 DEF ConfigOK
<1>2. CASE ReadOption
  BY <1>2, AssignedOK DEF ReadOption, ConfigOK
<1>3. CASE Parse
  BY <1>1, <1>2, <1>3 DEF Parse, PassOver, Return, configVars
<1>4. CASE Main
  BY <1>1, <1>3, <1>4 DEF Main, Construct, Start, NewLimiter, LoopEnds, WaitForToken,
    Call, CallReturns, Publish, Published, WritePanics, StopProgress, StopCollector, Join, Report, configVars
<1>5. CASE Progress \/ SamplerThread \/ Listener \/ Time \/ UNCHANGED vars
  BY <1>1, <1>5 DEF Progress, SamplerThread, Listener, Deliver, CheckOrder, Offer,
    PlaceSample, Serve, Respond, Time, vars, configVars
<1> QED
  BY <1>4, <1>5 DEF Next

-----------------------------------------------------------------------------
(* Every step of the process is a step of the limiter or leaves it alone. *)

LEMMA LimiterStep ==
  ConfigOK /\ [Next]_vars => [LimiterNext]_<<clock, limiterVars>>
<1> SUFFICES ASSUME ConfigOK, [Next]_vars PROVE [LimiterNext]_<<clock, limiterVars>>
  OBVIOUS
<1>1. CASE UNCHANGED <<clock, limiterVars>>
  BY <1>1
<1>2. CASE NewLimiter
  <2>1. config["rate"] \in Nat
    BY DEF ConfigOK, Fields
  <2> QED
    BY <1>2, <2>1 DEF NewLimiter, LimiterNext
<1>3. CASE WaitForToken
  BY <1>3 DEF WaitForToken, LimiterNext
<1>4. CASE Main
  BY <1>1, <1>2, <1>3, <1>4 DEF Main, Parse, Construct, Start, LoopEnds, Call,
    CallReturns, Publish, Published, WritePanics, StopProgress, StopCollector, Join, Report
<1>5. CASE Time
  BY <1>5 DEF Time, LimiterNext
<1>6. CASE Progress \/ SamplerThread \/ Listener \/ UNCHANGED vars
  BY <1>1, <1>6 DEF Progress, SamplerThread, Listener, Deliver, CheckOrder, Offer,
    PlaceSample, Serve, Respond, vars
<1> QED
  BY <1>4, <1>5, <1>6 DEF Next

\* Whatever the command line and the peer, the process implements the
\* limiter's specification.
THEOREM ImplementsLimiter == Spec => LimiterSpec
<1>1. Init => clock = 0 /\ LimiterInit
  BY DEF Init
<1> QED
  BY <1>1, ConfigInit, ConfigStep, LimiterStep, PTL DEF Spec, LimiterSpec

\* So the two clients never send a burst, for every rate, duration and
\* resolution of the clock.
THEOREM NeverBursts == Spec => NoBurst
  BY ImplementsLimiter, LimiterNoBurst

-----------------------------------------------------------------------------
(* Percentiles. *)

\* The index of a percentile is inside the array and grows with p.
LEMMA IndexInRange ==
  ASSUME NEW n \in Nat, n > 0, NEW p \in 0 .. 100
  PROVE  PercentileIndex(n, p) \in 0 .. n - 1
<1> DEFINE m == p * (n - 1)
<1>1. m \in Nat /\ m <= 100 * (n - 1)
  BY Z3
<1>2. PercentileIndex(n, p) = (2 * m + 100) \div 200
  BY Z3 DEF PercentileIndex
<1> HIDE DEF m
<1> QED
  BY <1>1, <1>2

LEMMA IndexGrows ==
  ASSUME NEW n \in Nat, n > 0, NEW p \in 0 .. 100, NEW q \in 0 .. 100, p <= q
  PROVE  PercentileIndex(n, p) <= PercentileIndex(n, q)
<1> DEFINE a == p * (n - 1)
           b == q * (n - 1)
<1>1. a \in Nat /\ b \in Nat /\ a <= b
  BY Z3
<1>2. /\ PercentileIndex(n, p) = (2 * a + 100) \div 200
      /\ PercentileIndex(n, q) = (2 * b + 100) \div 200
  BY Z3 DEF PercentileIndex
<1> HIDE DEF a, b
<1> QED
  BY <1>1, <1>2

\* In a sorted array of any length the percentiles are ordered, between the
\* least and the greatest value, and .min(len - 1) never cuts an index.
THEOREM PercentilesAscend ==
  ASSUME NEW s \in Seq(Int), s # <<>>, Ascending(s),
         NEW p \in 0 .. 100, NEW q \in 0 .. 100, p <= q
  PROVE  /\ s[1] <= Percentile(s, p)
         /\ Percentile(s, p) <= Percentile(s, q)
         /\ Percentile(s, q) <= s[Len(s)]
<1> DEFINE n == Len(s)
           i == PercentileIndex(n, p)
           j == PercentileIndex(n, q)
<1>1. n \in Nat /\ n > 0
  OBVIOUS
<1>2. i \in 0 .. n - 1 /\ j \in 0 .. n - 1 /\ i <= j
  BY <1>1, IndexInRange, IndexGrows
<1>3. Percentile(s, p) = s[i + 1] /\ Percentile(s, q) = s[j + 1]
  <2> HIDE DEF i, j
  <2>1. /\ Percentile(s, p) = s[(IF i < n - 1 THEN i ELSE n - 1) + 1]
        /\ Percentile(s, q) = s[(IF j < n - 1 THEN j ELSE n - 1) + 1]
    BY DEF Percentile, i, j
  <2> QED
    BY <1>1, <1>2, <2>1
<1> HIDE DEF i, j
<1> QED
  BY <1>1, <1>2, <1>3 DEF Ascending

\* The value at a percentile has its share of the array on either side: the
\* rounding of the index is off by half an element at most.
THEOREM PercentileDivides ==
  ASSUME NEW s \in Seq(Int), s # <<>>, Ascending(s), NEW p \in 0 .. 100
  PROVE  Divides(s, Percentile(s, p), p)
<1> DEFINE n == Len(s)
           i == PercentileIndex(n, p)
           m == p * (n - 1)
           v == s[i + 1]
           low == {k \in DOMAIN s : s[k] <= v}
           high == {k \in DOMAIN s : s[k] >= v}
<1>1. n \in Nat /\ n > 0 /\ DOMAIN s = 1 .. n
  OBVIOUS
<1>2. i \in 0 .. n - 1
  BY <1>1, IndexInRange
<1>3. Percentile(s, p) = v
  <2> HIDE DEF i
  <2>1. Percentile(s, p) = s[(IF i < n - 1 THEN i ELSE n - 1) + 1]
    BY DEF Percentile, i
  <2> QED
    BY <1>1, <1>2, <2>1
<1>4. 100 * i <= m + 50 /\ m + 50 < 100 * i + 100
  <2>1. i = (2 * m + 100) \div 200
    BY Z3 DEF PercentileIndex
  <2>2. m \in Nat
    BY <1>1, Z3
  <2> HIDE DEF i, m
  <2> QED
    BY <2>1, <2>2
<1>5. m = p * n - p /\ (100 - p) * n = 100 * n - p * n /\ p * n \in Int
  BY <1>1, Z3
<1> HIDE DEF i, n, m
<1>6. IsFiniteSet(low) /\ IsFiniteSet(high)
  <2>1. low \in SUBSET (1 .. n) /\ high \in SUBSET (1 .. n) /\ IsFiniteSet(1 .. n)
    BY <1>1, FS_Interval
  <2> QED
    BY <2>1, FS_Subset
<1>7. Cardinality(low) \in Nat /\ Cardinality(low) >= i + 1
  <2>1. 1 .. i + 1 \in SUBSET low
    BY <1>1, <1>2 DEF Ascending, n
  <2>2. Cardinality(1 .. i + 1) = i + 1
    BY <1>2, FS_Interval
  <2> HIDE DEF low
  <2>3. Cardinality(low) \in Nat /\ Cardinality(1 .. i + 1) <= Cardinality(low)
    BY <1>6, <2>1, FS_Subset, FS_CardinalityType
  <2> QED
    BY <2>2, <2>3
<1>8. Cardinality(high) \in Nat /\ Cardinality(high) >= n - i
  <2>1. i + 1 .. n \in SUBSET high
    BY <1>1, <1>2 DEF Ascending, n
  <2>2. Cardinality(i + 1 .. n) = n - i
    BY <1>1, <1>2, FS_Interval
  <2> HIDE DEF high
  <2>3. Cardinality(high) \in Nat /\ Cardinality(i + 1 .. n) <= Cardinality(high)
    BY <1>6, <2>1, FS_Subset, FS_CardinalityType
  <2> QED
    BY <2>2, <2>3
<1>9. /\ 100 * Cardinality(low) >= p * n - 50
      /\ 100 * Cardinality(high) >= (100 - p) * n - 50
  <2> DEFINE lower == Cardinality(low)
             upper == Cardinality(high)
             product == p * n
             rest == (100 - p) * n
  <2>1. lower \in Nat /\ lower >= i + 1 /\ upper \in Nat /\ upper >= n - i
    BY <1>7, <1>8
  <2>2. m = product - p /\ rest = 100 * n - product /\ product \in Int
    BY <1>5
  <2> HIDE DEF lower, upper, product, rest
  <2>3. 100 * lower >= product - 50 /\ 100 * upper >= rest - 50
    BY <1>1, <1>2, <1>4, <2>1, <2>2
  <2> QED
    BY <2>3 DEF lower, upper, product, rest
<1> QED
  BY <1>3, <1>9 DEF Divides, n

-----------------------------------------------------------------------------
(* The sort: elements are moved, none is lost, and the result ascends. *)

\* How many are not after an element is a place of its own.
LEMMA PlacesApart ==
  ASSUME NEW s \in Seq(Int), NEW i \in DOMAIN s, NEW j \in DOMAIN s, i # j, i \in UpTo(s, j)
  PROVE  /\ Cardinality(UpTo(s, i)) \in 1 .. Len(s)
         /\ Cardinality(UpTo(s, j)) \in 1 .. Len(s)
         /\ Cardinality(UpTo(s, i)) < Cardinality(UpTo(s, j))
<1> DEFINE n == Len(s)
<1>1. n \in Nat /\ DOMAIN s = 1 .. n /\ IsFiniteSet(1 .. n) /\ Cardinality(1 .. n) = n
  BY FS_Interval
<1>2. ASSUME NEW x \in DOMAIN s
      PROVE  /\ UpTo(s, x) \in SUBSET (1 .. n) /\ x \in UpTo(s, x)
             /\ IsFiniteSet(UpTo(s, x)) /\ Cardinality(UpTo(s, x)) \in 1 .. n
  <2>1. UpTo(s, x) \in SUBSET (1 .. n) /\ x \in UpTo(s, x)
    BY <1>1 DEF UpTo
  <2>2. IsFiniteSet(UpTo(s, x)) /\ Cardinality(UpTo(s, x)) <= n
    BY <1>1, <2>1, FS_Subset
  <2>3. Cardinality(UpTo(s, x)) \in Nat /\ Cardinality(UpTo(s, x)) # 0
    BY <2>1, <2>2, FS_CardinalityType, FS_EmptySet
  <2> QED
    BY <1>1, <2>1, <2>2, <2>3
<1>3. UpTo(s, i) \in SUBSET UpTo(s, j) /\ j \notin UpTo(s, i)
  <2>1. \A x \in DOMAIN s : s[x] \in Int /\ x \in Int
    BY <1>1
  <2> QED
    BY <2>1 DEF UpTo
<1>4. /\ Cardinality(UpTo(s, i)) <= Cardinality(UpTo(s, j))
      /\ Cardinality(UpTo(s, j)) = Cardinality(UpTo(s, i)) => UpTo(s, j) = UpTo(s, i)
  BY <1>2, <1>3, FS_Subset
<1>5. UpTo(s, j) # UpTo(s, i)
  BY <1>2, <1>3
<1> QED
  BY <1>1, <1>2, <1>4, <1>5

\* Every place is taken.
LEMMA PlacesTaken ==
  ASSUME NEW s \in Seq(Int), NEW k \in DOMAIN s
  PROVE  \E i \in DOMAIN s : Cardinality(UpTo(s, i)) = k
<1> DEFINE n == Len(s)
           place == [i \in 1 .. n |-> Cardinality(UpTo(s, i))]
<1>1. n \in Nat /\ DOMAIN s = 1 .. n /\ IsFiniteSet(1 .. n) /\ Cardinality(1 .. n) = n
  BY FS_Interval
<1>2. \A i, j \in 1 .. n : i # j => i \in UpTo(s, j) \/ j \in UpTo(s, i)
  BY <1>1 DEF UpTo
<1>3. \A i, j \in 1 .. n : i # j => place[i] # place[j]
  BY <1>1, <1>2, PlacesApart
<1>4. place \in [1 .. n -> 1 .. n]
  <2>1. SUFFICES ASSUME NEW i \in 1 .. n PROVE Cardinality(UpTo(s, i)) \in 1 .. n
    OBVIOUS
  <2>2. UpTo(s, i) \in SUBSET (1 .. n) /\ i \in UpTo(s, i)
    BY <1>1 DEF UpTo
  <2>3. IsFiniteSet(UpTo(s, i)) /\ Cardinality(UpTo(s, i)) <= n
    BY <1>1, <2>2, FS_Subset
  <2>4. Cardinality(UpTo(s, i)) \in Nat /\ Cardinality(UpTo(s, i)) # 0
    BY <2>2, <2>3, FS_CardinalityType, FS_EmptySet
  <2> QED
    BY <1>1, <2>3, <2>4
<1>5. place \in Injection(1 .. n, 1 .. n)
  <2> HIDE DEF place
  <2> QED
    BY <1>3, <1>4 DEF Injection, IsInjective
<1>6. place \in Surjection(1 .. n, 1 .. n)
  <2> HIDE DEF place
  <2> QED
    BY <1>1, <1>5, FS_Injection
<1> QED
  BY <1>1, <1>6 DEF Surjection

LEMMA SortedAscends ==
  ASSUME NEW s \in Seq(Int)
  PROVE  /\ Sorted(s) \in Seq(Int) /\ Len(Sorted(s)) = Len(s)
         /\ Ascending(Sorted(s))
         /\ \E p \in Bijection(DOMAIN s, DOMAIN s) : Sorted(s) = [k \in DOMAIN s |-> s[p[k]]]
<1> DEFINE n == Len(s)
           p == [k \in 1 .. n |-> CHOOSE i \in DOMAIN s : Cardinality(UpTo(s, i)) = k]
<1>1. n \in Nat /\ DOMAIN s = 1 .. n /\ IsFiniteSet(1 .. n)
  BY FS_Interval
<1>2. \A k \in 1 .. n : p[k] \in 1 .. n /\ Cardinality(UpTo(s, p[k])) = k
  BY <1>1, PlacesTaken
<1>3. Sorted(s) = [k \in DOMAIN s |-> s[p[k]]]
  BY <1>1 DEF Sorted
<1> HIDE DEF p
<1>4. Sorted(s) \in Seq(Int) /\ Len(Sorted(s)) = n
  BY <1>1, <1>2, <1>3
<1>5. ASSUME NEW k \in 1 .. n, NEW l \in 1 .. n, k <= l PROVE s[p[k]] <= s[p[l]]
  <2>1. SUFFICES ASSUME s[p[l]] < s[p[k]] PROVE FALSE
    BY <1>1, <1>2
  <2>2. p[l] \in UpTo(s, p[k]) /\ p[l] # p[k]
    <3>1. s[p[k]] \in Int /\ s[p[l]] \in Int /\ p[l] \in DOMAIN s
      BY <1>1, <1>2
    <3>2. s[p[l]] # s[p[k]]
      BY <2>1, <3>1
    <3> QED
      BY <2>1, <3>1, <3>2, Zenon DEF UpTo
  <2>3. Cardinality(UpTo(s, p[l])) < Cardinality(UpTo(s, p[k]))
    BY <1>1, <1>2, <2>2, PlacesApart
  <2> QED
    BY <1>2, <1>5, <2>3
<1>6. Ascending(Sorted(s))
  BY <1>1, <1>3, <1>4, <1>5 DEF Ascending
<1>7. p \in Bijection(1 .. n, 1 .. n)
  <2>1. p \in [1 .. n -> 1 .. n]
    BY <1>2 DEF p
  <2>2. p \in Injection(1 .. n, 1 .. n)
    BY <1>2, <2>1 DEF Injection, IsInjective
  <2>3. p \in Surjection(1 .. n, 1 .. n)
    BY <1>1, <2>2, FS_Injection
  <2> QED
    BY <2>2, <2>3 DEF Bijection
<1> QED
  BY <1>1, <1>3, <1>4, <1>6, <1>7

\* So the percentiles of the report are in order, each where it should be.
LEMMA PercentilesInOrder ==
  ASSUME report.latencies \in Seq(Nat)
  PROVE  PercentilesOrdered
<1> DEFINE s == Sorted(report.latencies)
<1>1. report.latencies \in Seq(Int)
  OBVIOUS
<1>2. s \in Seq(Int) /\ Ascending(s)
  BY <1>1, SortedAscends
<1> HIDE DEF s
<1>3. 50 \in 0 .. 100 /\ 95 \in 0 .. 100 /\ 99 \in 0 .. 100
  OBVIOUS
<1>4. s # <<>> => /\ s[1] <= Percentile(s, 50) /\ Percentile(s, 50) <= Percentile(s, 95)
                  /\ Percentile(s, 95) <= Percentile(s, 99) /\ Percentile(s, 99) <= s[Len(s)]
  BY <1>2, <1>3, PercentilesAscend
<1>5. s # <<>> => \A p \in {50, 95, 99} : Divides(s, Percentile(s, p), p)
  BY <1>2, <1>3, PercentileDivides
<1> QED
  BY <1>4, <1>5 DEF PercentilesOrdered, s

=============================================================================
