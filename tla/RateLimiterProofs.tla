------------------------- MODULE RateLimiterProofs -------------------------
(***************************************************************************)
(* The rate limiter never hands out two tokens closer than an interval,    *)
(* for every rate and every resolution of the clock.                       *)
(***************************************************************************)
EXTENDS RateLimiter, TLAPS

-----------------------------------------------------------------------------
(* Arithmetic of the integer divisions. *)

\* What the quotient a \div b says of a and b.
LEMMA Quotient ==
  ASSUME NEW a \in Nat, NEW b \in Nat, b > 0
  PROVE  /\ a \div b \in Nat
         /\ (a \div b) * b <= a
         /\ a < ((a \div b) + 1) * b
  BY Z3

\* A number m with m * b <= a is at most the quotient.
LEMMA AtMostQuotient ==
  ASSUME NEW a \in Nat, NEW b \in Nat, b > 0, NEW m \in Nat, m * b <= a
  PROVE  m <= a \div b
<1> DEFINE q == a \div b
<1>1. q \in Nat /\ a < (q + 1) * b
  BY Quotient
<1> HIDE DEF q
<1>2. SUFFICES ASSUME m >= q + 1 PROVE FALSE
  BY <1>1 DEF q
<1>3. m * b >= (q + 1) * b
  BY <1>1, <1>2, Z3
<1> QED
  BY <1>1, <1>3

\* A token's worth of time is an interval or more.
LEMMA FullBucket ==
  ASSUME NEW r \in Nat, r > 0, NEW e \in Nat, e * r >= Second
  PROVE  e >= Interval(r)
<1>1. Second \in Nat /\ Second > 0
  BY ClockAssumption
<1> DEFINE q == Second \div r
<1>2. q \in Nat /\ q * r <= Second
  BY <1>1, Quotient
<1> HIDE DEF q
<1>3. q * r <= e * r
  BY <1>1, <1>2
<1>4. q <= e
  BY <1>2, <1>3, Z3
<1> QED
  BY <1>4 DEF q, Interval

\* The pause after e units without a token reaches the end of the interval,
\* although both divisions round down.
LEMMA PauseSuffices ==
  ASSUME NEW r \in Nat, r > 0, NEW e \in Nat, e * r < Second
  PROVE  /\ (Interval(r) * (Second - e * r)) \div Second \in Nat
         /\ (Interval(r) * (Second - e * r)) \div Second + e >= Interval(r)
<1>1. Second \in Nat /\ Second > 0
  BY ClockAssumption
<1> DEFINE q == Second \div r
<1>2. q \in Nat /\ q * r <= Second
  BY <1>1, Quotient
<1>3. Interval(r) = q
  BY DEF Interval
<1> HIDE DEF q
<1> DEFINE a == q * (Second - e * r)
<1>4. e * r \in Nat /\ Second - e * r \in Nat
  BY <1>1
<1>5. a \in Nat
  BY <1>2, <1>4
<1>6. a \div Second \in Nat
  BY <1>1, <1>5, Quotient
<1>7. a \div Second + e >= q
  <2>1. CASE e >= q
    BY <1>2, <1>6, <2>1
  <2>2. CASE e < q
    <3>1. q - e \in Nat
      BY <1>2, <2>2
    <3>2. a = q * Second - e * (q * r)
      BY <1>1, <1>2, Z3
    <3>3. e * (q * r) <= e * Second
      BY <1>1, <1>2, Z3
    <3>4. (q - e) * Second = q * Second - e * Second
      BY <1>1, <1>2, Z3
    <3>5. q * Second \in Nat /\ e * Second \in Nat /\ e * (q * r) \in Nat
      BY <1>1, <1>2
    <3>6. (q - e) * Second <= a
      BY <3>2, <3>3, <3>4, <3>5
    <3>7. q - e <= a \div Second
      <4> HIDE DEF a
      <4> QED
        BY <1>1, <1>5, <3>1, <3>6, AtMostQuotient
    <3> QED
      BY <1>2, <1>6, <3>7
  <2> QED
    BY <1>2, <2>1, <2>2
<1> QED
  BY <1>3, <1>6, <1>7 DEF a

-----------------------------------------------------------------------------
(* The inductive invariant: between two calls the bucket is as the last    *)
(* grant left it, and a sleeping call ends an interval after that grant.   *)

Spacing ==
  rate > 0 /\ grants > 0 =>
    /\ wakeAt = Awake => tokens = 0 /\ last = grantedAt
    /\ wakeAt # Awake => wakeAt >= grantedAt + Interval(rate)

IInv == LimiterTypeOK /\ Spacing

LEMMA IntervalIsNat == ASSUME NEW r \in Nat PROVE Interval(r) \in Nat
  BY ClockAssumption, Quotient DEF Interval

LEMMA InitInv == clock = 0 /\ LimiterInit => IInv
  BY ClockAssumption DEF LimiterInit, IInv, LimiterTypeOK, Spacing, Awake

LEMMA RefilledTyped ==
  ASSUME LimiterTypeOK
  PROVE  /\ Refilled \in 0 .. Second
         /\ tokens + (clock - last) * rate \in Nat
<1>1. clock - last \in Nat /\ rate \in Nat
  BY DEF LimiterTypeOK
<1>2. (clock - last) * rate \in Nat
  BY <1>1
<1> QED
  BY <1>2, ClockAssumption DEF LimiterTypeOK, Refilled, Least

LEMMA StepInv == IInv /\ [LimiterNext]_<<clock, limiterVars>> => IInv'
<1> SUFFICES ASSUME IInv, [LimiterNext]_<<clock, limiterVars>> PROVE IInv'
  OBVIOUS
<1> USE DEF IInv
<1>1. ASSUME NEW r \in Nat, New(r), UNCHANGED clock PROVE IInv'
  BY <1>1, ClockAssumption DEF New, LimiterTypeOK, Spacing
<1>2. ASSUME Unlimited, UNCHANGED clock PROVE IInv'
  BY <1>2, ClockAssumption DEF Unlimited, Grant, LimiterTypeOK, Spacing
<1>3. ASSUME TakeToken, UNCHANGED clock PROVE IInv'
  <2>1. Refilled = Second
    BY <1>3, RefilledTyped, ClockAssumption DEF TakeToken
  <2> QED
    BY <1>3, <2>1, ClockAssumption DEF TakeToken, Grant, LimiterTypeOK, Spacing
<1>4. ASSUME Sleep, UNCHANGED clock PROVE IInv'
  <2>1. Refilled \in 0 .. Second /\ Refilled < Second
    BY <1>4, RefilledTyped DEF Sleep
  <2>2. Interval(rate) \in Nat
    BY IntervalIsNat DEF LimiterTypeOK
  <2>3. Interval(rate) * (Second - Refilled) \in Nat
    BY <2>1, <2>2, ClockAssumption
  <2>4. Pause(Refilled) \in Nat
    BY <2>3, Quotient, ClockAssumption DEF Pause
  <2>5. LimiterTypeOK'
    BY <1>4, <2>1, <2>4, ClockAssumption DEF Sleep, LimiterTypeOK
  <2>6. ASSUME rate > 0, grants > 0 PROVE wakeAt' >= grantedAt + Interval(rate)
    <3> DEFINE e == clock - last
    <3>1. e \in Nat /\ tokens = 0 /\ last = grantedAt /\ clock = grantedAt + e
      BY <1>4, <2>6 DEF Sleep, Spacing, LimiterTypeOK
    <3>2. e * rate \in Nat /\ Refilled = e * rate /\ e * rate < Second
      BY <1>4, <2>1, <3>1, ClockAssumption DEF Refilled, Least, LimiterTypeOK
    <3> HIDE DEF e
    <3>3. Pause(Refilled) + e >= Interval(rate)
      BY <2>6, <3>1, <3>2, PauseSuffices DEF Pause, LimiterTypeOK
    <3> QED
      BY <1>4, <2>2, <2>4, <3>1, <3>3 DEF Sleep, LimiterTypeOK
  <2>7. wakeAt' # Awake
    BY <1>4, <2>4 DEF Sleep, LimiterTypeOK, Awake
  <2> QED
    BY <1>4, <2>5, <2>6, <2>7 DEF Sleep, Spacing, LimiterTypeOK
<1>5. ASSUME Wake, UNCHANGED clock PROVE IInv'
  BY <1>5, ClockAssumption DEF Wake, Spent, Grant, LimiterTypeOK, Spacing
<1>6. ASSUME Tick, UNCHANGED limiterVars PROVE IInv'
  BY <1>6 DEF Tick, limiterVars, LimiterTypeOK, Spacing
<1>7. ASSUME UNCHANGED <<clock, limiterVars>> PROVE IInv'
  BY <1>7 DEF limiterVars, LimiterTypeOK, Spacing, Interval
<1> QED
  BY <1>1, <1>2, <1>3, <1>4, <1>5, <1>6, <1>7 DEF LimiterNext

-----------------------------------------------------------------------------
(* The theorems. *)

\* The variables keep their types: the bucket never holds more than one token.
THEOREM LimiterTypes == LimiterSpec => []LimiterTypeOK
<1>1. IInv => LimiterTypeOK
  BY DEF IInv
<1> QED
  BY InitInv, StepInv, <1>1, PTL DEF LimiterSpec

\* A grant after a grant comes an interval later or more.
LEMMA GrantSpaced ==
  ASSUME IInv, [LimiterNext]_<<clock, limiterVars>>, grants' > grants, grants > 0
  PROVE  clock - grantedAt >= Interval(rate)
<1> USE DEF IInv
<1>1. CASE Unlimited
  <2>1. rate = 0 /\ Interval(rate) = 0
    BY <1>1 DEF Unlimited, Interval
  <2> QED
    BY <2>1 DEF LimiterTypeOK
<1>2. CASE TakeToken
  <2> DEFINE e == clock - last
  <2>1. e \in Nat /\ tokens = 0 /\ last = grantedAt /\ rate \in Nat /\ rate > 0
    BY <1>2 DEF TakeToken, Spacing, LimiterTypeOK
  <2>2. e * rate \in Nat /\ Refilled >= Second
    BY <1>2, <2>1 DEF TakeToken
  <2>3. e * rate >= Second
    BY <2>1, <2>2, ClockAssumption DEF Refilled, Least
  <2> HIDE DEF e
  <2>4. e >= Interval(rate)
    BY <2>1, <2>3, FullBucket
  <2> QED
    BY <2>1, <2>4 DEF e
<1>3. CASE Wake
  <2>1. Interval(rate) \in Nat /\ wakeAt # Awake /\ clock >= wakeAt
    BY <1>3, IntervalIsNat DEF Wake, LimiterTypeOK
  <2>2. CASE rate > 0
    BY <2>1, <2>2 DEF Spacing, LimiterTypeOK
  <2>3. CASE rate = 0
    BY <2>3 DEF Interval, LimiterTypeOK
  <2> QED
    BY <2>2, <2>3 DEF LimiterTypeOK
<1>4. UNCHANGED grants => FALSE
  BY DEF LimiterTypeOK
<1> QED
  BY <1>1, <1>2, <1>3, <1>4 DEF LimiterNext, New, Sleep, limiterVars

\* "max 1.0 to prevent bursts" (request_response/consumer.rs:59): whatever
\* the client did meanwhile, no two tokens come closer than an interval.
THEOREM LimiterNoBurst == LimiterSpec => NoBurst
<1>1. IInv /\ [LimiterNext]_<<clock, limiterVars>>
        => [grants' > grants /\ grants > 0 => clock - grantedAt >= Interval(rate)]_limiterVars
  BY GrantSpaced
<1> QED
  BY InitInv, StepInv, <1>1, PTL DEF LimiterSpec, NoBurst

-----------------------------------------------------------------------------

\* The tokens handed out so far, but for the first, take an interval each.
LEMMA KeptStep ==
  ASSUME IInv, RateKept, [LimiterNext]_<<clock, limiterVars>>
  PROVE  RateKept'
<1> USE DEF IInv
<1>1. CASE UNCHANGED <<rate, grants, grantedAt>>
  BY <1>1 DEF RateKept, Interval
<1>2. ASSUME NEW r \in Nat, New(r) PROVE RateKept'
  BY <1>2 DEF New, RateKept, LimiterTypeOK
<1>3. CASE Grant /\ UNCHANGED <<rate, clock>>
  <2> DEFINE i == Interval(rate)
  <2>1. i \in Nat /\ grants \in Nat /\ grantedAt \in Nat /\ clock \in Nat /\ grantedAt <= clock
    BY IntervalIsNat DEF LimiterTypeOK
  <2>2. grants' = grants + 1 /\ grantedAt' = clock /\ Interval(rate') = i
    BY <1>3 DEF Grant
  <2>3. CASE grants = 0
    BY <2>1, <2>2, <2>3 DEF RateKept, Interval
  <2>4. CASE grants > 0
    <3>1. clock - grantedAt >= i /\ (grants - 1) * i <= grantedAt
      BY <1>3, <2>1, <2>2, <2>4, GrantSpaced DEF RateKept
    <3> HIDE DEF i
    <3>2. grants * i = (grants - 1) * i + i /\ (grants - 1) * i \in Nat
      BY <2>1, <2>4
    <3>3. grants * i <= clock
      BY <2>1, <3>1, <3>2
    <3>4. grants' - 1 = grants
      BY <2>1, <2>2
    <3> QED
      BY <2>2, <3>3, <3>4 DEF RateKept, Interval
  <2> QED
    BY <2>1, <2>3, <2>4
<1> QED
  BY <1>1, <1>2, <1>3 DEF LimiterNext, Unlimited, TakeToken, Sleep, Wake, Tick, limiterVars

\* So a client asked for a rate never sends faster than that since its start.
THEOREM LimiterKeepsRate == LimiterSpec => []RateKept
<1>1. LimiterInit => RateKept
  BY DEF LimiterInit, RateKept
<1>2. IInv /\ RateKept /\ [LimiterNext]_<<clock, limiterVars>> => RateKept'
  BY KeptStep
<1> QED
  BY InitInv, StepInv, <1>1, <1>2, PTL DEF LimiterSpec

=============================================================================
