---------------------------- MODULE RateLimiter ----------------------------
(***************************************************************************)
(* The token bucket of the two benchmark clients (request_response/        *)
(* consumer.rs and continuous/provider.rs have the same struct).  A bucket *)
(* holds at most one token; tokens are counted here in 1/Second of one, so *)
(* that the f64 of the program becomes an integer.                         *)
(*                                                                         *)
(* One task owns the limiter: New, then wait_for_token again and again.    *)
(* A call of wait_for_token that does not sleep is one step; one that      *)
(* sleeps is Sleep and, when the timer has fired, Wake.                    *)
(***************************************************************************)
EXTENDS BenchClock, Statistics

VARIABLES
  rate,         \* target_rps, target_pps (0: no limit)
  tokens,
  last,         \* last_request_time
  wakeAt,       \* when the timer of a sleeping call fires, or Awake
  grants,       \* history: tokens handed out
  grantedAt     \* history: when the last one was

limiterVars == <<rate, tokens, last, wakeAt, grants, grantedAt>>

Awake == -1

LimiterInit ==
  /\ rate = 0 /\ tokens = 0 /\ last = 0 /\ wakeAt = Awake
  /\ grants = 0 /\ grantedAt = 0

\* RateLimiter::new(r)
New(r) ==
  /\ grants = 0 /\ wakeAt = Awake
  /\ rate' = r
  /\ tokens' = Second
  /\ last' = clock
  /\ UNCHANGED <<wakeAt, grants, grantedAt>>

\* interval_ns, rounded down by the integer division.
Interval(r) == IF r > 0 THEN Second \div r ELSE 0

\* The tokens after the refill for the time since last, at most one.
RefilledUncapped == tokens + (clock - last) * rate     \* mutant: no .min(1.0)
Refilled == Least(tokens + (clock - last) * rate, Second)

\* interval_ns * (1.0 - tokens), rounded down by the cast.
Pause(t) == (Interval(rate) * (Second - t)) \div Second

Grant == grants' = grants + 1 /\ grantedAt' = clock

Unlimited ==
  /\ rate = 0 /\ wakeAt = Awake
  /\ Grant
  /\ UNCHANGED <<rate, tokens, last, wakeAt>>

TakeToken ==
  /\ rate > 0 /\ wakeAt = Awake
  /\ Refilled >= Second
  /\ tokens' = Refilled - Second
  /\ last' = clock
  /\ Grant
  /\ UNCHANGED <<rate, wakeAt>>

Sleep ==
  /\ rate > 0 /\ wakeAt = Awake
  /\ Refilled < Second
  /\ tokens' = Refilled
  /\ last' = clock
  /\ wakeAt' = clock + Pause(Refilled)
  /\ UNCHANGED <<rate, grants, grantedAt>>

\* The tokens left when the timer has fired.
SpentKept == tokens               \* mutant: self.tokens = 0.0 is missing
Spent == 0

Wake ==
  /\ wakeAt # Awake /\ clock >= wakeAt
  /\ tokens' = Spent
  /\ last' = clock
  /\ wakeAt' = Awake
  /\ Grant
  /\ UNCHANGED rate

LimiterNext ==
  \/ /\ (\E r \in Nat : New(r)) \/ Unlimited \/ TakeToken \/ Sleep \/ Wake
     /\ UNCHANGED clock
  \/ Tick /\ UNCHANGED limiterVars

LimiterSpec == clock = 0 /\ LimiterInit /\ [][LimiterNext]_<<clock, limiterVars>>

-----------------------------------------------------------------------------
(* Properties. *)

\* "max 1.0 to prevent bursts": two tokens are handed out an interval apart
\* or more, also when the client has stalled for many intervals before.
NoBurst ==
  [][grants' > grants /\ grants > 0 => clock - grantedAt >= Interval(rate)]_limiterVars

\* So the client never sends more than the rate allows since the start.
RateKept == grants > 0 => (grants - 1) * Interval(rate) <= grantedAt

LimiterTypeOK ==
  /\ clock \in Nat /\ rate \in Nat /\ tokens \in 0 .. Second
  /\ last \in 0 .. clock /\ wakeAt \in Nat \cup {Awake}
  /\ grants \in Nat /\ grantedAt \in 0 .. clock

=============================================================================
