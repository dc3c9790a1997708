----------------------------- MODULE RateLimiter -----------------------------
(***************************************************************************)
(* The token bucket of services/rate_limit.py and the middleware that asks *)
(* it (middleware.py), for one bucket and one API process.                 *)
(*                                                                         *)
(* The script that runs inside Redis is atomic, but the time it works with *)
(* is read by the caller, some time before: calls arrive with readings in  *)
(* any order.  Around Redis stands a circuit breaker that lets requests    *)
(* through unasked.                                                        *)
(***************************************************************************)
EXTENDS Integers, FiniteSets

CONSTANTS
  Capacity,     \* RateLimitConfig.capacity
  Refill,       \* RateLimitConfig.refill_per_sec, tokens per tick
  Lifetime,     \* ticks a bucket that is full again is kept: capacity / refill_rate
  Grace,        \* the 60 seconds the script adds to that
  Latency,      \* longest a call can take (the 0.5 s time-outs)
  Threshold,    \* _FAILURE_THRESHOLD
  DisabledFor,  \* _DISABLE_SECONDS
  Calls,        \* requests the process can serve at once
  MaxTime       \* bound of the clock

ASSUME BucketAssumption ==
  /\ Capacity \in Nat
  /\ Refill \in Nat
  /\ Lifetime \in Nat
  /\ Capacity <= Refill * Lifetime
ASSUME TimingAssumption ==
  /\ Latency \in Nat
  /\ Grace \in Nat
  /\ Latency <= Grace
  /\ DisabledFor \in Nat \ {0}
  /\ Threshold \in Nat \ {0}
ASSUME BoundAssumption == MaxTime \in Nat
ASSUME CallsAssumption == IsFiniteSet(Calls)

VARIABLES
  now,
  tokens,         \* the bucket: HGET tokens
  ts,             \* the bucket: HGET ts
  touched,        \* when the script last ran; it sets the expiry of the key
  failures,       \* _consecutive_failures
  disabledUntil,  \* _redis_disabled_until
  pc,             \* pc[r]: what request r does next
  reading,        \* reading[r]: int(time.time()) as request r took it
  granted,        \* how many requests the bucket has allowed
  setBack,        \* how far ts has been set back, in total
  wasted          \* calls that failed since Redis last answered or the breaker last closed

bucket == <<tokens, ts, touched>>
breaker == <<failures, disabledUntil>>
history == <<granted, setBack, wasted>>
limiterVars == <<now, bucket, breaker, pc, reading, history>>

LimiterInit ==
  /\ now = 0
  /\ tokens = Capacity
  /\ ts = 0
  /\ touched = 0
  /\ failures = 0
  /\ disabledUntil = 0
  /\ pc = [r \in Calls |-> "idle"]
  /\ reading = [r \in Calls |-> 0]
  /\ granted = 0
  /\ setBack = 0
  /\ wasted = 0

Smaller(a, b) == IF a <= b THEN a ELSE b
Larger(a, b) == IF a >= b THEN a ELSE b

CallTo(r, s) == pc' = [pc EXCEPT ![r] = s]

CircuitOpen == now < disabledUntil

\* A call that waits for Redis is given up when it takes too long.
Tick ==
  /\ now < MaxTime
  /\ \A r \in Calls : pc[r] = "eval" => now < reading[r] + Latency
  /\ now' = now + 1
  /\ wasted' = IF now' = disabledUntil THEN 0 ELSE wasted
  /\ UNCHANGED <<bucket, breaker, pc, reading, granted, setBack>>

RecordSuccess ==
  /\ failures' = 0
  /\ wasted' = 0
  /\ UNCHANGED disabledUntil

\* Faulty variant: only the failure that reaches the threshold opens the breaker.
RecordFailureOnce ==
  /\ failures' = Smaller(failures + 1, Threshold)
  /\ disabledUntil' = IF failures + 1 = Threshold THEN now + DisabledFor ELSE disabledUntil
  /\ wasted' = wasted + 1

\* The counter keeps its value when the breaker opens: afterwards one failure is
\* enough.  From the threshold on its value makes no difference.
RecordFailure ==
  /\ failures' = Smaller(failures + 1, Threshold)
  /\ disabledUntil' = IF failures + 1 >= Threshold THEN now + DisabledFor ELSE disabledUntil
  /\ wasted' = wasted + 1

------------------------------------------------------------------------------
\* RateLimitMiddleware.dispatch

\* is_blocked_ip asks Redis, unless the breaker is open.
BlockedCheck(r) ==
  /\ pc[r] = "idle"
  /\ CallTo(r, IF CircuitOpen THEN "take" ELSE "check")
  /\ UNCHANGED <<now, bucket, breaker, reading, history>>

\* Some time later: nothing fills the set it looks in, and a failure lets the
\* request go on.
BlockedAnswer(r) ==
  /\ pc[r] = "check"
  /\ RecordSuccess \/ RecordFailure
  /\ CallTo(r, "take")
  /\ UNCHANGED <<now, bucket, reading, granted, setBack>>

\* take: let through while the breaker is open, or on the way to Redis with the
\* time of the moment.
Take(r) ==
  /\ pc[r] = "take"
  /\ \/ CircuitOpen /\ CallTo(r, "served") /\ UNCHANGED reading
     \/ ~ CircuitOpen /\ CallTo(r, "eval") /\ reading' = [reading EXCEPT ![r] = now]
  /\ UNCHANGED <<now, bucket, breaker, history>>

\* Faulty variant: the key expires as soon as the bucket could be full again.
ExpiredEarly == now >= touched + Lifetime

\* Redis has dropped the key.
Expired == now >= touched + Lifetime + Grace

\* Faulty variant: nothing bounds what time refills.
RefilledUncapped(t) ==
  IF Expired THEN Capacity ELSE tokens + Refill * Larger(0, t - ts)

\* What is in the bucket at time t.
Refilled(t) ==
  IF Expired THEN Capacity ELSE Smaller(Capacity, tokens + Refill * Larger(0, t - ts))

\* _BUCKET_LUA; a throttled request gets 429, a terminal an empty "OK".
Eval(r) ==
  LET level == Refilled(reading[r])
      spent == IF level >= 1 THEN 1 ELSE 0
  IN /\ pc[r] = "eval"
     /\ tokens' = level - spent
     /\ ts' = reading[r]
     /\ touched' = now
     /\ granted' = granted + spent
     /\ setBack' = setBack + (IF Expired THEN 0 ELSE Larger(0, ts - reading[r]))
     /\ \/ RecordSuccess /\ CallTo(r, IF spent = 1 THEN "served" ELSE "throttled")
        \/ RecordFailure /\ CallTo(r, "served")
     /\ UNCHANGED <<now, reading>>

\* The call fails before the script has run: the request is let through.
EvalFails(r) ==
  /\ pc[r] = "eval"
  /\ RecordFailure
  /\ CallTo(r, "served")
  /\ UNCHANGED <<now, bucket, reading, granted, setBack>>

Answer(r) ==
  /\ pc[r] \in {"served", "throttled"}
  /\ pc' = [pc EXCEPT ![r] = "idle"]
  /\ reading' = [reading EXCEPT ![r] = 0]
  /\ UNCHANGED <<now, bucket, breaker, history>>

LimiterNext ==
  \/ Tick
  \/ \E r \in Calls :
       BlockedCheck(r) \/ BlockedAnswer(r) \/ Take(r) \/ Eval(r) \/ EvalFails(r) \/ Answer(r)

LimiterSpec == LimiterInit /\ [][LimiterNext]_limiterVars

------------------------------------------------------------------------------

LimiterTypeOK ==
  /\ now \in 0..MaxTime
  /\ tokens \in 0..Capacity
  /\ ts \in 0..MaxTime
  /\ touched \in 0..MaxTime
  /\ failures \in 0..Threshold
  /\ disabledUntil \in 0..(MaxTime + DisabledFor)
  /\ pc \in [Calls -> {"idle", "check", "take", "eval", "served", "throttled"}]
  /\ reading \in [Calls -> 0..MaxTime]
  /\ granted \in Nat
  /\ setBack \in Nat
  /\ wasted \in Nat

\* The limit: the bucket never allows more than its capacity and what time has
\* refilled since.  Calls that overtake each other set its clock back and gain the
\* refill of that much time again, and a key that expires gains nothing.
LimitHolds == granted <= Capacity + Refill * (now + setBack)

\* What the breaker is for ("otherwise every request eats the ... timeout"): until
\* Redis answers again or the breaker closes, no more calls fail than it takes to
\* open it and were under way by then, although any of these is recorded late, may
\* extend the outage and reads a state of the breaker from before it waited.
TimeoutsBounded == wasted <= Threshold - 1 + Cardinality(Calls)
==============================================================================
