---------------------------- MODULE RateLimiter ----------------------------
(***************************************************************************)
(* The request budget shared by the REST and auth clients                  *)
(* (src/src/rate_limiter.cpp): a token bucket for all requests, a bucket   *)
(* for each endpoint the policy limits, and a cooldown for each endpoint.  *)
(*                                                                         *)
(* Tokens are counted in ticks of refill: a bucket of r requests a minute  *)
(* regains one request every Minute \div r ticks, so elapsed ticks add as  *)
(* many tokens, a request costs Minute \div r of them, and a full bucket   *)
(* holds r * (Minute \div r), a minute's worth, whatever its rate.  That   *)
(* makes the code's floating-point refill exact.                           *)
(***************************************************************************)
EXTENDS Integers

CONSTANTS
  Endpoints,      \* the endpoint names the clients use
  Limited,        \* those the policy gives a bucket of their own
  Minute,         \* ticks in a minute
  GlobalRate,     \* requests a minute, all endpoints together
  EndpointRate,   \* requests a minute of one limited endpoint
  MaxRetryAfter   \* the bound on a Retry-After wait

ASSUME LimiterAssumption ==
  /\ Limited \subseteq Endpoints
  /\ Minute \in Nat \ {0}
  /\ GlobalRate \in 1..Minute
  /\ EndpointRate \in 1..Minute
  /\ MaxRetryAfter \in Nat

\* What one request costs in a bucket of the given rate.
Cost(rate) == Minute \div rate

Larger(a, b) == IF a >= b THEN a ELSE b
Smaller(a, b) == IF a <= b THEN a ELSE b

(* "spent" is history: the cost of all the requests charged so far.        *)
NewBucket(rate, now) ==
  [rate |-> rate, tokens |-> rate * Cost(rate), updated |-> now,
   blocked |-> 0, spent |-> 0]

Eligibility(b, now) == Larger(now, Larger(b.updated, b.blocked))

(* wait_for refills the bucket up to the moment it is next eligible and    *)
(* returns how long a request made now has to wait.                        *)
Refilled(b, now) ==
  [b EXCEPT !.tokens = Smaller(b.rate * Cost(b.rate),
                               b.tokens + Eligibility(b, now) - b.updated),
            !.updated = Eligibility(b, now)]

WaitFor(b, now) ==
  Eligibility(b, now) - now
    + Larger(0, Cost(b.rate) - Refilled(b, now).tokens)

ConsumeAt(b, when) ==
  LET full == Refilled(b, when)
  IN  [full EXCEPT !.tokens = Larger(0, full.tokens - Cost(b.rate)),
                   !.spent = full.spent + Cost(b.rate)]

(* The limiter: blocked is endpoint_blocked_until_.                        *)
NewLimiter(now) ==
  [all |-> NewBucket(GlobalRate, now),
   one |-> [e \in Limited |-> NewBucket(EndpointRate, now)],
   blocked |-> [e \in Endpoints |-> 0]]

GlobalDelay(l, now) == WaitFor(l.all, now)

(* Variant: the cooldown of an endpoint without a bucket is forgotten.     *)
EndpointDelayBucketOnly(l, e, now) ==
  IF e \in Limited THEN WaitFor(l.one[e], now) ELSE 0

EndpointDelay(l, e, now) ==
  Larger(Larger(0, l.blocked[e] - now),
         IF e \in Limited THEN WaitFor(l.one[e], now) ELSE 0)

(* reserve charges both buckets at the moment each of them grants the      *)
(* request, and tells the caller to wait for the later one.                *)
Reserved(l, e, now) ==
  [l EXCEPT
     !.all = ConsumeAt(Refilled(l.all, now), now + GlobalDelay(l, now)),
     !.one = IF e \in Limited
             THEN [l.one EXCEPT ![e] =
                     ConsumeAt(Refilled(l.one[e], now),
                               now + EndpointDelay(l, e, now))]
             ELSE l.one]

(* Variant: only the endpoint's own budget is waited for.                  *)
ReserveDelayOfEndpoint(l, e, now) == EndpointDelay(l, e, now)

ReserveDelay(l, e, now) ==
  Larger(GlobalDelay(l, now), EndpointDelay(l, e, now))

(* penalize never shortens a cooldown.  No caller passes global = true.    *)
Penalized(l, e, now, delay) ==
  LET until == now + Larger(0, delay)
  IN  [l EXCEPT
         !.blocked[e] = Larger(l.blocked[e], until),
         !.one = IF e \in Limited
                 THEN [l.one EXCEPT ![e].blocked = Larger(@, until)]
                 ELSE l.one]

(* parse_retry_after: delta-seconds, a date, or anything else.  A date in  *)
(* the past is a wait of zero.                                             *)
ParseRetryAfter(header, fallback) ==
  LET Bounded(d) == Larger(0, Smaller(d, MaxRetryAfter))
  IN  IF header.kind \in {"seconds", "date"}
      THEN Bounded(header.value)
      ELSE Bounded(fallback)

(* A bucket is never charged more than a full bucket and what the time     *)
(* that passed has refilled.                                               *)
WithinBudget(b) == b.spent + b.tokens <= b.rate * Cost(b.rate) + b.updated
=============================================================================
