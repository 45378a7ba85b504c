-------------------------- MODULE RestClientProofs --------------------------
(***************************************************************************)
(* For any number of calls of any kinds, any rates and any answers: the    *)
(* buckets are never charged beyond their rate, a call is answered once    *)
(* and then sends nothing, no call is forgotten, the number of sends is    *)
(* bounded, cooldowns are observed, and a referral's failure is honest.    *)
(***************************************************************************)
EXTENDS RestClient, TLAPS

LimiterInv == limiter \in Limiters /\ BudgetIsKept

-----------------------------------------------------------------------------
(* The rate limiter. *)

\* A full bucket holds at least one request.
LEMMA CostFits ==
  ASSUME NEW rate \in 1..Minute
  PROVE  /\ Cost(rate) \in Nat /\ rate * Cost(rate) \in Nat
         /\ Cost(rate) <= rate * Cost(rate)
<1>1. Cost(rate) \in Nat
  BY LimiterAssumption DEF Cost
<1>2. \A c \in Nat : rate * c \in Nat /\ c <= rate * c
  OBVIOUS
<1> QED
  BY <1>1, <1>2

\* A new bucket is full and nothing is charged.
LEMMA NewBucketKept ==
  ASSUME NEW rate \in 1..Minute
  PROVE  NewBucket(rate, 0) \in Bucket /\ WithinBudget(NewBucket(rate, 0))
BY CostFits DEF NewBucket, Bucket, WithinBudget

\* wait_for refills a bucket by no more than the time that passed.
LEMMA RefilledKept ==
  ASSUME NEW b \in Bucket, NEW t \in Nat
  PROVE  /\ Refilled(b, t) \in Bucket
         /\ Refilled(b, t).rate = b.rate
         /\ WithinBudget(b) => WithinBudget(Refilled(b, t))
<1> DEFINE cap == b.rate * Cost(b.rate)
<1>1. cap \in Nat
  BY CostFits DEF Bucket
<1> HIDE DEF cap
<1>2. Refilled(b, t) = [b EXCEPT !.tokens = Smaller(cap, b.tokens + Eligibility(b, t) - b.updated),
                                !.updated = Eligibility(b, t)]
  BY DEF Refilled, cap
<1>3. Eligibility(b, t) \in Nat /\ Eligibility(b, t) >= b.updated
  BY DEF Eligibility, Larger, Bucket
<1>4. Refilled(b, t) \in Bucket /\ Refilled(b, t).rate = b.rate
  <2> DEFINE tokens == Smaller(cap, b.tokens + Eligibility(b, t) - b.updated)
  <2>1. tokens \in Nat
    BY <1>1, <1>3 DEF Bucket, Smaller
  <2> HIDE DEF tokens
  <2>2. [b EXCEPT !.tokens = tokens, !.updated = Eligibility(b, t)] \in Bucket
    BY <2>1, <1>3 DEF Bucket
  <2> QED
    BY <2>2, <1>2 DEF tokens, Bucket
<1>5. WithinBudget(b) <=> b.spent + b.tokens <= cap + b.updated
  BY DEF WithinBudget, cap
<1>6. WithinBudget(Refilled(b, t)) <=>
        Refilled(b, t).spent + Refilled(b, t).tokens <= cap + Refilled(b, t).updated
  BY <1>4 DEF WithinBudget, cap
<1>7. WithinBudget(b) => WithinBudget(Refilled(b, t))
  BY <1>1, <1>2, <1>3, <1>5, <1>6 DEF Bucket, Smaller
<1> QED
  BY <1>4, <1>7

\* A bucket that is charged when its wait is over has the tokens.
LEMMA ConsumeKept ==
  ASSUME NEW b \in Bucket, NEW t \in Nat, NEW when \in Nat,
         when >= t + WaitFor(b, t), WithinBudget(b)
  PROVE  /\ ConsumeAt(Refilled(b, t), when) \in Bucket
         /\ WithinBudget(ConsumeAt(Refilled(b, t), when))
<1> DEFINE r == Refilled(b, t)
           full == Refilled(r, when)
           cost == Cost(b.rate)
           cap == b.rate * Cost(b.rate)
<1>1. r \in Bucket /\ r.rate = b.rate /\ WithinBudget(r)
  BY RefilledKept
<1>2. full \in Bucket /\ full.rate = b.rate /\ WithinBudget(full)
  BY <1>1, RefilledKept
<1>3. cost \in Nat /\ cap \in Nat /\ cost <= cap
  BY CostFits DEF Bucket
<1>4. ConsumeAt(r, when) = [full EXCEPT !.tokens = Larger(0, full.tokens - cost),
                                        !.spent = full.spent + cost]
  BY <1>1 DEF ConsumeAt
<1>5. /\ r.updated = Eligibility(b, t) /\ r.blocked = b.blocked
      /\ Eligibility(b, t) \in Nat
      /\ Eligibility(b, t) >= b.blocked
  BY DEF Refilled, Eligibility, Larger, Bucket
<1>6. when >= Eligibility(b, t) + Larger(0, cost - r.tokens)
  BY <1>1, <1>3, <1>5 DEF WaitFor, Larger, Bucket
<1>7. Eligibility(r, when) = when
  BY <1>1, <1>3, <1>5, <1>6 DEF Eligibility, Larger, Bucket
<1>8. full.tokens = Smaller(cap, r.tokens + when - r.updated)
  BY <1>1, <1>7 DEF Refilled, Bucket
<1>9. cost <= full.tokens
  BY <1>1, <1>3, <1>5, <1>6, <1>8 DEF Smaller, Larger, Bucket
<1>10. full.spent + full.tokens <= cap + full.updated
  BY <1>2 DEF WithinBudget
<1> HIDE DEF cost, cap, full
<1>11. ConsumeAt(r, when) \in Bucket /\ ConsumeAt(r, when).rate = b.rate
  <2> DEFINE tokens == Larger(0, full.tokens - cost)
             spent == full.spent + cost
  <2>1. tokens \in Nat /\ spent \in Nat
    BY <1>2, <1>3 DEF Bucket, Larger
  <2> HIDE DEF tokens, spent
  <2>2. [full EXCEPT !.tokens = tokens, !.spent = spent] \in Bucket
    BY <2>1, <1>2 DEF Bucket
  <2> QED
    BY <2>2, <1>2, <1>4 DEF tokens, spent, Bucket
<1>12. /\ ConsumeAt(r, when).spent + ConsumeAt(r, when).tokens = full.spent + full.tokens
       /\ ConsumeAt(r, when).updated = full.updated
  BY <1>2, <1>3, <1>4, <1>9 DEF Bucket, Larger
<1>13. WithinBudget(ConsumeAt(r, when))
  BY <1>10, <1>11, <1>12 DEF WithinBudget, cap
<1> QED
  BY <1>11, <1>13

\* A wait is a number of ticks.
LEMMA WaitIsNat ==
  ASSUME NEW b \in Bucket, NEW t \in Nat
  PROVE  WaitFor(b, t) \in Nat
<1>1. Refilled(b, t).tokens \in Nat /\ Cost(b.rate) \in Nat
  BY RefilledKept, CostFits DEF Bucket
<1>2. Eligibility(b, t) \in Nat /\ Eligibility(b, t) >= t
  BY DEF Eligibility, Larger, Bucket
<1> QED
  BY <1>1, <1>2 DEF WaitFor, Larger

\* reserve charges each bucket when its own wait is over.
LEMMA ReservedKept ==
  ASSUME LimiterInv, NEW t \in Nat, NEW e \in Endpoints
  PROVE  /\ Reserved(limiter, e, t) \in Limiters
         /\ WithinBudget(Reserved(limiter, e, t).all)
         /\ \A x \in Limited : WithinBudget(Reserved(limiter, e, t).one[x])
         /\ Reserved(limiter, e, t).blocked = limiter.blocked
<1>1. \A b \in Bucket : WaitFor(b, t) \in Nat
  BY WaitIsNat
<1> DEFINE all == ConsumeAt(Refilled(limiter.all, t), t + GlobalDelay(limiter, t))
           One == ConsumeAt(Refilled(limiter.one[e], t), t + EndpointDelay(limiter, e, t))
<1>2. all \in Bucket /\ WithinBudget(all)
  BY <1>1, ConsumeKept DEF LimiterInv, Limiters, BudgetIsKept, GlobalDelay
<1>3. e \in Limited => One \in Bucket /\ WithinBudget(One)
  <2> SUFFICES ASSUME e \in Limited PROVE One \in Bucket /\ WithinBudget(One)
    OBVIOUS
  <2>1. /\ limiter.one[e] \in Bucket /\ WithinBudget(limiter.one[e])
        /\ limiter.blocked[e] \in Nat
    BY DEF LimiterInv, Limiters, BudgetIsKept
  <2>2. WaitFor(limiter.one[e], t) \in Nat
    BY <1>1, <2>1
  <2>3. /\ EndpointDelay(limiter, e, t) \in Nat
        /\ EndpointDelay(limiter, e, t) >= WaitFor(limiter.one[e], t)
    BY <2>1, <2>2 DEF EndpointDelay, Larger
  <2> QED
    BY <2>1, <2>2, <2>3, ConsumeKept
<1> DEFINE one == IF e \in Limited THEN [limiter.one EXCEPT ![e] = One] ELSE limiter.one
<1>4. one \in [Limited -> Bucket] /\ \A x \in Limited : WithinBudget(one[x])
  <2> HIDE DEF One
  <2> QED
    BY <1>3 DEF LimiterInv, Limiters, BudgetIsKept
<1>5. Reserved(limiter, e, t) = [limiter EXCEPT !.all = all, !.one = one]
  BY DEF Reserved
<1> HIDE DEF all, one
<1> QED
  BY <1>2, <1>4, <1>5 DEF LimiterInv, Limiters

\* penalize moves the end of a cooldown only.
LEMMA PenalizedKept ==
  ASSUME LimiterInv, NEW t \in Nat, NEW e \in Endpoints, NEW delay \in Nat
  PROVE  /\ Penalized(limiter, e, t, delay) \in Limiters
         /\ WithinBudget(Penalized(limiter, e, t, delay).all)
         /\ \A x \in Limited : WithinBudget(Penalized(limiter, e, t, delay).one[x])
<1> DEFINE until == t + Larger(0, delay)
           blocked == [limiter.blocked EXCEPT ![e] = Larger(limiter.blocked[e], until)]
           Later(b) == [b EXCEPT !.blocked = Larger(b.blocked, until)]
           one == IF e \in Limited THEN [limiter.one EXCEPT ![e] = Later(limiter.one[e])]
                  ELSE limiter.one
<1>1. until \in Nat
  BY DEF Larger
<1>2. blocked \in [Endpoints -> Nat]
  <2>1. Larger(limiter.blocked[e], until) \in Nat
    BY <1>1 DEF LimiterInv, Limiters, Larger
  <2> QED
    BY <2>1 DEF LimiterInv, Limiters
<1> HIDE DEF until, blocked
<1>3. \A b \in Bucket : WithinBudget(b) => Later(b) \in Bucket /\ WithinBudget(Later(b))
  <2> SUFFICES ASSUME NEW b \in Bucket, WithinBudget(b)
               PROVE  Later(b) \in Bucket /\ WithinBudget(Later(b))
    OBVIOUS
  <2>1. Larger(b.blocked, until) \in Nat
    BY <1>1 DEF Larger, Bucket
  <2>2. Later(b) \in Bucket
    BY <2>1 DEF Bucket
  <2>3. /\ Later(b).spent = b.spent /\ Later(b).tokens = b.tokens
        /\ Later(b).rate = b.rate /\ Later(b).updated = b.updated
    BY DEF Bucket
  <2> QED
    BY <2>2, <2>3 DEF WithinBudget
<1> HIDE DEF Later
<1>4. one \in [Limited -> Bucket] /\ \A x \in Limited : WithinBudget(one[x])
  BY <1>3 DEF LimiterInv, Limiters, BudgetIsKept
<1>5. Penalized(limiter, e, t, delay) = [limiter EXCEPT !.blocked = blocked, !.one = one]
  BY DEF Penalized, until, blocked, Later, LimiterInv, Limiters
<1> HIDE DEF one
<1> QED
  BY <1>2, <1>4, <1>5 DEF LimiterInv, Limiters, BudgetIsKept

\* A wait is a number of ticks, and outlasts the endpoint's cooldown.
LEMMA DelayFacts ==
  ASSUME LimiterInv, NEW t \in Nat, NEW e \in Endpoints
  PROVE  /\ ReserveDelay(limiter, e, t) \in Nat
         /\ limiter.blocked[e] \in Nat
         /\ limiter.blocked[e] <= t + ReserveDelay(limiter, e, t)
<1>1. \A b \in Bucket : WaitFor(b, t) \in Nat
  BY WaitIsNat
<1>2. GlobalDelay(limiter, t) \in Nat
  BY <1>1 DEF GlobalDelay, LimiterInv, Limiters
<1>3. (IF e \in Limited THEN WaitFor(limiter.one[e], t) ELSE 0) \in Nat
  BY <1>1 DEF LimiterInv, Limiters
<1>4. limiter.blocked[e] \in Nat
  BY DEF LimiterInv, Limiters
<1>5. /\ EndpointDelay(limiter, e, t) \in Nat
      /\ limiter.blocked[e] <= t + EndpointDelay(limiter, e, t)
  BY <1>3, <1>4 DEF EndpointDelay, Larger
<1> QED
  BY <1>2, <1>4, <1>5 DEF ReserveDelay, Larger

\* parse_retry_after returns a number of ticks for every header.
LEMMA RetryAfterFacts ==
  ASSUME NEW header \in [kind : {"seconds", "date", "none"}, value : Int],
         NEW attempt \in Nat
  PROVE  RetryAfter(header, attempt) \in Nat
<1> DEFINE fallback == <<1, 2, 4, 8, 16, 32, 64>>[Smaller(attempt, 6) + 1]
<1>1. fallback \in Nat
  BY DEF Smaller
<1> HIDE DEF fallback
<1>2. ParseRetryAfter(header, fallback) \in Nat
  BY <1>1, LimiterAssumption DEF ParseRetryAfter, Larger, Smaller
<1> QED
  BY <1>2 DEF RetryAfter, fallback

-----------------------------------------------------------------------------
(* The operations. *)

FKind == {"none"} \cup Kinds
FNext == {"idle", "start", "timer", "answer", "signature", "over", "lost"}
FTarget == {"auth_message", "auth"}
FReserve == {"yes", "paid", "free"}
FDeadline == Deadlines \cup {0}
FCancel == {"no", "set", "seen"}
FResult == {"none", "told", "ok", "failed", "ambiguous"}
FAnswer == {"none"} \cup Answers
FEarly == {"no", "yes"}

\* The type of an operation, with its sets named: the updates below are typed
\* without opening the sets.
LEMMA OpTypeIs ==
  OpType = [kind : FKind, next : FNext, target : FTarget, due : Nat,
            reserve : FReserve, attempt : Nat, deadline : FDeadline,
            cancel : FCancel, calls : Nat, result : FResult, answer : FAnswer,
            sends : Nat, free : Nat, floor : Nat, early : FEarly]
BY DEF OpType, FKind, FNext, FTarget, FReserve, FDeadline, FCancel, FResult,
       FAnswer, FEarly

LEMMA FieldValues ==
  /\ FNext = {"idle", "start", "timer", "answer", "signature", "over", "lost"}
  /\ FTarget = {"auth_message", "auth"} /\ FReserve = {"yes", "paid", "free"}
  /\ 0 \in FDeadline /\ FCancel = {"no", "set", "seen"}
  /\ FResult = {"none", "told", "ok", "failed", "ambiguous"}
  /\ FEarly = {"no", "yes"}
BY DEF FNext, FTarget, FReserve, FDeadline, FCancel, FResult, FEarly

\* The requests an operation has sent at most: in all, and while it is about
\* to send one.
SentAtMost(op) ==
  /\ op.kind \in Gets => op.sends <= MaxGetRetries + 1
  /\ op.kind = "referral" => op.sends <= 1
  /\ op.kind = "auth" => op.sends <= IF op.target = "auth" THEN 2 ELSE 1

AboutToSend(op) ==
  /\ op.kind \in Gets => op.attempt <= MaxGetRetries /\ op.sends <= op.attempt
  /\ op.kind = "referral" => op.sends = 0
  /\ op.kind = "auth" => op.sends <= IF op.target = "auth" THEN 1 ELSE 0

SendInv(op) ==
  /\ SentAtMost(op)
  /\ op.next \in {"start", "timer"} => AboutToSend(op)
  /\ op.kind \in Gets /\ op.next = "answer" => op.sends <= op.attempt + 1

\* Who was answered before all is over cancelled the call; the wait for a
\* timer includes the cooldown; only an authentication is signed.
CallInv(op) ==
  /\ op.kind = "none" <=> op.next = "idle"
  /\ op.next = "idle" => op = NoOp
  /\ op.calls <= 1
  /\ op.next = "over" => op.calls = 1 /\ op.cancel = "no"
  /\ op.calls = 1 /\ op.next # "over" => op.cancel = "seen" /\ op.kind # "auth"
  /\ op.next \in {"signature", "lost"} => op.kind = "auth" /\ op.target = "auth_message"
  /\ op.early = "no"
  /\ op.next = "start" => op.reserve = "yes"
  /\ op.next = "timer" => op.floor <= op.due
  /\ op.next \in {"answer", "signature"} => op.floor = 0

\* What a referral's caller was told fits the venue's answer.
Honest(op, result) ==
  /\ result = "failed" /\ op.sends > 0 => op.answer \notin OpenAnswers \cup {"none"}
  /\ result = "ok" => op.answer = "ok"

ReferralInv(op) ==
  op.kind = "referral" =>
    /\ op.answer # "none" => op.next = "over"
    /\ op.calls = 0 => op.result = "none"
    /\ Honest(op, op.result)

OpInv(op) == op \in OpType /\ SendInv(op) /\ CallInv(op) /\ ReferralInv(op)

\* What a handler may make of an operation.
Keeps(op, new) == OpInv(new) /\ (op.calls = 1 => new.sends = op.sends)

\* What is known of an operation that is about to send or to wait.
Pending(op) ==
  /\ op \in OpType /\ op.kind # "none" /\ op.calls <= 1 /\ op.early = "no"
  /\ AboutToSend(op)
  /\ op.calls = 1 => op.cancel = "seen" /\ op.kind # "auth"
  /\ op.kind = "referral" =>
       op.answer = "none" /\ op.result # "ok" /\ (op.calls = 0 => op.result = "none")

RestInv ==
  /\ now \in Nat /\ LimiterInv
  /\ ops \in [Ops -> OpType] /\ \A o \in Ops : OpInv(ops[o])

\* Done leaves all but the queue's fields alone.
LEMMA DoneFacts ==
  ASSUME NEW op \in OpType
  PROVE  LET new == Done(op) IN
         /\ new \in OpType
         /\ new.kind = op.kind /\ new.next = "over" /\ new.target = op.target
         /\ new.attempt = 0 /\ new.cancel = "no" /\ new.floor = 0
         /\ new.calls = op.calls /\ new.result = op.result
         /\ new.answer = op.answer /\ new.sends = op.sends /\ new.early = op.early
<1>1. "over" \in FNext /\ "paid" \in FReserve /\ "no" \in FCancel /\ 0 \in FDeadline
  BY FieldValues
<1>2. Done(op) \in OpType
  BY <1>1, OpTypeIs DEF Done
<1>3. /\ Done(op).kind = op.kind /\ Done(op).next = "over"
      /\ Done(op).target = op.target /\ Done(op).attempt = 0
      /\ Done(op).cancel = "no" /\ Done(op).floor = 0
      /\ Done(op).calls = op.calls /\ Done(op).result = op.result
      /\ Done(op).answer = op.answer /\ Done(op).sends = op.sends
      /\ Done(op).early = op.early
  BY OpTypeIs DEF Done
<1> QED
  BY <1>2, <1>3

\* Finish tells the caller, once, and changes nothing else.
LEMMA FinishFacts ==
  ASSUME NEW op \in OpType, op.calls <= 1,
         NEW result \in {"ok", "failed", "ambiguous"}
  PROVE  LET new == Finish(op, result) IN
         /\ new \in OpType
         /\ new.kind = op.kind /\ new.next = op.next /\ new.target = op.target
         /\ new.due = op.due /\ new.reserve = op.reserve /\ new.attempt = op.attempt
         /\ new.cancel = op.cancel /\ new.floor = op.floor /\ new.calls = 1
         /\ new.answer = op.answer /\ new.sends = op.sends /\ new.early = op.early
         /\ op.calls = 1 => new.result = op.result
         /\ op.calls = 0 => new.result = Told(op, result)
<1> DEFINE new == Finish(op, result)
           told == Told(op, result)
<1>0. op.calls \in Nat
  BY OpTypeIs
<1>1. told \in FResult
  BY FieldValues DEF Told
<1>2. CASE op.calls = 1
  BY <1>2 DEF Finish
<1>3. CASE op.calls = 0
  <2>0. new = [op EXCEPT !.calls = 1, !.result = told]
    BY <1>3 DEF Finish
  <2> HIDE DEF told, new
  <2>1. new \in OpType
    BY <1>1, <2>0, OpTypeIs
  <2>2. /\ new.kind = op.kind /\ new.next = op.next /\ new.target = op.target
        /\ new.due = op.due /\ new.reserve = op.reserve /\ new.attempt = op.attempt
        /\ new.cancel = op.cancel /\ new.floor = op.floor /\ new.calls = 1
        /\ new.answer = op.answer /\ new.sends = op.sends /\ new.early = op.early
        /\ new.result = told
    BY <2>0, OpTypeIs
  <2> QED
    BY <1>3, <2>1, <2>2 DEF new, told
<1> QED
  BY <1>0, <1>2, <1>3

\* The kinds there are.
LEMMA KindFacts ==
  ASSUME NEW op \in OpType
  PROVE  /\ op.kind \in {"none", "public", "private", "referral", "auth"}
         /\ op.attempt \in Nat /\ op.calls \in Nat /\ op.sends \in Nat
         /\ op.floor \in Nat /\ op.due \in Nat
BY OpTypeIs, RestAssumption DEF FKind

\* The end of an operation: its caller is told, and nothing is queued for it.
LEMMA OverKept ==
  ASSUME NEW op \in OpType, NEW result \in {"ok", "failed", "ambiguous"},
         op.kind # "none", op.calls <= 1, op.early = "no", SentAtMost(op),
         op.kind = "referral" =>
           Honest(op, IF op.calls = 1 THEN op.result ELSE result)
  PROVE  Keeps(op, Over(op, result))
<1> DEFINE new == Over(op, result)
           fin == Finish(op, result)
<1>1. /\ fin \in OpType
      /\ fin.kind = op.kind /\ fin.target = op.target /\ fin.calls = 1
      /\ fin.sends = op.sends /\ fin.early = op.early /\ fin.answer = op.answer
      /\ op.calls = 1 => fin.result = op.result
      /\ op.calls = 0 => fin.result = Told(op, result)
  BY FinishFacts
<1>2. new = Done(fin)
  BY DEF Over
<1> HIDE DEF fin, new
<1>3. /\ new \in OpType
      /\ new.kind = op.kind /\ new.next = "over" /\ new.target = op.target
      /\ new.attempt = 0 /\ new.cancel = "no" /\ new.floor = 0 /\ new.calls = 1
      /\ new.sends = op.sends /\ new.early = op.early /\ new.answer = op.answer
      /\ op.calls = 1 => new.result = op.result
      /\ op.calls = 0 => new.result = Told(op, result)
  BY <1>1, <1>2, DoneFacts
<1>4. SendInv(new)
  BY <1>3 DEF SendInv, SentAtMost
<1>5. CallInv(new)
  BY <1>3 DEF CallInv
<1>6. ReferralInv(new)
  <2> SUFFICES ASSUME op.kind = "referral"
               PROVE  ReferralInv(new)
    BY <1>3 DEF ReferralInv
  <2>1. op.calls \in {0, 1}
    BY KindFacts
  <2>2. new.result = IF op.calls = 1 THEN op.result ELSE result
    BY <1>3, <2>1 DEF Told
  <2>3. Honest(new, new.result)
    BY <1>3, <2>2 DEF Honest
  <2> QED
    BY <1>3, <2>3 DEF ReferralInv
<1> QED
  BY <1>3, <1>4, <1>5, <1>6 DEF Keeps, OpInv, new

\* An operation that was about to send may fail instead.
LEMMA PendingEnds ==
  ASSUME NEW op, Pending(op)
  PROVE  Keeps(op, Over(op, "failed"))
<1>1. op \in OpType /\ op.kind # "none" /\ op.calls <= 1 /\ op.early = "no"
  BY DEF Pending
<1>2. SentAtMost(op)
  BY <1>1, KindFacts, RestAssumption DEF SentAtMost, AboutToSend, Pending
<1>3. op.kind = "referral" =>
        Honest(op, IF op.calls = 1 THEN op.result ELSE "failed")
  BY DEF Honest, Pending, AboutToSend
<1> QED
  BY <1>1, <1>2, <1>3, OverKept

\* Nothing is left to do for an operation whose caller was answered.
LEMMA DoneKept ==
  ASSUME NEW op, Pending(op), op.calls = 1
  PROVE  Keeps(op, Done(op))
<1>1. Done(op) = Over(op, "failed")
  BY DEF Over, Finish
<1> QED
  BY <1>1, PendingEnds

\* schedule: a timer for what the cooldown asks, or the end.
LEMMA ScheduleKept ==
  ASSUME now \in Nat, NEW op, Pending(op), NEW delay \in Nat,
         op.floor <= now + delay, NEW reserve \in FReserve
  PROVE  Keeps(op, Schedule(op, delay, reserve))
<1>1. CASE Past(op, delay)
  BY <1>1, PendingEnds DEF Schedule
<1>2. CASE ~Past(op, delay)
  <2> DEFINE due == now + delay
             new == [op EXCEPT !.next = "timer", !.due = due, !.reserve = reserve]
  <2>0. Schedule(op, delay, reserve) = new
    BY <1>2 DEF Schedule
  <2>1. due \in Nat /\ "timer" \in FNext /\ op \in OpType
    BY FieldValues DEF Pending
  <2> HIDE DEF due
  <2>2. new \in OpType
    BY <2>1, OpTypeIs
  <2>3. /\ new.kind = op.kind /\ new.next = "timer" /\ new.target = op.target
        /\ new.attempt = op.attempt /\ new.cancel = op.cancel /\ new.floor = op.floor
        /\ new.calls = op.calls /\ new.sends = op.sends /\ new.early = op.early
        /\ new.answer = op.answer /\ new.result = op.result /\ new.due = due
    BY <2>1, OpTypeIs
  <2> HIDE DEF new
  <2>4. SendInv(new)
    BY <2>1, <2>3, KindFacts, RestAssumption DEF SendInv, AboutToSend, SentAtMost, Pending
  <2>5. CallInv(new)
    BY <2>3 DEF CallInv, Pending, due
  <2>6. ReferralInv(new)
    BY <2>3 DEF ReferralInv, Honest, Pending, AboutToSend
  <2> QED
    BY <2>0, <2>2, <2>3, <2>4, <2>5, <2>6 DEF Keeps, OpInv
<1> QED
  BY <1>1, <1>2

\* A request leaves after the cooldown its operation was told of.
LEMMA DispatchedKept ==
  ASSUME now \in Nat, NEW op, Pending(op), op.calls = 0, op.floor <= now
  PROVE  Keeps(op, Dispatched(op))
<1> DEFINE sends == op.sends + 1
           free == IF op.reserve = "free" THEN op.free + 1 ELSE op.free
           new == [op EXCEPT !.next = "answer", !.due = 0, !.sends = sends,
                             !.free = free, !.floor = 0, !.early = "no"]
<1>1. op \in OpType /\ op.early = "no"
  BY DEF Pending
<1>2. op.free \in Nat /\ op.sends \in Nat /\ op.floor \in Nat
  BY <1>1, OpTypeIs
<1>3. Dispatched(op) = new
  <2>1. ~(now < op.floor)
    BY <1>2
  <2>2. [op EXCEPT !.next = "answer", !.due = 0, !.sends = sends, !.free = free,
                   !.floor = 0, !.early = op.early] = new
    BY <1>1
  <2> QED
    BY <2>1, <2>2 DEF Dispatched
<1>4. sends \in Nat /\ free \in Nat /\ "answer" \in FNext /\ "no" \in FEarly
  BY <1>2, FieldValues
<1> HIDE DEF sends, free
<1>5. new \in OpType
  BY <1>1, <1>4, OpTypeIs
<1>6. /\ new.kind = op.kind /\ new.next = "answer" /\ new.target = op.target
      /\ new.attempt = op.attempt /\ new.cancel = op.cancel /\ new.floor = 0
      /\ new.calls = op.calls /\ new.sends = sends /\ new.early = "no"
      /\ new.answer = op.answer /\ new.result = op.result
  BY <1>1, <1>4, OpTypeIs
<1> HIDE DEF new
<1>7. SendInv(new)
  BY <1>1, <1>2, <1>6, KindFacts, RestAssumption
     DEF SendInv, AboutToSend, SentAtMost, Pending, sends
<1>8. CallInv(new)
  BY <1>6 DEF CallInv, Pending
<1>9. ReferralInv(new)
  BY <1>6 DEF ReferralInv, Honest, Pending
<1> QED
  BY <1>3, <1>5, <1>6, <1>7, <1>8, <1>9 DEF Keeps, OpInv

\* send, with whichever credentials the providers have.
LEMMA SendKept ==
  ASSUME now \in Nat, NEW op, Pending(op), NEW have, op.floor <= now,
         op.calls = 0 \/ op.kind = "referral"
  PROVE  Keeps(op, Send(op, have))
<1>1. Keeps(op, Over(op, "failed"))
  BY PendingEnds
<1>2. op.calls = 0 => Keeps(op, Dispatched(op))
  BY DispatchedKept
<1>3. op.calls = 1 => Keeps(op, Done(op))
  BY DoneKept
<1>4. op.calls \in {0, 1} /\ op.kind \in {"public", "private", "referral", "auth"}
  BY KindFacts DEF Pending
<1>5. CASE op.kind = "public"
  BY <1>1, <1>2, <1>5 DEF Send, SendPublic
<1>6. CASE op.kind = "private"
  BY <1>1, <1>2, <1>6 DEF Send, SendPrivate
<1>7. CASE op.kind = "referral"
  BY <1>1, <1>2, <1>3, <1>4, <1>7 DEF Send, SendReferral
<1>8. CASE op.kind = "auth"
  BY <1>1, <1>2, <1>8 DEF Send, SendAuth
<1> QED
  BY <1>4, <1>5, <1>6, <1>7, <1>8

\* The endpoint of an operation is one of the limiter's.
LEMMA EndpointFacts ==
  ASSUME NEW op \in OpType
  PROVE  Endpoint(op) \in Endpoints
<1>1. op.target \in {"auth_message", "auth"}
  BY OpTypeIs, FieldValues
<1> QED
  BY <1>1, RestAssumption DEF Endpoint

\* What the limiter makes an operation wait covers the endpoint's cooldown.
LEMMA AfterReserveKept ==
  ASSUME now \in Nat, LimiterInv, NEW op, Pending(op), op.calls = 0, NEW have
  PROVE  Keeps(op, AfterReserve(op, have))
<1> DEFINE e == Endpoint(op)
           delay == ReserveDelay(limiter, e, now)
           until == limiter.blocked[e]
           paid == [op EXCEPT !.reserve = "paid", !.floor = until]
<1>1. op \in OpType /\ e \in Endpoints
  BY EndpointFacts DEF Pending
<1>2. delay \in Nat /\ until \in Nat /\ until <= now + delay
  BY <1>1, DelayFacts
<1>3. AfterReserve(op, have) =
        IF delay > 0 THEN Schedule(paid, delay, "paid") ELSE Send(paid, have)
  BY DEF AfterReserve
<1>4. "paid" \in FReserve
  BY FieldValues
<1> HIDE DEF e, delay, until
<1>5. paid \in OpType
  BY <1>1, <1>2, <1>4, OpTypeIs
<1>6. /\ paid.kind = op.kind /\ paid.target = op.target
      /\ paid.attempt = op.attempt /\ paid.cancel = op.cancel /\ paid.floor = until
      /\ paid.calls = op.calls /\ paid.sends = op.sends /\ paid.early = op.early
      /\ paid.answer = op.answer /\ paid.result = op.result
  BY <1>1, <1>2, <1>4, OpTypeIs
<1> HIDE DEF paid
<1>7. Pending(paid)
  BY <1>5, <1>6 DEF Pending, AboutToSend
<1>8. delay > 0 => Keeps(paid, Schedule(paid, delay, "paid"))
  BY <1>2, <1>4, <1>6, <1>7, ScheduleKept
<1>9. ~(delay > 0) => Keeps(paid, Send(paid, have))
  BY <1>2, <1>6, <1>7, SendKept
<1> QED
  BY <1>3, <1>6, <1>8, <1>9 DEF Keeps

\* start, when it is posted and when a GET's timer fires.
LEMMA StartKept ==
  ASSUME now \in Nat, LimiterInv, NEW op, OpInv(op), NEW have,
         \/ op.next = "start"
         \/ op.next = "timer" /\ op.due <= now /\ op.kind \in Gets
  PROVE  Keeps(op, Start(op, have))
<1>1. Pending(op)
  BY DEF OpInv, Pending, CallInv, SendInv, ReferralInv, Honest
<1>2. op.calls \in {0, 1} /\ op.kind \in {"public", "private", "referral", "auth"}
  BY <1>1, KindFacts DEF Pending
<1>3. Keeps(op, Over(op, "failed"))
  BY <1>1, PendingEnds
<1>4. op.calls = 1 => Keeps(op, Done(op))
  BY <1>1, DoneKept
<1>5. op.calls = 0 => Keeps(op, AfterReserve(op, have))
  BY <1>1, AfterReserveKept
<1>6. op.calls = 1 => op.cancel = "seen" /\ op.kind # "auth"
  BY DEF OpInv, CallInv
<1>7. op.calls = 0 /\ op.reserve # "yes" => Keeps(op, Send(op, have))
  <2> SUFFICES ASSUME op.calls = 0, op.reserve # "yes"
               PROVE  Keeps(op, Send(op, have))
    OBVIOUS
  <2>1. op.floor <= op.due /\ op.due <= now
    BY DEF OpInv, CallInv
  <2>2. op.floor <= now
    BY <1>1, <2>1, KindFacts DEF Pending
  <2> QED
    BY <1>1, <2>2, SendKept
<1>8. op.calls = 0 \/ op.cancel # "no" => Keeps(op, StartPublic(op, have))
  BY <1>2, <1>3, <1>5, <1>7 DEF StartPublic
<1>9. CASE op.kind = "public"
  BY <1>2, <1>6, <1>8, <1>9 DEF Start
<1>10. CASE op.kind = "private"
  BY <1>2, <1>4, <1>8, <1>10 DEF Start, StartPrivate
<1>11. CASE op.kind = "referral"
  BY <1>2, <1>3, <1>4, <1>5, <1>11 DEF Start, StartReferral
<1>12. CASE op.kind = "auth"
  BY <1>2, <1>3, <1>5, <1>6, <1>12 DEF Start, StartAuth
<1> QED
  BY <1>2, <1>9, <1>10, <1>11, <1>12

\* A GET that is tried again was sent once more than it was retried.
LEMMA RetriedKept ==
  ASSUME now \in Nat, NEW op \in OpType, NEW delay \in Nat, NEW reserve \in FReserve,
         op.kind \in Gets, op.calls <= 1, op.early = "no", op.floor <= now + delay,
         op.calls = 1 => op.cancel = "seen",
         SentAtMost(op), op.sends <= op.attempt + 1
  PROVE  Keeps(op, Retried(op, delay, reserve))
<1>0. op.kind \notin {"none", "referral", "auth"}
  BY DEF Gets
<1>1. CASE op.attempt >= MaxGetRetries
  BY <1>0, <1>1, OverKept DEF Retried
<1>2. CASE ~(op.attempt >= MaxGetRetries)
  <2> DEFINE attempt == op.attempt + 1
             again == [op EXCEPT !.attempt = attempt]
  <2>1. Retried(op, delay, reserve) = Schedule(again, delay, reserve)
    BY <1>2 DEF Retried
  <2>2. attempt \in Nat /\ attempt <= MaxGetRetries
    BY <1>2, KindFacts, RestAssumption
  <2> HIDE DEF attempt
  <2>3. again \in OpType
    BY <2>2, OpTypeIs
  <2>4. /\ again.kind = op.kind /\ again.cancel = op.cancel /\ again.floor = op.floor
        /\ again.calls = op.calls /\ again.sends = op.sends /\ again.early = op.early
        /\ again.attempt = attempt
    BY <2>2, OpTypeIs
  <2> HIDE DEF again
  <2>5. Pending(again)
    BY <1>0, <2>2, <2>3, <2>4 DEF Pending, AboutToSend, attempt
  <2>6. Keeps(again, Schedule(again, delay, reserve))
    BY <2>4, <2>5, ScheduleKept
  <2> QED
    BY <2>1, <2>4, <2>6 DEF Keeps
<1> QED
  BY <1>1, <1>2

\* handle of a GET.
LEMMA HandleGetKept ==
  ASSUME now \in Nat, NEW op, OpInv(op), op.next = "answer", op.kind \in Gets,
         NEW answer \in Answers, NEW delay \in Nat
  PROVE  /\ Keeps(op, HandlePublic(op, answer, delay))
         /\ Keeps(op, HandlePrivate(op, answer, delay))
<1> DEFINE until == now + delay
           told == [op EXCEPT !.floor = until]
<1>1. /\ op \in OpType /\ op.kind \notin {"none", "referral", "auth"} /\ op.calls <= 1
      /\ op.early = "no" /\ SentAtMost(op) /\ op.floor = 0
      /\ op.calls = 1 => op.cancel = "seen"
      /\ op.sends <= op.attempt + 1
  BY DEF OpInv, CallInv, SendInv, Gets
<1>2. until \in Nat /\ {"free", "yes"} \subseteq FReserve
  BY FieldValues
<1>3. Keeps(op, Over(op, "ok")) /\ Keeps(op, Over(op, "failed"))
  BY <1>1, OverKept
<1>4. Keeps(op, Retried(op, delay, "yes"))
  BY <1>1, <1>2, RetriedKept
<1>5. told \in OpType
  <2> HIDE DEF until
  <2> QED
    BY <1>1, <1>2, OpTypeIs
<1>6. /\ told.kind = op.kind /\ told.cancel = op.cancel /\ told.floor = until
      /\ told.calls = op.calls /\ told.sends = op.sends /\ told.early = op.early
      /\ told.attempt = op.attempt
  <2> HIDE DEF until
  <2> QED
    BY <1>1, <1>2, OpTypeIs
<1>7. Keeps(told, Retried(told, delay, "free"))
  <2> HIDE DEF told
  <2>1. SentAtMost(told)
    BY <1>1, <1>6 DEF SentAtMost
  <2> QED
    BY <1>1, <1>2, <1>5, <1>6, <2>1, RetriedKept
<1>8. Keeps(op, Retried(told, delay, "free"))
  <2> HIDE DEF told
  <2> QED
    BY <1>6, <1>7 DEF Keeps
<1>9. Keeps(op, HandlePublic(op, answer, delay))
  BY <1>3, <1>4, <1>8 DEF HandlePublic
<1>10. Keeps(op, HandlePrivate(op, answer, delay))
  <2>1. CASE answer = "limited"
    BY <1>8, <2>1 DEF HandlePrivate
  <2>2. CASE answer = "server_error"
    BY <1>4, <2>2 DEF HandlePrivate
  <2>3. CASE answer \notin {"limited", "server_error"}
    BY <1>3, <2>3 DEF HandlePrivate
  <2> QED
    BY <2>1, <2>2, <2>3
<1> QED
  BY <1>9, <1>10

\* handle of a referral assignment: the caller of a cancelled one was told
\* before, and was not told that it failed.
LEMMA HandleReferralKept ==
  ASSUME NEW op, OpInv(op), op.next = "answer", op.kind = "referral",
         NEW answer \in Answers
  PROVE  Keeps(op, HandleReferral([op EXCEPT !.answer = answer], answer))
<1> DEFINE new == [op EXCEPT !.answer = answer]
           result == CASE answer = "ok" -> "ok"
                       [] answer \in OpenAnswers -> "ambiguous"
                       [] OTHER -> "failed"
<1>1. op \in OpType /\ op.calls <= 1 /\ op.early = "no" /\ SentAtMost(op)
  BY DEF OpInv, CallInv, SendInv
<1>2. op.result # "ok" /\ (op.result = "failed" => ~(op.sends > 0))
  BY DEF OpInv, ReferralInv, Honest
<1>3. answer \in FAnswer
  BY DEF FAnswer
<1>4. new \in OpType
  BY <1>1, <1>3, OpTypeIs
<1>5. /\ new.kind = op.kind /\ new.target = op.target /\ new.calls = op.calls
      /\ new.sends = op.sends /\ new.early = op.early /\ new.answer = answer
      /\ new.result = op.result
  BY <1>1, <1>3, OpTypeIs
<1>6. HandleReferral(new, answer) = Over(new, result)
  BY DEF HandleReferral
<1> HIDE DEF new
<1>7. result \in {"ok", "failed", "ambiguous"}
  OBVIOUS
<1>8. Honest(new, result)
  BY <1>5, <1>7 DEF Honest, Answers, OpenAnswers
<1>9. Honest(new, new.result)
  BY <1>2, <1>5 DEF Honest
<1>10. SentAtMost(new)
  BY <1>1, <1>5 DEF SentAtMost
<1> HIDE DEF result
<1>11. Honest(new, IF new.calls = 1 THEN new.result ELSE result)
  BY <1>8, <1>9
<1>12. Keeps(new, Over(new, result))
  BY <1>1, <1>4, <1>5, <1>7, <1>10, <1>11, OverKept
<1>13. Keeps(op, HandleReferral(new, answer))
  BY <1>5, <1>6, <1>12 DEF Keeps
<1> QED
  BY <1>13 DEF new

\* handle of an authentication's requests.
LEMMA HandleAuthKept ==
  ASSUME NEW op, OpInv(op), op.next = "answer", op.kind = "auth",
         NEW answer \in Answers
  PROVE  Keeps(op, HandleAuth(op, answer))
<1>1. op \in OpType /\ op.calls <= 1 /\ op.early = "no" /\ SentAtMost(op) /\ op.floor = 0
  BY DEF OpInv, CallInv, SendInv
<1>2. op.calls = 0
  BY <1>1, KindFacts DEF OpInv, CallInv
<1>3. Keeps(op, Over(op, "ok")) /\ Keeps(op, Over(op, "failed"))
  BY <1>1, OverKept
<1>4. op.target # "auth" => Keeps(op, [op EXCEPT !.next = "signature"])
  <2> SUFFICES ASSUME op.target # "auth"
               PROVE  Keeps(op, [op EXCEPT !.next = "signature"])
    OBVIOUS
  <2> DEFINE new == [op EXCEPT !.next = "signature"]
  <2>1. new \in OpType
    BY <1>1, FieldValues, OpTypeIs
  <2>2. /\ new.kind = op.kind /\ new.next = "signature" /\ new.target = op.target
        /\ new.floor = op.floor /\ new.calls = op.calls /\ new.sends = op.sends
        /\ new.early = op.early
    BY <1>1, OpTypeIs
  <2> HIDE DEF new
  <2>3. op.target = "auth_message"
    BY <1>1, OpTypeIs, FieldValues
  <2>4. SendInv(new) /\ CallInv(new) /\ ReferralInv(new)
    BY <1>1, <1>2, <2>2, <2>3 DEF SendInv, SentAtMost, CallInv, ReferralInv, Gets
  <2> QED
    BY <2>1, <2>2, <2>4 DEF Keeps, OpInv, new
<1> QED
  BY <1>3, <1>4 DEF HandleAuth

\* The signer's answer: a second request follows, the call ends, or, when the
\* signer throws, nothing follows.
LEMMA SignatureKept ==
  ASSUME NEW op, OpInv(op), op.next = "signature"
  PROVE  /\ Keeps(op, [op EXCEPT !.next = "lost"])
         /\ Keeps(op, Over(op, "failed"))
         /\ Keeps(op, [op EXCEPT !.next = "start", !.target = "auth", !.reserve = "yes"])
<1> DEFINE lost == [op EXCEPT !.next = "lost"]
           more == [op EXCEPT !.next = "start", !.target = "auth", !.reserve = "yes"]
<1>1. /\ op \in OpType /\ op.calls <= 1 /\ op.early = "no" /\ SentAtMost(op)
      /\ op.kind = "auth" /\ op.target = "auth_message"
  BY DEF OpInv, CallInv, SendInv
<1>2. op.calls = 0
  BY <1>1, KindFacts DEF OpInv, CallInv
<1>3. Keeps(op, Over(op, "failed"))
  BY <1>1, OverKept
<1>4. lost \in OpType /\ more \in OpType
  <2>1. lost \in OpType
    BY <1>1, FieldValues, OpTypeIs
  <2>2. more \in OpType
    BY <1>1, FieldValues, OpTypeIs
  <2> QED
    BY <2>1, <2>2
<1>5. /\ lost.kind = op.kind /\ lost.next = "lost" /\ lost.target = op.target
      /\ lost.calls = op.calls /\ lost.sends = op.sends /\ lost.early = op.early
  BY <1>1, OpTypeIs
<1>6. /\ more.kind = op.kind /\ more.next = "start" /\ more.target = "auth"
      /\ more.calls = op.calls /\ more.sends = op.sends /\ more.early = op.early
      /\ more.reserve = "yes"
  BY <1>1, OpTypeIs
<1> HIDE DEF lost, more
<1>7. SendInv(lost) /\ CallInv(lost) /\ ReferralInv(lost)
  BY <1>1, <1>2, <1>5 DEF SendInv, SentAtMost, CallInv, ReferralInv, Gets
<1>8. SendInv(more) /\ CallInv(more) /\ ReferralInv(more)
  BY <1>1, <1>2, <1>4, <1>6, KindFacts
     DEF SendInv, SentAtMost, AboutToSend, CallInv, ReferralInv, Gets
<1>9. Keeps(op, lost) /\ Keeps(op, more)
  BY <1>4, <1>5, <1>6, <1>7, <1>8 DEF Keeps, OpInv
<1> QED
  BY <1>3, <1>9 DEF lost, more

\* The stop token is set on a call whose caller still waits.
LEMMA CancelKept ==
  ASSUME NEW op, OpInv(op), op.next \notin {"idle", "over", "lost"}, op.cancel = "no"
  PROVE  Keeps(op, [op EXCEPT !.cancel = "set"])
<1> DEFINE new == [op EXCEPT !.cancel = "set"]
<1>1. op \in OpType /\ op.calls = 0
  BY KindFacts DEF OpInv, CallInv
<1>2. new \in OpType
  BY <1>1, FieldValues, OpTypeIs
<1>3. /\ new.kind = op.kind /\ new.next = op.next /\ new.target = op.target
      /\ new.due = op.due /\ new.reserve = op.reserve /\ new.attempt = op.attempt
      /\ new.floor = op.floor /\ new.calls = op.calls /\ new.answer = op.answer
      /\ new.sends = op.sends /\ new.early = op.early /\ new.result = op.result
  BY <1>1, OpTypeIs
<1> HIDE DEF new
<1>4. SendInv(new)
  BY <1>3 DEF SendInv, SentAtMost, AboutToSend, OpInv
<1>5. CallInv(new)
  BY <1>1, <1>3 DEF CallInv, OpInv
<1>6. ReferralInv(new)
  BY <1>3 DEF ReferralInv, Honest, OpInv
<1> QED
  BY <1>2, <1>3, <1>4, <1>5, <1>6 DEF Keeps, OpInv, new

\* The callback the stop token posted: the caller is answered, and told that a
\* referral that was sent is open.
LEMMA OnCancelKept ==
  ASSUME NEW op, OpInv(op), op.cancel = "set", op.kind # "auth"
  PROVE  LET new == Cancelled([op EXCEPT !.cancel = "seen"])
         IN  Keeps(op, IF new.next = "timer" THEN Done(new) ELSE new)
<1> DEFINE seen == [op EXCEPT !.cancel = "seen"]
           result == IF seen.kind = "referral" /\ seen.sends > 0
                     THEN "ambiguous" ELSE "failed"
           new == Finish(seen, result)
<1>1. op \in OpType
  BY DEF OpInv
<1>2. op.next # "idle" /\ op.calls = 0
  <2>1. NoOp.cancel = "no"
    BY DEF NoOp
  <2> QED
    BY <1>1, <2>1, KindFacts DEF OpInv, CallInv
<1>3. seen \in OpType
  BY <1>1, FieldValues, OpTypeIs
<1>4. /\ seen.kind = op.kind /\ seen.next = op.next /\ seen.target = op.target
      /\ seen.due = op.due /\ seen.reserve = op.reserve /\ seen.attempt = op.attempt
      /\ seen.floor = op.floor /\ seen.calls = 0 /\ seen.answer = op.answer
      /\ seen.sends = op.sends /\ seen.early = op.early /\ seen.cancel = "seen"
  BY <1>1, <1>2, OpTypeIs
<1>5. Cancelled(seen) = new
  BY DEF Cancelled
<1> HIDE DEF seen
<1>6. result \in {"ok", "failed", "ambiguous"}
  OBVIOUS
<1>7. /\ op.kind # "none" /\ op.early = "no" /\ SentAtMost(op)
      /\ op.kind = "referral" => Honest(seen, result)
  BY <1>2, <1>4 DEF OpInv, CallInv, SendInv, Honest
<1> HIDE DEF result
<1>8. CASE op.next = "timer"
  <2>1. SentAtMost(seen)
    BY <1>4, <1>7 DEF SentAtMost
  <2>2. Keeps(seen, Over(seen, result))
    BY <1>3, <1>4, <1>6, <1>7, <2>1, OverKept
  <2>3. new.next = "timer" /\ Over(seen, result) = Done(new)
    BY <1>3, <1>4, <1>6, <1>8, FinishFacts DEF Over
  <2> QED
    BY <1>4, <1>5, <2>2, <2>3 DEF Keeps, seen
<1>9. CASE op.next # "timer"
  <2>1. /\ new \in OpType
        /\ new.kind = op.kind /\ new.next = op.next /\ new.target = op.target
        /\ new.due = op.due /\ new.reserve = op.reserve /\ new.attempt = op.attempt
        /\ new.cancel = "seen" /\ new.floor = op.floor /\ new.calls = 1
        /\ new.answer = op.answer /\ new.sends = op.sends /\ new.early = op.early
        /\ new.result = Told(seen, result)
    BY <1>3, <1>4, <1>6, FinishFacts
  <2> HIDE DEF new
  <2>2. SendInv(new)
    BY <2>1 DEF SendInv, SentAtMost, AboutToSend, OpInv
  <2>3. CallInv(new)
    BY <1>2, <2>1 DEF CallInv, OpInv
  <2>4. ReferralInv(new)
    BY <1>4, <1>7, <2>1 DEF ReferralInv, Honest, OpInv, Told
  <2> QED
    BY <1>5, <1>9, <2>1, <2>2, <2>3, <2>4 DEF Keeps, OpInv, seen
<1> QED
  BY <1>8, <1>9

-----------------------------------------------------------------------------
(* The steps. *)

Quiet ==
  \A o \in Ops :
    /\ ops'[o].calls <= 1
    /\ ops[o].calls = 1 => ops'[o].sends = ops[o].sends

\* A handler of one operation leaves the others alone.
LEMMA OneOp ==
  ASSUME RestInv, NEW o \in Ops, NEW new, Keeps(ops[o], new),
         ops' = [ops EXCEPT ![o] = new]
  PROVE  /\ ops' \in [Ops -> OpType]
         /\ \A p \in Ops : OpInv(ops'[p])
         /\ Quiet
<1>1. \A p \in Ops : ops'[p] = IF p = o THEN new ELSE ops[p]
  BY DEF RestInv
<1>2. new \in OpType /\ OpInv(new) /\ new.calls <= 1
  BY DEF Keeps, OpInv, CallInv
<1>3. \A p \in Ops : ops[p].calls <= 1
  BY DEF RestInv, OpInv, CallInv
<1> QED
  BY <1>1, <1>2, <1>3 DEF RestInv, Keeps, Quiet

\* The first state.
LEMMA InitKept == Init => RestInv
<1> SUFFICES ASSUME Init PROVE RestInv
  OBVIOUS
<1>1. NewBucket(GlobalRate, 0) \in Bucket /\ NewBucket(EndpointRate, 0) \in Bucket
  BY LimiterAssumption, NewBucketKept
<1>2. limiter \in Limiters
  BY <1>1 DEF Init, NewLimiter, Limiters
<1>3. BudgetIsKept
  BY LimiterAssumption, NewBucketKept DEF Init, NewLimiter, BudgetIsKept
<1>4. NoOp \in OpType
  BY FieldValues, OpTypeIs DEF NoOp, FKind, FAnswer
<1>5. /\ NoOp.kind = "none" /\ NoOp.next = "idle" /\ NoOp.calls = 0
      /\ NoOp.early = "no"
  BY DEF NoOp
<1>6. SendInv(NoOp) /\ CallInv(NoOp) /\ ReferralInv(NoOp)
  BY <1>5 DEF SendInv, SentAtMost, CallInv, ReferralInv, Gets
<1> QED
  BY <1>2, <1>3, <1>4, <1>6 DEF Init, RestInv, LimiterInv, OpInv

\* A call is posted.
LEMMA CallKept ==
  ASSUME NEW kind \in Kinds, NEW deadline \in Deadlines
  PROVE  Keeps(NoOp, [NoOp EXCEPT !.kind = kind, !.next = "start",
                                  !.deadline = deadline])
<1> DEFINE new == [NoOp EXCEPT !.kind = kind, !.next = "start", !.deadline = deadline]
<1>0. kind \in FKind /\ kind # "none" /\ deadline \in FDeadline /\ "none" \in FAnswer
  BY RestAssumption DEF FKind, FDeadline, FAnswer
<1>1. new \in OpType
  BY <1>0, FieldValues, OpTypeIs DEF NoOp
<1>2. /\ new.kind = kind /\ new.next = "start" /\ new.calls = 0 /\ new.early = "no"
      /\ new.reserve = "yes" /\ new.attempt = 0 /\ new.sends = 0
      /\ new.answer = "none" /\ new.result = "none"
  BY DEF NoOp
<1>3. NoOp.calls = 0
  BY DEF NoOp
<1> HIDE DEF new
<1>4. SendInv(new) /\ CallInv(new) /\ ReferralInv(new)
  BY <1>0, <1>2, RestAssumption
     DEF SendInv, SentAtMost, AboutToSend, CallInv, ReferralInv, Honest, Gets
<1> QED
  BY <1>1, <1>3, <1>4 DEF Keeps, OpInv, new

\* A call is refused.
LEMMA RefusedKept ==
  ASSUME NEW kind \in Kinds
  PROVE  Keeps(NoOp, Over([NoOp EXCEPT !.kind = kind], "failed"))
<1> DEFINE bad == [NoOp EXCEPT !.kind = kind]
<1>0. kind \in FKind /\ kind # "none" /\ "none" \in FAnswer
  BY RestAssumption DEF FKind, FAnswer
<1>1. bad \in OpType
  BY <1>0, FieldValues, OpTypeIs DEF NoOp
<1>2. bad.kind = kind /\ bad.calls = 0 /\ bad.early = "no" /\ bad.sends = 0
  BY DEF NoOp
<1>3. NoOp.calls = 0
  BY DEF NoOp
<1> HIDE DEF bad
<1>4. SentAtMost(bad) /\ Honest(bad, "failed")
  BY <1>2, RestAssumption DEF SentAtMost, Honest
<1>5. Keeps(bad, Over(bad, "failed"))
  BY <1>0, <1>1, <1>2, <1>4, OverKept
<1> QED
  BY <1>3, <1>5 DEF Keeps, bad

\* start and the timer of a GET, with the charge for the request.
LEMMA RunStartKept ==
  ASSUME RestInv, NEW o \in Ops, NEW have, RunStart(o, have),
         \/ ops[o].next = "start"
         \/ ops[o].next = "timer" /\ ops[o].due <= now /\ ops[o].kind \in Gets
  PROVE  RestInv' /\ Quiet
<1>1. Keeps(ops[o], Start(ops[o], have))
  BY StartKept DEF RestInv
<1>2. /\ ops' \in [Ops -> OpType] /\ \A p \in Ops : OpInv(ops'[p])
      /\ Quiet
  BY <1>1, OneOp DEF RunStart
<1>3. Endpoint(ops[o]) \in Endpoints
  BY EndpointFacts DEF RestInv
<1>4. limiter' \in Limiters
  BY <1>3, ReservedKept DEF RestInv, RunStart, LimiterInv
<1>5. BudgetIsKept'
  <2>1. CASE Reserves(ops[o])
    BY <1>3, <2>1, ReservedKept DEF RestInv, RunStart, BudgetIsKept
  <2>2. CASE ~Reserves(ops[o])
    BY <2>2 DEF RestInv, RunStart, LimiterInv, BudgetIsKept
  <2> QED
    BY <2>1, <2>2
<1> QED
  BY <1>2, <1>4, <1>5 DEF RestInv, RunStart, LimiterInv

\* A step that only changes one operation.
LEMMA OpStep ==
  ASSUME RestInv, NEW o \in Ops, NEW new, Keeps(ops[o], new),
         ops' = [ops EXCEPT ![o] = new], UNCHANGED <<limiter, now>>
  PROVE  RestInv' /\ Quiet
<1>1. /\ ops' \in [Ops -> OpType] /\ \A p \in Ops : OpInv(ops'[p])
      /\ Quiet
  BY OneOp
<1> QED
  BY <1>1 DEF RestInv, LimiterInv, BudgetIsKept

\* The transport's answer, with the cooldown of a 429.
LEMMA OnAnswerKept ==
  ASSUME RestInv, NEW o \in Ops, NEW answer \in Answers,
         NEW header \in HeadersOf(answer), OnAnswer(o, answer, header)
  PROVE  RestInv' /\ Quiet
<1> DEFINE old == ops[o]
           op == [old EXCEPT !.answer = IF old.kind = "referral" THEN answer ELSE @]
           delay == RetryAfter(header, op.attempt)
           new == CASE op.kind = "public" -> HandlePublic(op, answer, delay)
                    [] op.kind = "private" -> HandlePrivate(op, answer, delay)
                    [] op.kind = "referral" -> HandleReferral(op, answer)
                    [] OTHER -> HandleAuth(op, answer)
<1>1. OpInv(old) /\ old \in OpType /\ old.attempt \in Nat
  BY KindFacts DEF RestInv
<1>2. /\ op.next = "answer" /\ ops' = [ops EXCEPT ![o] = new] /\ UNCHANGED now
      /\ limiter' = IF answer = "limited"
                    THEN Penalized(limiter, Endpoint(op), now, delay) ELSE limiter
  BY DEF OnAnswer
<1>3. old.kind # "referral" => op = old
  BY <1>1, OpTypeIs
<1>4. old.kind = "referral" => op = [old EXCEPT !.answer = answer]
  BY <1>1, OpTypeIs
<1>5. /\ op.next = old.next /\ op.kind = old.kind /\ op.attempt = old.attempt
      /\ op.target = old.target
  BY <1>1, OpTypeIs
<1> HIDE DEF old, op
<1>6. delay \in Nat
  <2>1. header \in [kind : {"seconds", "date", "none"}, value : Int]
    BY RestAssumption DEF HeadersOf
  <2> QED
    BY <1>1, <1>5, <2>1, RetryAfterFacts
<1> HIDE DEF delay
<1>7. Keeps(old, new)
  <2>1. old.kind \in {"public", "private", "referral", "auth"}
    BY <1>1, <1>2, <1>5, KindFacts DEF OpInv, CallInv
  <2>2. CASE old.kind \in Gets
    <3>1. /\ Keeps(old, HandlePublic(old, answer, delay))
          /\ Keeps(old, HandlePrivate(old, answer, delay))
      BY <1>1, <1>2, <1>5, <1>6, <2>2, HandleGetKept DEF RestInv
    <3> QED
      BY <1>3, <1>5, <2>2, <3>1 DEF Gets
  <2>3. CASE old.kind = "referral"
    BY <1>1, <1>2, <1>4, <1>5, <2>3, HandleReferralKept
  <2>4. CASE old.kind = "auth"
    BY <1>1, <1>2, <1>3, <1>5, <2>4, HandleAuthKept
  <2> QED
    BY <2>1, <2>2, <2>3, <2>4 DEF Gets
<1> HIDE DEF new
<1>8. /\ ops' \in [Ops -> OpType] /\ \A p \in Ops : OpInv(ops'[p])
      /\ Quiet
  BY <1>2, <1>7, OneOp DEF old
<1>9. Endpoint(op) \in Endpoints
  BY <1>1, <1>5, EndpointFacts DEF Endpoint
<1>10. limiter' \in Limiters
  BY <1>2, <1>6, <1>9, PenalizedKept DEF RestInv, LimiterInv
<1>11. BudgetIsKept'
  <2>1. CASE answer = "limited"
    BY <1>2, <1>6, <1>9, <2>1, PenalizedKept DEF RestInv, BudgetIsKept
  <2>2. CASE answer # "limited"
    BY <1>2, <2>2 DEF RestInv, LimiterInv, BudgetIsKept
  <2> QED
    BY <2>1, <2>2
<1> QED
  BY <1>2, <1>8, <1>10, <1>11 DEF RestInv, LimiterInv

\* Every step keeps the invariant, and an answered call quiet.
LEMMA NextKept == RestInv /\ [Next]_vars => RestInv' /\ Quiet
<1> SUFFICES ASSUME RestInv, [Next]_vars
             PROVE  RestInv' /\ Quiet
  OBVIOUS
<1>0. \A o \in Ops : OpInv(ops[o]) /\ ops[o].calls <= 1
  BY DEF RestInv, OpInv, CallInv
<1>1. ASSUME NEW o \in Ops, NEW kind \in Kinds, NEW deadline \in Deadlines,
             Call(o, kind, deadline)
      PROVE  RestInv' /\ Quiet
  <2>1. ops[o] = NoOp
    BY <1>0, <1>1 DEF Call, OpInv, CallInv
  <2> QED
    BY <1>1, <2>1, CallKept, OpStep DEF Call
<1>2. ASSUME NEW o \in Ops, NEW kind \in Kinds, RefuseCall(o, kind)
      PROVE  RestInv' /\ Quiet
  <2>1. ops[o] = NoOp
    BY <1>0, <1>2 DEF RefuseCall, OpInv, CallInv
  <2>2. Keeps(NoOp, Over([NoOp EXCEPT !.kind = kind], "failed"))
    BY RefusedKept
  <2> QED
    BY <1>2, <2>1, <2>2, OpStep DEF RefuseCall
<1>3. ASSUME NEW o \in Ops, NEW have \in SUBSET {"key", "jwt"}, OnStart(o, have)
      PROVE  RestInv' /\ Quiet
  BY <1>3, RunStartKept DEF OnStart
<1>4. ASSUME NEW o \in Ops, NEW have \in SUBSET {"key", "jwt"}, OnTimer(o, have)
      PROVE  RestInv' /\ Quiet
  <2>1. CASE ops[o].kind \in Gets
    BY <1>4, <2>1, RunStartKept DEF OnTimer
  <2>2. CASE ops[o].kind \notin Gets
    <3>1. Pending(ops[o])
      BY <1>0, <1>4 DEF OnTimer, OpInv, Pending, CallInv, SendInv, ReferralInv, Honest
    <3>2. ops[o].floor <= ops[o].due /\ ops[o].due <= now
      BY <1>0, <1>4 DEF OnTimer, OpInv, CallInv
    <3>3. ops[o].floor <= now /\ ops[o].calls \in {0, 1}
      BY <3>1, <3>2, KindFacts DEF Pending, RestInv
    <3>4. ops[o].calls = 0 \/ ops[o].kind = "referral"
      BY <2>2, <3>1, <3>3, KindFacts DEF Pending, Gets
    <3>5. Keeps(ops[o], Send(ops[o], have))
      BY <3>1, <3>3, <3>4, SendKept DEF RestInv
    <3> QED
      BY <1>4, <2>2, <3>5, OpStep DEF OnTimer
  <2> QED
    BY <2>1, <2>2
<1>5. ASSUME NEW o \in Ops, NEW answer \in Answers, NEW header \in HeadersOf(answer),
             OnAnswer(o, answer, header)
      PROVE  RestInv' /\ Quiet
  BY <1>5, OnAnswerKept
<1>6. ASSUME NEW o \in Ops, NEW answer \in {"signature", "refused", "throws"},
             OnSignature(o, answer)
      PROVE  RestInv' /\ Quiet
  <2> DEFINE op == ops[o]
             new == CASE answer = "throws" -> [op EXCEPT !.next = "lost"]
                      [] answer = "refused" \/ op.cancel # "no" -> Over(op, "failed")
                      [] OTHER -> [op EXCEPT !.next = "start", !.target = "auth",
                                             !.reserve = "yes"]
  <2>1. /\ Keeps(op, [op EXCEPT !.next = "lost"])
        /\ Keeps(op, Over(op, "failed"))
        /\ Keeps(op, [op EXCEPT !.next = "start", !.target = "auth", !.reserve = "yes"])
    BY <1>0, <1>6, SignatureKept DEF OnSignature
  <2>2. ops' = [ops EXCEPT ![o] = new] /\ UNCHANGED <<limiter, now>>
    BY <1>6 DEF OnSignature
  <2>3. Keeps(op, new)
    <3>1. CASE answer = "throws"
      BY <2>1, <3>1
    <3>2. CASE answer # "throws" /\ (answer = "refused" \/ op.cancel # "no")
      BY <2>1, <3>2
    <3>3. CASE answer # "throws" /\ ~(answer = "refused" \/ op.cancel # "no")
      BY <2>1, <3>3
    <3> QED
      BY <3>1, <3>2, <3>3
  <2> HIDE DEF new
  <2> QED
    BY <2>2, <2>3, OpStep
<1>7. ASSUME NEW o \in Ops, Cancel(o)
      PROVE  RestInv' /\ Quiet
  <2>1. ops' = [ops EXCEPT ![o] = [ops[o] EXCEPT !.cancel = "set"]]
    BY <1>7 DEF Cancel
  <2> QED
    BY <1>0, <1>7, <2>1, CancelKept, OpStep DEF Cancel
<1>8. ASSUME NEW o \in Ops, OnCancel(o)
      PROVE  RestInv' /\ Quiet
  <2> DEFINE op == Cancelled([ops[o] EXCEPT !.cancel = "seen"])
             new == IF op.next = "timer" THEN Done(op) ELSE op
  <2>1. Keeps(ops[o], new)
    BY <1>0, <1>8, OnCancelKept DEF OnCancel
  <2>2. ops' = [ops EXCEPT ![o] = new] /\ UNCHANGED <<limiter, now>>
    BY <1>8 DEF OnCancel
  <2> HIDE DEF new
  <2> QED
    BY <2>1, <2>2, OpStep
<1>9. ASSUME NEW o \in Ops, OnCancelAuth(o)
      PROVE  RestInv' /\ Quiet
  <2>1. Pending(ops[o])
    BY <1>0, <1>9 DEF OnCancelAuth, OpInv, Pending, CallInv, SendInv
  <2>2. Keeps(ops[o], Over(ops[o], "failed"))
    BY <2>1, PendingEnds
  <2> QED
    BY <1>9, <2>2, OpStep DEF OnCancelAuth
<1>10. CASE Tick
  BY <1>0, <1>10 DEF Tick, RestInv, LimiterInv, BudgetIsKept, Quiet
<1>11. CASE UNCHANGED vars
  BY <1>0, <1>11 DEF vars, RestInv, LimiterInv, BudgetIsKept, Quiet
<1> QED
  BY <1>1, <1>2, <1>3, <1>4, <1>5, <1>6, <1>7, <1>8, <1>9, <1>10, <1>11 DEF Next

\* The invariant holds always, for every value of the constants.
THEOREM RestSafe == Spec => []RestInv
<1>1. RestInv /\ [Next]_vars => RestInv'
  BY NextKept
<1> QED
  BY InitKept, <1>1, PTL DEF Spec

\* The type invariant: in particular the buckets and the cooldowns stay
\* natural numbers whatever the answers ask for (rate_limiter.cpp:30-95).
THEOREM TypeSafe == Spec => []TypeOK
<1>1. RestInv => TypeOK
  BY DEF RestInv, LimiterInv, TypeOK
<1> QED
  BY <1>1, RestSafe, PTL

\* No bucket is charged beyond its rate, however the requests interleave, wait
\* and are penalised (rate_limiter.cpp:30-76).
THEOREM KeepsBudget == Spec => []BudgetIsKept
<1>1. RestInv => BudgetIsKept
  BY DEF RestInv, LimiterInv
<1> QED
  BY <1>1, RestSafe, PTL

\* No call sends more requests than its retries allow (public_rest.cpp:375-383,
\* private_rest.cpp:244, auth.cpp:228-290).
THEOREM BoundsSends == Spec => []SendsAreBounded
<1>1. RestInv => SendsAreBounded
  <2> SUFFICES ASSUME RestInv, NEW o \in Ops
               PROVE  ops[o].sends <= CASE ops[o].kind \in Gets -> MaxGetRetries + 1
                                        [] ops[o].kind = "auth" -> 2
                                        [] OTHER -> 1
    BY DEF SendsAreBounded
  <2>1. OpInv(ops[o]) /\ ops[o] \in OpType
    BY DEF RestInv
  <2>2. CASE ops[o].kind = "none"
    BY <2>1, <2>2 DEF OpInv, CallInv, NoOp, Gets
  <2>3. CASE ops[o].kind # "none"
    BY <2>1, <2>3, KindFacts DEF OpInv, SendInv, SentAtMost, Gets
  <2> QED
    BY <2>2, <2>3
<1> QED
  BY <1>1, RestSafe, PTL

\* Every call for which nothing is queued was answered, whatever fails and
\* whenever it is cancelled (public_rest.cpp:356-408, private_rest.cpp:379-436,
\* auth.cpp:57-172).
THEOREM ForgetsNoCall == Spec => []NoCallIsForgotten
<1>1. RestInv => NoCallIsForgotten
  BY DEF RestInv, OpInv, CallInv, NoCallIsForgotten
<1> QED
  BY <1>1, RestSafe, PTL

\* No request leaves during a cooldown its operation was told of
\* (rate_limiter.cpp:56-95).
THEOREM ObservesCooldown == Spec => []CooldownIsObserved
<1>1. RestInv => CooldownIsObserved
  BY DEF RestInv, OpInv, CallInv, CooldownIsObserved
<1> QED
  BY <1>1, RestSafe, PTL

\* A referral reported as failed after it was sent was refused by the venue
\* (private_rest.cpp:379-430).
THEOREM ReportsHonestly == Spec => []ReferralIsHonest
<1>1. RestInv => ReferralIsHonest
  BY DEF RestInv, OpInv, ReferralInv, Honest, ReferralIsHonest
<1> QED
  BY <1>1, RestSafe, PTL

\* Who was answered is answered once, and nothing more is sent for them
\* (public_rest.cpp:305-321, private_rest.cpp:173-187, 339-340).
THEOREM StaysQuiet == Spec => QuietWhenAnswered
<1>1. RestInv /\ [Next]_vars =>
        [\A o \in Ops : /\ ops'[o].calls <= 1
                        /\ ops[o].calls = 1 => ops'[o].sends = ops[o].sends]_vars
  BY NextKept DEF Quiet
<1> QED
  BY <1>1, RestSafe, PTL DEF Spec, QuietWhenAnswered
=============================================================================
