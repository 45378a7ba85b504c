----------------------------- MODULE RestClient -----------------------------
(***************************************************************************)
(* The REST clients and the auth client, sharing one rate limiter:         *)
(*   "public"    PublicRestClient's GET   (src/src/public_rest.cpp)        *)
(*   "private"   PrivateRestClient's GET  (src/src/private_rest.cpp)       *)
(*   "referral"  PrivateRestClient's POST (src/src/private_rest.cpp)       *)
(*   "auth"      AuthClient's challenge, signature and token exchange      *)
(*               (src/src/auth.cpp)                                        *)
(* Each call is one operation.  Its handlers run one at a time on the      *)
(* executor.  The stop token may be set at any moment by another thread;   *)
(* the callback it then posts is a handler of its own.                     *)
(***************************************************************************)
EXTENDS RateLimiter

CONSTANTS
  NumOps,          \* how many calls are made
  Kinds,           \* which of the four operations they may be
  Deadlines,       \* deadlines a caller gives; 0 is none
  RetryHeaders,    \* what the Retry-After header of an answer may say
  MaxGetRetries,   \* options.max_get_retries
  MaxTime,         \* bound: the clock stops here unless a timer is pending
  MaxCallTime      \* bound: calls are made up to this time

ASSUME RestAssumption ==
  /\ NumOps \in Nat /\ MaxGetRetries \in Nat
  /\ Kinds \subseteq {"public", "private", "referral", "auth"}
  /\ Deadlines \subseteq Nat
  /\ RetryHeaders \subseteq [kind : {"seconds", "date", "none"}, value : Int]
  /\ {"book", "account_referral", "auth_message", "auth"} \subseteq Endpoints

VARIABLES
  limiter,   \* the shared RateLimiter
  now,       \* the steady clock
  ops        \* op -> the state of its operation

vars == <<limiter, now, ops>>

Ops == 1..NumOps

Gets == {"public", "private"}

\* The budget an operation draws on; auth names it after the target.
Endpoint(op) ==
  CASE op.kind \in Gets -> "book"
    [] op.kind = "referral" -> "account_referral"
    [] OTHER -> op.target

\* What the clients tell apart in an answer of the transport.
Answers == {"ok", "undecodable", "redirect", "denied", "limited",
            "server_error", "client_error", "transport_error"}

\* The answers that leave open whether the venue acted.
OpenAnswers == {"undecodable", "server_error", "transport_error"}

(* An operation.  "next" is what the executor will run for it: the posted  *)
(* start, the timer's handler, the transport's or the signer's answer.     *)
(* "reserve" is the flag the timer carries: "yes", or no, because the      *)
(* budget was "paid" before the wait or because it is the "free" retry of  *)
(* a 429.  The last five fields are history; floor is the end of the       *)
(* cooldown the operation was last told of, early whether a request went   *)
(* out before it.                                                          *)
NoOp ==
  [kind |-> "none", next |-> "idle", target |-> "auth_message", due |-> 0,
   reserve |-> "yes", attempt |-> 0, deadline |-> 0, cancel |-> "no",
   calls |-> 0, result |-> "none", answer |-> "none", sends |-> 0,
   free |-> 0, floor |-> 0, early |-> "no"]

Past(op, delay) == op.deadline # 0 /\ op.deadline <= now + delay

\* Of what the caller is told only a referral's outcome is kept.
Told(op, result) == IF op.kind = "referral" THEN result ELSE "told"

(* finish: the caller's handler is moved out before it is called.          *)
Finish(op, result) ==
  IF op.calls > 0 THEN op
  ELSE [op EXCEPT !.calls = 1, !.result = Told(op, result)]

\* Nothing is queued for the operation any more.
Done(op) ==
  [op EXCEPT !.next = "over", !.due = 0, !.reserve = "paid", !.attempt = 0,
             !.deadline = 0, !.cancel = "no", !.floor = 0]

Over(op, result) == Done(Finish(op, result))

(* Variant: a wait the deadline would cut short is dropped silently.       *)
ScheduleDropped(op, delay, reserve) ==
  IF Past(op, delay) THEN Done(op)
  ELSE [op EXCEPT !.next = "timer", !.due = now + delay, !.reserve = reserve]

(* schedule: a wait the deadline would cut short is not begun.             *)
Schedule(op, delay, reserve) ==
  IF Past(op, delay) THEN Over(op, "failed")
  ELSE [op EXCEPT !.next = "timer", !.due = now + delay, !.reserve = reserve]

(* The request leaves for the transport.                                   *)
Dispatched(op) ==
  [op EXCEPT !.next = "answer", !.due = 0, !.sends = @ + 1,
             !.free = IF op.reserve = "free" THEN @ + 1 ELSE @,
             !.floor = 0, !.early = IF now < op.floor THEN "yes" ELSE @]

(* send, given the credentials the providers had: "key" and "jwt".         *)
SendPublic(op, have) ==
  IF "key" \notin have THEN Over(op, "failed") ELSE Dispatched(op)

SendPrivate(op, have) ==
  IF {"key", "jwt"} \subseteq have THEN Dispatched(op) ELSE Over(op, "failed")

SendReferral(op, have) ==
  IF op.calls > 0 THEN Done(op)
  ELSE IF {"key", "jwt"} \subseteq have THEN Dispatched(op)
  ELSE Over(op, "failed")

SendAuth(op, have) ==
  IF op.cancel # "no" \/ Past(op, 0) \/ "key" \notin have
  THEN Over(op, "failed") ELSE Dispatched(op)

Send(op, have) ==
  CASE op.kind = "public" -> SendPublic(op, have)
    [] op.kind = "private" -> SendPrivate(op, have)
    [] op.kind = "referral" -> SendReferral(op, have)
    [] OTHER -> SendAuth(op, have)

(* The budget was reserved: send now, or when the delay is over.           *)
AfterReserve(op, have) ==
  LET delay == ReserveDelay(limiter, Endpoint(op), now)
      paid == [op EXCEPT !.reserve = "paid",
                         !.floor = limiter.blocked[Endpoint(op)]]
  IN  IF delay > 0 THEN Schedule(paid, delay, "paid") ELSE Send(paid, have)

(* Variant: start looks at the deadline only.                              *)
StartPublicUnchecked(op, have) ==
  IF Past(op, 0) THEN Over(op, "failed")
  ELSE IF op.reserve = "yes" THEN AfterReserve(op, have)
  ELSE Send(op, have)

(* start of a GET, when it is called and whenever its timer fires.  Only   *)
(* the private client looks whether the caller was answered.               *)
StartPublic(op, have) ==
  IF op.cancel # "no" \/ Past(op, 0) THEN Over(op, "failed")
  ELSE IF op.reserve = "yes" THEN AfterReserve(op, have)
  ELSE Send(op, have)

StartPrivate(op, have) ==
  IF op.calls > 0 THEN Done(op) ELSE StartPublic(op, have)

StartReferral(op, have) ==
  IF op.calls > 0 THEN Done(op)
  ELSE IF op.cancel # "no" \/ Past(op, 0) THEN Over(op, "failed")
  ELSE AfterReserve(op, have)

(* reserve_and_send.                                                       *)
StartAuth(op, have) ==
  IF op.cancel # "no" \/ Past(op, 0) THEN Over(op, "failed")
  ELSE AfterReserve(op, have)

Start(op, have) ==
  CASE op.kind = "public" -> StartPublic(op, have)
    [] op.kind = "private" -> StartPrivate(op, have)
    [] op.kind = "referral" -> StartReferral(op, have)
    [] OTHER -> StartAuth(op, have)

\* Does start get as far as the limiter?
Reserves(op) ==
  /\ op.reserve = "yes" /\ op.cancel = "no" /\ ~Past(op, 0)
  /\ op.kind \in {"private", "referral"} => op.calls = 0

Init ==
  /\ now = 0
  /\ limiter = NewLimiter(0)
  /\ ops = [o \in Ops |-> NoOp]

(* A call: its start is posted, or its arguments are refused (an invalid   *)
(* query, referral code or signer).  Calls are numbered as they are made.  *)
Call(o, kind, deadline) ==
  /\ ops[o].next = "idle" /\ now <= MaxCallTime
  /\ \A p \in 1..(o - 1) : ops[p].next # "idle"
  /\ ops' = [ops EXCEPT ![o] = [NoOp EXCEPT !.kind = kind, !.next = "start",
                                            !.deadline = deadline]]
  /\ UNCHANGED <<limiter, now>>

RefuseCall(o, kind) ==
  /\ ops[o].next = "idle" /\ now <= MaxCallTime
  /\ \A p \in 1..(o - 1) : ops[p].next # "idle"
  /\ ops' = [ops EXCEPT ![o] = Over([NoOp EXCEPT !.kind = kind], "failed")]
  /\ UNCHANGED <<limiter, now>>

RunStart(o, have) ==
  /\ ops' = [ops EXCEPT ![o] = Start(ops[o], have)]
  /\ limiter' = IF Reserves(ops[o])
                THEN Reserved(limiter, Endpoint(ops[o]), now)
                ELSE limiter
  /\ UNCHANGED now

OnStart(o, have) == ops[o].next = "start" /\ RunStart(o, have)

(* The timer's handler, when the wait ended: a GET starts again, the       *)
(* others send.                                                            *)
OnTimer(o, have) ==
  /\ ops[o].next = "timer" /\ ops[o].due <= now
  /\ \/ ops[o].kind \in Gets /\ RunStart(o, have)
     \/ /\ ops[o].kind \notin Gets
        /\ ops' = [ops EXCEPT ![o] = Send(@, have)]
        /\ UNCHANGED <<limiter, now>>

(* The fallback doubles with every attempt, up to the sixth.               *)
RetryAfter(header, attempt) ==
  ParseRetryAfter(header, <<1, 2, 4, 8, 16, 32, 64>>[Smaller(attempt, 6) + 1])

\* Only the answers to a 429 and a 5xx are looked at for the header.
HeadersOf(answer) ==
  IF answer \in {"limited", "server_error"} THEN RetryHeaders
  ELSE {[kind |-> "none", value |-> 0]}

(* attempt++ < max_get_retries.                                            *)
Retried(op, delay, reserve) ==
  IF op.attempt >= MaxGetRetries THEN Over(op, "failed")
  ELSE Schedule([op EXCEPT !.attempt = @ + 1], delay, reserve)

(* handle of a GET: a 429 is retried free of charge, a 5xx like a new      *)
(* request.  The clients decode a 2xx body before they answer.             *)
HandlePublic(op, answer, delay) ==
  CASE answer = "ok" -> Over(op, "ok")
    [] answer = "limited" ->
         Retried([op EXCEPT !.floor = now + delay], delay, "free")
    [] answer = "server_error" -> Retried(op, delay, "yes")
    [] OTHER -> Over(op, "failed")

HandlePrivate(op, answer, delay) ==
  IF answer \in {"limited", "server_error"}
  THEN Retried(IF answer = "limited" THEN [op EXCEPT !.floor = now + delay]
               ELSE op,
               delay, IF answer = "server_error" THEN "yes" ELSE "free")
  ELSE Over(op, IF answer = "ok" THEN "ok" ELSE "failed")

(* Variant: a server error is reported as a rejection.                     *)
HandleReferralServerError(op, answer) ==
  Over(op, CASE answer = "ok" -> "ok"
             [] answer \in {"undecodable", "transport_error"} -> "ambiguous"
             [] OTHER -> "failed")

HandleReferral(op, answer) ==
  Over(op, CASE answer = "ok" -> "ok"
             [] answer \in OpenAnswers -> "ambiguous"
             [] OTHER -> "failed")

(* The challenge is signed unless the call was cancelled; the token ends   *)
(* it.                                                                     *)
HandleAuth(op, answer) ==
  IF answer # "ok" THEN Over(op, "failed")
  ELSE IF op.target = "auth" THEN Over(op, "ok")
  ELSE IF op.cancel # "no" THEN Over(op, "failed")
  ELSE [op EXCEPT !.next = "signature"]

(* handle: the transport's answer.  A 429 puts the endpoint on cooldown,   *)
(* whether or not anybody still waits for the answer.  The fallback of     *)
(* auth and of a referral does not grow.                                   *)
OnAnswer(o, answer, header) ==
  LET op == [ops[o] EXCEPT !.answer =
               IF ops[o].kind = "referral" THEN answer ELSE @]
      delay == RetryAfter(header, op.attempt)
  IN  /\ op.next = "answer"
      /\ ops' = [ops EXCEPT ![o] =
                   CASE op.kind = "public" -> HandlePublic(op, answer, delay)
                     [] op.kind = "private" -> HandlePrivate(op, answer, delay)
                     [] op.kind = "referral" -> HandleReferral(op, answer)
                     [] OTHER -> HandleAuth(op, answer)]
      /\ limiter' = IF answer = "limited"
                    THEN Penalized(limiter, Endpoint(op), now, delay)
                    ELSE limiter
      /\ UNCHANGED now

(* The signer's answer (external).  A signature is exchanged for a token   *)
(* by a second request with the same deadline and token.  When the signer  *)
(* throws, the callback that holds the caller's handler is gone, and the   *)
(* handler the catch block calls has been moved from.                      *)
OnSignature(o, answer) ==
  /\ ops[o].next = "signature"
  /\ ops' = [ops EXCEPT ![o] =
       CASE answer = "throws" -> [@ EXCEPT !.next = "lost"]
         [] answer = "refused" \/ @.cancel # "no" -> Over(@, "failed")
         [] OTHER -> [@ EXCEPT !.next = "start", !.target = "auth",
                               !.reserve = "yes"]]
  /\ UNCHANGED <<limiter, now>>

(* The stop token is set.                                                  *)
Cancel(o) ==
  /\ ops[o].next \notin {"idle", "over", "lost"} /\ ops[o].cancel = "no"
  /\ ops' = [ops EXCEPT ![o].cancel = "set"]
  /\ UNCHANGED <<limiter, now>>

(* What the callback the stop token posted tells the caller.               *)
Cancelled(op) ==
  Finish(op, IF op.kind = "referral" /\ op.sends > 0
             THEN "ambiguous" ELSE "failed")

(* It cancels the timer, whose handler then finds nothing left to do, and  *)
(* answers the caller.                                                     *)
OnCancel(o) ==
  /\ ops[o].cancel = "set" /\ ops[o].kind # "auth"
  /\ LET op == Cancelled([ops[o] EXCEPT !.cancel = "seen"])
     IN  ops' = [ops EXCEPT ![o] = IF op.next = "timer" THEN Done(op) ELSE op]
  /\ UNCHANGED <<limiter, now>>

(* Auth has such a callback only while its timer runs, and it only cancels *)
(* that.                                                                   *)
OnCancelAuth(o) ==
  /\ ops[o].cancel = "set" /\ ops[o].kind = "auth" /\ ops[o].next = "timer"
  /\ ops' = [ops EXCEPT ![o] = Over(@, "failed")]
  /\ UNCHANGED <<limiter, now>>

Tick ==
  /\ now < MaxTime \/ \E o \in Ops : ops[o].next = "timer" /\ ops[o].due > now
  /\ now' = now + 1
  /\ UNCHANGED <<limiter, ops>>

Next ==
  \/ \E o \in Ops :
       \/ \E kind \in Kinds :
            \/ \E deadline \in Deadlines : Call(o, kind, deadline)
            \/ RefuseCall(o, kind)
       \/ \E have \in SUBSET {"key", "jwt"} :
            OnStart(o, have) \/ OnTimer(o, have)
       \/ \E answer \in Answers : \E header \in HeadersOf(answer) :
            OnAnswer(o, answer, header)
       \/ \E answer \in {"signature", "refused", "throws"} :
            OnSignature(o, answer)
       \/ Cancel(o) \/ OnCancel(o) \/ OnCancelAuth(o)
  \/ Tick

Spec == Init /\ [][Next]_vars

-----------------------------------------------------------------------------
(* What must hold. *)

Bucket ==
  [rate : 1..Minute, tokens : Nat, updated : Nat, blocked : Nat, spent : Nat]

Limiters ==
  [all : Bucket, one : [Limited -> Bucket], blocked : [Endpoints -> Nat]]

OpType ==
  [kind : {"none"} \cup Kinds,
   next : {"idle", "start", "timer", "answer", "signature", "over", "lost"},
   target : {"auth_message", "auth"}, due : Nat,
   reserve : {"yes", "paid", "free"}, attempt : Nat,
   deadline : Deadlines \cup {0}, cancel : {"no", "set", "seen"},
   calls : Nat, result : {"none", "told", "ok", "failed", "ambiguous"},
   answer : {"none"} \cup Answers, sends : Nat, free : Nat, floor : Nat,
   early : {"no", "yes"}]

(* The type invariant.                                                     *)
TypeOK ==
  now \in Nat /\ limiter \in Limiters /\ ops \in [Ops -> OpType]

(* An operation whose caller was answered sends nothing more, although the *)
(* answer, the timer and the cancellation may each still be queued         *)
(* (public_rest.cpp:305-321, private_rest.cpp:173-187, 339-340), and the   *)
(* caller is answered once.                                                *)
QuietWhenAnswered ==
  [][\A o \in Ops :
       /\ ops'[o].calls <= 1
       /\ ops[o].calls = 1 => ops'[o].sends = ops[o].sends]_vars

(* A failure reported for a referral assignment that was sent means that   *)
(* the venue's own answer refused it: whatever the order of cancellation,  *)
(* answer and error, an open outcome is reported as ambiguous              *)
(* (private_rest.cpp:379-430).                                             *)
ReferralIsHonest ==
  \A o \in Ops :
    ops[o].kind = "referral" /\ ops[o].sends > 0 =>
      /\ ops[o].result = "failed" => ops[o].answer \notin OpenAnswers \cup {"none"}
      /\ ops[o].result = "ok" => ops[o].answer = "ok"

(* A request goes out only when the cooldown its operation was told of is  *)
(* over, whichever operation's 429 set it ("Concurrent callers observe the *)
(* cooldown on their next reservation", rate_limiter.hpp; rate_limiter.cpp *)
(* :56-95).                                                                *)
CooldownIsObserved ==
  \A o \in Ops : ops[o].early = "no"

(* No bucket is charged beyond its rate (rate_limiter.cpp:30-76).          *)
BudgetIsKept ==
  WithinBudget(limiter.all) /\ \A e \in Limited : WithinBudget(limiter.one[e])

(* Counted from the start, the requests all clients together have put on   *)
(* the network never exceed a full bucket and the refill since, the free   *)
(* retries of a 429 apart (public_rest.cpp:313-317, 376, auth.cpp:67).     *)
SendsAreWithinBudget ==
  LET Paid[n \in 0..NumOps] ==
        IF n = 0 THEN 0 ELSE Paid[n - 1] + ops[n].sends - ops[n].free
  IN  Paid[NumOps] * Cost(GlobalRate) <= GlobalRate * Cost(GlobalRate) + now

(* A GET is sent at most once more than max_get_retries, a referral        *)
(* assignment once, an authentication twice, once for each request         *)
(* (public_rest.cpp:375-383, private_rest.cpp:244, auth.cpp:228-290).      *)
SendsAreBounded ==
  \A o \in Ops :
    ops[o].sends <= CASE ops[o].kind \in Gets -> MaxGetRetries + 1
                      [] ops[o].kind = "auth" -> 2
                      [] OTHER -> 1

(* No caller is forgotten: an operation for which nothing is queued any    *)
(* more, no start, timer, request or signature, has answered               *)
(* (public_rest.cpp:356-408, private_rest.cpp:227-280, 379-436,            *)
(* auth.cpp:57-172).  A signer that throws is the exception (auth.cpp:285).*)
NoCallIsForgotten ==
  \A o \in Ops : ops[o].next = "over" => ops[o].calls = 1
=============================================================================
