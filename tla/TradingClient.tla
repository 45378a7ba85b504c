---------------------------- MODULE TradingClient ----------------------------
(***************************************************************************)
(* One mutation of src/trading.cpp (create, remove by id, remove by hash): *)
(* a rate-limit wait, one POST, and the classification of what comes back, *)
(* racing with a stop request and a deadline.                              *)
(***************************************************************************)
EXTENDS HttpSession, Naturals

VARIABLES
  op,        \* the operation: its phase, its queued stop handler, and whether
             \* the caller set a deadline
  outcome,   \* what the handler was called with; it is there while pending
  calls      \* ghost: how often it was called

opVars == <<op, outcome, calls>>
vars == <<httpVars, opVars>>

\* start is queued, the rate-limit timer is armed, its handler is queued
\* (without or with an error), the POST was dispatched, none of these.
Phases == {"posted", "waiting", "fired", "aborted", "dispatched", "over"}

\* What the client tells apart in a response.
AllAnswers == {"receipt", "undecodable", "redirect", "denied", "limited",
               "server_error", "client_error"}

ASSUME AnswersAssumption == Answers \subseteq AllAnswers

Outcomes == {"acknowledged", "ambiguous", "rejected", "refused"}

\* post: the stop callback is registered, start is dispatched.
Init ==
  /\ HttpInit
  /\ op \in [phase : {"posted"}, stop : {"off"}, deadline : {"set", "unset"}]
  /\ outcome = "pending" /\ calls = 0

\* finish: the handler is called once.
Complete(result) ==
  IF outcome = "pending"
  THEN outcome' = result /\ calls' = calls + 1
  ELSE UNCHANGED <<outcome, calls>>

EndsUnsent ==
  /\ Complete("refused")
  /\ op' = [op EXCEPT !.phase = "over"]
  /\ UNCHANGED <<http, answer, reply>>

\* send: nothing without a handler, refused after a stop or without
\* credentials, else the one POST.
Send ==
  \/ EndsUnsent
  \/ /\ outcome = "pending" /\ ~stopped
     /\ op' = [op EXCEPT !.phase = "dispatched"]
     /\ AsyncRequest
     /\ UNCHANGED <<outcome, calls>>

PastDeadline == op.deadline = "set" /\ expired

\* start: nothing without a handler, refused after a stop, past the deadline,
\* or when the wait would pass it; sent at once when the limiter has budget;
\* else the timer is armed.
OpStart ==
  /\ op.phase = "posted"
  /\ \/ /\ outcome # "pending" \/ stopped \/ op.deadline = "set"
        /\ EndsUnsent
     \/ outcome = "pending" /\ ~stopped /\ ~PastDeadline /\ Send
     \/ /\ outcome = "pending" /\ ~stopped /\ ~PastDeadline
        /\ op' = [op EXCEPT !.phase = "waiting"]
        /\ UNCHANGED <<outcome, calls, http, answer, reply>>
  /\ UNCHANGED <<stopped, expired, wire>>

\* The timer's handler, without and with an error.
OnTimer ==
  /\ \/ op.phase = "fired" /\ Send
     \/ op.phase = "aborted" /\ EndsUnsent
  /\ UNCHANGED <<stopped, expired, wire>>

Disposition(result) ==
  CASE result = "receipt" -> "acknowledged"
    [] result \in {"redirect", "denied", "client_error"} -> "rejected"
    [] OTHER -> "ambiguous"

\* handle: the transport's result.
Handle ==
  /\ reply # NoAnswer
  /\ Complete(Disposition(reply))
  /\ reply' = NoAnswer
  /\ UNCHANGED <<http, stopped, expired, wire, answer, op>>

\* Cancelling the timer does not reach a handler that is already queued.
StopHandled ==
  /\ op.stop = "queued"
  /\ op' = [op EXCEPT !.stop = "off",
                      !.phase = IF @ = "waiting" THEN "aborted" ELSE @]
  /\ UNCHANGED httpVars

\* Variant: a stop always reports a definite cancellation.
OnOpStopDefinite == StopHandled /\ Complete("refused")

\* The stop handler of arm_cancellation.
OnOpStop ==
  /\ StopHandled
  /\ Complete(IF op.phase = "dispatched" THEN "ambiguous" ELSE "refused")

-----------------------------------------------------------------------------
(* The caller and the clock (external). *)

\* A stop calls both callbacks, which dispatch to the executor; the session's
\* is registered while its request is under way.
RequestStop ==
  /\ ~stopped
  /\ stopped' = TRUE
  /\ op' = [op EXCEPT !.stop = "queued"]
  /\ http' = [http EXCEPT !.stop = IF http.stage \in Active
                                  THEN "queued" ELSE @]
  /\ UNCHANGED <<expired, wire, answer, reply, outcome, calls>>

\* Without a deadline of the caller's the session sets its own.
DeadlinePasses ==
  /\ ~expired /\ (op.deadline = "set" \/ http.stage \notin {"idle", "start"})
  /\ expired' = TRUE
  /\ UNCHANGED <<http, stopped, wire, answer, reply, opVars>>

TimerFires ==
  /\ op.phase = "waiting"
  /\ op' = [op EXCEPT !.phase = "fired"]
  /\ UNCHANGED <<httpVars, outcome, calls>>

Next ==
  \/ OpStart \/ OnTimer \/ Handle \/ OnOpStop
  \/ RequestStop \/ DeadlinePasses \/ TimerFires
  \/ HttpNext /\ UNCHANGED opVars

Spec == Init /\ [][Next]_vars

\* Queued handlers run, timers fire, time passes.
Fairness ==
  /\ WF_vars(OpStart) /\ WF_vars(OnTimer) /\ WF_vars(Handle)
  /\ WF_vars(TimerFires) /\ WF_vars(DeadlinePasses)
  /\ HttpFairness

FairSpec == Spec /\ Fairness

-----------------------------------------------------------------------------
(* What must hold. *)

\* The type invariant.
TypeOK ==
  /\ HttpTypeOK
  /\ op \in [phase : Phases, stop : {"off", "queued"},
             deadline : {"set", "unset"}]
  /\ outcome \in Outcomes \cup {"pending"}
  /\ calls \in Nat

\* The caller's handler is called at most once, whichever of the answer, the
\* transport's error, the stop, the timer and the deadline come first
\* (trading.cpp:282-286).
CompletesOnce == calls <= 1

\* The operation keeps MutationContract: in particular, once a definite error
\* was reported the request is not on the network and never will be, even if
\* the timer or the resolver had already completed when the caller stopped it
\* (trading.cpp:174-177, 261-280).
Contract == INSTANCE MutationContract WITH wired <- wire

KeepsContract == Contract!ContractSpec

\* A mutation is never retried (docs/DURABLE_ORDER_SESSION.md:70,
\* trading.cpp:216-259): once dispatched no further request is started.
PostsOnce ==
  [][op.phase = "dispatched" /\ http'.stage = "start" => http.stage = "start"]_vars

\* Every mutation is answered, whatever the network and the venue do
\* (trading.cpp:148-172, http.cpp:158-166).
Completes == <>(calls = 1)

=============================================================================
