------------------------- MODULE TradingClientProofs -------------------------
(***************************************************************************)
(* For every set of responses, with and without TLS: a mutation is called  *)
(* back at most once and keeps MutationContract.                           *)
(***************************************************************************)
EXTENDS TradingClient, TLAPS

\* The handler is gone exactly when it was called.
HandlerInv == calls = IF outcome = "pending" THEN 0 ELSE 1

\* Nothing of the request exists before it is dispatched, and what was refused
\* is not dispatched.
DispatchInv ==
  /\ op.phase = "dispatched" => outcome # "refused"
  /\ op.phase # "dispatched" => http.stage = "idle" /\ reply = NoAnswer

\* A response, and a reply that is one, follow a request on the network, which
\* is there only once the session has come to write it.
WireInv ==
  /\ wire => http.stage \in {"write", "read", "finished"}
  /\ answer # NoAnswer => wire
  /\ reply \in Answers => wire
  /\ outcome \in {"acknowledged", "rejected"} => wire
  /\ http.completion = "ok" /\ http.stage = "read" => answer # NoAnswer
  /\ http.completion # "none" => http.stage \in Active

TradingInv == TypeOK /\ HandlerInv /\ DispatchInv /\ WireInv

\* The initial states satisfy the invariant.
LEMMA TradingInitInv == Init => TradingInv
<1> SUFFICES ASSUME Init PROVE TradingInv
  OBVIOUS
<1> USE DEF Init, HttpInit
<1>1. http \in Sessions
  BY DEF Session, Sessions
<1>2. HttpTypeOK
  BY <1>1 DEF HttpTypeOK
<1>3. op \in [phase : Phases, stop : {"off", "queued"},
             deadline : {"set", "unset"}]
  BY DEF Phases
<1>4. TypeOK
  BY <1>2, <1>3 DEF TypeOK
<1>5. HandlerInv /\ DispatchInv
  BY DEF HandlerInv, DispatchInv, Session
<1>6. WireInv
  BY HttpAssumption DEF WireInv, Session, NoAnswer
<1> QED
  BY <1>4, <1>5, <1>6 DEF TradingInv

\* What cancel_io leaves and what it changes.
LEMMA CancelIoFacts ==
  ASSUME NEW s \in Sessions
  PROVE  /\ CancelIo(s) \in Sessions
         /\ CancelIo(s).stage = s.stage
         /\ CancelIo(s).completion # "none" <=>
              s.completion # "none" \/ s.stage \in Active
         /\ CancelIo(s).completion = "ok" => s.completion = "ok"
BY DEF CancelIo, Sessions, Active

\* A handler that cancels keeps the stage, and makes no completion a success.
LEMMA CancelStep ==
  ASSUME http \in Sessions, OnStop \/ OnDeadline
  PROVE  /\ http' \in Sessions
         /\ http'.stage = http.stage
         /\ http'.completion # "none" <=>
              http.completion # "none" \/ http.stage \in Active
         /\ http'.completion = "ok" => http.completion = "ok"
<1>1. CASE OnStop
  <2> DEFINE s == [http EXCEPT !.stop = "off",
                               !.seen = @ \cup {"cancelled"}]
  <2>1. /\ s \in Sessions
        /\ s.stage = http.stage /\ s.completion = http.completion
    BY DEF Sessions
  <2>2. http' = CancelIo(s)
    BY <1>1 DEF OnStop
  <2> HIDE DEF s
  <2> QED BY <2>1, <2>2, CancelIoFacts
<1>2. CASE OnDeadline
  <2> DEFINE s == [http EXCEPT !.timer = "off",
                               !.seen = @ \cup {"deadline"}]
  <2>1. /\ s \in Sessions
        /\ s.stage = http.stage /\ s.completion = http.completion
    BY DEF Sessions
  <2>2. http' = CancelIo(s)
    BY <1>2 DEF OnDeadline
  <2> HIDE DEF s
  <2> QED BY <2>1, <2>2, CancelIoFacts
<1> QED BY <1>1, <1>2

\* The handler of a success starts an operation of the session or finishes it.
LEMMA SuccessStep ==
  ASSUME http \in Sessions, OnSuccess, http.stage \in Active
  PROVE  /\ http' \in Sessions
         /\ http.stage = "read" => http'.stage = "finished"
         /\ http.stage = "write" => http'.stage = "read"
         /\ http'.stage \notin {"idle", "start"}
         /\ http'.completion \in {"none", "failed"}
         /\ http'.completion # "none" => http'.stage \in Active
<1>1. CASE http.stage = "read"
  BY <1>1 DEF OnSuccess, Finish, Sessions
<1>2. CASE http.stage # "read"
  <2>1. PICK f \in Followers(http.stage) : Begin(f)
    BY <1>2 DEF OnSuccess
  <2>2. /\ f \in Active
        /\ http.stage = "write" => f = "read"
    BY <1>2 DEF Followers, Active
  <2> QED BY <1>2, <2>1, <2>2 DEF Begin, Sessions, Active
<1> QED BY <1>1, <1>2

\* A step of the session leaves the operation alone and keeps the invariant.
LEMMA HttpStepInv ==
  TradingInv /\ HttpNext /\ UNCHANGED opVars => TradingInv'
<1> SUFFICES ASSUME TradingInv, HttpNext, UNCHANGED opVars PROVE TradingInv'
  OBVIOUS
<1>1. http' \in Sessions
  <2> USE DEF TradingInv, TypeOK, HttpTypeOK
  <2>1. CASE HttpStart \/ OnFailure
    BY <2>1 DEF HttpStart, OnFailure, Finish, Sessions, Active
  <2>2. CASE OnSuccess
    BY <2>2, SuccessStep DEF WireInv, OnSuccess
  <2>3. CASE OnStop \/ OnDeadline
    BY <2>3, CancelStep
  <2>4. CASE DeadlineFires
    BY <2>4 DEF DeadlineFires, Sessions
  <2>5. CASE StreamTimesOut
    BY <2>5 DEF StreamTimesOut, Sessions
  <2>6. CASE Transmit \/ Respond \/ IoCompletes
    BY <2>6 DEF Transmit, Respond, IoCompletes, Sessions
  <2> QED
    BY <2>1, <2>2, <2>3, <2>4, <2>5, <2>6 DEF HttpNext
<1>2. /\ UNCHANGED stopped /\ UNCHANGED expired
      /\ wire' \in {wire, TRUE}
  BY DEF HttpNext, HttpStart, OnSuccess, OnFailure, OnStop, OnDeadline,
         DeadlineFires, StreamTimesOut, Transmit, Respond, IoCompletes
<1>3. stopped' \in BOOLEAN /\ expired' \in BOOLEAN /\ wire' \in BOOLEAN
  BY <1>2, Zenon DEF TradingInv, TypeOK, HttpTypeOK
<1>4. /\ answer' \in Answers \cup {NoAnswer}
      /\ reply' \in Answers \cup Errors \cup {NoAnswer}
  BY DEF TradingInv, TypeOK, HttpTypeOK, HttpNext, HttpStart, OnSuccess,
         OnFailure, Finish, FailResult, Begin, OnStop, OnDeadline,
         DeadlineFires, StreamTimesOut, Transmit, Respond, IoCompletes, Errors
<1>5. TypeOK'
  BY <1>1, <1>3, <1>4 DEF TradingInv, TypeOK, HttpTypeOK, opVars
<1>6. HandlerInv'
  BY DEF TradingInv, HandlerInv, opVars
<1>7. DispatchInv'
  <2> SUFFICES ASSUME op.phase # "dispatched"
               PROVE  http'.stage = "idle" /\ reply' = NoAnswer
    BY DEF TradingInv, DispatchInv, opVars
  <2>1. http.stage = "idle" /\ http.completion = "none" /\ reply = NoAnswer
    BY DEF TradingInv, DispatchInv, WireInv, Active
  <2>2. CASE OnStop \/ OnDeadline
    BY <2>1, <2>2, CancelStep
    DEF OnStop, OnDeadline, TradingInv, TypeOK, HttpTypeOK
  <2>3. CASE DeadlineFires
    BY <2>1, <2>3 DEF DeadlineFires, TradingInv, TypeOK, HttpTypeOK, Sessions
  <2>4. CASE ~(OnStop \/ OnDeadline \/ DeadlineFires)
    BY <2>1, <2>4
    DEF HttpNext, HttpStart, OnSuccess, OnFailure, StreamTimesOut, Transmit,
        Respond, IoCompletes, Active, OnSocket, TradingInv, WireInv
  <2> QED BY <2>2, <2>3, <2>4
<1>8. WireInv'
  <2> USE HttpAssumption DEF TradingInv, TypeOK, HttpTypeOK, WireInv, Active,
          NoAnswer, Errors, opVars
  <2>1. CASE HttpStart
    BY <2>1 DEF HttpStart, Finish, Sessions
  <2>2. CASE OnSuccess
    <3>1. http.stage \in Active /\ http \in Sessions
      BY <2>2 DEF OnSuccess
    <3>2. /\ UNCHANGED <<wire, answer>>
          /\ reply' = reply \/ (http.stage = "read" /\ reply' = answer)
      BY <2>2 DEF OnSuccess, Finish
    <3> QED BY <2>2, <3>1, <3>2, SuccessStep DEF Sessions
  <2>3. CASE OnFailure
    BY <2>3 DEF OnFailure, Finish, FailResult, Sessions
  <2>4. CASE OnStop \/ OnDeadline
    BY <2>4, CancelStep DEF OnStop, OnDeadline
  <2>5. CASE DeadlineFires
    BY <2>5 DEF DeadlineFires, Sessions
  <2>6. CASE StreamTimesOut
    BY <2>6 DEF StreamTimesOut, OnSocket, Sessions
  <2>7. CASE Transmit
    BY <2>7 DEF Transmit
  <2>8. CASE Respond
    BY <2>8 DEF Respond
  <2>9. CASE IoCompletes
    BY <2>9 DEF IoCompletes, Sessions
  <2> QED
    BY <2>1, <2>2, <2>3, <2>4, <2>5, <2>6, <2>7, <2>8, <2>9 DEF HttpNext
<1> QED
  BY <1>5, <1>6, <1>7, <1>8 DEF TradingInv

\* Every step keeps the invariant.
LEMMA TradingNextInv == TradingInv /\ [Next]_vars => TradingInv'
<1> SUFFICES ASSUME TradingInv, [Next]_vars PROVE TradingInv'
  OBVIOUS
<1> USE HttpAssumption DEF TradingInv, TypeOK, HttpTypeOK, HandlerInv,
      DispatchInv, WireInv, Sessions, Active, NoAnswer, Errors, Outcomes,
      Phases
<1>1. CASE OpStart
  BY <1>1 DEF OpStart, Send, EndsUnsent, Complete, AsyncRequest, Session
<1>2. CASE OnTimer
  BY <1>2 DEF OnTimer, Send, EndsUnsent, Complete, AsyncRequest, Session
<1>3. CASE Handle
  BY <1>3 DEF Handle, Complete, Disposition
<1>4. CASE OnOpStop
  <2>1. /\ UNCHANGED httpVars
        /\ op' = [op EXCEPT !.stop = "off",
                            !.phase = IF @ = "waiting" THEN "aborted" ELSE @]
    BY <1>4 DEF OnOpStop, StopHandled
  <2>2. /\ op' \in [phase : Phases, stop : {"off", "queued"},
                    deadline : {"set", "unset"}]
        /\ op'.phase = "dispatched" <=> op.phase = "dispatched"
    BY <2>1
  <2>3. \/ UNCHANGED <<outcome, calls>>
        \/ /\ outcome = "pending" /\ calls' = calls + 1
           /\ outcome' = IF op.phase = "dispatched"
                         THEN "ambiguous" ELSE "refused"
    BY <1>4 DEF OnOpStop, Complete
  <2>4. TypeOK'
    BY <2>1, <2>2, <2>3 DEF httpVars
  <2>5. HandlerInv' /\ DispatchInv' /\ WireInv'
    BY <2>1, <2>2, <2>3 DEF httpVars
  <2> QED BY <2>4, <2>5
<1>5. CASE RequestStop
  BY <1>5 DEF RequestStop
<1>6. CASE DeadlinePasses
  BY <1>6 DEF DeadlinePasses, opVars
<1>7. CASE TimerFires
  BY <1>7 DEF TimerFires, httpVars
<1>8. CASE HttpNext /\ UNCHANGED opVars
  BY <1>8, HttpStepInv
<1>9. CASE UNCHANGED vars
  BY <1>9 DEF vars, httpVars, opVars
<1> QED
  BY <1>1, <1>2, <1>3, <1>4, <1>5, <1>6, <1>7, <1>8, <1>9 DEF Next

\* The handler of a mutation is called at most once, in every interleaving of
\* the answer, the stop, the timer and the deadline (trading.cpp:282-286).
THEOREM TradingCompletesOnce == Spec => [](TypeOK /\ CompletesOnce)
<1>1. TradingInv => TypeOK /\ CompletesOnce
  BY DEF TradingInv, HandlerInv, CompletesOnce
<1> QED
  BY <1>1, TradingInitInv, TradingNextInv, PTL DEF Spec

\* A step of the operation is a step of the contract or a stutter: a request
\* goes out only for a mutation that is pending or ambiguous, an answer counts
\* only while it is pending, and a refusal comes before anything was sent.
LEMMA ContractStep ==
  TradingInv /\ TradingInv' /\ [Next]_vars =>
    [Contract!GoOut \/ Contract!Refuse \/ Contract!Settle \/ Contract!GiveUp]_
      (Contract!contractVars)
<1> SUFFICES ASSUME TradingInv, TradingInv', [Next]_vars
             PROVE \/ Contract!GoOut \/ Contract!Refuse \/ Contract!Settle
                   \/ Contract!GiveUp \/ UNCHANGED <<outcome, wire>>
  BY DEF Contract!contractVars
<1> USE HttpAssumption, AnswersAssumption
    DEF TradingInv, TypeOK, HttpTypeOK, DispatchInv, WireInv, NoAnswer, Errors,
        Outcomes, Contract!GoOut, Contract!Refuse, Contract!Settle, Contract!GiveUp
<1>1. CASE OpStart
  BY <1>1 DEF OpStart, Send, EndsUnsent, Complete
<1>2. CASE OnTimer
  BY <1>2 DEF OnTimer, Send, EndsUnsent, Complete
<1>3. CASE Handle
  BY <1>3 DEF Handle, Complete, Disposition, AllAnswers
<1>4. CASE OnOpStop
  BY <1>4 DEF OnOpStop, StopHandled, Complete, httpVars
<1>5. CASE RequestStop
  BY <1>5 DEF RequestStop
<1>6. CASE DeadlinePasses
  BY <1>6 DEF DeadlinePasses, opVars
<1>7. CASE TimerFires
  BY <1>7 DEF TimerFires, httpVars
<1>8. CASE Transmit /\ UNCHANGED opVars
  BY <1>8 DEF Transmit, opVars
<1>9. CASE HttpNext /\ UNCHANGED opVars /\ ~Transmit
  BY <1>9 DEF HttpNext, opVars, HttpStart, OnSuccess, OnFailure, OnStop,
              OnDeadline, DeadlineFires, StreamTimesOut, Respond, IoCompletes
<1>10. CASE UNCHANGED vars
  BY <1>10 DEF vars, httpVars, opVars
<1> QED
  BY <1>1, <1>2, <1>3, <1>4, <1>5, <1>6, <1>7, <1>8, <1>9, <1>10 DEF Next

\* A mutation keeps MutationContract: an error is reported only if the venue
\* rejected the request or if it was not sent and never will be
\* (trading.cpp:148-286).
THEOREM TradingKeepsContract == Spec => KeepsContract
<1>1. Init => Contract!ContractInit
  BY DEF Init, HttpInit, Contract!ContractInit
<1> QED
  BY <1>1, TradingInitInv, TradingNextInv, ContractStep, PTL
  DEF Spec, KeepsContract, Contract!ContractSpec

\* Once dispatched a mutation starts no further request
\* (trading.cpp:216-259).
THEOREM TradingPostsOnce == Spec => PostsOnce
<1>1. TradingInv /\ [Next]_vars =>
        [op.phase = "dispatched" /\ http'.stage = "start"
           => http.stage = "start"]_vars
  <2> SUFFICES ASSUME TradingInv, Next, op.phase = "dispatched",
                      http'.stage = "start"
               PROVE  http.stage = "start"
    OBVIOUS
  <2> USE DEF TradingInv, TypeOK, HttpTypeOK
  <2>1. CASE OpStart \/ OnTimer
    BY <2>1 DEF OpStart, OnTimer
  <2>2. CASE Handle \/ OnOpStop \/ DeadlinePasses \/ TimerFires
    BY <2>2 DEF Handle, OnOpStop, StopHandled, DeadlinePasses, TimerFires,
                httpVars
  <2>3. CASE RequestStop
    BY <2>3 DEF RequestStop, Sessions
  <2>4. CASE OnStop \/ OnDeadline
    BY <2>4, CancelStep
  <2>5. CASE OnSuccess
    BY <2>5, SuccessStep DEF OnSuccess, WireInv
  <2>6. CASE HttpNext /\ ~(OnStop \/ OnDeadline \/ OnSuccess)
    BY <2>6 DEF HttpNext, HttpStart, OnFailure, Finish, DeadlineFires,
                StreamTimesOut, Transmit, Respond, IoCompletes, Sessions
  <2> QED BY <2>1, <2>2, <2>3, <2>4, <2>5, <2>6 DEF Next
<1> QED
  BY <1>1, TradingInitInv, TradingNextInv, PTL DEF Spec, PostsOnce

=============================================================================
