----------------------------- MODULE HttpSession -----------------------------
(***************************************************************************)
(* One request of src/http.cpp: resolve, connect, handshake, write, read,  *)
(* under a deadline timer and a stop token.                                *)
(*                                                                         *)
(* An asynchronous operation is in progress, then complete with its        *)
(* handler queued, then handled.  Cancelling aborts what is in progress    *)
(* and cannot reach a handler that is already queued: this gap is where    *)
(* the order of events matters.  The executor runs one handler at a time.  *)
(***************************************************************************)
CONSTANT Answers     \* the responses the server may give

Errors == {"cancelled", "deadline_exceeded", "transport", "invalid"}
NoAnswer == "none"

ASSUME HttpAssumption == Answers \cap (Errors \cup {NoAnswer}) = {}

VARIABLES
  http,      \* the session: stage, completion of its operation, socket,
             \* deadline timer, stop handler, and which of cancelled_ and
             \* deadline_fired_ are set
  stopped,   \* the stop token of the request's context
  expired,   \* the deadline has passed
  wire,      \* the request is on the network, in part at least
  answer,    \* the response on its way back
  reply      \* the result dispatched to the caller's handler

httpVars == <<http, stopped, expired, wire, answer, reply>>

Active == {"resolve", "connect", "handshake", "write", "read"}
OnSocket == Active \ {"resolve"}

Session(stage) ==
  [stage |-> stage, completion |-> "none", socket |-> "closed",
   timer |-> "off", stop |-> "off", seen |-> {}]

HttpInit ==
  /\ http = Session("idle")
  /\ stopped = FALSE /\ expired = FALSE
  /\ wire = FALSE
  /\ answer = NoAnswer /\ reply = NoAnswer

-----------------------------------------------------------------------------
(* The session's own steps. *)

\* async_request, from the caller's handler.
AsyncRequest ==
  /\ http' = Session("start")
  /\ answer' = NoAnswer /\ reply' = NoAnswer

\* cancel_io: abort the operation in progress and close the socket.
CancelIo(s) ==
  [s EXCEPT !.socket = "closed",
            !.completion = IF s.stage \in Active /\ @ = "none"
                           THEN "aborted" ELSE @]

\* finish: once; the timer is cancelled unless its handler is queued.
Finish(result) ==
  /\ http' = [http EXCEPT !.stage = "finished", !.completion = "none",
                !.socket = "closed", !.timer = IF @ = "armed" THEN "off" ELSE @]
  /\ reply' = result

\* start.  A malformed or oversized request is refused; a stop that was
\* requested before the callback is registered is found here.
HttpStart ==
  /\ http.stage = "start"
  /\ \/ stopped /\ Finish("cancelled")
     \/ ~stopped /\ Finish("invalid")
     \/ ~stopped /\ expired /\ Finish("deadline_exceeded")
     \/ /\ ~stopped /\ ~expired
        /\ http' = [http EXCEPT !.stage = "resolve", !.timer = "armed"]
        /\ UNCHANGED reply
  /\ UNCHANGED <<stopped, expired, wire, answer>>

\* Start the operation of a stage.  Connecting opens the socket again; the
\* others fail at once on a closed one.
Begin(stage) ==
  http' = [http EXCEPT !.stage = stage,
             !.socket = IF stage = "connect" THEN "open" ELSE @,
             !.completion = IF stage = "connect" \/ http.socket = "open"
                            THEN "none" ELSE "failed"]

\* use_tls is read here only, so either choice stands for a kind of request.
Followers(stage) ==
  CASE stage = "resolve" -> {"connect"}
    [] stage = "connect" -> {"handshake", "write"}
    [] stage = "handshake" -> {"write"}
    [] stage = "write" -> {"read"}

\* The handler of a successful operation: the next stage, or the response.
OnSuccess ==
  /\ http.completion = "ok"
  /\ IF http.stage = "read"
     THEN Finish(answer)
     ELSE /\ \E stage \in Followers(http.stage) : Begin(stage)
          /\ UNCHANGED reply
  /\ UNCHANGED <<stopped, expired, wire, answer>>

\* fail, and the two errors of read that do not go through it.
FailResult ==
  IF "cancelled" \in http.seen \/ stopped THEN "cancelled"
  ELSE IF "deadline" \in http.seen \/ http.completion = "timeout"
  THEN "deadline_exceeded" ELSE "transport"

OnFailure ==
  /\ http.completion \in {"aborted", "timeout", "failed"}
  /\ \/ Finish(FailResult)
     \/ http.stage = "read" /\ http.completion = "failed" /\ Finish("transport")
  /\ UNCHANGED <<stopped, expired, wire, answer>>

\* The handlers of the stop callback and of the deadline timer.
OnStop ==
  /\ http.stop = "queued"
  /\ http' = CancelIo([http EXCEPT !.stop = "off",
                                   !.seen = @ \cup {"cancelled"}])
  /\ UNCHANGED <<stopped, expired, wire, answer, reply>>

\* Variant: the deadline handler only notes that it ran.
OnDeadlineNoted ==
  /\ http.timer = "queued"
  /\ http' = [http EXCEPT !.timer = "off", !.seen = @ \cup {"deadline"}]
  /\ UNCHANGED <<stopped, expired, wire, answer, reply>>

OnDeadline ==
  /\ http.timer = "queued"
  /\ http' = CancelIo([http EXCEPT !.timer = "off",
                                   !.seen = @ \cup {"deadline"}])
  /\ UNCHANGED <<stopped, expired, wire, answer, reply>>

-----------------------------------------------------------------------------
(* The clock, the sockets and the server (external). *)

DeadlineFires ==
  /\ http.timer = "armed" /\ expired
  /\ http' = [http EXCEPT !.timer = "queued"]
  /\ UNCHANGED <<stopped, expired, wire, answer, reply>>

\* The stream has the same deadline as the timer.
StreamTimesOut ==
  /\ http.stage \in OnSocket /\ http.completion = "none" /\ expired
  /\ http' = [http EXCEPT !.completion = "timeout", !.socket = "closed"]
  /\ UNCHANGED <<stopped, expired, wire, answer, reply>>

Transmit ==
  /\ http.stage = "write" /\ http.completion = "none" /\ ~wire
  /\ wire' = TRUE
  /\ UNCHANGED <<http, stopped, expired, answer, reply>>

Respond ==
  /\ wire /\ answer = NoAnswer
  /\ answer' \in Answers
  /\ UNCHANGED <<http, stopped, expired, wire, reply>>

IoCompletes ==
  /\ http.stage \in Active /\ http.completion = "none"
  /\ \E c \in {"ok", "failed"} :
       /\ c = "ok" => /\ http.stage = "write" => wire
                      /\ http.stage = "read" => answer # NoAnswer
       /\ http' = [http EXCEPT !.completion = c]
  /\ UNCHANGED <<stopped, expired, wire, answer, reply>>

HttpNext ==
  \/ HttpStart \/ OnSuccess \/ OnFailure \/ OnStop \/ OnDeadline
  \/ DeadlineFires \/ StreamTimesOut \/ Transmit \/ Respond \/ IoCompletes

\* The executor runs queued handlers; the timer and the stream's own timeout
\* fire once their time has come.  Nothing is assumed of the network.
HttpFairness ==
  /\ WF_httpVars(HttpStart)
  /\ WF_httpVars(OnSuccess \/ OnFailure)
  /\ WF_httpVars(DeadlineFires)
  /\ WF_httpVars(StreamTimesOut)
  /\ WF_httpVars(OnDeadline)

Sessions ==
  [stage : Active \cup {"idle", "start", "finished"},
   completion : {"none", "ok", "aborted", "timeout", "failed"},
   socket : {"closed", "open"}, timer : {"off", "armed", "queued"},
   stop : {"off", "queued"}, seen : SUBSET {"cancelled", "deadline"}]

HttpTypeOK ==
  /\ http \in Sessions
  /\ stopped \in BOOLEAN /\ expired \in BOOLEAN /\ wire \in BOOLEAN
  /\ answer \in Answers \cup {NoAnswer}
  /\ reply \in Answers \cup Errors \cup {NoAnswer}

=============================================================================
