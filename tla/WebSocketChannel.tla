-------------------------- MODULE WebSocketChannel --------------------------
(***************************************************************************)
(* One channel of src/websocket.cpp, as both clients use it: opened once,  *)
(* read and written, and given up with cancel.                             *)
(*                                                                         *)
(* An operation in progress when its socket is closed may already have     *)
(* completed, with its handler queued: either outcome is possible when the *)
(* handler runs.  One that was begun on a closed socket can only fail.     *)
(* Handlers of the caller do not write again from a successful write.      *)
(***************************************************************************)
EXTENDS Naturals, Sequences, FiniteSets

CONSTANTS MaxWrites, MaxReads, MaxCloses   \* bounds on the caller's calls

VARIABLES
  chan,      \* the flags of Impl, its timer and its stop callback
  socket,    \* the socket: open or closed
  op,        \* the operation of the opening under way and how it can end
  reading,   \* the same for the read
  closing,   \* the same for the close
  writes,    \* the queue of frames, numbered as they were given
  inflight,  \* the frames handed to the stream and how their writes can end
  wire,      \* ghost: the frames on the network
  told,      \* ghost: the answers to writes
  calls,     \* ghost: the calls made, and the answers to openings and reads
  stopped,   \* the stop token of the opening's context
  expired    \* its deadline has passed

world == <<stopped, expired>>
vars == <<chan, socket, op, reading, closing, writes, inflight, wire, told,
          calls, world>>

Stages == {"resolve", "connect", "tls", "handshake"}
Idle == [stage |-> "none", can |-> {}]
Either == {"ok", "failed"}

Init ==
  /\ chan = [opening |-> FALSE, opened |-> FALSE, timer |-> "off",
             stop |-> "off", seen |-> {}, ended |-> FALSE]
  /\ socket = "closed"
  /\ op = Idle /\ reading = Idle /\ closing = Idle
  /\ writes = <<>> /\ inflight = <<>> /\ wire = <<>> /\ told = <<>>
  /\ calls = [opened |-> 0, answered |-> <<>>, read |-> 0, write |-> 0,
              close |-> 0]
  /\ stopped = FALSE /\ expired = FALSE

-----------------------------------------------------------------------------
(* Opening. *)

\* Variant: cancelling leaves the socket alone.
cancel_ioKeepsSocket(c) ==
  /\ chan' = [c EXCEPT !.opened = FALSE, !.opening = FALSE]
  /\ UNCHANGED socket

\* cancel_io; c is the rest of what changes in the channel.
cancel_io(c) ==
  /\ chan' = [c EXCEPT !.opened = FALSE, !.opening = FALSE]
  /\ socket' = "closed"

\* The timer is cancelled unless its handler is queued, and so is the stop.
Disarmed(c) ==
  [c EXCEPT !.timer = IF @ = "armed" THEN "off" ELSE @,
            !.stop = IF @ = "on" THEN "off" ELSE @]

\* finish_open: an error ends in cancel_io.
finish_open(result) ==
  /\ op' = Idle
  /\ calls' = [calls EXCEPT !.answered = Append(@, result)]
  /\ IF result = "ok"
     THEN /\ chan' = Disarmed([chan EXCEPT !.opening = FALSE, !.opened = TRUE])
          /\ UNCHANGED socket
     ELSE cancel_io(Disarmed(chan))

\* fail_open.
fail_open(outcome) ==
  finish_open(IF "cancelled" \in chan.seen \/ stopped THEN "cancelled"
              ELSE IF "deadline" \in chan.seen \/ outcome = "timeout"
              THEN "deadline_exceeded" ELSE "failed")

\* async_open: refused while the channel is active, when the caller stopped
\* or is late, and for a request or a TLS setup that is not valid.
Open ==
  /\ calls.opened < 2
  /\ calls.opened = 1 => chan.opening \/ chan.opened
  /\ IF calls.opened = 1
     THEN /\ calls' = [calls EXCEPT !.opened = 2]
          /\ UNCHANGED <<chan, op, socket>>
     ELSE \E r \in {"cancelled", "deadline_exceeded", "invalid", "none"} :
            /\ IF stopped THEN r = "cancelled"
               ELSE IF expired THEN r \in {"invalid", "deadline_exceeded"}
               ELSE r \in {"invalid", "none"}
            /\ calls' = [calls EXCEPT !.opened = 1,
                           !.answered = IF r = "none" THEN @ ELSE <<r>>]
            /\ IF r = "none"
               THEN /\ chan' = [chan EXCEPT !.opening = TRUE,
                                  !.timer = "armed", !.stop = "on"]
                    /\ op' = [stage |-> "resolve", can |-> Either]
               ELSE UNCHANGED <<chan, op>>
            /\ UNCHANGED socket
  /\ UNCHANGED <<reading, closing, writes, inflight, wire, told, world>>

\* Variant: the stream is not given the deadline.
BeginUndated(stage) ==
  op' = [stage |-> stage, can |-> IF stage = "connect" \/ socket = "open"
                                  THEN Either ELSE {"failed"}]

\* connect, tls_handshake and websocket_handshake: connecting opens the
\* socket, the others fail at once on a closed one.  The stream has the
\* deadline of the context.
Begin(stage) ==
  op' = [stage |-> stage, can |-> IF stage = "connect" \/ socket = "open"
                                  THEN Either \cup {"timeout"}
                                  ELSE {"failed"}]

\* use_tls is read here only.
Followers(stage) ==
  CASE stage = "resolve" -> {"connect"}
    [] stage = "connect" -> {"tls", "handshake"}
    [] stage = "tls" -> {"handshake"}

\* The handlers of the stages.  A failed handshake is reported as it is.
OnOpening ==
  /\ op # Idle
  /\ \/ /\ "ok" \in op.can
        /\ IF op.stage = "handshake" THEN finish_open("ok")
           ELSE /\ \E stage \in Followers(op.stage) : Begin(stage)
                /\ socket' = IF op.stage = "resolve" THEN "open" ELSE socket
                /\ UNCHANGED <<chan, calls>>
     \/ /\ "failed" \in op.can
        /\ IF op.stage = "handshake" THEN finish_open("failed")
           ELSE fail_open("failed")
  /\ UNCHANGED <<reading, closing, writes, inflight, wire, told, world>>

OnStreamTimeout ==
  /\ "timeout" \in op.can /\ expired
  /\ IF op.stage = "handshake" THEN finish_open("failed")
     ELSE fail_open("timeout")
  /\ UNCHANGED <<reading, closing, writes, inflight, wire, told, world>>

\* The handlers of the deadline timer and of the stop callback.
OnDeadline ==
  /\ chan.timer = "queued"
  /\ cancel_io([chan EXCEPT !.timer = "off", !.seen = @ \cup {"deadline"}])
  /\ UNCHANGED <<op, reading, closing, writes, inflight, wire, told, calls,
                 world>>

OnStop ==
  /\ chan.stop = "queued"
  /\ cancel_io([chan EXCEPT !.stop = "off", !.seen = @ \cup {"cancelled"}])
  /\ UNCHANGED <<op, reading, closing, writes, inflight, wire, told, calls,
                 world>>

-----------------------------------------------------------------------------
(* Reading, writing and closing. *)

\* What an operation begun now can end with.
Prospects == IF socket = "open" THEN Either ELSE {"failed"}

\* async_read: one at a time, on an open channel.  An error of a refused read
\* is told to its own handler.
Read ==
  /\ calls.read < MaxReads
  /\ calls' = [calls EXCEPT !.read = @ + 1]
  /\ reading' = IF chan.opened /\ reading = Idle
                THEN [stage |-> "read", can |-> Prospects] ELSE reading
  /\ UNCHANGED <<chan, socket, op, closing, writes, inflight, wire, told,
                 world>>

\* The read's handler: a text, a binary frame (an error that leaves the
\* channel open), or a failure.
OnRead ==
  /\ reading # Idle
  /\ reading' = Idle
  /\ \/ "ok" \in reading.can /\ UNCHANGED chan
     \/ "failed" \in reading.can /\ chan' = [chan EXCEPT !.opened = FALSE]
  /\ UNCHANGED <<socket, op, closing, writes, inflight, wire, told, calls,
                 world>>

\* start_write: the front of the queue is handed to the stream.
start_write(queue, flying) ==
  /\ writes' = queue
  /\ inflight' = IF queue = <<>> \/ ~chan.opened THEN flying
                 ELSE Append(flying, [frame |-> Head(queue), can |-> Prospects])

refuse(frame) ==
  /\ told' = Append(told, <<frame, "refused">>)
  /\ UNCHANGED <<writes, inflight>>

\* Variant: a frame is queued right behind the one in flight.
writeJumps(frame) ==
  IF chan.opened
  THEN /\ IF inflight = <<>> THEN start_write(Append(writes, frame), inflight)
          ELSE /\ writes' = <<Head(writes), frame>> \o Tail(writes)
               /\ UNCHANGED inflight
       /\ UNCHANGED told
  ELSE refuse(frame)

\* write: refused on a channel that is not open, else queued.
write(frame) ==
  IF chan.opened
  THEN /\ IF inflight = <<>> THEN start_write(Append(writes, frame), inflight)
          ELSE writes' = Append(writes, frame) /\ UNCHANGED inflight
       /\ UNCHANGED told
  ELSE refuse(frame)

\* async_write; a frame that is too large is refused too.
Write ==
  /\ calls.write < MaxWrites
  /\ calls' = [calls EXCEPT !.write = @ + 1]
  /\ LET frame == calls.write + 1
     IN \/ write(frame)
        \/ refuse(frame)
  /\ UNCHANGED <<chan, socket, op, reading, closing, wire, world>>

\* fail_queued_writes.
Refused(queue) == [i \in 1..Len(queue) |-> <<queue[i], "refused">>]

\* Variant: the failed frame stays at the front of the queue.
OnWriteErrorKeeps ==
  /\ chan' = [chan EXCEPT !.opened = FALSE]
  /\ told' = told \o <<<<Head(writes), "failed">>>> \o Refused(writes)
  /\ writes' = <<>> /\ inflight' = Tail(inflight)

OnWriteError ==
  /\ chan' = [chan EXCEPT !.opened = FALSE]
  /\ told' = told \o <<<<Head(writes), "failed">>>> \o Refused(Tail(writes))
  /\ writes' = <<>> /\ inflight' = Tail(inflight)

\* The write's handler.  A failed frame may have been sent, unless the socket
\* was closed before.
OnWritten ==
  /\ inflight # <<>> /\ writes # <<>>
  /\ \/ /\ "ok" \in Head(inflight).can
        /\ wire' = Append(wire, Head(inflight).frame)
        /\ told' = Append(told, <<Head(writes), "ok">>)
        /\ start_write(Tail(writes), Tail(inflight))
        /\ UNCHANGED chan
     \/ /\ OnWriteError
        /\ \/ UNCHANGED wire
           \/ /\ "ok" \in Head(inflight).can
              /\ wire' = Append(wire, Head(inflight).frame)
  /\ UNCHANGED <<socket, op, reading, closing, calls, world>>

\* async_close.
Close ==
  /\ calls.close < MaxCloses
  /\ calls' = [calls EXCEPT !.close = @ + 1]
  /\ IF chan.opened
     THEN /\ chan' = [chan EXCEPT !.opened = FALSE]
          /\ closing' = [stage |-> "close", can |-> Prospects]
          /\ UNCHANGED socket
     ELSE cancel_io(chan) /\ UNCHANGED closing
  /\ UNCHANGED <<op, reading, writes, inflight, wire, told, world>>

OnClosed ==
  /\ closing # Idle
  /\ closing' = Idle
  /\ cancel_io([chan EXCEPT !.ended = TRUE])
  /\ UNCHANGED <<op, reading, writes, inflight, wire, told, calls, world>>

\* cancel; ended notes that it met an open channel.
Cancel ==
  /\ calls.opened > 0
  /\ cancel_io([chan EXCEPT !.ended = @ \/ chan.opened])
  /\ UNCHANGED <<op, reading, closing, writes, inflight, wire, told, calls,
                 world>>

-----------------------------------------------------------------------------
(* The caller's stop token and the clock (external). *)

RequestStop ==
  /\ ~stopped
  /\ stopped' = TRUE
  /\ chan' = [chan EXCEPT !.stop = IF @ = "on" THEN "queued" ELSE @]
  /\ UNCHANGED <<socket, op, reading, closing, writes, inflight, wire, told,
                 calls, expired>>

DeadlinePasses ==
  /\ ~expired
  /\ expired' = TRUE
  /\ chan' = [chan EXCEPT !.timer = IF @ = "armed" THEN "queued" ELSE @]
  /\ UNCHANGED <<socket, op, reading, closing, writes, inflight, wire, told,
                 calls, stopped>>

Next ==
  \/ Open \/ OnOpening \/ OnStreamTimeout \/ OnDeadline \/ OnStop
  \/ Read \/ OnRead \/ Write \/ OnWritten \/ Close \/ OnClosed \/ Cancel
  \/ RequestStop \/ DeadlinePasses

Spec == Init /\ [][Next]_vars

\* The executor runs queued handlers, and the operations of a closed socket
\* end; the resolver ends when it is cancelled.  Of the network and the peer
\* nothing is assumed.
Fairness ==
  /\ WF_vars(DeadlinePasses) /\ WF_vars(OnDeadline)
  /\ WF_vars(OnStreamTimeout)
  /\ WF_vars(/\ socket = "closed" /\ (op.stage = "resolve" => ~chan.opening)
             /\ OnOpening)
  /\ WF_vars(socket = "closed" /\ OnRead)
  /\ WF_vars(socket = "closed" /\ OnWritten)

FairSpec == Spec /\ Fairness

-----------------------------------------------------------------------------
(* What must hold. *)

\* At most one frame is handed to the stream at a time and it is the front of
\* the queue, which the write's handler takes off (websocket.cpp:331-347): the
\* handler never finds the queue empty, and never answers for another frame.
OneWriteAtATime ==
  /\ Len(inflight) <= 1
  /\ inflight # <<>> => writes # <<>> /\ inflight[1].frame = writes[1]

\* The frames go out in the order they were given in and each at most once,
\* whatever closes the channel in between (websocket.cpp:335-364).
SentInOrder ==
  \A i, j \in 1..Len(wire) : i < j => wire[i] < wire[j]

\* A write is answered once, and truly: a frame whose write was refused is
\* never sent, and one whose write succeeded was (websocket.cpp:321-347,
\* 431-437).
AnswersAreTrue ==
  /\ \A i, j \in 1..Len(told) : told[i][1] = told[j][1] => i = j
  /\ \A i \in 1..Len(told) :
       /\ told[i][2] = "refused" => \A k \in 1..Len(wire) : wire[k] # told[i][1]
       /\ told[i][2] = "ok" => \E k \in 1..Len(wire) : wire[k] = told[i][1]

\* Every opening is answered, although the deadline's handler may run while
\* the resolver's success is queued, which then opens the socket again
\* (websocket.cpp:152-158, 206-234): the stream has the same deadline.
OpenIsAnswered == (calls.opened > 0) ~> (calls.answered # <<>>)

\* Once an open channel was cancelled its read and its write end
\* (websocket.cpp:392-401): the clients count on the handlers being called, or
\* else the channel, which the handlers keep alive, would stay for ever.
CancelEndsIo == []<>(chan.ended => reading = Idle /\ inflight = <<>>)

=============================================================================
