--------------------------- MODULE PublicWsClient ---------------------------
(***************************************************************************)
(* The public market stream (src/src/public_wss.cpp): topics, their        *)
(* subscription requests and freshness, reconnection with backoff, and the *)
(* bounded queue of events the host reads.                                 *)
(*                                                                         *)
(* The strand runs one handler at a time, and what a handler dispatches    *)
(* runs inside it.  Each connection is a generation with a channel of its  *)
(* own; the outcome of an operation is chosen when its handler runs.  A    *)
(* cancelled timer or read may have completed just before, so cancelling   *)
(* rules nothing out: the tests in the handlers must.                      *)
(***************************************************************************)
EXTENDS ReconnectBackoff

CONSTANTS
  Topics,             \* topics a host may ask for
  StartTopics,        \* those it starts with
  SnapshotBacked,     \* topics whose subscription is answered by a snapshot
  MaxStamp,           \* server timestamps are 1..MaxStamp
  MaxPendingEvents,   \* options.max_pending_events
  Elapsed,            \* times that may pass between two failures
  MaxGeneration,      \* bound: connections made
  MaxCalls            \* bound: subscribe and unsubscribe calls

ASSUME PublicAssumption ==
  /\ StartTopics \subseteq Topics /\ SnapshotBacked \subseteq Topics
  /\ MaxStamp \in Nat /\ MaxPendingEvents \in Nat \ {0} /\ Elapsed \subseteq Nat
  /\ MaxGeneration \in Nat /\ MaxCalls \in Nat

VARIABLES
  client,     \* the members of PublicWsClient::Impl
  channels,   \* generation -> operations whose handlers have not run
  calls,      \* subscribe and unsubscribe calls made
  crashed     \* a member of a null channel was called

vars == <<client, channels, calls, crashed>>

Generations == 1..MaxGeneration
Requests == {"subscribe", "unsubscribe"} \X Topics
NoRequests == [r \in Requests |-> 0]

\* A TopicRuntime of a desired topic, and a topic that is not desired.
NewTopic == [desired |-> "yes", acked |-> "no", fresh |-> "no", stamp |-> 0]
NoTopic == [NewTopic EXCEPT !.desired = "no"]

(* "on" are the Boolean members and "ack_timer", a handler of the ack      *)
(* timer that has not run; "timers" are the generations with a handler of  *)
(* the reconnect timer that has not run.  The last three are history: the  *)
(* newest stamp of each topic delivered on this connection, whether data   *)
(* was dropped and the host not alarmed since, and whether an open         *)
(* connection delivered an older stamp after a newer one.                  *)
Init ==
  /\ client = [state |-> "stopped", generation |-> 0, on |-> {},
               topics |-> [t \in Topics |-> NoTopic], pending |-> NoRequests,
               events |-> <<>>, timers |-> {}, backoff |-> NewBackoff,
               delivered |-> [t \in Topics |-> 0], lost |-> "no",
               regressed |-> "no"]
  /\ channels = [g \in Generations |-> {}]
  /\ calls = 0
  /\ crashed = FALSE

-----------------------------------------------------------------------------
(* The client's methods, on its record. *)

Has(c, flag) == flag \in c.on
Desired(c) == {t \in Topics : c.topics[t].desired = "yes"}
Awaits(c) == \E r \in Requests : c.pending[r] > 0
Full(c) == Len(c.events) >= MaxPendingEvents
Enqueue(c, what) == [c EXCEPT !.events = Append(@, what)]

(* set_state, forced.  A state that does not fit clears the queue.         *)
SetState(c, state) ==
  IF Full(c)
  THEN [c EXCEPT !.state = state, !.events = <<"degraded">>,
                 !.lost = IF \E i \in DOMAIN c.events : c.events[i] = "data"
                          THEN "yes" ELSE @]
  ELSE [Enqueue(c, state) EXCEPT !.state = state]

SetStateIfNew(c, state) == IF c.state = state THEN c ELSE SetState(c, state)

\* What connect and schedule_reconnect do to the topics.
Forgotten(topics) ==
  [t \in Topics |-> IF topics[t].desired = "yes" THEN NewTopic ELSE NoTopic]

(* schedule_reconnect, dt after the backoff was last asked.                *)
ScheduleReconnect(c, dt) ==
  IF ~Has(c, "started") \/ Has(c, "reconnect_pending") THEN c
  ELSE LET down == [c EXCEPT !.on = {"started", "reconnect_pending"},
                             !.pending = NoRequests,
                             !.topics = Forgotten(@),
                             !.backoff = Attempt(@, dt)]
       IN  [SetState(down, "reconnect_wait") EXCEPT
              !.timers = @ \cup {c.generation}]

HardStop(c) == SetState([c EXCEPT !.on = {}, !.pending = NoRequests], "stopped")

(* Variant: an open connection counts as stable.                           *)
ConnectingStable(c) ==
  SetState([c EXCEPT !.generation = @ + 1,
                     !.on = {"started", "channel"} \cup (@ \cap {"session_open"}),
                     !.pending = NoRequests, !.topics = Forgotten(@),
                     !.backoff = MarkStable(@),
                     !.delivered = [t \in Topics |-> 0]], "connecting")

(* connect, up to async_open.  A timer left over from an earlier run of the *)
(* client may call it while a session is open, whose flag it leaves set.   *)
Connecting(c) ==
  SetState([c EXCEPT !.generation = @ + 1,
                     !.on = {"started", "channel"} \cup (@ \cap {"session_open"}),
                     !.pending = NoRequests, !.topics = Forgotten(@),
                     !.delivered = [t \in Topics |-> 0]], "connecting")

(* Variant: acknowledgements alone make the stream live.                   *)
UpdateFreshnessAcked(c) ==
  IF \E t \in Desired(c) : c.topics[t].acked = "no"
  THEN SetStateIfNew(c, "subscribing")
  ELSE SetStateIfNew([c EXCEPT !.backoff = IF c.state = "live" THEN @
                                           ELSE MarkStable(@)], "live")

(* update_freshness_state.                                                 *)
UpdateFreshness(c) ==
  IF \E t \in Desired(c) : c.topics[t].acked = "no"
  THEN SetStateIfNew(c, "subscribing")
  ELSE IF \E t \in Desired(c) : c.topics[t].fresh = "no"
  THEN SetStateIfNew(c, "synchronizing")
  ELSE SetStateIfNew([c EXCEPT !.backoff = IF c.state = "live" THEN @
                                           ELSE MarkStable(@)], "live")

(* opened: every desired topic is subscribed and the ack timer armed.      *)
Subscribing(c) ==
  [SetState([c EXCEPT !.on = @ \cup {"session_open"}], "subscribing")
     EXCEPT !.pending = [r \in Requests |->
                           IF r[1] = "subscribe" /\ r[2] \in Desired(c)
                           THEN 1 ELSE 0],
            !.on = @ \cup {"ack_timer"}]

Acknowledged(topic, t) ==
  [topic EXCEPT !.acked = "yes",
                !.fresh = IF t \in SnapshotBacked THEN @ ELSE "yes"]

(* handle_response to a request that is pending and was granted.           *)
Granted(c, r, dt) ==
  LET t == r[2]
      answered == [c EXCEPT !.pending[r] = @ - 1]
  IN  IF r[1] = "unsubscribe"
      THEN UpdateFreshness([answered EXCEPT !.topics[t] = NoTopic,
                                             !.delivered[t] = 0])
      ELSE IF t \notin Desired(c) THEN ScheduleReconnect(answered, dt)
      ELSE UpdateFreshness(
             [answered EXCEPT !.topics[t] = Acknowledged(@, t)])

(* Variant: an event that does not fit is dropped.                         *)
DeliverOrDrop(c, dt) ==
  IF Full(c) THEN [c EXCEPT !.lost = "yes"] ELSE Enqueue(c, "data")

(* A data event that does not fit costs the connection.                    *)
Deliver(c, dt) ==
  IF Full(c) THEN ScheduleReconnect([c EXCEPT !.lost = "yes"], dt)
  ELSE Enqueue(c, "data")

Refreshed(topic, stamp) ==
  [topic EXCEPT !.fresh = "yes", !.stamp = IF stamp = 0 THEN @ ELSE stamp]

(* handle_data; stamp 0 is a message without a timestamp.                  *)
HandleData(c, t, stamp, dt) ==
  IF t \notin Desired(c) \/ (0 < stamp /\ stamp < c.topics[t].stamp)
  THEN ScheduleReconnect(c, dt)
  ELSE Deliver(UpdateFreshness(
         [c EXCEPT !.topics[t] = Refreshed(@, stamp),
                   !.delivered[t] = IF stamp = 0 THEN @ ELSE stamp,
                   !.regressed = IF /\ 0 < stamp /\ stamp < c.delivered[t]
                                    /\ Has(c, "session_open")
                                 THEN "yes" ELSE @]), dt)

-----------------------------------------------------------------------------
(* Handlers. *)

Current(g) == Has(client, "started") /\ g = client.generation

\* The storm cooldown was waited out before the backoff is asked again.
Waited(dt) == dt >= client.backoff.cooldown

Becomes(c, chs) ==
  client' = c /\ channels' = chs /\ UNCHANGED <<calls, crashed>>

(* connect, for the client c.  The factory or the key provider may fail.   *)
Connect(c, dt) ==
  /\ c.generation < MaxGeneration
  /\ \/ Becomes(Connecting(c),
                [channels EXCEPT ![c.generation + 1] = {"open"}])
     \/ Becomes(ScheduleReconnect(Connecting(c), dt), channels)

(* begin, with valid options.  Topics of an earlier run are still desired. *)
Start(dt) ==
  /\ ~Has(client, "started")
  /\ Connect([client EXCEPT
       !.topics = [t \in Topics |-> IF t \in StartTopics \cup Desired(client)
                                    THEN NewTopic ELSE NoTopic],
       !.backoff = MarkStable(@)], dt)

(* request_stop.                                                           *)
Stop == Becomes(HardStop(client), channels)

(* opened, without and with an error.  A channel given up meanwhile is     *)
(* null: nothing is read, and asking for a topic is undefined.             *)
OnOpened(g) ==
  /\ "open" \in channels[g]
  /\ \/ /\ ~Current(g)
        /\ Becomes(client, [channels EXCEPT ![g] = {}])
     \/ /\ Current(g) /\ (Has(client, "channel") \/ Desired(client) = {})
        /\ Becomes(Subscribing(client),
                   [channels EXCEPT ![g] =
                      {op \in {"read", "write"} :
                         /\ Has(client, "channel")
                         /\ op = "write" => Desired(client) # {}}])
     \/ /\ Current(g) /\ ~Has(client, "channel") /\ Desired(client) # {}
        /\ crashed' = TRUE /\ UNCHANGED <<client, channels, calls>>

OnFailed(g, op, dt) ==
  /\ op \in channels[g] /\ Waited(dt)
  /\ Becomes(IF Current(g) THEN ScheduleReconnect(client, dt) ELSE client,
             [channels EXCEPT ![g] = @ \ {op}])

\* All writes of the channel have succeeded.
OnWritten(g) ==
  /\ "write" \in channels[g]
  /\ Becomes(client, [channels EXCEPT ![g] = @ \ {"write"}])

\* The end of received: the client became c, and read_next.
ReadOn(g, c, ops) ==
  Becomes(c, [channels EXCEPT ![g] =
                IF Has(c, "channel") THEN ops \cup {"read"} ELSE ops])

(* echo_heartbeat: the call is undefined on a null channel.                *)
OnHeartbeat(g, ops) ==
  IF Has(client, "channel") THEN ReadOn(g, client, ops \cup {"write"})
  ELSE crashed' = TRUE /\ UNCHANGED <<client, channels, calls>>

(* received: a heartbeat, an answer, an unknown topic, data, or a frame    *)
(* that ends the connection: it does not decode, refuses a request, or     *)
(* answers none.                                                           *)
OnFrame(g, dt) ==
  /\ "read" \in channels[g] /\ Waited(dt)
  /\ LET ops == channels[g] \ {"read"}
     IN  \/ ~Current(g) /\ Becomes(client, [channels EXCEPT ![g] = ops])
         \/ Current(g) /\ OnHeartbeat(g, ops)
         \/ Current(g) /\ ReadOn(g, ScheduleReconnect(client, dt), ops)
         \/ Current(g) /\ ReadOn(g, SetState(client, "degraded"), ops)
         \/ /\ Current(g)
            /\ \E r \in Requests :
                 client.pending[r] > 0 /\ ReadOn(g, Granted(client, r, dt), ops)
         \/ /\ Current(g)
            /\ \E t \in Topics, stamp \in 0..MaxStamp :
                 ReadOn(g, HandleData(client, t, stamp, dt), ops)

(* The heartbeat timer is armed by opened.  What it does later, its        *)
(* connection gone, is nothing.                                            *)
OnHeartbeatTimer(dt) ==
  /\ Has(client, "session_open") /\ "open" \notin channels[client.generation]
  /\ Waited(dt)
  /\ Becomes(ScheduleReconnect(client, dt), channels)

OnAckTimer(dt) ==
  /\ Has(client, "ack_timer") /\ Waited(dt)
  /\ LET c == [client EXCEPT !.on = @ \ {"ack_timer"}]
     IN  Becomes(IF Awaits(c) THEN ScheduleReconnect(c, dt) ELSE c, channels)

(* The reconnect timer's handler looks at no generation.                   *)
OnReconnectTimer(g, dt) ==
  /\ g \in client.timers /\ Waited(dt)
  /\ LET c == [client EXCEPT !.timers = @ \ {g},
                             !.on = @ \ {"reconnect_pending"}]
     IN  IF Has(c, "started") THEN Connect(c, dt) ELSE Becomes(c, channels)

\* May send_subscription be called?
Open == {"started", "session_open", "channel"} \subseteq client.on

\* A channel that is still opening refuses the write at once.
RefusedRequest(c) ==
  /\ \E dt \in Elapsed :
       /\ Waited(dt)
       /\ client' = [ScheduleReconnect(c, dt) EXCEPT !.on = @ \cup {"ack_timer"}]
  /\ UNCHANGED channels

(* Variant: the ack timer is not armed again.                              *)
RequestUnarmed(c, r) ==
  IF "open" \in channels[c.generation] THEN RefusedRequest(c)
  ELSE /\ client' = [c EXCEPT !.pending[r] = @ + 1]
       /\ channels' = [channels EXCEPT ![c.generation] = @ \cup {"write"}]

(* send_subscription and arm_ack_timeout.                                  *)
Request(c, r) ==
  IF "open" \in channels[c.generation] THEN RefusedRequest(c)
  ELSE /\ client' = [c EXCEPT !.pending[r] = @ + 1, !.on = @ \cup {"ack_timer"}]
       /\ channels' = [channels EXCEPT ![c.generation] = @ \cup {"write"}]

(* add_topic and remove_topic.  A topic that is being removed is still     *)
(* there, so asking for it again does nothing.                             *)
AddTopic(t) ==
  /\ calls < MaxCalls /\ calls' = calls + 1
  /\ t \notin Desired(client)
  /\ LET c == [client EXCEPT !.topics[t] = NewTopic]
     IN  IF Open THEN Request(c, <<"subscribe", t>>)
         ELSE client' = c /\ UNCHANGED channels
  /\ UNCHANGED crashed

AddInvalidTopic ==
  /\ calls < MaxCalls /\ calls' = calls + 1
  /\ client' = SetState(client, "degraded")
  /\ UNCHANGED <<channels, crashed>>

RemoveTopic(t) ==
  /\ calls < MaxCalls /\ calls' = calls + 1
  /\ t \in Desired(client)
  /\ IF Open THEN Request(client, <<"unsubscribe", t>>)
     ELSE /\ client' = [client EXCEPT !.topics[t] = NoTopic]
          /\ UNCHANGED channels
  /\ UNCHANGED crashed

-----------------------------------------------------------------------------
(* The host (external), and the specification. *)

Alarms == {"degraded", "reconnect_wait", "connecting", "stopped"}

(* try_pop_event.                                                          *)
Pop ==
  /\ client.events # <<>>
  /\ client' = [client EXCEPT
                  !.events = Tail(@),
                  !.lost = IF Head(client.events) \in Alarms THEN "no" ELSE @]
  /\ UNCHANGED <<channels, calls, crashed>>

Next ==
  /\ ~crashed
  /\ \/ Stop \/ Pop \/ AddInvalidTopic
     \/ \E t \in Topics : AddTopic(t) \/ RemoveTopic(t)
     \/ \E dt \in Elapsed : Start(dt) \/ OnHeartbeatTimer(dt) \/ OnAckTimer(dt)
     \/ \E g \in Generations :
          \/ OnOpened(g) \/ OnWritten(g)
          \/ \E dt \in Elapsed :
               \/ OnFrame(g, dt) \/ OnReconnectTimer(g, dt)
               \/ \E op \in {"open", "read", "write"} : OnFailed(g, op, dt)

Spec == Init /\ [][Next]_vars

(* An open ends, by its deadline if by nothing else, and a timer that was  *)
(* not cancelled expires.  Nothing is assumed of the server or the host,   *)
(* nor of the last connection within the bound.                            *)
Fairness ==
  LET g == client.generation
      Running == ~crashed /\ g \in 1..(MaxGeneration - 1)
  IN  /\ WF_vars(Running /\ (\/ OnOpened(g)
                             \/ \E dt \in Elapsed : OnFailed(g, "open", dt)))
      /\ WF_vars(/\ Running /\ Has(client, "reconnect_pending")
                 /\ \E dt \in Elapsed : OnReconnectTimer(g, dt))
      /\ WF_vars(~crashed /\ Awaits(client) /\ \E dt \in Elapsed : OnAckTimer(dt))

FairSpec == Spec /\ Fairness

-----------------------------------------------------------------------------
(* What must hold. *)

States == {"stopped", "connecting", "subscribing", "synchronizing", "live",
           "degraded", "reconnect_wait"}

Flags == {"started", "channel", "session_open", "reconnect_pending", "ack_timer"}

TopicType ==
  [desired : {"no", "yes"}, acked : {"no", "yes"}, fresh : {"no", "yes"},
   stamp : 0..MaxStamp]

(* The backoff remembers no more attempts than make a storm                *)
(* (reconnect.cpp:39-61).                                                  *)
BackoffType ==
  {b \in [current : InitialDelay..MaxDelay, ages : Seq(Nat), cooldown : Nat] :
     Len(b.ages) <= StormAttempts}

(* The queue keeps its bound (public_wss.cpp:534-565).                     *)
EventsType ==
  {e \in Seq(States \cup {"data"}) : Len(e) <= MaxPendingEvents}

ClientType ==
  [state : States, generation : 0..MaxGeneration, on : SUBSET Flags,
   topics : [Topics -> TopicType], pending : [Requests -> Nat],
   events : EventsType, timers : SUBSET (0..MaxGeneration), backoff : BackoffType,
   delivered : [Topics -> 0..MaxStamp], lost : {"no", "yes"},
   regressed : {"no", "yes"}]

(* The type invariant.                                                     *)
TypeOK ==
  /\ client \in ClientType
  /\ channels \in [Generations -> SUBSET {"open", "read", "write"}]
  /\ calls \in 0..MaxCalls

(* "All desired public topics are fresh" (public_wss.cpp:435): a live      *)
(* client has an open session, and each topic is acknowledged and fresh on *)
(* this very connection, unless its subscription was asked for since and   *)
(* is still unanswered.                                                    *)
LiveIsFresh ==
  client.state = "live" =>
    /\ {"started", "channel", "session_open"} \subseteq client.on
    /\ ~Has(client, "reconnect_pending")
    /\ \A t \in Desired(client) :
         \/ client.topics[t].acked = "yes" /\ client.topics[t].fresh = "yes"
         \/ client.pending[<<"subscribe", t>>] > 0

(* While its session is open a connection never delivers, for one          *)
(* subscription of a topic, an older timestamp after a newer one           *)
(* (public_wss.cpp:394-400).                                               *)
StampsAreOrdered == client.regressed = "no"

(* Data the bounded queue could not keep does not go missing silently:     *)
(* until the host has read an alarm, one is queued, or the connection is   *)
(* down and the next one will raise it (public_wss.cpp:405-409, 548-565).  *)
LossIsAnnounced ==
  client.lost = "yes" =>
    \/ \E i \in DOMAIN client.events : client.events[i] \in Alarms
    \/ ~Has(client, "session_open")

(* A message of topic t is all that is missing.                            *)
LiveButFor(t) ==
  \A u \in Desired(client) :
    client.topics[u].acked = "yes" /\ (u = t \/ client.topics[u].fresh = "yes")

(* "Backoff resets only after the caller has reached a semantically live   *)
(* state, never merely after a TCP/TLS open" (net/reconnect.hpp;           *)
(* public_wss.cpp:156, 405-409, 433-435): the delay shrinks, or a storm is *)
(* forgotten, only when the stream goes live, or went live by a message    *)
(* that the queue could not keep, which ends the connection in the same    *)
(* step, or the host starts it anew.                                       *)
BackoffSurvivesConnecting ==
  [][\/ client'.backoff.current < client.backoff.current
     \/ client.backoff.cooldown > 0 /\ client'.backoff = NewBackoff
     => \/ client'.state = "live" \/ ~Has(client, "started")
        \/ client'.lost = "yes" /\ \E t \in Desired(client) : LiveButFor(t)]_vars

(* A connection is established and all its requests are answered, or it is *)
(* replaced, or the host stops it: no open, request or wait lasts forever, *)
(* whatever the server does not send (public_wss.cpp:211-240, 452-502,     *)
(* 514-530).  A call through the null channel ends the process.            *)
Progress ==
  \A g \in 1..(MaxGeneration - 1) :
    client.generation = g ~>
      \/ client.generation > g \/ ~Has(client, "started") \/ crashed
      \/ /\ Has(client, "session_open") /\ ~Awaits(client)
         /\ "open" \notin channels[g]
=============================================================================
