--------------------------- MODULE PrivateWsClient ---------------------------
(***************************************************************************)
(* The private wallet stream: src/private_wss.cpp over the channels of     *)
(* src/websocket.cpp.                                                      *)
(*                                                                         *)
(* Each connection is a generation with a channel of its own.  The outcome *)
(* of an operation or of a timer is chosen when its handler runs: whatever *)
(* is cancelled may have completed just before, its handler queued, so     *)
(* cancelling rules nothing out; the generation and the flags that the     *)
(* handlers test must.  The executor runs one handler at a time, and what  *)
(* a handler dispatches to the strand or to the channel runs inside it.    *)
(***************************************************************************)
EXTENDS Naturals, Sequences

CONSTANTS
  MaxPendingEvents,   \* ClientOptions::max_pending_events
  MaxGeneration       \* bound: connections made

ASSUME BoundsAssumption ==
  MaxPendingEvents \in Nat \ {0} /\ MaxGeneration \in Nat \ {0}

VARIABLES
  client,     \* state, generation, flags, event queue, timers; and a ghost:
              \* a wallet event was dropped and the host not alarmed since
  channels,   \* per generation: the operations whose handlers have not run,
              \* whether it is opened, and its connect deadline's handler
  known,      \* generations the host was told to reconcile
  marked,     \* generations whose mark_reconciled took effect
  crashed     \* a member of a null channel was called

vars == <<client, channels, marked, known, crashed>>

Generations == 1..MaxGeneration
States == {"stopped", "connecting", "subscribing", "reconciliation_required",
           "live", "reconnect_wait"}
Flags == {"started", "channel", "session_open", "awaiting_ack", "reconciled",
          "reconnect_pending"}
Timers == {"reconnect", "heartbeat", "ack"}

Operations == {"open", "read", "write"}
Channel ==
  [pending : SUBSET Operations, opened : {"no", "yes"},
   deadline : {"off", "queued"}]

Init ==
  /\ client = [state |-> "stopped", generation |-> 0, on |-> {},
               events |-> <<>>, timers |-> {}, lost |-> "no"]
  /\ channels = [g \in Generations |->
                   [pending |-> {}, opened |-> "no", deadline |-> "off"]]
  /\ marked = {} /\ known = {}
  /\ crashed = FALSE

-----------------------------------------------------------------------------
(* The client's methods, on its record. *)

Has(c, flag) == flag \in c.on

Event(c, what) ==
  [what |-> what, generation |-> c.generation,
   reconciled |-> IF what = "data" /\ Has(c, "reconciled") THEN "yes" ELSE "no"]

Full(c) == Len(c.events) >= MaxPendingEvents

\* The ghost after the queue is cleared.
LostIfCleared(c) ==
  IF \E i \in DOMAIN c.events : c.events[i].what = "data" THEN "yes" ELSE c.lost

\* Variant: a state that does not fit replaces the queue by itself.
SetStateOverwriting(c, state) ==
  IF Full(c)
  THEN [c EXCEPT !.state = state, !.events = <<Event(c, state)>>,
                 !.lost = LostIfCleared(c)]
  ELSE [c EXCEPT !.state = state, !.events = Append(@, Event(c, state))]

\* set_state, forced by all callers: a state that does not fit clears the queue.
SetState(c, state) ==
  IF Full(c)
  THEN [c EXCEPT !.state = state, !.events = <<Event(c, "degraded")>>,
                 !.lost = LostIfCleared(c)]
  ELSE [c EXCEPT !.state = state, !.events = Append(@, Event(c, state))]

\* async_wait: a handler, of this generation, that has not run.
Arm(c, timer) == [c EXCEPT !.timers = @ \cup {<<timer, c.generation>>}]

ScheduleReconnect(c) ==
  IF ~Has(c, "started") \/ Has(c, "reconnect_pending") THEN c
  ELSE Arm(SetState([c EXCEPT !.on = {"started", "reconnect_pending"}],
                    "reconnect_wait"), "reconnect")

HardStop(c) == SetState([c EXCEPT !.on = {}], "stopped")

\* connect, up to async_open.
Connecting(c) ==
  SetState([c EXCEPT !.generation = @ + 1, !.on = {"started", "channel"}],
           "connecting")

\* handle_response to a positive answer with the expected id.
Accepted(c) ==
  IF ~Has(c, "awaiting_ack") THEN ScheduleReconnect(c)
  ELSE SetState([c EXCEPT !.on = @ \ {"awaiting_ack", "reconciled"}],
                "reconciliation_required")

\* received, with a wallet event.
Delivered(c) ==
  IF Full(c) THEN ScheduleReconnect([c EXCEPT !.lost = "yes"])
  ELSE [c EXCEPT !.events = Append(@, Event(c, "data"))]

-----------------------------------------------------------------------------
(* The channel's methods, on its record. *)

CancelIo(ch) == [ch EXCEPT !.opened = "no"]

Begin(ch, op) == [ch EXCEPT !.pending = @ \cup {op}]

-----------------------------------------------------------------------------
(* Handlers. *)

Current(g) == Has(client, "started") /\ g = client.generation

\* The end of a handler: the client becomes c and the channels chs.  A channel
\* that the client drops is cancelled.
Becomes(c, chs) ==
  /\ client' = c
  /\ channels' =
       IF Has(client, "channel") /\ ~Has(c, "channel")
       THEN [chs EXCEPT ![client.generation] = CancelIo(@)] ELSE chs
  /\ UNCHANGED <<marked, known, crashed>>

\* connect: the channel of an earlier generation is replaced, not cancelled.
\* The channel factory or the key provider may fail.
Connect(c) ==
  /\ c.generation < MaxGeneration
  /\ \/ /\ client' = Connecting(c)
        /\ channels' = [channels EXCEPT ![c.generation + 1] = Begin(@, "open")]
     \/ /\ client' = ScheduleReconnect(Connecting(c))
        /\ UNCHANGED channels
  /\ UNCHANGED <<marked, known, crashed>>

\* begin, with valid options.
Start == ~Has(client, "started") /\ Connect(client)

\* request_stop.
Stop == Becomes(HardStop(client), channels)

\* opened without an error, called from the handshake's handler.  The token
\* provider of subscribe may fail.
OnOpened(g) ==
  /\ "open" \in channels[g].pending
  /\ LET up == [pending |-> {}, opened |-> "yes", deadline |-> "queued"]
         busy == Begin(up, "read")
         c == Arm(SetState([client EXCEPT !.on = @ \cup {"session_open"}],
                           "subscribing"), "heartbeat")
     IN \/ ~Current(g) /\ Becomes(client, [channels EXCEPT ![g] = up])
        \/ /\ Current(g)
           /\ Becomes(Arm([c EXCEPT !.on = @ \cup {"awaiting_ack"}], "ack"),
                      [channels EXCEPT ![g] = Begin(busy, "write")])
        \/ /\ Current(g)
           /\ Becomes(Arm(ScheduleReconnect(c), "ack"),
                      [channels EXCEPT ![g] = busy])

\* A failed open, read or write.
OnFailed(g, op) ==
  /\ op \in channels[g].pending
  /\ Becomes(IF Current(g) THEN ScheduleReconnect(client) ELSE client,
             [channels EXCEPT ![g].pending = @ \ {op}, ![g].opened = "no"])

\* All writes of the channel have succeeded.
OnWritten(g) ==
  /\ "write" \in channels[g].pending
  /\ Becomes(client, [channels EXCEPT ![g].pending = @ \ {"write"}])

\* received, and read_next, which fails at once on a channel that is closed.
ReadOn(g, c, ch) ==
  IF ~Has(c, "channel") THEN Becomes(c, [channels EXCEPT ![g] = ch])
  ELSE IF ch.opened = "yes"
  THEN Becomes(c, [channels EXCEPT ![g] = Begin(ch, "read")])
  ELSE Becomes(ScheduleReconnect(c), [channels EXCEPT ![g] = ch])

\* echo_heartbeat: the write fails at once on a closed channel, and the call
\* is undefined on a null one.
OnHeartbeat(g, ch) ==
  LET c == Arm(client, "heartbeat")
  IN IF ~Has(client, "channel")
     THEN crashed' = TRUE /\ UNCHANGED <<client, channels, marked, known>>
     ELSE IF ch.opened = "yes" THEN ReadOn(g, c, Begin(ch, "write"))
     ELSE ReadOn(g, ScheduleReconnect(c), ch)

\* A frame was read: a heartbeat, an acceptance of the subscription, a wallet
\* event, or one that ends the connection: a refusal, an answer to another
\* request, a frame that does not decode.
OnFrame(g) ==
  /\ "read" \in channels[g].pending
  /\ LET ch == [channels[g] EXCEPT !.pending = @ \ {"read"}]
     IN \/ ~Current(g) /\ Becomes(client, [channels EXCEPT ![g] = ch])
        \/ Current(g) /\ OnHeartbeat(g, ch)
        \/ Current(g) /\ ReadOn(g, Accepted(client), ch)
        \/ Current(g) /\ ReadOn(g, Delivered(client), ch)
        \/ Current(g) /\ ReadOn(g, ScheduleReconnect(client), ch)

\* The channel's own connect deadline, if it expired before the handshake's
\* handler cancelled it.
OnConnectDeadline(g) ==
  /\ channels[g].deadline = "queued"
  /\ channels' = [channels EXCEPT ![g] = [CancelIo(@) EXCEPT !.deadline = "off"]]
  /\ UNCHANGED <<client, marked, known, crashed>>

Dequeued(timer, g) == [client EXCEPT !.timers = @ \ {<<timer, g>>}]

OnReconnectTimer(g) ==
  /\ <<"reconnect", g>> \in client.timers
  /\ LET c == Dequeued("reconnect", g)
     IN IF Has(c, "started") THEN Connect(c) ELSE Becomes(c, channels)

OnHeartbeatTimer(g) ==
  /\ <<"heartbeat", g>> \in client.timers
  /\ LET c == Dequeued("heartbeat", g)
     IN Becomes(IF Current(g) THEN ScheduleReconnect(c) ELSE c, channels)

\* Variant: the acknowledgement's deadline is not acted on.
OnAckTimerIgnored(g) ==
  /\ <<"ack", g>> \in client.timers
  /\ Becomes(Dequeued("ack", g), channels)

OnAckTimer(g) ==
  /\ <<"ack", g>> \in client.timers
  /\ LET c == Dequeued("ack", g)
     IN Becomes(IF Current(g) /\ Has(c, "awaiting_ack")
                THEN ScheduleReconnect(c) ELSE c, channels)

Reconciled == SetState([client EXCEPT !.on = @ \cup {"reconciled"}], "live")

\* Variant: the gate does not compare generations.
ReconcileAny(g) ==
  /\ g \in known
  /\ {"started", "session_open"} \subseteq client.on
  /\ ~Has(client, "awaiting_ack") /\ client.state = "reconciliation_required"
  /\ client' = Reconciled
  /\ marked' = marked \cup {g}
  /\ UNCHANGED <<channels, known, crashed>>

\* reconcile: the host has read the REST state for generation g and calls
\* mark_reconciled, however late; a call that fails the test does nothing.
Reconcile(g) ==
  /\ g \in known
  /\ Current(g) /\ Has(client, "session_open")
  /\ ~Has(client, "awaiting_ack") /\ client.state = "reconciliation_required"
  /\ client' = Reconciled
  /\ marked' = marked \cup {g}
  /\ UNCHANGED <<channels, known, crashed>>

-----------------------------------------------------------------------------
(* The host (external), and the specification. *)

Alarms == {"degraded", "reconnect_wait", "connecting", "stopped"}

\* try_pop_event.
Pop ==
  /\ client.events # <<>>
  /\ LET e == Head(client.events)
     IN /\ client' = [client EXCEPT !.events = Tail(@),
                        !.lost = IF e.what \in Alarms THEN "no" ELSE @]
        /\ known' = IF e.what = "reconciliation_required"
                    THEN known \cup {e.generation} ELSE known
  /\ UNCHANGED <<channels, marked, crashed>>

ChannelHandler(g) ==
  \/ OnOpened(g) \/ OnWritten(g) \/ OnFrame(g) \/ OnConnectDeadline(g)
  \/ \E op \in Operations : OnFailed(g, op)

TimerHandler(g) ==
  OnReconnectTimer(g) \/ OnHeartbeatTimer(g) \/ OnAckTimer(g)

Next ==
  /\ ~crashed
  /\ \/ Start \/ Stop \/ Pop
     \/ \E g \in Generations :
          ChannelHandler(g) \/ TimerHandler(g) \/ Reconcile(g)

Spec == Init /\ [][Next]_vars

\* An open ends, by its deadline if by nothing else, and a timer that was not
\* cancelled expires.  Nothing is assumed of the server or of the host.
Fairness ==
  \A g \in Generations :
    /\ WF_vars(~crashed /\ (OnOpened(g) \/ OnFailed(g, "open")))
    /\ WF_vars(/\ ~crashed /\ Has(client, "reconnect_pending")
               /\ g = client.generation /\ OnReconnectTimer(g))
    /\ WF_vars(/\ ~crashed /\ Has(client, "awaiting_ack")
               /\ g = client.generation /\ OnAckTimer(g))

FairSpec == Spec /\ Fairness

-----------------------------------------------------------------------------
(* What must hold. *)

Events ==
  [what : States \cup {"degraded", "data"}, generation : Generations \cup {0},
   reconciled : {"no", "yes"}]

Clients ==
  [state : States, generation : Generations \cup {0}, on : SUBSET Flags,
   events : Seq(Events), timers : SUBSET (Timers \X Generations),
   lost : {"no", "yes"}]

\* The type invariant; the event queue keeps its bound (private_wss.cpp:340-365).
TypeOK ==
  /\ client \in Clients
  /\ Len(client.events) <= MaxPendingEvents
  /\ channels \in [Generations -> Channel]
  /\ marked \subseteq Generations /\ known \subseteq Generations \cup {0}
  /\ crashed \in BOOLEAN

\* The gate: the client is live, and flags a wallet event as reconciled, only
\* in a generation the host has marked.  A mark that arrives late, after the
\* connection it was made for was replaced, opens nothing
\* (private_wss.cpp:266-275, types/private_websocket.hpp:103).
GateHolds ==
  /\ client.state = "live" =>
       /\ client.generation \in marked
       /\ {"started", "channel", "session_open", "reconciled"} \subseteq client.on
  /\ \A i \in DOMAIN client.events :
       client.events[i].reconciled = "yes" =>
         client.events[i].generation \in marked

\* A wallet event that the bounded queue could not keep does not go missing
\* silently: until the host has read an event that tells it to reconcile
\* again, one is in the queue (private_wss.cpp:218-222, 354-365).
LossIsAnnounced ==
  client.lost = "yes" =>
    \E i \in DOMAIN client.events : client.events[i].what \in Alarms

Settled(g) ==
  \/ client.generation > g \/ ~Has(client, "started")
  \/ client.state = "reconciliation_required"

Unsettled(g) ==
  /\ client.generation = g
  /\ client.state \in {"connecting", "subscribing", "reconnect_wait"}

\* A connection comes to its reconciliation, is replaced by the next one, or
\* is stopped, whatever the server does or does not send; a call through the
\* null channel ends the process (private_wss.cpp:84-141, 291-338).
Progress ==
  \A g \in 1..(MaxGeneration - 1) : Unsettled(g) ~> Settled(g) \/ crashed

=============================================================================
