------------------------ MODULE PrivateWsClientProofs ------------------------
(***************************************************************************)
(* Proofs for PrivateWsClient: the reconciliation gate and the announcement *)
(* of lost wallet events, for every queue bound and any number of          *)
(* connections.                                                            *)
(***************************************************************************)
EXTENDS PrivateWsClient, TLAPS

Announced(c) == \E i \in DOMAIN c.events : c.events[i].what \in Alarms

\* Nothing follows the last alarm in the queue.
EndsInAlarm(c) ==
  c.events # <<>> /\ c.events[Len(c.events)].what \in Alarms

\* The queue's part of the invariant: its bound, the gate on wallet events.
QueueOK(c, mk) ==
  /\ Len(c.events) <= MaxPendingEvents
  /\ \A i \in DOMAIN c.events :
       c.events[i].reconciled = "yes" => c.events[i].generation \in mk

LossOK(c) == c.lost = "yes" => Announced(c)

\* What the flags say of each other and of the generation.
FlagsOK(c, mk) ==
  /\ Has(c, "started") => c.generation \in Generations
  /\ Has(c, "session_open") => {"started", "channel"} \subseteq c.on
  /\ Has(c, "reconciled") => c.generation \in mk
  /\ Has(c, "reconnect_pending") => c.on = {"started", "reconnect_pending"}
  /\ c.state = "live" =>
       {"started", "channel", "session_open", "reconciled"} \subseteq c.on

ClientOK(c, mk) ==
  c \in Clients /\ QueueOK(c, mk) /\ LossOK(c) /\ FlagsOK(c, mk)

\* While a channel is opening nothing else of its generation is pending, and
\* the client of this generation holds it; generations to come are unused;
\* while a reconnection is pending, a read of the dropped channel finds a
\* queue that is empty or ends in an alarm.
ChannelsOK(c, chs) ==
  /\ \A g \in Generations :
       /\ "open" \in chs[g].pending =>
            /\ chs[g].pending = {"open"}
            /\ \A t \in Timers : <<t, g>> \notin c.timers
            /\ Has(c, "started") /\ g = c.generation => Has(c, "channel")
       /\ g > c.generation =>
            /\ chs[g].pending = {}
            /\ \A t \in Timers : <<t, g>> \notin c.timers
       /\ /\ g = c.generation /\ Has(c, "reconnect_pending")
          /\ "read" \in chs[g].pending
          => c.events = <<>> \/ EndsInAlarm(c)

IInv ==
  /\ TypeOK
  /\ ClientOK(client, marked)
  /\ ChannelsOK(client, channels)

-----------------------------------------------------------------------------
(* The client's methods. *)

\* A queue record with one more event, or with one alone (enqueue, and the
\* clearing in set_state, private_wss.cpp:340-365).
LEMMA AppendFacts ==
  ASSUME NEW q \in Seq(Events), NEW e \in Events
  PROVE  /\ Append(q, e) \in Seq(Events)
         /\ Len(Append(q, e)) = Len(q) + 1
         /\ Append(q, e)[Len(q) + 1] = e
         /\ DOMAIN Append(q, e) = 1..(Len(q) + 1)
         /\ DOMAIN q = 1..Len(q)
         /\ Len(q) \in Nat
         /\ \A i \in 1..Len(q) : Append(q, e)[i] = q[i] /\ q[i] \in Events
         /\ <<e>> \in Seq(Events) /\ Len(<<e>>) = 1 /\ <<e>>[1] = e
         /\ DOMAIN <<e>> = {1}
  OBVIOUS

\* A state event is well formed and never flagged as reconciled; a wallet
\* event is flagged when the gate is open (private_wss.cpp:217-219).
LEMMA EventFacts ==
  ASSUME NEW c \in Clients,
         NEW what \in States \cup {"degraded", "data"}
  PROVE  /\ Event(c, what) \in Events
         /\ Event(c, what).what = what
         /\ Event(c, what).generation = c.generation
         /\ Event(c, what).reconciled = "yes" =>
              what = "data" /\ Has(c, "reconciled")
  BY DEF Event, Events, Clients

\* set_state keeps the queue's bound and gate, and loses no event without
\* leaving an alarm (private_wss.cpp:354-365).
LEMMA SetStateFacts ==
  ASSUME NEW c \in Clients, NEW state \in States, NEW mk, QueueOK(c, mk),
         LossOK(c) \/ state \in Alarms
  PROVE  /\ SetState(c, state) \in Clients
         /\ SetState(c, state).state = state
         /\ SetState(c, state).on = c.on
         /\ SetState(c, state).generation = c.generation
         /\ SetState(c, state).timers = c.timers
         /\ QueueOK(SetState(c, state), mk)
         /\ LossOK(SetState(c, state))
         /\ state \in Alarms => EndsInAlarm(SetState(c, state))
<1> DEFINE r == SetState(c, state)
           e == Event(c, state)
           d == Event(c, "degraded")
<1>1. c.events \in Seq(Events) /\ e \in Events /\ d \in Events
  BY EventFacts DEF Clients
<1>2. /\ e.what = state /\ d.what = "degraded"
      /\ e.reconciled # "yes" /\ d.reconciled # "yes"
  BY EventFacts DEF States
<1> HIDE DEF e, d
<1>3. CASE Full(c)
  <2>1. r = [c EXCEPT !.state = state, !.events = <<d>>,
                      !.lost = LostIfCleared(c)]
    BY <1>3 DEF SetState, d
  <2>2. LostIfCleared(c) \in {"no", "yes"}
    BY DEF LostIfCleared, Clients
  <2>3. /\ r \in Clients /\ r.state = state /\ r.on = c.on
        /\ r.generation = c.generation /\ r.timers = c.timers
        /\ r.events = <<d>>
    <3>1. <<d>> \in Seq(Events)
      BY <1>1, AppendFacts
    <3> QED
      BY <2>1, <2>2, <3>1 DEF Clients
  <2>4. QueueOK(r, mk)
    BY <2>3, <1>1, <1>2, AppendFacts, BoundsAssumption DEF QueueOK
  <2>5. LossOK(r) /\ EndsInAlarm(r)
    BY <2>3, <1>1, <1>2, AppendFacts
    DEF LossOK, Announced, EndsInAlarm, Alarms
  <2> QED
    BY <2>3, <2>4, <2>5
<1>4. CASE ~Full(c)
  <2>1. r = [c EXCEPT !.state = state, !.events = Append(@, e)]
    BY <1>4 DEF SetState, e
  <2>2. /\ r \in Clients /\ r.state = state /\ r.on = c.on
        /\ r.generation = c.generation /\ r.timers = c.timers
        /\ r.events = Append(c.events, e) /\ r.lost = c.lost
    <3>1. Append(c.events, e) \in Seq(Events)
      BY <1>1, AppendFacts
    <3> QED
      BY <2>1, <3>1 DEF Clients
  <2>3. QueueOK(r, mk)
    BY <2>2, <1>1, <1>2, <1>4, AppendFacts, BoundsAssumption DEF QueueOK, Full
  <2>4. LossOK(c) => LossOK(r)
    BY <2>2, <1>1, AppendFacts DEF LossOK, Announced
  <2>5. state \in Alarms => LossOK(r) /\ EndsInAlarm(r)
    BY <2>2, <1>1, <1>2, AppendFacts DEF LossOK, Announced, EndsInAlarm
  <2> QED
    BY <2>2, <2>3, <2>4, <2>5
<1> QED
  BY <1>3, <1>4

\* Arming a timer adds its handler and changes nothing else.
LEMMA ArmFacts ==
  ASSUME NEW c \in Clients, NEW timer \in Timers, c.generation \in Generations
  PROVE  /\ Arm(c, timer) \in Clients
         /\ Arm(c, timer).state = c.state /\ Arm(c, timer).on = c.on
         /\ Arm(c, timer).generation = c.generation
         /\ Arm(c, timer).events = c.events /\ Arm(c, timer).lost = c.lost
         /\ Arm(c, timer).timers = c.timers \cup {<<timer, c.generation>>}
<1>1. c.timers \cup {<<timer, c.generation>>} \subseteq Timers \X Generations
  BY DEF Clients
<1> QED
  BY <1>1 DEF Arm, Clients

\* Arming a timer keeps the client's invariant.
LEMMA ArmKeeps ==
  ASSUME NEW c, NEW mk, ClientOK(c, mk), NEW timer \in Timers,
         c.generation \in Generations
  PROVE  ClientOK(Arm(c, timer), mk)
<1> DEFINE r == Arm(c, timer)
<1>1. /\ r \in Clients /\ r.state = c.state /\ r.on = c.on
      /\ r.generation = c.generation /\ r.events = c.events /\ r.lost = c.lost
  BY ArmFacts DEF ClientOK
<1> HIDE DEF r
<1>2. QueueOK(r, mk) /\ LossOK(r) /\ FlagsOK(r, mk)
  BY <1>1 DEF ClientOK, QueueOK, LossOK, Announced, FlagsOK, Has
<1> QED
  BY <1>1, <1>2 DEF ClientOK, r

\* schedule_reconnect does nothing, or drops every flag of the connection and
\* leaves a queue that ends in an alarm (private_wss.cpp:307-338).
LEMMA ScheduleReconnectFacts ==
  ASSUME NEW c \in Clients, NEW mk, QueueOK(c, mk), FlagsOK(c, mk),
         LossOK(c) \/ (Has(c, "started") /\ ~Has(c, "reconnect_pending"))
  PROVE  /\ ClientOK(ScheduleReconnect(c), mk)
         /\ ScheduleReconnect(c).generation = c.generation
         /\ ScheduleReconnect(c).timers \subseteq
              c.timers \cup {<<"reconnect", c.generation>>}
         /\ \/ ScheduleReconnect(c) = c
            \/ /\ Has(c, "started") /\ ~Has(c, "reconnect_pending")
               /\ ScheduleReconnect(c).on = {"started", "reconnect_pending"}
               /\ EndsInAlarm(ScheduleReconnect(c))
<1>1. CASE ~Has(c, "started") \/ Has(c, "reconnect_pending")
  BY <1>1 DEF ScheduleReconnect, ClientOK
<1>2. CASE Has(c, "started") /\ ~Has(c, "reconnect_pending")
  <2> DEFINE d == [c EXCEPT !.on = {"started", "reconnect_pending"}]
             s == SetState(d, "reconnect_wait")
             r == ScheduleReconnect(c)
  <2>1. /\ d \in Clients /\ d.on = {"started", "reconnect_pending"}
        /\ d.generation = c.generation /\ d.timers = c.timers
        /\ d.events = c.events
    BY DEF Clients, Flags
  <2>2. QueueOK(d, mk)
    BY <2>1 DEF QueueOK
  <2>3. /\ s \in Clients /\ s.state = "reconnect_wait" /\ s.on = d.on
        /\ s.generation = c.generation /\ s.timers = c.timers
        /\ QueueOK(s, mk) /\ LossOK(s) /\ EndsInAlarm(s)
    BY <2>1, <2>2, SetStateFacts DEF States, Alarms
  <2>4. r = Arm(s, "reconnect")
    BY <1>2 DEF ScheduleReconnect
  <2> HIDE DEF d, s
  <2>5. /\ r \in Clients /\ r.state = "reconnect_wait" /\ r.on = d.on
        /\ r.generation = c.generation /\ r.events = s.events
        /\ r.lost = s.lost
        /\ r.timers = c.timers \cup {<<"reconnect", c.generation>>}
    <3>1. c.generation \in Generations
      BY <1>2 DEF FlagsOK
    <3> QED
      BY <3>1, <2>3, <2>4, ArmFacts DEF Timers
  <2>6. QueueOK(r, mk) /\ LossOK(r) /\ EndsInAlarm(r)
    BY <2>3, <2>5 DEF QueueOK, LossOK, Announced, EndsInAlarm
  <2>7. FlagsOK(r, mk)
    BY <2>1, <2>5, <1>2 DEF FlagsOK, Has
  <2> QED
    BY <2>1, <2>5, <2>6, <2>7, <1>2 DEF ClientOK
<1> QED
  BY <1>1, <1>2

\* connect starts the next generation with no flag but the channel's
\* (private_wss.cpp:84-100).
LEMMA ConnectingFacts ==
  ASSUME NEW c, NEW mk, ClientOK(c, mk), c.generation < MaxGeneration
  PROVE  /\ ClientOK(Connecting(c), mk)
         /\ Connecting(c).generation = c.generation + 1
         /\ c.generation + 1 \in Generations
         /\ Connecting(c).on = {"started", "channel"}
         /\ Connecting(c).timers = c.timers
<1> DEFINE d == [c EXCEPT !.generation = @ + 1, !.on = {"started", "channel"}]
           r == Connecting(c)
<1>1. c \in Clients /\ QueueOK(c, mk) /\ LossOK(c)
  BY DEF ClientOK
<1>2. c.generation + 1 \in Generations
  BY <1>1, BoundsAssumption DEF Clients, Generations
<1>3. /\ d \in Clients /\ d.on = {"started", "channel"}
      /\ d.generation = c.generation + 1 /\ d.timers = c.timers
      /\ d.events = c.events /\ d.lost = c.lost
  BY <1>1, <1>2 DEF Clients, Flags
<1>4. QueueOK(d, mk) /\ LossOK(d)
  BY <1>1, <1>3 DEF QueueOK, LossOK, Announced
<1>5. r = SetState(d, "connecting")
  BY DEF Connecting
<1> HIDE DEF d, r
<1>6. /\ r \in Clients /\ r.state = "connecting" /\ r.on = d.on
      /\ r.generation = d.generation /\ r.timers = d.timers
      /\ QueueOK(r, mk) /\ LossOK(r)
  BY <1>3, <1>4, <1>5, SetStateFacts DEF States
<1>7. FlagsOK(r, mk)
  BY <1>2, <1>3, <1>6 DEF FlagsOK, Has
<1> QED
  BY <1>2, <1>3, <1>6, <1>7 DEF ClientOK, r

\* hard_stop clears every flag (private_wss.cpp:67-82).
LEMMA HardStopFacts ==
  ASSUME NEW c, NEW mk, ClientOK(c, mk)
  PROVE  /\ ClientOK(HardStop(c), mk)
         /\ HardStop(c).generation = c.generation
         /\ HardStop(c).on = {}
         /\ HardStop(c).timers = c.timers
<1> DEFINE d == [c EXCEPT !.on = {}]
           r == HardStop(c)
<1>1. /\ d \in Clients /\ d.on = {} /\ d.generation = c.generation
      /\ d.timers = c.timers /\ d.events = c.events /\ d.lost = c.lost
  BY DEF ClientOK, Clients
<1>2. QueueOK(d, mk) /\ LossOK(d)
  BY <1>1 DEF ClientOK, QueueOK, LossOK, Announced
<1>3. r = SetState(d, "stopped")
  BY DEF HardStop
<1> HIDE DEF d, r
<1>4. /\ r \in Clients /\ r.state = "stopped" /\ r.on = d.on
      /\ r.generation = d.generation /\ r.timers = d.timers
      /\ QueueOK(r, mk) /\ LossOK(r)
  BY <1>1, <1>2, <1>3, SetStateFacts DEF States
<1>5. FlagsOK(r, mk)
  BY <1>1, <1>4 DEF FlagsOK, Has
<1> QED
  BY <1>1, <1>4, <1>5 DEF ClientOK, r

\* handle_response: the subscription is accepted and the gate is shut, or the
\* connection is given up (private_wss.cpp:248-264).
LEMMA AcceptedFacts ==
  ASSUME NEW c, NEW mk, ClientOK(c, mk)
  PROVE  /\ ClientOK(Accepted(c), mk)
         /\ Accepted(c).generation = c.generation
         /\ Accepted(c).timers \subseteq
              c.timers \cup {<<"reconnect", c.generation>>}
         /\ \/ Accepted(c) = c
            \/ ~Has(Accepted(c), "reconnect_pending") /\
               (Has(c, "channel") => Has(Accepted(c), "channel"))
            \/ Accepted(c).on = {"started", "reconnect_pending"} /\
               EndsInAlarm(Accepted(c))
<1>1. CASE ~Has(c, "awaiting_ack")
  <2>1. Accepted(c) = ScheduleReconnect(c)
    BY <1>1 DEF Accepted
  <2> QED
    BY <2>1, ScheduleReconnectFacts DEF ClientOK
<1>2. CASE Has(c, "awaiting_ack")
  <2> DEFINE d == [c EXCEPT !.on = @ \ {"awaiting_ack", "reconciled"}]
             r == Accepted(c)
  <2>1. /\ d \in Clients /\ d.on = c.on \ {"awaiting_ack", "reconciled"}
        /\ d.generation = c.generation /\ d.timers = c.timers
        /\ d.events = c.events /\ d.lost = c.lost
    BY DEF ClientOK, Clients
  <2>2. QueueOK(d, mk) /\ LossOK(d)
    BY <2>1 DEF ClientOK, QueueOK, LossOK, Announced
  <2>3. r = SetState(d, "reconciliation_required")
    BY <1>2 DEF Accepted
  <2> HIDE DEF d, r
  <2>4. /\ r \in Clients /\ r.state = "reconciliation_required"
        /\ r.on = d.on /\ r.generation = d.generation /\ r.timers = d.timers
        /\ QueueOK(r, mk) /\ LossOK(r)
    BY <2>1, <2>2, <2>3, SetStateFacts DEF States
  <2>5. ~Has(c, "reconnect_pending")
    BY <1>2 DEF ClientOK, FlagsOK, Has
  <2>6. FlagsOK(r, mk)
    BY <2>1, <2>4, <2>5 DEF ClientOK, FlagsOK, Has
  <2> QED
    BY <2>1, <2>4, <2>5, <2>6 DEF ClientOK, Has, r
<1> QED
  BY <1>1, <1>2

\* received, with a wallet event: it is queued, with the flag the gate gives
\* it, or the connection is given up and an alarm is in the queue
\* (private_wss.cpp:217-223).
LEMMA DeliveredFacts ==
  ASSUME NEW c, NEW mk, ClientOK(c, mk), Has(c, "started"),
         Has(c, "reconnect_pending") => c.events = <<>> \/ EndsInAlarm(c)
  PROVE  /\ ClientOK(Delivered(c), mk)
         /\ Delivered(c).generation = c.generation
         /\ Delivered(c).timers \subseteq
              c.timers \cup {<<"reconnect", c.generation>>}
<1> DEFINE r == Delivered(c)
<1>1. c \in Clients /\ QueueOK(c, mk) /\ LossOK(c) /\ FlagsOK(c, mk)
  BY DEF ClientOK
<1>2. CASE Full(c)
  <2> DEFINE d == [c EXCEPT !.lost = "yes"]
  <2>1. /\ d \in Clients /\ d.on = c.on /\ d.state = c.state
        /\ d.generation = c.generation /\ d.timers = c.timers
        /\ d.events = c.events
    BY <1>1 DEF Clients
  <2>2. r = ScheduleReconnect(d)
    BY <1>2 DEF Delivered
  <2> HIDE DEF d, r
  <2>3. QueueOK(d, mk) /\ FlagsOK(d, mk)
    BY <1>1, <2>1 DEF QueueOK, FlagsOK, Has
  <2>4. LossOK(d) \/ (Has(d, "started") /\ ~Has(d, "reconnect_pending"))
    <3>1. CASE Has(c, "reconnect_pending")
      <4>1. Len(c.events) \in Nat /\ Len(c.events) # 0
        BY <1>1, <1>2, BoundsAssumption DEF Full, Clients
      <4>2. EndsInAlarm(c)
        BY <3>1, <4>1
      <4>3. DOMAIN c.events = 1..Len(c.events)
        BY <1>1 DEF Clients
      <4> QED
        BY <2>1, <4>1, <4>2, <4>3 DEF LossOK, Announced, EndsInAlarm
    <3> QED
      BY <3>1, <2>1 DEF Has
  <2> QED
    BY <2>1, <2>2, <2>3, <2>4, ScheduleReconnectFacts DEF r
<1>3. CASE ~Full(c)
  <2> DEFINE e == Event(c, "data")
  <2>1. /\ e \in Events
        /\ e.generation = c.generation
        /\ e.reconciled = "yes" => Has(c, "reconciled")
    BY <1>1, EventFacts
  <2>2. r = [c EXCEPT !.events = Append(@, e)]
    BY <1>3 DEF Delivered
  <2> HIDE DEF e, r
  <2>3. c.events \in Seq(Events) /\ Append(c.events, e) \in Seq(Events)
    BY <1>1, <2>1, AppendFacts DEF Clients
  <2>4. /\ r \in Clients /\ r.on = c.on /\ r.state = c.state
        /\ r.generation = c.generation /\ r.timers = c.timers
        /\ r.events = Append(c.events, e) /\ r.lost = c.lost
    BY <1>1, <2>2, <2>3 DEF Clients
  <2>5. e.reconciled = "yes" => e.generation \in mk
    BY <1>1, <2>1 DEF FlagsOK
  <2>6. QueueOK(r, mk)
    BY <1>1, <1>3, <2>1, <2>3, <2>4, <2>5, AppendFacts, BoundsAssumption
    DEF QueueOK, Full
  <2>7. LossOK(r)
    BY <1>1, <2>1, <2>3, <2>4, AppendFacts DEF LossOK, Announced
  <2>8. FlagsOK(r, mk)
    BY <1>1, <2>4 DEF FlagsOK, Has
  <2> QED
    BY <2>4, <2>6, <2>7, <2>8 DEF ClientOK, r
<1> QED
  BY <1>2, <1>3

-----------------------------------------------------------------------------
(* The end of a handler. *)

\* Cancelling the channel that is dropped leaves its handlers to run.
LEMMA BecomesKeeps ==
  ASSUME IInv, NEW c, NEW chs, ClientOK(c, marked), ChannelsOK(c, chs),
         chs \in [Generations -> Channel], Becomes(c, chs)
  PROVE  IInv'
<1>1. /\ client' = c /\ marked' = marked /\ known' = known
      /\ crashed' = crashed
  BY DEF Becomes
<1>2. /\ channels' \in [Generations -> Channel]
      /\ \A g \in Generations : channels'[g].pending = chs[g].pending
  <2>1. \A g \in Generations : CancelIo(chs[g]) \in Channel
                               /\ CancelIo(chs[g]).pending = chs[g].pending
    BY DEF CancelIo, Channel
  <2> QED
    BY <2>1 DEF Becomes
<1>3. ChannelsOK(client', channels')
  BY <1>1, <1>2 DEF ChannelsOK
<1>4. ClientOK(client', marked')
  BY <1>1
<1>5. TypeOK'
  BY <1>1, <1>2 DEF IInv, TypeOK, ClientOK, QueueOK
<1> QED
  BY <1>3, <1>4, <1>5 DEF IInv

\* A handler of channel g that has opened, or has failed to.
LEMMA ChannelStep ==
  ASSUME IInv, NEW g \in Generations, channels[g].pending # {},
         NEW c \in Clients, NEW ch \in Channel, "open" \notin ch.pending,
         c.generation = client.generation,
         c.timers \subseteq
           client.timers \cup {<<t, client.generation>> : t \in Timers},
         c = client \/ g = client.generation,
         g = c.generation /\ Has(c, "reconnect_pending")
           /\ "read" \in ch.pending
           => c.events = <<>> \/ EndsInAlarm(c)
  PROVE  /\ ChannelsOK(c, [channels EXCEPT ![g] = ch])
         /\ [channels EXCEPT ![g] = ch] \in [Generations -> Channel]
<1> DEFINE chs == [channels EXCEPT ![g] = ch]
<1>1. /\ chs \in [Generations -> Channel]
      /\ chs[g] = ch
      /\ \A h \in Generations \ {g} : chs[h] = channels[h]
  BY DEF IInv, TypeOK
<1>2. ChannelsOK(client, channels) /\ g <= client.generation
  <2>1. client.generation \in Nat /\ g \in Nat
    BY BoundsAssumption DEF IInv, TypeOK, Clients, Generations
  <2> QED
    BY <2>1 DEF IInv, ChannelsOK
<1> HIDE DEF chs
<1>3. ASSUME NEW h \in Generations, h # g
      PROVE  /\ "open" \in chs[h].pending =>
                  /\ chs[h].pending = {"open"}
                  /\ \A t \in Timers : <<t, h>> \notin c.timers
                  /\ Has(c, "started") /\ h = c.generation => Has(c, "channel")
             /\ h > c.generation =>
                  /\ chs[h].pending = {}
                  /\ \A t \in Timers : <<t, h>> \notin c.timers
             /\ /\ h = c.generation /\ Has(c, "reconnect_pending")
                /\ "read" \in chs[h].pending
                => c.events = <<>> \/ EndsInAlarm(c)
  <2>1. chs[h] = channels[h]
    BY <1>1, <1>3
  <2>2. CASE c = client
    BY <2>1, <2>2, <1>2 DEF ChannelsOK
  <2>3. CASE g = client.generation
    <3>1. \A t \in Timers : <<t, h>> \in c.timers => <<t, h>> \in client.timers
      BY <1>3, <2>3
    <3> QED
      BY <3>1, <2>1, <2>3, <1>2, <1>3 DEF ChannelsOK
  <2> QED
    BY <2>2, <2>3
<1>4. ~(g > c.generation)
  BY <1>2, BoundsAssumption DEF IInv, TypeOK, Clients, Generations
<1>5. ChannelsOK(c, chs)
  BY <1>1, <1>3, <1>4 DEF ChannelsOK
<1> QED
  BY <1>1, <1>5 DEF chs

\* A timer's handler of a generation that has opened.
LEMMA TimerStep ==
  ASSUME IInv, NEW c \in Clients, c.generation = client.generation,
         c.timers \subseteq
           client.timers \cup {<<"reconnect", client.generation>>},
         \/ /\ c.on = client.on /\ c.events = client.events
            /\ c.timers \subseteq client.timers
         \/ /\ \E t \in Timers : <<t, client.generation>> \in client.timers
            /\ EndsInAlarm(c)
  PROVE  ChannelsOK(c, channels)
<1>1. ChannelsOK(client, channels)
  BY DEF IInv
<1>2. CASE /\ c.on = client.on /\ c.events = client.events
           /\ c.timers \subseteq client.timers
  BY <1>1, <1>2 DEF ChannelsOK, Has, EndsInAlarm
<1>3. CASE /\ \E t \in Timers : <<t, client.generation>> \in client.timers
           /\ EndsInAlarm(c)
  <2>1. ASSUME NEW h \in Generations, NEW t \in Timers, h # client.generation,
               <<t, h>> \in c.timers
        PROVE  <<t, h>> \in client.timers
    BY <2>1
  <2>2. client.generation \in Generations =>
          "open" \notin channels[client.generation].pending
    BY <1>1, <1>3 DEF ChannelsOK
  <2>3. \A h \in Generations : h > client.generation => h # client.generation
    BY BoundsAssumption DEF IInv, TypeOK, Clients, Generations
  <2> QED
    BY <1>1, <1>3, <2>1, <2>2, <2>3 DEF ChannelsOK
<1> QED
  BY <1>2, <1>3

-----------------------------------------------------------------------------
(* The actions. *)

\* connect, from begin or from the reconnect timer, whose handler may be an
\* old one (private_wss.cpp:84-128, 328-337).
LEMMA ConnectKeeps ==
  ASSUME IInv, NEW c, ClientOK(c, marked), c.generation = client.generation,
         c.timers \subseteq client.timers, Connect(c)
  PROVE  IInv'
<1> DEFINE n == Connecting(c)
           g == c.generation + 1
<1>1. /\ ClientOK(n, marked) /\ n.generation = g /\ g \in Generations
      /\ n.on = {"started", "channel"} /\ n.timers = c.timers
  BY ConnectingFacts DEF Connect
<1> HIDE DEF n
<1>2. /\ channels \in [Generations -> Channel] /\ ChannelsOK(client, channels)
      /\ c.generation \in Nat /\ \A h \in Generations : h \in Nat
  BY BoundsAssumption DEF IInv, TypeOK, Clients, Generations
<1>3. channels[g].pending = {} /\ \A t \in Timers : <<t, g>> \notin c.timers
  BY <1>1, <1>2 DEF ChannelsOK
<1>4. marked' = marked /\ known' = known /\ crashed' = crashed
  BY DEF Connect
<1>5. CASE /\ client' = n
           /\ channels' = [channels EXCEPT ![g] = Begin(@, "open")]
  <2>1. Begin(channels[g], "open") \in Channel
    BY <1>1, <1>2 DEF Begin, Channel, Operations
  <2>2. Begin(channels[g], "open").pending = {"open"}
    BY <1>1, <1>2, <1>3 DEF Begin, Channel
  <2>3. /\ channels' \in [Generations -> Channel]
        /\ channels'[g].pending = {"open"}
        /\ \A h \in Generations \ {g} : channels'[h] = channels[h]
    BY <1>1, <1>2, <1>5, <2>1, <2>2
  <2>4. ASSUME NEW h \in Generations, h # g
        PROVE  /\ "open" \in channels'[h].pending =>
                    /\ channels'[h].pending = {"open"}
                    /\ \A t \in Timers : <<t, h>> \notin n.timers
               /\ h > g =>
                    /\ channels'[h].pending = {}
                    /\ \A t \in Timers : <<t, h>> \notin n.timers
    <3>1. h > g => h > client.generation
      BY <1>2
    <3> QED
      BY <1>1, <1>2, <2>3, <2>4, <3>1 DEF ChannelsOK
  <2>5. ChannelsOK(n, channels')
    <3>1. ~(g > g) /\ ~Has(n, "reconnect_pending") /\ Has(n, "channel")
      BY <1>1, <1>2 DEF Has
    <3> QED
      BY <1>1, <1>3, <2>3, <2>4, <3>1 DEF ChannelsOK
  <2> QED
    BY <1>1, <1>4, <1>5, <2>3, <2>5 DEF IInv, TypeOK, ClientOK, QueueOK
<1>6. CASE client' = ScheduleReconnect(n) /\ channels' = channels
  <2> DEFINE r == ScheduleReconnect(n)
  <2>1. /\ ClientOK(r, marked) /\ r.generation = g
        /\ r.timers \subseteq c.timers \cup {<<"reconnect", g>>}
    BY <1>1, ScheduleReconnectFacts DEF ClientOK
  <2> HIDE DEF r
  <2>2. ASSUME NEW h \in Generations, h # g, NEW t \in Timers,
               <<t, h>> \in r.timers
        PROVE  <<t, h>> \in client.timers
    BY <2>1, <2>2
  <2>3. \A h \in Generations : h > g => h > client.generation /\ h # g
    BY <1>2
  <2>4. \A h \in Generations : "open" \in channels[h].pending => h # g
    BY <1>3
  <2>5. ChannelsOK(r, channels)
    BY <1>2, <1>3, <2>1, <2>2, <2>3, <2>4 DEF ChannelsOK
  <2> QED
    BY <1>4, <1>6, <2>1, <2>5 DEF IInv, TypeOK, ClientOK, QueueOK, r
<1> QED
  BY <1>5, <1>6 DEF Connect, n

\* request_stop (private_wss.cpp:67-84).
LEMMA StopKeeps == IInv /\ Stop => IInv'
<1> SUFFICES ASSUME IInv, Stop PROVE IInv'
  OBVIOUS
<1> DEFINE r == HardStop(client)
<1>1. /\ ClientOK(r, marked) /\ r.generation = client.generation
      /\ r.on = {} /\ r.timers = client.timers
  BY HardStopFacts DEF IInv
<1>2. Becomes(r, channels)
  BY DEF Stop
<1> HIDE DEF r
<1>3. ChannelsOK(r, channels)
  BY <1>1 DEF IInv, ChannelsOK, Has
<1> QED
  BY <1>1, <1>2, <1>3, BecomesKeeps DEF IInv, TypeOK

\* A handler of an old generation's channel changes nothing of the client.
LEMMA StaleKeeps ==
  ASSUME IInv, NEW g \in Generations, channels[g].pending # {},
         NEW ch \in Channel, "open" \notin ch.pending,
         ch.pending \subseteq channels[g].pending,
         Becomes(client, [channels EXCEPT ![g] = ch])
  PROVE  IInv'
<1>1. client \in Clients /\ ClientOK(client, marked)
  BY DEF IInv, TypeOK
<1>2. g = client.generation /\ Has(client, "reconnect_pending")
        /\ "read" \in ch.pending
        => client.events = <<>> \/ EndsInAlarm(client)
  BY DEF IInv, ChannelsOK
<1>3. /\ ChannelsOK(client, [channels EXCEPT ![g] = ch])
      /\ [channels EXCEPT ![g] = ch] \in [Generations -> Channel]
  BY <1>1, <1>2, ChannelStep
<1> QED
  BY <1>1, <1>3, BecomesKeeps

\* opened and subscribe (private_wss.cpp:130-176).
LEMMA OnOpenedKeeps ==
  ASSUME IInv, NEW g \in Generations, OnOpened(g)
  PROVE  IInv'
<1> DEFINE up == [pending |-> {}, opened |-> "yes", deadline |-> "queued"]
           busy == Begin(up, "read")
           both == Begin(busy, "write")
           o == [client EXCEPT !.on = @ \cup {"session_open"}]
           s == SetState(o, "subscribing")
           c == Arm(s, "heartbeat")
           w == [c EXCEPT !.on = @ \cup {"awaiting_ack"}]
<1>1. "open" \in channels[g].pending /\ channels[g].pending # {}
  BY DEF OnOpened
<1>2. /\ up \in Channel /\ up.pending = {}
      /\ busy \in Channel /\ busy.pending = {"read"}
      /\ both \in Channel /\ both.pending = {"read", "write"}
  BY DEF Channel, Begin, Operations
<1> HIDE DEF up, busy, both
<1>3. CASE ~Current(g) /\ Becomes(client, [channels EXCEPT ![g] = up])
  BY <1>1, <1>2, <1>3, StaleKeeps
<1>4. ASSUME Current(g)
      PROVE  /\ ClientOK(c, marked) /\ c.generation = g
             /\ g = client.generation
             /\ {"started", "channel"} \subseteq c.on
             /\ c.state = "subscribing"
             /\ c.timers = client.timers \cup {<<"heartbeat", g>>}
  <2>1. /\ client \in Clients /\ QueueOK(client, marked) /\ LossOK(client)
        /\ FlagsOK(client, marked) /\ g = client.generation
        /\ {"started", "channel"} \subseteq client.on
        /\ ~Has(client, "reconnect_pending")
    BY <1>1, <1>4 DEF IInv, ClientOK, ChannelsOK, Current, FlagsOK, Has
  <2>2. /\ o \in Clients /\ o.on = client.on \cup {"session_open"}
        /\ o.generation = g /\ o.timers = client.timers
        /\ o.events = client.events /\ o.lost = client.lost
    BY <2>1 DEF Clients, Flags
  <2> HIDE DEF o
  <2>3. QueueOK(o, marked) /\ LossOK(o)
    BY <2>1, <2>2 DEF QueueOK, LossOK, Announced
  <2>4. /\ s \in Clients /\ s.state = "subscribing" /\ s.on = o.on
        /\ s.generation = g /\ s.timers = client.timers
        /\ QueueOK(s, marked) /\ LossOK(s)
    BY <2>2, <2>3, SetStateFacts DEF States
  <2> HIDE DEF s
  <2>5. FlagsOK(s, marked)
    BY <2>1, <2>2, <2>4 DEF FlagsOK, Has
  <2>6. ClientOK(s, marked)
    BY <2>4, <2>5 DEF ClientOK
  <2>7. ClientOK(c, marked)
    BY <2>4, <2>6, ArmKeeps DEF Timers
  <2> QED
    BY <2>1, <2>2, <2>4, <2>7, ArmFacts DEF Timers
<1> HIDE DEF c
<1>5. CASE /\ Current(g)
           /\ Becomes(Arm(w, "ack"), [channels EXCEPT ![g] = both])
  <2> DEFINE r == Arm(w, "ack")
  <2>1. /\ c \in Clients /\ QueueOK(c, marked) /\ LossOK(c)
        /\ FlagsOK(c, marked)
    BY <1>4, <1>5 DEF ClientOK
  <2>2. /\ w \in Clients /\ w.on = c.on \cup {"awaiting_ack"}
        /\ w.state = c.state /\ w.generation = c.generation
        /\ w.timers = c.timers /\ w.events = c.events /\ w.lost = c.lost
    BY <2>1 DEF Clients, Flags
  <2> HIDE DEF w
  <2>3. ~Has(w, "reconnect_pending")
    BY <1>4, <1>5, <2>1, <2>2 DEF FlagsOK, Has
  <2>4. QueueOK(w, marked) /\ LossOK(w) /\ FlagsOK(w, marked)
    BY <1>4, <1>5, <2>1, <2>2, <2>3
    DEF QueueOK, LossOK, Announced, FlagsOK, Has
  <2>5. ClientOK(w, marked)
    BY <2>2, <2>4 DEF ClientOK
  <2>6. ClientOK(r, marked)
    BY <1>4, <1>5, <2>2, <2>5, ArmKeeps DEF Timers
  <2>7. /\ r \in Clients /\ r.on = w.on /\ r.generation = g
        /\ r.timers = c.timers \cup {<<"ack", g>>}
    BY <1>4, <1>5, <2>2, ArmFacts DEF Timers
  <2>8. ~Has(r, "reconnect_pending")
    BY <2>3, <2>7 DEF Has
  <2> HIDE DEF r
  <2>9. r.timers \subseteq
          client.timers \cup {<<t, client.generation>> : t \in Timers}
    BY <1>4, <1>5, <2>7 DEF Timers
  <2>10. /\ ChannelsOK(r, [channels EXCEPT ![g] = both])
         /\ [channels EXCEPT ![g] = both] \in [Generations -> Channel]
    BY <1>1, <1>2, <1>4, <1>5, <2>7, <2>8, <2>9, ChannelStep
  <2> QED
    BY <1>5, <2>6, <2>10, BecomesKeeps DEF r
<1>6. CASE /\ Current(g)
           /\ Becomes(Arm(ScheduleReconnect(c), "ack"),
                      [channels EXCEPT ![g] = busy])
  <2> DEFINE q == ScheduleReconnect(c)
             r == Arm(q, "ack")
  <2>1. Has(c, "started") /\ ~Has(c, "reconnect_pending")
    BY <1>4, <1>6 DEF ClientOK, FlagsOK, Has
  <2>2. /\ ClientOK(q, marked) /\ q.generation = g
        /\ q.timers \subseteq c.timers \cup {<<"reconnect", g>>}
        /\ q = c \/ EndsInAlarm(q)
    BY <1>4, <1>6, ScheduleReconnectFacts DEF ClientOK
  <2> HIDE DEF q
  <2>3. /\ ClientOK(r, marked) /\ r \in Clients /\ r.generation = g
        /\ r.on = q.on /\ r.events = q.events
        /\ r.timers = q.timers \cup {<<"ack", g>>}
    BY <2>2, ArmKeeps, ArmFacts DEF ClientOK, Timers
  <2> HIDE DEF r
  <2>4. Has(r, "reconnect_pending") => EndsInAlarm(r)
    BY <2>1, <2>2, <2>3 DEF EndsInAlarm, Has
  <2>5. r.timers \subseteq
          client.timers \cup {<<t, client.generation>> : t \in Timers}
    BY <1>4, <1>6, <2>2, <2>3 DEF Timers
  <2>6. /\ ChannelsOK(r, [channels EXCEPT ![g] = busy])
        /\ [channels EXCEPT ![g] = busy] \in [Generations -> Channel]
    BY <1>1, <1>2, <1>4, <1>6, <2>3, <2>4, <2>5, ChannelStep
  <2> QED
    BY <1>6, <2>3, <2>6, BecomesKeeps DEF r, q
<1> QED
  BY <1>3, <1>5, <1>6 DEF OnOpened, up, busy, both, c, o, s, w

\* A failed operation, of this generation or of an old one
\* (private_wss.cpp:130-134, 165-172, 193-197).
LEMMA OnFailedKeeps ==
  ASSUME IInv, NEW g \in Generations, NEW op \in Operations, OnFailed(g, op)
  PROVE  IInv'
<1> DEFINE ch == [channels[g] EXCEPT !.pending = @ \ {op}, !.opened = "no"]
           r == ScheduleReconnect(client)
<1>1. /\ channels \in [Generations -> Channel] /\ client \in Clients
      /\ channels[g].pending # {} /\ op \in channels[g].pending
  BY DEF OnFailed, IInv, TypeOK
<1>2. ch \in Channel /\ ch.pending = channels[g].pending \ {op}
  BY <1>1 DEF Channel
<1>3. "open" \notin ch.pending
  BY <1>1, <1>2 DEF IInv, ChannelsOK
<1>4. [channels EXCEPT ![g].pending = @ \ {op}, ![g].opened = "no"]
        = [channels EXCEPT ![g] = ch]
  BY <1>1
<1> HIDE DEF ch
<1>5. CASE ~Current(g)
  <2>1. Becomes(client, [channels EXCEPT ![g] = ch])
    BY <1>4, <1>5 DEF OnFailed
  <2> QED
    BY <1>1, <1>2, <1>3, <2>1, StaleKeeps
<1>6. CASE Current(g)
  <2>1. Becomes(r, [channels EXCEPT ![g] = ch])
    BY <1>4, <1>6 DEF OnFailed
  <2>2. g = client.generation
    BY <1>6 DEF Current
  <2>3. /\ ClientOK(r, marked) /\ r.generation = g
        /\ r.timers \subseteq client.timers \cup {<<"reconnect", g>>}
        /\ r = client \/ EndsInAlarm(r)
    BY <2>2, ScheduleReconnectFacts DEF IInv, ClientOK
  <2> HIDE DEF r
  <2>4. r.timers \subseteq
          client.timers \cup {<<t, client.generation>> : t \in Timers}
    BY <2>2, <2>3 DEF Timers
  <2>5. /\ Has(r, "reconnect_pending") /\ "read" \in ch.pending
        => r.events = <<>> \/ EndsInAlarm(r)
    BY <1>2, <2>2, <2>3 DEF IInv, ChannelsOK
  <2>6. /\ ChannelsOK(r, [channels EXCEPT ![g] = ch])
        /\ [channels EXCEPT ![g] = ch] \in [Generations -> Channel]
    BY <1>1, <1>2, <1>3, <2>2, <2>3, <2>4, <2>5, ChannelStep DEF ClientOK
  <2> QED
    BY <2>1, <2>3, <2>6, BecomesKeeps
<1> QED
  BY <1>5, <1>6

\* A completed write (websocket.cpp:335-352).
LEMMA OnWrittenKeeps ==
  ASSUME IInv, NEW g \in Generations, OnWritten(g)
  PROVE  IInv'
<1> DEFINE ch == [channels[g] EXCEPT !.pending = @ \ {"write"}]
<1>1. /\ channels \in [Generations -> Channel]
      /\ channels[g].pending # {} /\ "write" \in channels[g].pending
  BY DEF OnWritten, IInv, TypeOK
<1>2. ch \in Channel /\ ch.pending = channels[g].pending \ {"write"}
  BY <1>1 DEF Channel
<1>3. "open" \notin ch.pending
  BY <1>1, <1>2 DEF IInv, ChannelsOK
<1>4. [channels EXCEPT ![g].pending = @ \ {"write"}]
        = [channels EXCEPT ![g] = ch]
  BY <1>1
<1>5. Becomes(client, [channels EXCEPT ![g] = ch])
  BY <1>4 DEF OnWritten
<1> HIDE DEF ch
<1> QED
  BY <1>1, <1>2, <1>3, <1>5, StaleKeeps

\* read_next after a frame (private_wss.cpp:178-191).
LEMMA ReadOnKeeps ==
  ASSUME IInv, NEW g \in Generations, g = client.generation,
         channels[g].pending # {}, NEW ch \in Channel,
         "open" \notin ch.pending, "read" \notin ch.pending,
         NEW c, ClientOK(c, marked), c.generation = client.generation,
         c.timers \subseteq
           client.timers \cup {<<t, client.generation>> : t \in Timers},
         ReadOn(g, c, ch)
  PROVE  IInv'
<1>1. c \in Clients /\ QueueOK(c, marked) /\ LossOK(c) /\ FlagsOK(c, marked)
  BY DEF ClientOK
<1>2. CASE ~Has(c, "channel") /\ Becomes(c, [channels EXCEPT ![g] = ch])
  <2>1. /\ ChannelsOK(c, [channels EXCEPT ![g] = ch])
        /\ [channels EXCEPT ![g] = ch] \in [Generations -> Channel]
    BY <1>1, ChannelStep
  <2> QED
    BY <1>2, <2>1, BecomesKeeps
<1>3. CASE /\ Has(c, "channel")
           /\ Becomes(c, [channels EXCEPT ![g] = Begin(ch, "read")])
  <2> DEFINE b == Begin(ch, "read")
  <2>1. b \in Channel /\ "open" \notin b.pending
    BY DEF Begin, Channel, Operations
  <2>2. ~Has(c, "reconnect_pending")
    BY <1>1, <1>3 DEF FlagsOK, Has
  <2> HIDE DEF b
  <2>3. /\ ChannelsOK(c, [channels EXCEPT ![g] = b])
        /\ [channels EXCEPT ![g] = b] \in [Generations -> Channel]
    BY <1>1, <2>1, <2>2, ChannelStep
  <2> QED
    BY <1>3, <2>3, BecomesKeeps DEF b
<1>4. CASE Becomes(ScheduleReconnect(c), [channels EXCEPT ![g] = ch])
  <2> DEFINE r == ScheduleReconnect(c)
  <2>1. /\ ClientOK(r, marked) /\ r.generation = client.generation
        /\ r.timers \subseteq c.timers \cup {<<"reconnect", client.generation>>}
    BY <1>1, ScheduleReconnectFacts
  <2> HIDE DEF r
  <2>2. r.timers \subseteq
          client.timers \cup {<<t, client.generation>> : t \in Timers}
    BY <2>1 DEF Timers
  <2>3. /\ ChannelsOK(r, [channels EXCEPT ![g] = ch])
        /\ [channels EXCEPT ![g] = ch] \in [Generations -> Channel]
    BY <2>1, <2>2, ChannelStep DEF ClientOK
  <2> QED
    BY <1>4, <2>1, <2>3, BecomesKeeps DEF r
<1> QED
  BY <1>2, <1>3, <1>4 DEF ReadOn

\* received (private_wss.cpp:193-264).
LEMMA OnFrameKeeps ==
  ASSUME IInv, NEW g \in Generations, OnFrame(g)
  PROVE  IInv'
<1> DEFINE ch == [channels[g] EXCEPT !.pending = @ \ {"read"}]
<1>1. /\ channels \in [Generations -> Channel] /\ client \in Clients
      /\ ClientOK(client, marked)
      /\ channels[g].pending # {} /\ "read" \in channels[g].pending
  BY DEF OnFrame, IInv, TypeOK
<1>2. ch \in Channel /\ ch.pending = channels[g].pending \ {"read"}
  BY <1>1 DEF Channel
<1>3. "open" \notin ch.pending /\ "read" \notin ch.pending
  BY <1>1, <1>2 DEF IInv, ChannelsOK
<1> HIDE DEF ch
<1>4. CASE ~Current(g) /\ Becomes(client, [channels EXCEPT ![g] = ch])
  BY <1>1, <1>2, <1>3, <1>4, StaleKeeps
<1>5. ASSUME Current(g)
      PROVE  /\ g = client.generation /\ Has(client, "started")
             /\ Has(client, "reconnect_pending") =>
                  client.events = <<>> \/ EndsInAlarm(client)
             /\ <<"reconnect", g>> \in {<<t, g>> : t \in Timers}
             /\ <<"heartbeat", g>> \in {<<t, g>> : t \in Timers}
  BY <1>1, <1>5 DEF Current, IInv, ChannelsOK, Timers
<1>6. CASE Current(g) /\ ReadOn(g, Accepted(client), ch)
  <2>1. /\ ClientOK(Accepted(client), marked)
        /\ Accepted(client).generation = g
        /\ Accepted(client).timers \subseteq
             client.timers \cup {<<"reconnect", g>>}
    BY <1>1, <1>5, <1>6, AcceptedFacts
  <2> QED
    BY <1>1, <1>2, <1>3, <1>5, <1>6, <2>1, ReadOnKeeps
<1>7. CASE Current(g) /\ ReadOn(g, Delivered(client), ch)
  <2>1. /\ ClientOK(Delivered(client), marked)
        /\ Delivered(client).generation = g
        /\ Delivered(client).timers \subseteq
             client.timers \cup {<<"reconnect", g>>}
    BY <1>1, <1>5, <1>7, DeliveredFacts
  <2> QED
    BY <1>1, <1>2, <1>3, <1>5, <1>7, <2>1, ReadOnKeeps
<1>8. CASE Current(g) /\ ReadOn(g, ScheduleReconnect(client), ch)
  <2>1. /\ ClientOK(ScheduleReconnect(client), marked)
        /\ ScheduleReconnect(client).generation = g
        /\ ScheduleReconnect(client).timers \subseteq
             client.timers \cup {<<"reconnect", g>>}
    BY <1>1, <1>5, <1>8, ScheduleReconnectFacts DEF ClientOK
  <2> QED
    BY <1>1, <1>2, <1>3, <1>5, <1>8, <2>1, ReadOnKeeps
<1>9. CASE Current(g) /\ OnHeartbeat(g, ch)
  <2> DEFINE c == Arm(client, "heartbeat")
             w == Begin(ch, "write")
             r == ScheduleReconnect(c)
  <2>1. client.generation \in Generations
    BY <1>5, <1>9
  <2>2. /\ ClientOK(c, marked) /\ c.generation = g
        /\ c.timers = client.timers \cup {<<"heartbeat", g>>}
    BY <1>1, <1>5, <1>9, <2>1, ArmKeeps, ArmFacts DEF Timers
  <2> HIDE DEF c
  <2>3. CASE /\ crashed' = TRUE
             /\ UNCHANGED <<client, channels, marked, known>>
    BY <2>3 DEF IInv, TypeOK, ClientOK, QueueOK, LossOK, Announced, FlagsOK,
                ChannelsOK, EndsInAlarm, Has
  <2>4. CASE ReadOn(g, c, w)
    <3>1. w \in Channel /\ "open" \notin w.pending /\ "read" \notin w.pending
      BY <1>2, <1>3 DEF Begin, Channel, Operations
    <3> HIDE DEF w
    <3> QED
      BY <1>1, <1>5, <1>9, <2>2, <2>4, <3>1, ReadOnKeeps
  <2>5. CASE ReadOn(g, r, ch)
    <3>1. /\ ClientOK(r, marked) /\ r.generation = g
          /\ r.timers \subseteq c.timers \cup {<<"reconnect", g>>}
      BY <2>2, ScheduleReconnectFacts DEF ClientOK
    <3> HIDE DEF r
    <3> QED
      BY <1>1, <1>2, <1>3, <1>5, <1>9, <2>2, <2>5, <3>1, ReadOnKeeps
  <2> QED
    BY <1>9, <2>3, <2>4, <2>5 DEF OnHeartbeat, c
<1> QED
  BY <1>4, <1>6, <1>7, <1>8, <1>9 DEF OnFrame, ch

\* The channel's deadline closes it and leaves its handlers to run
\* (websocket.cpp:161-167).
LEMMA OnConnectDeadlineKeeps ==
  ASSUME IInv, NEW g \in Generations, OnConnectDeadline(g)
  PROVE  IInv'
<1>1. /\ UNCHANGED <<client, marked, known, crashed>>
      /\ channels' = [channels EXCEPT ![g] = [CancelIo(@) EXCEPT !.deadline = "off"]]
  BY DEF OnConnectDeadline
<1>2. channels \in [Generations -> Channel]
  BY DEF IInv, TypeOK
<1>3. /\ [CancelIo(channels[g]) EXCEPT !.deadline = "off"] \in Channel
      /\ [CancelIo(channels[g]) EXCEPT !.deadline = "off"].pending
           = channels[g].pending
  BY <1>2 DEF CancelIo, Channel
<1>4. /\ channels' \in [Generations -> Channel]
      /\ \A h \in Generations : channels'[h].pending = channels[h].pending
  BY <1>1, <1>2, <1>3
<1>5. ChannelsOK(client', channels')
  BY <1>1, <1>4 DEF IInv, ChannelsOK
<1> QED
  BY <1>1, <1>4, <1>5 DEF IInv, TypeOK

\* A handler taken off the queue leaves the client otherwise as it was.
LEMMA DequeuedFacts ==
  ASSUME IInv, NEW timer, NEW g
  PROVE  /\ ClientOK(Dequeued(timer, g), marked)
         /\ Dequeued(timer, g).on = client.on
         /\ Dequeued(timer, g).generation = client.generation
         /\ Dequeued(timer, g).events = client.events
         /\ Dequeued(timer, g).timers \subseteq client.timers
<1> DEFINE r == Dequeued(timer, g)
<1>1. /\ r \in Clients /\ r.on = client.on /\ r.state = client.state
      /\ r.generation = client.generation /\ r.events = client.events
      /\ r.lost = client.lost /\ r.timers \subseteq client.timers
  BY DEF IInv, TypeOK, Clients, Dequeued
<1> HIDE DEF r
<1>2. QueueOK(r, marked) /\ LossOK(r) /\ FlagsOK(r, marked)
  BY <1>1
  DEF IInv, ClientOK, QueueOK, LossOK, Announced, FlagsOK, Has
<1> QED
  BY <1>1, <1>2 DEF ClientOK, r

\* The heartbeat's and the acknowledgement's deadline (private_wss.cpp:277-305),
\* and the reconnect timer (private_wss.cpp:328-337).
LEMMA TimerHandlerKeeps ==
  ASSUME IInv, NEW g \in Generations, TimerHandler(g)
  PROVE  IInv'
<1>1. /\ channels \in [Generations -> Channel] /\ client \in Clients
  BY DEF IInv, TypeOK
<1>2. ASSUME NEW timer \in Timers, Becomes(Dequeued(timer, g), channels)
      PROVE  IInv'
  <2> DEFINE r == Dequeued(timer, g)
  <2>1. /\ ClientOK(r, marked) /\ r \in Clients /\ r.on = client.on
        /\ r.generation = client.generation /\ r.events = client.events
        /\ r.timers \subseteq client.timers
    BY DequeuedFacts DEF ClientOK
  <2> HIDE DEF r
  <2>2. ChannelsOK(r, channels)
    BY <2>1, TimerStep
  <2> QED
    BY <1>1, <1>2, <2>1, <2>2, BecomesKeeps DEF r
<1>3. ASSUME NEW timer \in Timers, <<timer, g>> \in client.timers, Current(g),
             Becomes(ScheduleReconnect(Dequeued(timer, g)), channels)
      PROVE  IInv'
  <2> DEFINE c == Dequeued(timer, g)
             r == ScheduleReconnect(c)
  <2>1. /\ ClientOK(c, marked) /\ c.on = client.on
        /\ c.generation = client.generation /\ c.events = client.events
        /\ c.timers \subseteq client.timers
    BY DequeuedFacts
  <2> HIDE DEF c
  <2>2. /\ ClientOK(r, marked) /\ r.generation = client.generation
        /\ r.timers \subseteq
             client.timers \cup {<<"reconnect", client.generation>>}
        /\ r = c \/ EndsInAlarm(r)
    BY <2>1, ScheduleReconnectFacts DEF ClientOK
  <2> HIDE DEF r
  <2>3. \E t \in Timers : <<t, client.generation>> \in client.timers
    BY <1>3 DEF Current
  <2>4. ChannelsOK(r, channels)
    BY <2>1, <2>2, <2>3, TimerStep DEF ClientOK
  <2> QED
    BY <1>1, <1>3, <2>2, <2>4, BecomesKeeps DEF r, c
<1>4. CASE OnReconnectTimer(g)
  <2>1. \/ Connect(Dequeued("reconnect", g))
        \/ Becomes(Dequeued("reconnect", g), channels)
    BY <1>4 DEF OnReconnectTimer
  <2>2. CASE Connect(Dequeued("reconnect", g))
    BY <2>2, DequeuedFacts, ConnectKeeps
  <2> QED
    BY <1>2, <2>1, <2>2 DEF Timers
<1>5. CASE OnHeartbeatTimer(g)
  <2>1. \/ Becomes(Dequeued("heartbeat", g), channels)
        \/ /\ Current(g) /\ <<"heartbeat", g>> \in client.timers
           /\ Becomes(ScheduleReconnect(Dequeued("heartbeat", g)), channels)
    BY <1>5 DEF OnHeartbeatTimer
  <2> QED
    BY <1>2, <1>3, <2>1 DEF Timers
<1>6. CASE OnAckTimer(g)
  <2>1. \/ Becomes(Dequeued("ack", g), channels)
        \/ /\ Current(g) /\ <<"ack", g>> \in client.timers
           /\ Becomes(ScheduleReconnect(Dequeued("ack", g)), channels)
    BY <1>6 DEF OnAckTimer
  <2> QED
    BY <1>2, <1>3, <2>1 DEF Timers
<1> QED
  BY <1>4, <1>5, <1>6 DEF TimerHandler

\* reconcile: the gate opens for the generation that was marked
\* (private_wss.cpp:266-275).
LEMMA ReconcileKeeps ==
  ASSUME IInv, NEW g \in Generations, Reconcile(g)
  PROVE  IInv'
<1> DEFINE o == [client EXCEPT !.on = @ \cup {"reconciled"}]
           r == Reconciled
           mk == marked \cup {g}
<1>1. /\ client \in Clients /\ QueueOK(client, marked) /\ LossOK(client)
      /\ FlagsOK(client, marked) /\ g = client.generation
      /\ Has(client, "session_open") /\ client' = r /\ marked' = mk
      /\ UNCHANGED <<channels, known, crashed>>
  BY DEF IInv, ClientOK, Reconcile, Current
<1>2. /\ o \in Clients /\ o.on = client.on \cup {"reconciled"}
      /\ o.generation = g /\ o.timers = client.timers
      /\ o.events = client.events /\ o.lost = client.lost
  BY <1>1 DEF Clients, Flags
<1>3. QueueOK(o, mk) /\ LossOK(o)
  BY <1>1, <1>2 DEF QueueOK, LossOK, Announced
<1>4. r = SetState(o, "live")
  BY DEF Reconciled
<1> HIDE DEF o, r, mk
<1>5. /\ r \in Clients /\ r.state = "live" /\ r.on = o.on
      /\ r.generation = g /\ r.timers = client.timers
      /\ QueueOK(r, mk) /\ LossOK(r)
  BY <1>2, <1>3, <1>4, SetStateFacts DEF States
<1>6. {"started", "channel", "session_open"} \subseteq client.on
      /\ ~Has(client, "reconnect_pending")
  BY <1>1 DEF FlagsOK, Has
<1>7. FlagsOK(r, mk)
  BY <1>2, <1>5, <1>6 DEF FlagsOK, Has, mk
<1>8. ChannelsOK(r, channels)
  BY <1>1, <1>2, <1>5, <1>6 DEF IInv, ChannelsOK, Has
<1> QED
  BY <1>1, <1>5, <1>7, <1>8
  DEF IInv, TypeOK, ClientOK, QueueOK, mk

\* The rest of a queue is empty or ends as the queue does.
LEMMA TailLast ==
  ASSUME NEW q \in Seq(Events), q # <<>>
  PROVE  Tail(q) = <<>> \/ Tail(q)[Len(Tail(q))] = q[Len(q)]
<1> DEFINE n == Len(q)
           m == Len(Tail(q))
<1>1. /\ Tail(q) \in Seq(Events) /\ m = n - 1 /\ n \in Nat /\ n # 0
      /\ \A i \in 1..m : Tail(q)[i] = q[i + 1]
  OBVIOUS
<1>2. \A s \in Seq(Events) : Len(s) = 0 => s = <<>>
  OBVIOUS
<1> HIDE DEF n, m
<1>3. m # 0 => m \in 1..m /\ m + 1 = n
  BY <1>1
<1>4. m # 0 => Tail(q)[m] = q[n]
  BY <1>1, <1>3
<1> QED
  BY <1>1, <1>2, <1>4 DEF n, m

\* try_pop_event: an alarm that is read settles what was lost
\* (private_wss.cpp:367-374).
LEMMA PopKeeps == IInv /\ Pop => IInv'
<1> SUFFICES ASSUME IInv, Pop PROVE IInv'
  OBVIOUS
<1> DEFINE q == client.events
           e == Head(q)
           l == IF e.what \in Alarms THEN "no" ELSE client.lost
           r == [client EXCEPT !.events = Tail(q), !.lost = l]
<1>1. /\ client \in Clients /\ QueueOK(client, marked) /\ LossOK(client)
      /\ FlagsOK(client, marked) /\ ChannelsOK(client, channels)
  BY DEF IInv, ClientOK
<1>2. client' = r /\ UNCHANGED <<channels, marked, crashed>>
  BY DEF Pop
<1>3. q \in Seq(Events) /\ q # <<>>
  BY <1>1 DEF Pop, Clients
<1>4. /\ Tail(q) \in Seq(Events) /\ Len(Tail(q)) = Len(q) - 1
      /\ Len(q) \in Nat \ {0} /\ DOMAIN q = 1..Len(q)
      /\ DOMAIN Tail(q) = 1..(Len(q) - 1)
      /\ \A i \in 1..(Len(q) - 1) : Tail(q)[i] = q[i + 1]
      /\ e = q[1] /\ e \in Events
  BY <1>3
<1>5. l \in {"no", "yes"}
  BY <1>1 DEF Clients
<1> HIDE DEF l, e
<1>6. /\ r \in Clients /\ r.on = client.on /\ r.state = client.state
      /\ r.generation = client.generation /\ r.timers = client.timers
      /\ r.events = Tail(q) /\ r.lost = l
  BY <1>1, <1>4, <1>5 DEF Clients
<1> HIDE DEF r
<1>7. QueueOK(r, marked)
  BY <1>1, <1>4, <1>6, BoundsAssumption DEF QueueOK
<1>8. LossOK(r)
  <2> SUFFICES ASSUME r.lost = "yes" PROVE Announced(r)
    BY DEF LossOK
  <2>1. client.lost = "yes" /\ e.what \notin Alarms
    BY <1>6 DEF l
  <2>2. PICK i \in 1..Len(q) : q[i].what \in Alarms
    BY <1>1, <1>4, <2>1 DEF LossOK, Announced
  <2>3. i # 1
    BY <1>4, <2>1, <2>2
  <2>4. i - 1 \in 1..(Len(q) - 1) /\ Tail(q)[i - 1] = q[i]
    BY <1>4, <2>3
  <2> QED
    BY <1>4, <1>6, <2>2, <2>4 DEF Announced
<1>9. FlagsOK(r, marked)
  BY <1>1, <1>6 DEF FlagsOK, Has
<1>10. EndsInAlarm(client) => r.events = <<>> \/ EndsInAlarm(r)
  BY <1>3, <1>6, TailLast DEF EndsInAlarm
<1>11. ChannelsOK(r, channels)
  BY <1>1, <1>3, <1>6, <1>10 DEF ChannelsOK, Has
<1>12. known' \subseteq Generations \cup {0}
  <2>1. e.generation \in Generations \cup {0}
    BY <1>4 DEF Events
  <2> QED
    BY <2>1 DEF Pop, IInv, TypeOK, e, q
<1> QED
  BY <1>2, <1>6, <1>7, <1>8, <1>9, <1>11, <1>12
  DEF IInv, TypeOK, ClientOK, QueueOK

-----------------------------------------------------------------------------
(* The theorems. *)

\* The invariant holds of a client that was constructed and not started.
LEMMA InitIInv == Init => IInv
<1> SUFFICES ASSUME Init PROVE IInv
  OBVIOUS
<1>1. <<>> \in Seq(Events) /\ Len(<<>>) = 0 /\ DOMAIN <<>> = {}
  OBVIOUS
<1>2. TypeOK
  <2>1. client \in Clients
    BY <1>1 DEF Init, Clients, States
  <2>2. channels \in [Generations -> Channel]
    BY DEF Init, Channel
  <2>3. Len(client.events) <= MaxPendingEvents
    BY <1>1, BoundsAssumption DEF Init
  <2> QED
    BY <2>1, <2>2, <2>3 DEF Init, TypeOK
<1>3. QueueOK(client, marked) /\ LossOK(client) /\ FlagsOK(client, marked)
  BY <1>1, BoundsAssumption DEF Init, QueueOK, LossOK, FlagsOK, Has
<1>4. ChannelsOK(client, channels)
  BY DEF Init, ChannelsOK, Has
<1> QED
  BY <1>2, <1>3, <1>4 DEF IInv, ClientOK, TypeOK

\* Every step of the client, its channels, its timers and the host keeps it.
LEMMA NextIInv == IInv /\ [Next]_vars => IInv'
<1> SUFFICES ASSUME IInv, [Next]_vars PROVE IInv'
  OBVIOUS
<1>1. CASE Start
  <2>1. Connect(client) /\ ClientOK(client, marked)
    BY <1>1 DEF Start, IInv
  <2> QED
    BY <2>1, ConnectKeeps
<1>2. CASE Stop
  BY <1>2, StopKeeps
<1>3. CASE Pop
  BY <1>3, PopKeeps
<1>4. ASSUME NEW g \in Generations, ChannelHandler(g)
      PROVE  IInv'
  BY <1>4, OnOpenedKeeps, OnWrittenKeeps, OnFrameKeeps,
     OnConnectDeadlineKeeps, OnFailedKeeps DEF ChannelHandler
<1>5. ASSUME NEW g \in Generations, TimerHandler(g)
      PROVE  IInv'
  BY <1>5, TimerHandlerKeeps
<1>6. ASSUME NEW g \in Generations, Reconcile(g)
      PROVE  IInv'
  BY <1>6, ReconcileKeeps
<1>7. CASE UNCHANGED vars
  BY <1>7 DEF vars, IInv, TypeOK, ClientOK, QueueOK, LossOK, Announced,
              FlagsOK, ChannelsOK, EndsInAlarm, Has
<1> QED
  BY <1>1, <1>2, <1>3, <1>4, <1>5, <1>6, <1>7 DEF Next

\* The gate holds over any number of connections, late marks, old handlers and
\* double connections: live, and a wallet event flagged as reconciled, only in
\* a generation that the host has marked (private_wss.cpp:266-275).
THEOREM PrivateGate == Spec => [](TypeOK /\ GateHolds)
<1>1. IInv => TypeOK /\ GateHolds
  BY DEF IInv, ClientOK, QueueOK, FlagsOK, GateHolds, Has
<1> QED
  BY <1>1, InitIInv, NextIInv, PTL DEF Spec

\* Whatever the capacity of the queue, a wallet event that it lost is followed
\* by an alarm that the host has yet to read (private_wss.cpp:218-222, 354-365).
THEOREM PrivateLossAnnounced == Spec => []LossIsAnnounced
<1>1. IInv => LossIsAnnounced
  BY DEF IInv, ClientOK, LossOK, Announced, LossIsAnnounced
<1> QED
  BY <1>1, InitIInv, NextIInv, PTL DEF Spec

=============================================================================
