------------------------- MODULE PublicWsClientProofs -------------------------
(***************************************************************************)
(* For any topics, queue bound, backoff policy and number of connections:  *)
(* a live stream is fresh, no loss goes unannounced, timestamps do not go  *)
(* back, and the backoff is reset only by a stream that went live.         *)
(***************************************************************************)
EXTENDS PublicWsClientLemmas

-----------------------------------------------------------------------------
(* The handlers. *)

Operations == {"open", "read", "write"}

\* The flags of a client whose channel is opening or was given up meanwhile.
OpeningFlags == {Opening, Reopening, Waiting, Waiting \cup {"ack_timer"}}

\* What may be under way on the current connection of the client c.
FitsSession(ops, c) ==
  /\ "open" \in ops =>
       /\ ops = {"open"}
       /\ "started" \in c.on => c.on \in OpeningFlags /\ Announced(c)
  /\ "read" \in ops => ("session_open" \in c.on <=> "channel" \in c.on)

ChannelsInv ==
  /\ channels \in [Generations -> SUBSET Operations]
  /\ \A g \in Generations :
       /\ g > client.generation => channels[g] = {}
       /\ g = client.generation => FitsSession(channels[g], client)

StateInv == client \in ClientType /\ Inv(client) /\ ChannelsInv

\* The backoff was not reset, or for a reason.
BackoffStep ==
  \/ Grew(client.backoff, client'.backoff) \/ client'.state = "live"
  \/ ~Has(client, "started")
  \/ client'.lost = "yes" /\ \E t \in Desired(client) : LiveButFor(t)

LEMMA DtIsNat == \A dt \in Elapsed : dt \in Nat
BY PublicAssumption

\* A step of the connection g.
LEMMA ChannelsKept ==
  ASSUME StateInv, NEW g \in Generations, NEW ops \in SUBSET Operations,
         channels' = [channels EXCEPT ![g] = ops],
         client'.generation = client.generation,
         g > client.generation => ops = {},
         g = client.generation => FitsSession(ops, client'),
         g # client.generation => client' = client
  PROVE  ChannelsInv'
<1>1. /\ channels' \in [Generations -> SUBSET Operations] /\ channels'[g] = ops
      /\ \A h \in Generations : h # g => channels'[h] = channels[h]
  BY DEF StateInv, ChannelsInv
<1>2. ASSUME NEW h \in Generations
      PROVE  /\ h > client.generation => channels'[h] = {}
             /\ h = client.generation => FitsSession(channels'[h], client')
  <2>1. CASE h = g
    BY <1>1, <2>1
  <2>2. CASE h # g
    <3>1. CASE h = client.generation
      <4>1. CASE g # client.generation
        BY <1>1, <2>2, <3>1, <4>1 DEF StateInv, ChannelsInv
      <4>2. CASE g = client.generation
        BY <2>2, <3>1, <4>2
      <4> QED
        BY <4>1, <4>2
    <3>2. CASE h # client.generation
      BY <1>1, <2>2, <3>2 DEF StateInv, ChannelsInv
    <3> QED
      BY <3>1, <3>2
  <2> QED
    BY <2>1, <2>2
<1> QED
  BY <1>1, <1>2 DEF ChannelsInv

\* The client alone changes.
LEMMA SameChannelsKept ==
  ASSUME StateInv, UNCHANGED channels, client'.generation = client.generation,
         \A g \in Generations :
           g = client.generation => FitsSession(channels[g], client')
  PROVE  ChannelsInv'
BY DEF StateInv, ChannelsInv

LEMMA OperationsFit ==
  ASSUME StateInv, NEW g \in Generations
  PROVE  /\ channels[g] \in SUBSET Operations
         /\ g = client.generation => FitsSession(channels[g], client)
BY DEF StateInv, ChannelsInv

\* connect: the next generation's channel, or none.
LEMMA ConnectKept ==
  ASSUME StateInv, NEW c \in ClientType, c.regressed = "no",
         c.generation = client.generation, NEW dt \in Nat, Connect(c, dt)
  PROVE  StateInv' /\ Grew(c.backoff, client'.backoff)
<1> DEFINE new == Connecting(c)
           next == c.generation + 1
<1>0. c.generation < MaxGeneration /\ c.generation \in Nat /\ MaxGeneration \in Nat
      /\ c.backoff \in BackoffType
  <2>1. c.generation \in FGeneration /\ c.backoff \in BackoffType
    BY ClientTypeIs
  <2> QED
    BY <2>1, PublicAssumption DEF Connect, FGeneration
<1>1. /\ new \in ClientType /\ Inv(new) /\ new.on \in {Opening, Reopening}
      /\ new.generation = next /\ new.backoff = c.backoff
  BY <1>0, ConnectingKept
<1>2. \/ client' = new /\ channels' = [channels EXCEPT ![next] = {"open"}]
      \/ client' = ScheduleReconnect(new, dt) /\ channels' = channels
  BY DEF Connect, Becomes
<1> HIDE DEF new
<1>3. next \in Generations /\ next > client.generation /\ channels[next] = {}
  BY <1>0 DEF Generations, StateInv, ChannelsInv
<1>4. \A g \in Generations : /\ g > next => g > client.generation
                             /\ g \in Int
  BY <1>0 DEF Generations
<1>5. CASE client' = new /\ channels' = [channels EXCEPT ![next] = {"open"}]
  <2>1. /\ channels' \in [Generations -> SUBSET Operations] /\ channels'[next] = {"open"}
        /\ \A h \in Generations : h # next => channels'[h] = channels[h]
    BY <1>3, <1>5 DEF StateInv, ChannelsInv, Operations
  <2>2. FitsSession({"open"}, client')
    <3>1. new.on \in OpeningFlags /\ "channel" \in new.on
      BY <1>1 DEF OpeningFlags, Opening, Reopening
    <3>2. Announced(new)
      BY <1>1, <3>1 DEF Inv, LossInv
    <3> QED
      BY <1>5, <3>1, <3>2 DEF FitsSession
  <2>3. ChannelsInv'
    <3>1. ASSUME NEW g \in Generations
          PROVE  /\ g > next => channels'[g] = {}
                 /\ g = next => FitsSession(channels'[g], client')
      <4>1. g > next => g # next
        BY <1>0, <1>4
      <4> QED
        BY <1>4, <2>1, <2>2, <4>1 DEF StateInv, ChannelsInv
    <3> QED
      BY <1>1, <1>5, <2>1, <3>1 DEF ChannelsInv
  <2> QED
    BY <1>0, <1>1, <1>5, <2>3, GrewIsReflexive DEF StateInv
<1>6. CASE client' = ScheduleReconnect(new, dt) /\ channels' = channels
  <2>1. /\ client' \in ClientType /\ Inv(client') /\ client'.generation = next
        /\ Grew(c.backoff, client'.backoff)
    BY <1>1, <1>6, ScheduleKept
  <2>2. FitsSession({}, client')
    BY DEF FitsSession
  <2>3. ChannelsInv'
    BY <1>3, <1>4, <1>6, <2>1, <2>2 DEF StateInv, ChannelsInv
  <2> QED
    BY <2>1, <2>3 DEF StateInv, Inv, OnInv, RequestInv, LiveInv, LossInv, StampInv
<1> QED
  BY <1>2, <1>5, <1>6

\* Assembles a step.
LEMMA StepKept ==
  ASSUME client' \in ClientType, Inv(client'), ChannelsInv',
         Grew(client.backoff, client'.backoff)
  PROVE  StateInv' /\ BackoffStep
<1>1. Inv(client)'
  BY DEF Inv, OnInv, RequestInv, LiveInv, LossInv, StampInv
<1> QED
  BY <1>1 DEF StateInv, BackoffStep

LEMMA ClientFacts ==
  ASSUME StateInv
  PROVE  /\ client \in ClientType /\ Inv(client) /\ client.regressed = "no"
         /\ client.backoff \in BackoffType /\ client.on \in FOn
         /\ Grew(client.backoff, client.backoff)
<1>1. client \in ClientType /\ Inv(client) /\ client.regressed = "no"
  BY DEF StateInv, Inv, StampInv
<1> QED
  BY <1>1, ClientTypeIs, GrewIsReflexive

LEMMA StartKept ==
  ASSUME StateInv, NEW dt \in Elapsed, Start(dt)
  PROVE  StateInv' /\ BackoffStep
<1> DEFINE topics == [t \in Topics |-> IF t \in StartTopics \cup Desired(client)
                                       THEN NewTopic ELSE NoTopic]
           backoff == MarkStable(client.backoff)
           c == [client EXCEPT !.topics = topics, !.backoff = backoff]
<1>1. ~Has(client, "started") /\ Connect(c, dt)
  BY DEF Start
<1>2. NewTopic \in TopicType /\ NoTopic \in TopicType
  BY PublicAssumption DEF NewTopic, NoTopic, TopicType
<1>3. topics \in FTopics /\ backoff \in BackoffType
  BY <1>2, NewBackoffType DEF FTopics, MarkStable
<1> HIDE DEF topics, backoff
<1>4. /\ c \in ClientType /\ c.regressed = "no" /\ c.generation = client.generation
  BY <1>3, ClientFacts, ClientTypeIs, Zenon
<1> HIDE DEF c
<1> QED
  BY <1>1, <1>4, ConnectKept, DtIsNat DEF BackoffStep

LEMMA StopKept ==
  ASSUME StateInv, Stop
  PROVE  StateInv' /\ BackoffStep
<1>1. client' = HardStop(client) /\ channels' = channels
  BY DEF Stop, Becomes
<1>2. /\ client' \in ClientType /\ Inv(client') /\ client'.on = {}
      /\ client'.generation = client.generation /\ client'.backoff = client.backoff
  BY <1>1, ClientFacts, HardStopKept
<1>3. \A g \in Generations :
        g = client.generation => FitsSession(channels[g], client')
  BY <1>2, OperationsFit DEF FitsSession
<1>4. ChannelsInv'
  BY <1>1, <1>2, <1>3, SameChannelsKept
<1> QED
  BY <1>2, <1>4, ClientFacts, StepKept

LEMMA OpenedKept ==
  ASSUME StateInv, NEW g \in Generations, OnOpened(g)
  PROVE  StateInv' /\ BackoffStep
<1>0. "open" \in channels[g]
  BY DEF OnOpened
<1>1. CASE Current(g) /\ (Has(client, "channel") \/ Desired(client) = {})
  <2> DEFINE ops == {op \in {"read", "write"} :
                        /\ Has(client, "channel")
                        /\ op = "write" => Desired(client) # {}}
  <2>1. /\ client' = Subscribing(client) /\ channels' = [channels EXCEPT ![g] = ops]
        /\ "channel" \in client.on \/ Desired(client) = {}
    BY <1>1 DEF OnOpened, Becomes, Has
  <2>2. /\ g = client.generation /\ "started" \in client.on
        /\ client.on \in OpeningFlags /\ Announced(client)
    BY <1>0, <1>1, OperationsFit DEF Current, Has, FitsSession
  <2>3. /\ client' \in ClientType /\ Inv(client')
        /\ client'.generation = client.generation
        /\ client'.on = client.on \cup {"session_open", "ack_timer"}
        /\ client'.backoff = client.backoff
    BY <2>1, <2>2, ClientFacts, SubscribingKept
  <2>4. /\ ops \in SUBSET Operations /\ "open" \notin ops
        /\ "read" \in ops => "channel" \in client.on
    BY DEF Operations, Has
  <2> HIDE DEF ops
  <2>5. FitsSession(ops, client') /\ ~(g > client.generation)
    BY <2>2, <2>3, <2>4 DEF FitsSession, Generations
  <2>6. ChannelsInv'
    BY <2>1, <2>2, <2>3, <2>4, <2>5, ChannelsKept, Zenon
  <2> QED
    BY <2>3, <2>6, ClientFacts, StepKept
<1>2. CASE ~Current(g)
  <2>1. client' = client /\ channels' = [channels EXCEPT ![g] = {}]
    BY <1>2 DEF OnOpened, Becomes
  <2>2. FitsSession({}, client') /\ {} \in SUBSET Operations
    BY DEF FitsSession
  <2>3. ChannelsInv'
    BY <2>1, <2>2, ChannelsKept, Zenon
  <2> QED
    BY <2>1, <2>3, ClientFacts, StepKept
<1>3. CASE Current(g) /\ ~(Has(client, "channel") \/ Desired(client) = {})
  <2>1. client' = client /\ channels' = channels
    BY <1>3 DEF OnOpened
  <2>2. ChannelsInv'
    BY <2>1, OperationsFit, SameChannelsKept
  <2> QED
    BY <2>1, <2>2, ClientFacts, StepKept
<1> QED
  BY <1>1, <1>2, <1>3

\* An operation of a connection ends and nothing follows.
LEMMA EndedKept ==
  ASSUME StateInv, NEW g \in Generations, NEW op \in Operations,
         client' = client, channels' = [channels EXCEPT ![g] = @ \ {op}]
  PROVE  StateInv' /\ BackoffStep
<1> DEFINE ops == channels[g] \ {op}
<1>1. channels' = [channels EXCEPT ![g] = ops] /\ ops \in SUBSET Operations
  BY OperationsFit
<1>2. channels[g] = {} => ops = {}
  OBVIOUS
<1>3. g = client.generation => FitsSession(ops, client')
  BY OperationsFit DEF FitsSession
<1>4. g > client.generation => ops = {}
  BY <1>2 DEF StateInv, ChannelsInv
<1> HIDE DEF ops
<1>5. ChannelsInv'
  BY <1>1, <1>3, <1>4, ChannelsKept, Zenon
<1> QED
  BY <1>5, ClientFacts, StepKept

LEMMA FailedKept ==
  ASSUME StateInv, NEW g \in Generations, NEW op \in Operations, NEW dt \in Elapsed,
         OnFailed(g, op, dt)
  PROVE  StateInv' /\ BackoffStep
<1>0. op \in channels[g] /\ channels' = [channels EXCEPT ![g] = @ \ {op}]
  BY DEF OnFailed, Becomes
<1>1. CASE Current(g)
  <2> DEFINE ops == channels[g] \ {op}
  <2>1. client' = ScheduleReconnect(client, dt) /\ g = client.generation
    BY <1>1 DEF OnFailed, Becomes, Current
  <2>2. /\ client' \in ClientType /\ Inv(client')
        /\ client'.generation = client.generation
        /\ client'.on = client.on \/ client'.on = Waiting
        /\ Grew(client.backoff, client'.backoff)
    BY <2>1, ClientFacts, ScheduleKept, DtIsNat
  <2>3. ops \in SUBSET Operations /\ "open" \notin ops /\ channels' = [channels EXCEPT ![g] = ops]
    BY <1>0, <2>1, OperationsFit DEF FitsSession
  <2>4. FitsSession(ops, client')
    BY <2>1, <2>2, <2>3, OperationsFit DEF FitsSession, Waiting
  <2> HIDE DEF ops
  <2>5. ~(g > client.generation)
    BY <2>1 DEF Generations
  <2>6. ChannelsInv'
    BY <2>1, <2>2, <2>3, <2>4, <2>5, ChannelsKept, Zenon
  <2> QED
    BY <2>2, <2>6, StepKept
<1>2. CASE ~Current(g)
  <2>1. client' = client
    BY <1>2 DEF OnFailed, Becomes
  <2> QED
    BY <1>0, <2>1, EndedKept, Zenon
<1> QED
  BY <1>1, <1>2

\* received, on the current connection: the client became c, and read_next.
LEMMA ReadOnKept ==
  ASSUME StateInv, NEW g \in Generations, Current(g), "read" \in channels[g],
         NEW more \in SUBSET {"write"}, NEW c \in ClientType, Inv(c),
         c.generation = client.generation, c.on = client.on \/ c.on = Waiting,
         ReadOn(g, c, (channels[g] \ {"read"}) \cup more)
  PROVE  StateInv' /\ client' = c
<1> DEFINE ops == (channels[g] \ {"read"}) \cup more
           after == IF Has(c, "channel") THEN ops \cup {"read"} ELSE ops
<1>1. client' = c /\ channels' = [channels EXCEPT ![g] = after]
  BY DEF ReadOn, Becomes
<1>2. g = client.generation /\ FitsSession(channels[g], client)
  BY OperationsFit DEF Current
<1>3. "open" \notin channels[g] /\ ("session_open" \in client.on <=> "channel" \in client.on)
  BY <1>2 DEF FitsSession
<1>4. after \in SUBSET Operations /\ "open" \notin after
  BY <1>3, OperationsFit, Zenon DEF Operations
<1> HIDE DEF after
<1>5. FitsSession(after, client') /\ ~(g > client.generation)
  BY <1>1, <1>2, <1>3, <1>4 DEF FitsSession, Waiting, Generations
<1>6. ChannelsInv'
  BY <1>1, <1>2, <1>4, <1>5, ChannelsKept, Zenon
<1>7. Inv(client)'
  BY <1>1 DEF Inv, OnInv, RequestInv, LiveInv, LossInv, StampInv
<1> QED
  BY <1>1, <1>6, <1>7 DEF StateInv

LEMMA FrameKept ==
  ASSUME StateInv, NEW g \in Generations, NEW dt \in Elapsed, OnFrame(g, dt)
  PROVE  StateInv' /\ BackoffStep
<1> DEFINE ops == channels[g] \ {"read"}
<1>0. "read" \in channels[g] /\ dt \in Nat
  BY DtIsNat DEF OnFrame
<1>1. ops = ops \cup {} /\ {} \in SUBSET {"write"} /\ {"write"} \in SUBSET {"write"}
  OBVIOUS
<1>2. /\ client \in ClientType /\ Inv(client) /\ client.regressed = "no"
      /\ client.backoff \in BackoffType /\ Grew(client.backoff, client.backoff)
  BY ClientFacts
<1>3. CASE ~Current(g)
  <2>1. client' = client /\ channels' = [channels EXCEPT ![g] = ops]
    BY <1>3 DEF OnFrame, Becomes
  <2>2. "read" \in Operations /\ channels' = [channels EXCEPT ![g] = @ \ {"read"}]
    BY <2>1 DEF Operations
  <2> QED
    BY <2>1, <2>2, EndedKept, Zenon
<1>4. CASE Current(g)
  <2>0. "started" \in client.on /\ ("session_open" \in client.on <=> "channel" \in client.on)
    BY <1>0, <1>4, OperationsFit DEF Current, Has, FitsSession
  <2>1. CASE OnHeartbeat(g, ops)
    <3>1. CASE Has(client, "channel")
      <4>1. ReadOn(g, client, ops \cup {"write"})
        BY <2>1, <3>1 DEF OnHeartbeat
      <4> QED
        BY <1>0, <1>1, <1>2, <1>4, <4>1, ReadOnKept, Zenon DEF BackoffStep
    <3>2. CASE ~Has(client, "channel")
      <4>1. client' = client /\ channels' = channels
        BY <2>1, <3>2 DEF OnHeartbeat
      <4>2. ChannelsInv'
        BY <4>1 DEF StateInv, ChannelsInv
      <4> QED
        BY <1>2, <4>1, <4>2, StepKept
    <3> QED
      BY <3>1, <3>2
  <2>2. CASE ReadOn(g, ScheduleReconnect(client, dt), ops)
    <3> DEFINE c == ScheduleReconnect(client, dt)
    <3>1. /\ c \in ClientType /\ Inv(c) /\ c.generation = client.generation
          /\ c.on = client.on \/ c.on = Waiting
          /\ Grew(client.backoff, c.backoff)
      BY <1>0, <1>2, ScheduleKept
    <3>2. ReadOn(g, c, ops \cup {})
      BY <2>2
    <3> HIDE DEF c
    <3> QED
      BY <1>0, <1>1, <1>4, <3>1, <3>2, ReadOnKept, Zenon DEF BackoffStep
  <2>3. CASE ReadOn(g, SetState(client, "degraded"), ops)
    <3> DEFINE c == SetState(client, "degraded")
    <3>0. "degraded" \in States
      BY DEF States
    <3>1. /\ c \in ClientType /\ Inv(c) /\ c.generation = client.generation
          /\ c.on = client.on /\ c.backoff = client.backoff
      BY <1>2, <3>0, SetStateKept
    <3>2. ReadOn(g, c, ops \cup {})
      BY <2>3
    <3> HIDE DEF c
    <3> QED
      BY <1>0, <1>1, <1>2, <1>4, <3>1, <3>2, ReadOnKept, Zenon DEF BackoffStep
  <2>4. CASE \E r \in Requests :
               client.pending[r] > 0 /\ ReadOn(g, Granted(client, r, dt), ops)
    <3>1. PICK r \in Requests :
            client.pending[r] > 0 /\ ReadOn(g, Granted(client, r, dt), ops)
      BY <2>4
    <3> DEFINE c == Granted(client, r, dt)
    <3>2. /\ c \in ClientType /\ Inv(c) /\ c.generation = client.generation
          /\ c.on = client.on \/ c.on = Waiting
          /\ Grew(client.backoff, c.backoff) \/ c.state = "live"
      BY <1>0, <1>2, <2>0, <3>1, GrantedKept
    <3>3. ReadOn(g, c, ops \cup {})
      BY <3>1
    <3> HIDE DEF c
    <3> QED
      BY <1>0, <1>1, <1>4, <3>2, <3>3, ReadOnKept, Zenon DEF BackoffStep
  <2>5. CASE \E t \in Topics, stamp \in 0..MaxStamp :
               ReadOn(g, HandleData(client, t, stamp, dt), ops)
    <3>1. PICK t \in Topics, stamp \in 0..MaxStamp :
            ReadOn(g, HandleData(client, t, stamp, dt), ops)
      BY <2>5
    <3> DEFINE c == HandleData(client, t, stamp, dt)
    <3>2. /\ c \in ClientType /\ Inv(c) /\ c.generation = client.generation
          /\ c.on = client.on \/ c.on = Waiting
          /\ \/ Grew(client.backoff, c.backoff) \/ c.state = "live"
             \/ c.lost = "yes" /\ t \in Desired(client) /\ ButFor(client, t)
      BY <1>0, <1>2, <2>0, DataKept
    <3>3. ReadOn(g, c, ops \cup {})
      BY <3>1
    <3> HIDE DEF c
    <3>4. ButFor(client, t) => LiveButFor(t)
      BY DEF ButFor, LiveButFor
    <3>5. StateInv' /\ client' = c
      BY <1>0, <1>1, <1>4, <3>2, <3>3, ReadOnKept, Zenon
    <3> QED
      BY <3>2, <3>4, <3>5 DEF BackoffStep
  <2> QED
    BY <1>4, <2>1, <2>2, <2>3, <2>4, <2>5 DEF OnFrame
<1> QED
  BY <1>3, <1>4

\* The ack timer is armed, or its handler has run.
LEMMA AckTimerFacts ==
  ASSUME NEW c \in ClientType, Inv(c), NEW on \in FOn,
         on \ {"ack_timer"} = c.on \ {"ack_timer"},
         NEW d, d = [c EXCEPT !.on = on]
  PROVE  /\ d \in ClientType /\ Inv(d) /\ d.on = on /\ d.generation = c.generation
         /\ d.backoff = c.backoff /\ (Announced(c) => Announced(d))
<1>1. /\ d \in ClientType /\ d.on = on /\ d.state = c.state
      /\ d.generation = c.generation /\ d.topics = c.topics
      /\ d.pending = c.pending /\ d.backoff = c.backoff
      /\ d.delivered = c.delivered /\ d.lost = c.lost
      /\ d.events = c.events /\ d.regressed = c.regressed
  BY ClientTypeIs
<1>2. \A f \in Flags : f # "ack_timer" => (f \in on <=> f \in c.on)
  OBVIOUS
<1>3. /\ "started" \in on <=> "started" \in c.on
      /\ "channel" \in on <=> "channel" \in c.on
      /\ "session_open" \in on <=> "session_open" \in c.on
      /\ "reconnect_pending" \in on <=> "reconnect_pending" \in c.on
  BY <1>2 DEF Flags
<1>4. OnInv(d) /\ RequestInv(d) /\ LossInv(d) /\ StampInv(d)
  BY <1>1, <1>3 DEF Inv, OnInv, RequestInv, LossInv, StampInv, Announced
<1>5. LiveInv(d)
  BY <1>1, <1>3 DEF Inv, LiveInv, Has, Desired
<1> QED
  BY <1>1, <1>4, <1>5 DEF Inv, Announced

\* schedule_reconnect by a timer of the connection.
LEMMA TimedOutKept ==
  ASSUME StateInv, NEW c \in ClientType, Inv(c), NEW dt \in Nat,
         c.generation = client.generation, c.backoff = client.backoff,
         c.on = client.on \/ c.on = client.on \ {"ack_timer"},
         Announced(client) => Announced(c),
         channels' = channels, client' = c \/ client' = ScheduleReconnect(c, dt)
  PROVE  StateInv' /\ BackoffStep
<1>1. /\ client' \in ClientType /\ Inv(client')
      /\ client'.generation = client.generation
      /\ client'.on = c.on \/ client'.on = Waiting
      /\ Grew(client.backoff, client'.backoff)
      /\ Announced(client) => Announced(client')
  BY ClientFacts, ScheduleKept
<1>2. ASSUME NEW g \in Generations, g = client.generation
      PROVE  FitsSession(channels[g], client')
  <2>1. FitsSession(channels[g], client)
    BY <1>2, OperationsFit
  <2>2. "started" \in client'.on => "started" \in client.on
    <3>1. CASE client'.on = c.on
      BY <3>1
    <3>2. CASE client'.on # c.on
      <4>1. client' = ScheduleReconnect(c, dt) /\ client' # c
        BY <3>2
      <4>2. "started" \in c.on
        BY <4>1 DEF ScheduleReconnect, Has
      <4> QED
        BY <4>2
    <3> QED
      BY <3>1, <3>2
  <2>3. client.on \in OpeningFlags => client'.on \in OpeningFlags
    <3>1. client.on \in OpeningFlags => client.on \ {"ack_timer"} \in OpeningFlags
      BY DEF OpeningFlags, Opening, Reopening, Waiting
    <3>2. Waiting \in OpeningFlags
      BY DEF OpeningFlags
    <3> QED
      BY <1>1, <3>1, <3>2
  <2>4. "read" \in channels[g] => ("session_open" \in client'.on <=> "channel" \in client'.on)
    BY <1>1, <2>1 DEF FitsSession, Waiting
  <2> QED
    BY <1>1, <2>1, <2>2, <2>3, <2>4 DEF FitsSession
<1>3. ChannelsInv'
  BY <1>1, <1>2, SameChannelsKept
<1> QED
  BY <1>1, <1>3, StepKept

LEMMA HeartbeatTimerKept ==
  ASSUME StateInv, NEW dt \in Elapsed, OnHeartbeatTimer(dt)
  PROVE  StateInv' /\ BackoffStep
<1>1. client' = ScheduleReconnect(client, dt) /\ channels' = channels
  BY DEF OnHeartbeatTimer, Becomes
<1> QED
  BY <1>1, ClientFacts, DtIsNat, TimedOutKept

LEMMA AckTimerKept ==
  ASSUME StateInv, NEW dt \in Elapsed, OnAckTimer(dt)
  PROVE  StateInv' /\ BackoffStep
<1> DEFINE on == client.on \ {"ack_timer"}
           c == [client EXCEPT !.on = on]
<1>1. /\ client' = c \/ client' = ScheduleReconnect(c, dt)
      /\ channels' = channels
  BY DEF OnAckTimer, Becomes
<1>2. on \in FOn /\ on \ {"ack_timer"} = client.on \ {"ack_timer"}
  BY ClientFacts DEF FOn
<1>3. /\ c \in ClientType /\ Inv(c) /\ c.on = on /\ c.generation = client.generation
      /\ c.backoff = client.backoff /\ (Announced(client) => Announced(c))
  BY <1>2, ClientFacts, AckTimerFacts
<1> HIDE DEF c
<1> QED
  BY <1>1, <1>3, DtIsNat, TimedOutKept

LEMMA ReconnectTimerKept ==
  ASSUME StateInv, NEW g \in Generations, NEW dt \in Elapsed, OnReconnectTimer(g, dt)
  PROVE  StateInv' /\ BackoffStep
<1> DEFINE timers == client.timers \ {g}
           on == client.on \ {"reconnect_pending"}
           c == [client EXCEPT !.timers = timers, !.on = on]
<1>1. \/ Has(c, "started") /\ Connect(c, dt)
      \/ ~Has(c, "started") /\ client' = c /\ channels' = channels
  BY DEF OnReconnectTimer, Becomes
<1>2. on \in FOn /\ timers \in FTimers
  <2>1. client.timers \in FTimers
    BY ClientFacts, ClientTypeIs
  <2> QED
    BY <2>1, ClientFacts DEF FOn, FTimers
<1> HIDE DEF timers
<1>3. /\ c \in ClientType /\ c.on = on /\ c.state = client.state
      /\ c.generation = client.generation /\ c.topics = client.topics
      /\ c.pending = client.pending /\ c.backoff = client.backoff
      /\ c.delivered = client.delivered /\ c.lost = client.lost
      /\ c.events = client.events /\ c.regressed = "no"
  BY <1>2, ClientFacts, ClientTypeIs, Zenon
<1> HIDE DEF c
<1>4. CASE Connect(c, dt)
  BY <1>3, <1>4, ConnectKept, DtIsNat DEF BackoffStep
<1>5. CASE ~Has(c, "started") /\ client' = c /\ channels' = channels
  <2>1. OnInv(c) /\ RequestInv(c) /\ LossInv(c) /\ StampInv(c)
    BY <1>3, <1>5, ClientFacts
       DEF Inv, OnInv, RequestInv, LossInv, StampInv, Announced, Has
  <2>2. LiveInv(c)
    BY <1>3, ClientFacts DEF Inv, LiveInv, Has, Desired
  <2>3. \A h \in Generations : h = client.generation => FitsSession(channels[h], client')
    BY <1>3, <1>5, OperationsFit DEF FitsSession, Has
  <2>4. ChannelsInv'
    BY <1>3, <1>5, <2>3, SameChannelsKept
  <2> QED
    BY <1>3, <1>5, <2>1, <2>2, <2>4, ClientFacts, StepKept DEF Inv
<1> QED
  BY <1>1, <1>4, <1>5

LEMMA PopKept ==
  ASSUME StateInv, Pop
  PROVE  StateInv' /\ BackoffStep
<1> DEFINE e == Tail(client.events)
           l == IF Head(client.events) \in Alarms THEN "no" ELSE client.lost
<1>1. client' = [client EXCEPT !.events = e, !.lost = l] /\ channels' = channels
      /\ client.events # <<>>
  BY DEF Pop
<1>2. /\ e \in EventsType
      /\ AlarmIn(client.events) /\ Head(client.events) \notin Alarms => AlarmIn(e)
  BY <1>1, ClientFacts, ClientTypeIs, PopFacts
<1>3. l \in FAnswer /\ (l = "yes" => client.lost = "yes" /\ Head(client.events) \notin Alarms)
  BY ClientFacts, ClientTypeIs DEF FAnswer
<1> HIDE DEF e, l
<1>4. /\ client' \in ClientType /\ client'.on = client.on /\ client'.state = client.state
      /\ client'.generation = client.generation /\ client'.topics = client.topics
      /\ client'.pending = client.pending /\ client'.backoff = client.backoff
      /\ client'.delivered = client.delivered /\ client'.lost = l
      /\ client'.events = e /\ client'.regressed = client.regressed
  BY <1>1, <1>2, <1>3, ClientFacts, ClientTypeIs, Zenon
<1>5. OnInv(client') /\ RequestInv(client') /\ StampInv(client')
  BY <1>4, ClientFacts DEF Inv, OnInv, RequestInv, StampInv
<1>6. LossInv(client')
  BY <1>2, <1>3, <1>4, ClientFacts DEF Inv, LossInv, Announced
<1>7. LiveInv(client')
  BY <1>4, ClientFacts DEF Inv, LiveInv, Has, Desired
<1>8. ChannelsInv'
  <2>1. Announced(client) => Announced(client')
    BY <1>2, <1>3, <1>4 DEF Announced
  <2>2. \A g \in Generations :
          g = client.generation => FitsSession(channels[g], client')
    BY <1>4, <2>1, OperationsFit DEF FitsSession
  <2> QED
    BY <1>1, <1>4, <2>2, SameChannelsKept
<1> QED
  BY <1>4, <1>5, <1>6, <1>7, <1>8, ClientFacts, StepKept DEF Inv

LEMMA InvalidTopicKept ==
  ASSUME StateInv, AddInvalidTopic
  PROVE  StateInv' /\ BackoffStep
<1>1. client' = SetState(client, "degraded") /\ channels' = channels
  BY DEF AddInvalidTopic
<1>2. "degraded" \in States
  BY DEF States
<1>3. /\ client' \in ClientType /\ Inv(client') /\ client'.on = client.on
      /\ client'.generation = client.generation /\ client'.backoff = client.backoff
      /\ Announced(client) => Announced(client')
  BY <1>1, <1>2, ClientFacts, SetStateKept
<1>4. ChannelsInv'
  <2>1. \A g \in Generations :
          g = client.generation => FitsSession(channels[g], client')
    BY <1>3, OperationsFit DEF FitsSession
  <2> QED
    BY <1>1, <1>3, <2>1, SameChannelsKept
<1> QED
  BY <1>3, <1>4, ClientFacts, StepKept

\* send_subscription and arm_ack_timeout, on an open session.
LEMMA AskedKept ==
  ASSUME StateInv, Open, NEW c \in ClientType, c.on = client.on,
         c.generation = client.generation, c.backoff = client.backoff,
         LossInv(c), StampInv(c), NEW r \in Requests,
         c.state = "live" =>
           \A t \in Desired(c) :
             \/ c.topics[t].acked = "yes" /\ c.topics[t].fresh = "yes"
             \/ c.pending[<<"subscribe", t>>] > 0 \/ r = <<"subscribe", t>>,
         "open" \notin channels[c.generation], Request(c, r)
  PROVE  StateInv' /\ BackoffStep
<1> DEFINE pending == [c.pending EXCEPT ![r] = @ + 1]
           on == c.on \cup {"ack_timer"}
           g == c.generation
           ops == channels[g] \cup {"write"}
<1>0. {"started", "session_open", "channel"} \subseteq c.on /\ OnInv(client)
  BY ClientFacts DEF Open, Inv
<1>1. c.pending \in FPending
  BY ClientTypeIs
<1>2. /\ pending \in FPending /\ pending[r] > 0
      /\ \A q \in Requests : c.pending[q] > 0 => pending[q] > 0
  BY <1>1 DEF FPending
<1>3. on \in FOn
  BY ClientTypeIs DEF FOn, Flags
<1>4. client' = [c EXCEPT !.pending = pending, !.on = on]
  <2>1. client' = [c EXCEPT !.pending[r] = @ + 1, !.on = @ \cup {"ack_timer"}]
    BY DEF Request
  <2> QED
    BY <2>1, ClientTypeIs
<1> HIDE DEF pending
<1>5. /\ client' \in ClientType /\ client'.on = on /\ client'.state = c.state
      /\ client'.generation = c.generation /\ client'.topics = c.topics
      /\ client'.pending = pending /\ client'.backoff = c.backoff
      /\ client'.delivered = c.delivered /\ client'.lost = c.lost
      /\ client'.events = c.events /\ client'.regressed = c.regressed
  BY <1>2, <1>3, <1>4, ClientTypeIs, Zenon
<1>6. OnInv(client') /\ RequestInv(client') /\ LossInv(client')
  BY <1>0, <1>5 DEF OnInv, RequestInv, LossInv, Announced
<1>7. StampInv(client')
  BY <1>0, <1>5 DEF StampInv
<1>8. LiveInv(client')
  <2> SUFFICES ASSUME c.state = "live", NEW t \in Desired(c)
               PROVE  \/ c.topics[t].acked = "yes" /\ c.topics[t].fresh = "yes"
                      \/ pending[<<"subscribe", t>>] > 0
    BY <1>0, <1>5 DEF LiveInv, OnInv, Has, Desired
  <2>1. <<"subscribe", t>> \in Requests
    BY DEF Requests, Desired
  <2> QED
    BY <1>2, <2>1
<1>9. ChannelsInv'
  <2>0. channels' = [channels EXCEPT ![g] = ops]
    BY DEF Request
  <2>1. CASE g \in Generations
    <3>1. ops \in SUBSET Operations /\ "open" \notin ops
      BY <2>1, OperationsFit DEF Operations
    <3>2. FitsSession(ops, client')
      BY <1>0, <1>5, <3>1 DEF FitsSession
    <3>3. ~(g > client.generation)
      BY <2>1 DEF Generations
    <3> HIDE DEF ops
    <3> QED
      BY <1>5, <2>0, <2>1, <3>1, <3>2, <3>3, ChannelsKept, Zenon
  <2>2. CASE g \notin Generations
    <3>1. channels' = channels
      BY <2>0, <2>2 DEF StateInv, ChannelsInv
    <3>2. \A h \in Generations : h # client.generation
      BY <2>2
    <3> QED
      BY <1>5, <3>1, <3>2, SameChannelsKept
  <2> QED
    BY <2>1, <2>2
<1> QED
  BY <1>5, <1>6, <1>7, <1>8, <1>9, ClientFacts, StepKept DEF Inv

\* The same on a channel that is still opening: the request is refused.
LEMMA RefusedKept ==
  ASSUME StateInv, Open, NEW c \in ClientType, c.on = client.on,
         c.generation = client.generation, c.backoff = client.backoff,
         c.regressed = "no", RefusedRequest(c)
  PROVE  StateInv' /\ BackoffStep
<1>1. PICK dt \in Elapsed :
        client' = [ScheduleReconnect(c, dt) EXCEPT !.on = @ \cup {"ack_timer"}]
  BY Zenon DEF RefusedRequest
<1> DEFINE d == ScheduleReconnect(c, dt)
           on == Waiting \cup {"ack_timer"}
<1>2. "started" \in c.on /\ "reconnect_pending" \notin c.on
  BY ClientFacts DEF Open, Inv, OnInv
<1>3. /\ d \in ClientType /\ Inv(d) /\ d.on = Waiting /\ Announced(d)
      /\ d.generation = c.generation /\ d.backoff = Attempt(c.backoff, dt)
  BY <1>2, DtIsNat, RescheduledKept
<1> HIDE DEF d
<1>4. on \in FOn /\ on \ {"ack_timer"} = d.on \ {"ack_timer"}
  BY <1>3 DEF FOn, Flags, Waiting
<1>5. client' = [d EXCEPT !.on = on]
  BY <1>1, <1>3 DEF d
<1> HIDE DEF on
<1>6. /\ client' \in ClientType /\ Inv(client') /\ client'.on = on
      /\ client'.generation = client.generation
      /\ client'.backoff = Attempt(client.backoff, dt) /\ Announced(client')
  BY <1>3, <1>4, <1>5, AckTimerFacts
<1>7. \A g \in Generations :
        g = client.generation => FitsSession(channels[g], client')
  BY <1>6, OperationsFit DEF FitsSession, OpeningFlags, Waiting, on
<1>8. ChannelsInv'
  BY <1>6, <1>7, SameChannelsKept DEF RefusedRequest
<1>9. Grew(client.backoff, client'.backoff)
  BY <1>6, ClientFacts, DtIsNat, AttemptFacts
<1> QED
  BY <1>6, <1>8, <1>9, StepKept

LEMMA RequestKept ==
  ASSUME StateInv, Open, NEW c \in ClientType, c.on = client.on,
         c.generation = client.generation, c.backoff = client.backoff,
         LossInv(c), StampInv(c), NEW r \in Requests,
         c.state = "live" =>
           \A t \in Desired(c) :
             \/ c.topics[t].acked = "yes" /\ c.topics[t].fresh = "yes"
             \/ c.pending[<<"subscribe", t>>] > 0 \/ r = <<"subscribe", t>>,
         Request(c, r)
  PROVE  StateInv' /\ BackoffStep
<1>1. CASE "open" \in channels[c.generation]
  <2>1. RefusedRequest(c) /\ c.regressed = "no"
    BY <1>1 DEF Request, StampInv
  <2> QED
    BY <2>1, RefusedKept
<1>2. CASE "open" \notin channels[c.generation]
  BY <1>2, AskedKept
<1> QED
  BY <1>1, <1>2

\* A topic that is not on the wire joins or leaves.
LEMMA TopicFacts ==
  ASSUME StateInv, NEW t \in Topics, NEW topic \in {NewTopic, NoTopic},
         topic = NewTopic => t \notin Desired(client),
         topic = NoTopic => ~Open,
         NEW c, c = [client EXCEPT !.topics[t] = topic]
  PROVE  /\ c \in ClientType /\ c.on = client.on /\ c.state = client.state
         /\ c.generation = client.generation /\ c.backoff = client.backoff
         /\ c.pending = client.pending /\ (Announced(client) => Announced(c))
         /\ OnInv(c) /\ RequestInv(c) /\ LossInv(c) /\ StampInv(c)
         /\ \A u \in Desired(c) :
              u = t \/ (u \in Desired(client) /\ c.topics[u] = client.topics[u])
<1> DEFINE topics == [client.topics EXCEPT ![t] = topic]
<1>0. client \in ClientType /\ Inv(client)
  BY ClientFacts
<1>1. /\ topic \in TopicType /\ topic.acked = "no" /\ topic.stamp = 0
  BY PublicAssumption DEF NewTopic, NoTopic, TopicType
<1>2. client.topics \in FTopics /\ client.delivered \in FDelivered
  BY <1>0, ClientTypeIs
<1>3. /\ topics \in FTopics /\ topics[t] = topic
      /\ \A u \in Topics : u # t => topics[u] = client.topics[u]
  BY <1>1, <1>2 DEF FTopics
<1>4. c = [client EXCEPT !.topics = topics]
  BY <1>0, ClientTypeIs
<1> HIDE DEF topics
<1>5. /\ c \in ClientType /\ c.on = client.on /\ c.state = client.state
      /\ c.generation = client.generation /\ c.topics = topics
      /\ c.pending = client.pending /\ c.backoff = client.backoff
      /\ c.delivered = client.delivered /\ c.lost = client.lost
      /\ c.events = client.events /\ c.regressed = client.regressed
  BY <1>0, <1>3, <1>4, ClientTypeIs
<1>6. OnInv(c) /\ LossInv(c)
  BY <1>0, <1>5 DEF Inv, OnInv, LossInv, Announced
<1>7. RequestInv(c)
  BY <1>0, <1>1, <1>3, <1>5 DEF Inv, RequestInv
<1>8. StampInv(c)
  <2>0. client.delivered[t] \in 0..MaxStamp
    BY <1>2 DEF FDelivered
  <2>1. "channel" \in client.on => client.delivered[t] = 0
    <3> SUFFICES ASSUME "channel" \in client.on
                 PROVE  client.delivered[t] = 0
      OBVIOUS
    <3>1. client.delivered[t] <= client.topics[t].stamp
      BY <1>0 DEF Inv, StampInv
    <3>2. CASE "session_open" \notin client.on
      BY <1>0, <3>2 DEF Inv, StampInv
    <3>3. CASE "session_open" \in client.on
      <4>1. topic = NewTopic
        BY <1>0, <3>3 DEF Open, Inv, OnInv
      <4>2. client.topics[t].desired = "no"
        BY <1>2, <4>1 DEF Desired, FTopics, TopicType
      <4>3. client.topics[t].stamp = 0
        BY <1>0, <4>2 DEF Inv, StampInv
      <4> QED
        BY <2>0, <3>1, <4>3, PublicAssumption
    <3> QED
      BY <3>2, <3>3
  <2> SUFFICES ASSUME NEW u \in Topics
               PROVE  /\ topics[u].desired = "no" => topics[u].stamp = 0
                      /\ "channel" \in client.on =>
                           /\ client.delivered[u] <= topics[u].stamp
                           /\ "session_open" \notin client.on => client.delivered[u] = 0
    BY <1>0, <1>5 DEF Inv, StampInv
  <2>2. CASE u # t
    BY <1>0, <1>3, <2>2 DEF Inv, StampInv
  <2>3. CASE u = t
    BY <1>1, <1>3, <2>1, <2>3
  <2> QED
    BY <2>2, <2>3
<1>9. \A u \in Desired(c) :
        u = t \/ (u \in Desired(client) /\ c.topics[u] = client.topics[u])
  <2>1. c.topics = topics
    BY <1>5
  <2>2. Desired(c) = {u \in Topics : topics[u].desired = "yes"}
    BY <2>1, Zenon DEF Desired
  <2>3. Desired(client) = {u \in Topics : client.topics[u].desired = "yes"}
    BY Zenon DEF Desired
  <2>4. ASSUME NEW u \in Topics, u # t
        PROVE  topics[u] = client.topics[u] /\ c.topics[u] = client.topics[u]
    BY <1>3, <2>1, <2>4
  <2>5. ASSUME NEW u \in Desired(c), u # t
        PROVE  u \in Desired(client) /\ c.topics[u] = client.topics[u]
    <3>1. u \in Topics /\ topics[u].desired = "yes"
      BY <2>2
    <3>2. topics[u] = client.topics[u] /\ c.topics[u] = client.topics[u]
      BY <2>4, <2>5, <3>1
    <3> QED
      BY <2>3, <3>1, <3>2
  <2> QED
    BY <2>5
<1> QED
  BY <1>5, <1>6, <1>7, <1>8, <1>9 DEF Announced

LEMMA AddTopicKept ==
  ASSUME StateInv, NEW t \in Topics, AddTopic(t)
  PROVE  StateInv' /\ BackoffStep
<1> DEFINE c == [client EXCEPT !.topics[t] = NewTopic]
           r == <<"subscribe", t>>
<1>0. t \notin Desired(client) /\ NewTopic # NoTopic
  BY DEF AddTopic, NewTopic, NoTopic
<1>1. /\ c \in ClientType /\ c.on = client.on /\ c.state = client.state
      /\ c.generation = client.generation /\ c.backoff = client.backoff
      /\ c.pending = client.pending /\ (Announced(client) => Announced(c))
      /\ OnInv(c) /\ RequestInv(c) /\ LossInv(c) /\ StampInv(c)
      /\ \A u \in Desired(c) :
           u = t \/ (u \in Desired(client) /\ c.topics[u] = client.topics[u])
  BY <1>0, TopicFacts
<1>2. Inv(client) /\ r \in Requests
  BY ClientFacts DEF Requests
<1>3. IF Open THEN Request(c, r) ELSE client' = c /\ channels' = channels
  BY DEF AddTopic
<1> HIDE DEF c
<1>4. CASE Open
  <2>1. c.state = "live" =>
          \A u \in Desired(c) :
            \/ c.topics[u].acked = "yes" /\ c.topics[u].fresh = "yes"
            \/ c.pending[<<"subscribe", u>>] > 0 \/ r = <<"subscribe", u>>
    BY <1>1, <1>2, Zenon DEF Inv, LiveInv
  <2> QED
    BY <1>1, <1>2, <1>3, <1>4, <2>1, RequestKept
<1>5. CASE ~Open
  <2>1. LiveInv(c)
    BY <1>1, <1>2, <1>5 DEF Inv, LiveInv, Open, Has
  <2>2. ChannelsInv'
    <3>1. /\ channels' = channels /\ client'.generation = client.generation
          /\ client'.on = client.on /\ (Announced(client) => Announced(client'))
      BY <1>1, <1>3, <1>5
    <3>2. \A g \in Generations :
            g = client.generation => FitsSession(channels[g], client')
      BY <3>1, OperationsFit DEF FitsSession
    <3> QED
      BY <3>1, <3>2, SameChannelsKept
  <2>3. Inv(client') /\ client' \in ClientType /\ client'.backoff = client.backoff
    BY <1>1, <1>3, <1>5, <2>1 DEF Inv
  <2> QED
    BY <2>2, <2>3, ClientFacts, StepKept
<1> QED
  BY <1>4, <1>5

LEMMA RemoveTopicKept ==
  ASSUME StateInv, NEW t \in Topics, RemoveTopic(t)
  PROVE  StateInv' /\ BackoffStep
<1> DEFINE c == [client EXCEPT !.topics[t] = NoTopic]
           r == <<"unsubscribe", t>>
<1>2. client \in ClientType /\ Inv(client) /\ r \in Requests
  BY ClientFacts DEF Requests
<1>3. IF Open THEN Request(client, r) ELSE client' = c /\ channels' = channels
  BY DEF RemoveTopic
<1>4. CASE Open
  <2>1. client.state = "live" =>
          \A u \in Desired(client) :
            \/ client.topics[u].acked = "yes" /\ client.topics[u].fresh = "yes"
            \/ client.pending[<<"subscribe", u>>] > 0 \/ r = <<"subscribe", u>>
    BY <1>2, Zenon DEF Inv, LiveInv
  <2>2. LossInv(client) /\ StampInv(client)
    BY <1>2 DEF Inv
  <2> QED
    BY <1>2, <1>3, <1>4, <2>1, <2>2, RequestKept
<1>5. CASE ~Open
  <2>0. NewTopic # NoTopic
    BY DEF NewTopic, NoTopic
  <2>1. /\ c \in ClientType /\ c.on = client.on /\ c.state = client.state
        /\ c.generation = client.generation /\ c.backoff = client.backoff
        /\ Announced(client) => Announced(c)
        /\ OnInv(c) /\ RequestInv(c) /\ LossInv(c) /\ StampInv(c)
    BY <1>5, <2>0, TopicFacts
  <2> HIDE DEF c
  <2>2. LiveInv(c)
    BY <1>2, <1>5, <2>1 DEF Inv, LiveInv, Open, Has
  <2>3. ChannelsInv'
    <3>1. /\ channels' = channels /\ client'.generation = client.generation
          /\ client'.on = client.on /\ (Announced(client) => Announced(client'))
      BY <1>3, <1>5, <2>1
    <3>2. \A g \in Generations :
            g = client.generation => FitsSession(channels[g], client')
      BY <3>1, OperationsFit DEF FitsSession
    <3> QED
      BY <3>1, <3>2, SameChannelsKept
  <2>4. Inv(client') /\ client' \in ClientType /\ client'.backoff = client.backoff
    BY <1>3, <1>5, <2>1, <2>2 DEF Inv
  <2> QED
    BY <2>3, <2>4, ClientFacts, StepKept
<1> QED
  BY <1>4, <1>5

LEMMA WrittenKept ==
  ASSUME StateInv, NEW g \in Generations, OnWritten(g)
  PROVE  StateInv' /\ BackoffStep
<1>1. client' = client /\ channels' = [channels EXCEPT ![g] = @ \ {"write"}]
  BY DEF OnWritten, Becomes
<1> QED
  BY <1>1, EndedKept, Zenon DEF Operations

-----------------------------------------------------------------------------
(* The theorems. *)

LEMMA InitKept == Init => StateInv
<1> SUFFICES ASSUME Init
             PROVE  StateInv
  OBVIOUS
<1> DEFINE topics == [t \in Topics |-> NoTopic]
           delivered == [t \in Topics |-> 0]
<1>1. /\ topics \in FTopics /\ delivered \in FDelivered /\ NoRequests \in FPending
      /\ "stopped" \in States /\ 0 \in FGeneration /\ {} \in FOn /\ {} \in FTimers
      /\ <<>> \in EventsType /\ NewBackoff \in BackoffType /\ "no" \in FAnswer
  <2>1. NoTopic \in TopicType
    BY PublicAssumption DEF NewTopic, NoTopic, TopicType
  <2>2. topics \in FTopics /\ delivered \in FDelivered
    BY <2>1, PublicAssumption DEF FTopics, FDelivered
  <2>3. NoRequests \in FPending
    BY NoRequestsFacts
  <2>4. "stopped" \in States /\ 0 \in FGeneration /\ {} \in FOn /\ {} \in FTimers
    BY PublicAssumption DEF States, FGeneration, FOn, FTimers
  <2>5. <<>> \in EventsType
    BY PublicAssumption DEF EventsType
  <2> QED
    BY <2>2, <2>3, <2>4, <2>5, NewBackoffType DEF FAnswer
<1>2. /\ client = [state |-> "stopped", generation |-> 0, on |-> {},
                   topics |-> topics, pending |-> NoRequests,
                   events |-> <<>>, timers |-> {}, backoff |-> NewBackoff,
                   delivered |-> delivered, lost |-> "no", regressed |-> "no"]
      /\ channels = [g \in Generations |-> {}]
  BY DEF Init
<1>3. \A t \in Topics : topics[t].desired = "no" /\ topics[t].stamp = 0
  BY DEF NewTopic, NoTopic
<1> HIDE DEF topics, delivered
<1>4. client \in ClientType
  BY <1>1, <1>2, ClientTypeIs
<1>5. Inv(client)
  <2>1. /\ client.on = {} /\ client.state = "stopped" /\ client.topics = topics
        /\ client.regressed = "no"
    BY <1>2
  <2> QED
    BY <1>3, <2>1 DEF Inv, OnInv, RequestInv, LiveInv, LossInv, StampInv
<1>6. ChannelsInv
  <2>1. client.on = {} /\ client.generation = 0
    BY <1>2
  <2> QED
    BY <1>2, <2>1 DEF ChannelsInv, FitsSession
<1> QED
  BY <1>4, <1>5, <1>6 DEF StateInv

LEMMA NextKept ==
  ASSUME StateInv, Next
  PROVE  StateInv' /\ BackoffStep
<1>1. CASE Stop \/ Pop \/ AddInvalidTopic
  BY <1>1, StopKept, PopKept, InvalidTopicKept
<1>2. ASSUME NEW t \in Topics, AddTopic(t) \/ RemoveTopic(t)
      PROVE  StateInv' /\ BackoffStep
  BY <1>2, AddTopicKept, RemoveTopicKept
<1>3. ASSUME NEW dt \in Elapsed,
             Start(dt) \/ OnHeartbeatTimer(dt) \/ OnAckTimer(dt)
      PROVE  StateInv' /\ BackoffStep
  BY <1>3, StartKept, HeartbeatTimerKept, AckTimerKept
<1>4. ASSUME NEW g \in Generations, OnOpened(g) \/ OnWritten(g)
      PROVE  StateInv' /\ BackoffStep
  BY <1>4, OpenedKept, WrittenKept
<1>5. ASSUME NEW g \in Generations, NEW dt \in Elapsed,
             OnFrame(g, dt) \/ OnReconnectTimer(g, dt)
      PROVE  StateInv' /\ BackoffStep
  BY <1>5, FrameKept, ReconnectTimerKept
<1>6. ASSUME NEW g \in Generations, NEW dt \in Elapsed,
             NEW op \in {"open", "read", "write"}, OnFailed(g, op, dt)
      PROVE  StateInv' /\ BackoffStep
  BY <1>6, FailedKept DEF Operations
<1> QED
  BY <1>1, <1>2, <1>3, <1>4, <1>5, <1>6 DEF Next

LEMMA StutterKept ==
  ASSUME StateInv, UNCHANGED vars
  PROVE  StateInv'
BY DEF StateInv, ChannelsInv, Inv, OnInv, RequestInv, LiveInv, LossInv, StampInv,
       FitsSession, Announced, vars

\* The inductive invariant of the stream: the flags, requests, stamps and
\* pending channel operations fit one another (public_wss.cpp:145-565).
THEOREM StreamSafe == Spec => []StateInv
<1>1. StateInv /\ [Next]_vars => StateInv'
  BY NextKept, StutterKept
<1> QED
  BY <1>1, InitKept, PTL DEF Spec

\* A stream that says it is live has an open session, and every topic that is
\* not being asked for is acknowledged and fresh (public_wss.cpp:433-435).
THEOREM StaysFresh == Spec => []LiveIsFresh
<1>1. StateInv => LiveIsFresh
  BY DEF StateInv, Inv, LiveInv, LiveIsFresh
<1> QED
  BY <1>1, StreamSafe, PTL

\* Whatever the queue's bound, data it could not keep is announced
\* (public_wss.cpp:405-409, 548-565).
THEOREM AnnouncesLoss == Spec => []LossIsAnnounced
<1>1. ASSUME StateInv
      PROVE  LossIsAnnounced
  <2>1. client.events \in Seq(States \cup {"data"}) /\ Inv(client)
    BY <1>1, ClientTypeIs DEF StateInv, EventsType
  <2>2. DOMAIN client.events = 1..Len(client.events)
    BY <2>1
  <2> QED
    BY <2>1, <2>2 DEF Inv, OnInv, LossInv, Announced, AlarmIn, LossIsAnnounced, Has
<1> QED
  BY <1>1, StreamSafe, PTL

\* No connection delivers an older timestamp after a newer one
\* (public_wss.cpp:394-400).
THEOREM OrdersStamps == Spec => []StampsAreOrdered
<1>1. StateInv => StampsAreOrdered
  BY DEF StateInv, Inv, StampInv, StampsAreOrdered
<1> QED
  BY <1>1, StreamSafe, PTL

\* Whatever the policy, the delay does not shrink and no storm is forgotten
\* before the stream went live (net/reconnect.hpp; public_wss.cpp:156, 433-435).
THEOREM KeepsBackoff == Spec => BackoffSurvivesConnecting
<1> DEFINE Reset == \/ client'.backoff.current < client.backoff.current
                    \/ client.backoff.cooldown > 0 /\ client'.backoff = NewBackoff
           Why == \/ client'.state = "live" \/ ~Has(client, "started")
                  \/ client'.lost = "yes" /\ \E t \in Desired(client) : LiveButFor(t)
<1>1. ASSUME StateInv, StateInv', Next
      PROVE  Reset => Why
  <2>1. client.backoff.current \in Int /\ client'.backoff.current \in Int
    <3>1. client.backoff \in BackoffType /\ client'.backoff \in BackoffType
      BY <1>1, ClientTypeIs DEF StateInv
    <3> QED
      BY <3>1, PolicyAssumption DEF BackoffType
  <2>2. BackoffStep
    BY <1>1, NextKept
  <2>3. Grew(client.backoff, client'.backoff) => ~Reset
    BY <2>1 DEF Grew
  <2> HIDE DEF Reset
  <2> QED
    BY <2>2, <2>3 DEF BackoffStep
<1>2. StateInv /\ StateInv' /\ [Next]_vars => [Reset => Why]_vars
  BY <1>1
<1> HIDE DEF Reset, Why
<1>3. Spec => [][Reset => Why]_vars
  BY <1>2, StreamSafe, PTL DEF Spec
<1> QED
  BY <1>3, PTL DEF BackoffSurvivesConnecting, Reset, Why

\* Type correctness: the queue, the backoff's memory and the calls keep their
\* bounds (public_wss.cpp:534-565, reconnect.cpp:39-61).
THEOREM TypeSafe == Spec => []TypeOK
<1>1. Init => calls \in 0..MaxCalls
  BY PublicAssumption DEF Init
<1>2. calls \in 0..MaxCalls /\ [Next]_vars => (calls \in 0..MaxCalls)'
  <2> SUFFICES ASSUME calls \in 0..MaxCalls, [Next]_vars
               PROVE  calls' \in 0..MaxCalls
    OBVIOUS
  <2>1. calls' = calls \/ (calls < MaxCalls /\ calls' = calls + 1)
    <3>1. CASE UNCHANGED vars
      BY <3>1 DEF vars
    <3>2. CASE Stop \/ Pop \/ AddInvalidTopic
      BY <3>2 DEF Stop, Pop, AddInvalidTopic, Becomes
    <3>3. ASSUME NEW t \in Topics, AddTopic(t) \/ RemoveTopic(t)
          PROVE  calls < MaxCalls /\ calls' = calls + 1
      BY <3>3 DEF AddTopic, RemoveTopic
    <3>4. ASSUME NEW dt \in Elapsed,
                 Start(dt) \/ OnHeartbeatTimer(dt) \/ OnAckTimer(dt)
          PROVE  calls' = calls \/ (calls < MaxCalls /\ calls' = calls + 1)
      BY <3>4 DEF Start, OnHeartbeatTimer, OnAckTimer, Becomes, Connect
    <3>5. ASSUME NEW g \in Generations, OnOpened(g) \/ OnWritten(g)
          PROVE  calls' = calls
      BY <3>5 DEF OnOpened, OnWritten, Becomes
    <3>6. ASSUME NEW g \in Generations, NEW dt \in Elapsed,
                 OnFrame(g, dt) \/ OnReconnectTimer(g, dt)
          PROVE  calls' = calls
      BY <3>6 DEF OnFrame, OnReconnectTimer, Becomes, ReadOn, OnHeartbeat, Connect
    <3>7. ASSUME NEW g \in Generations, NEW dt \in Elapsed,
                 NEW op \in {"open", "read", "write"}, OnFailed(g, op, dt)
          PROVE  calls' = calls
      BY <3>7 DEF OnFailed, Becomes
    <3> QED
      BY <3>1, <3>2, <3>3, <3>4, <3>5, <3>6, <3>7 DEF Next
  <2> QED
    BY <2>1, PublicAssumption
<1>3. StateInv /\ calls \in 0..MaxCalls => TypeOK
  BY DEF StateInv, ChannelsInv, Operations, TypeOK
<1> QED
  BY <1>1, <1>2, <1>3, StreamSafe, PTL DEF Spec
=============================================================================
