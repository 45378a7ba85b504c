------------------------- MODULE PublicWsClientLemmas -------------------------
(***************************************************************************)
(* What the methods of the public stream's client do to its record: each   *)
(* keeps the type and Inv, and says what it does to the flags, the backoff *)
(* and the queue.  PublicWsClientProofs puts them together.                *)
(***************************************************************************)
EXTENDS PublicWsClient, FiniteSetTheorems, SequenceTheorems, TLAPS

\* Names for the sets of the fields, which the provers need not open.
FTopics == [Topics -> TopicType]
FPending == [Requests -> Nat]
FTimers == SUBSET (0..MaxGeneration)
FDelivered == [Topics -> 0..MaxStamp]
FGeneration == 0..MaxGeneration
FOn == SUBSET Flags
FAnswer == {"no", "yes"}

LEMMA ClientTypeIs ==
  ClientType =
    [state : States, generation : FGeneration, on : FOn, topics : FTopics,
     pending : FPending, events : EventsType, timers : FTimers,
     backoff : BackoffType, delivered : FDelivered, lost : FAnswer,
     regressed : FAnswer]
BY DEF ClientType, FGeneration, FOn, FTopics, FPending, FTimers, FDelivered, FAnswer

LEMMA AppendFacts ==
  ASSUME NEW S, NEW s \in Seq(S), NEW x \in S
  PROVE  /\ Append(s, x) \in Seq(S) /\ Append(s, x) # <<>>
         /\ Len(Append(s, x)) = Len(s) + 1 /\ Len(s) \in Nat
         /\ \A i \in 1..Len(s) : Append(s, x)[i] = s[i]
         /\ Append(s, x)[Len(s) + 1] = x
OBVIOUS

-----------------------------------------------------------------------------
(* The backoff. *)

LEMMA RecentFacts ==
  ASSUME NEW b \in BackoffType, NEW dt \in Nat
  PROVE  Recent(b, dt) \in Seq(Nat) /\ Recent(b, dt) # <<>>
<1> DEFINE aged == [i \in 1..Len(b.ages) |-> b.ages[i] + dt]
           old == {i \in 1..Len(b.ages) : aged[i] > StormWindow}
           kept == SubSeq(aged, Cardinality(old) + 1, Len(b.ages))
<1>1. b.ages \in Seq(Nat) /\ Len(b.ages) \in Nat
  BY DEF BackoffType
<1>2. aged \in Seq(Nat) /\ Len(aged) = Len(b.ages)
  BY <1>1
<1>3. Cardinality(old) \in 0..Len(b.ages)
  <2>1. IsFiniteSet(1..Len(b.ages)) /\ Cardinality(1..Len(b.ages)) = Len(b.ages)
    <3>1. ASSUME NEW n \in Nat
          PROVE  IsFiniteSet(1..n) /\ Cardinality(1..n) = n
      <4>1. 1 \in Int /\ n \in Int
        OBVIOUS
      <4>2. IsFiniteSet(1..n) /\ Cardinality(1..n) = IF 1 > n THEN 0 ELSE n - 1 + 1
        BY <4>1, FS_Interval, Zenon
      <4> QED
        BY <4>2
    <3> QED
      BY <1>1, <3>1
  <2>2. old \subseteq 1..Len(b.ages)
    OBVIOUS
  <2> HIDE DEF old
  <2>3. IsFiniteSet(old) /\ Cardinality(old) <= Len(b.ages)
    BY <2>1, <2>2, FS_Subset, Zenon
  <2> QED
    BY <1>1, <2>3, FS_CardinalityType
<1> HIDE DEF aged, old
<1>4. kept \in Seq(Nat)
  <2>1. Cardinality(old) + 1 \in Int /\ Len(b.ages) \in Int
    BY <1>1, <1>3
  <2>2. \A i \in (Cardinality(old) + 1)..Len(b.ages) : aged[i] \in Nat
    BY <1>1, <1>2, <1>3
  <2> QED
    BY <2>1, <2>2, SubSeqProperties
<1> HIDE DEF kept
<1>5. Append(kept, 0) \in Seq(Nat) /\ Append(kept, 0) # <<>>
  BY <1>4, AppendFacts
<1> QED
  BY <1>5, Zenon DEF Recent, aged, old, kept

\* What an attempt may do to the backoff: nothing is reset.
Grew(b, d) == d.current >= b.current /\ (b.cooldown > 0 => d # NewBackoff)

LEMMA GrewIsReflexive ==
  ASSUME NEW b \in BackoffType
  PROVE  Grew(b, b)
<1>1. b.current \in Int
  BY PolicyAssumption DEF BackoffType
<1>2. b.cooldown > 0 => b # NewBackoff
  BY DEF NewBackoff
<1> QED
  BY <1>1, <1>2 DEF Grew

LEMMA DoubledFacts ==
  ASSUME NEW n \in InitialDelay..MaxDelay
  PROVE  Doubled(n) \in InitialDelay..MaxDelay /\ Doubled(n) >= n
BY PolicyAssumption DEF Doubled

LEMMA AttemptFacts ==
  ASSUME NEW b \in BackoffType, NEW dt \in Nat
  PROVE  Attempt(b, dt) \in BackoffType /\ Grew(b, Attempt(b, dt))
<1> DEFINE delays == InitialDelay..MaxDelay
           lists == Seq(Nat)
           record == [current : delays, ages : lists, cooldown : Nat]
           recent == Recent(b, dt)
<1>1. /\ b \in record /\ b.current \in InitialDelay..MaxDelay /\ b.ages \in Seq(Nat)
      /\ b.cooldown \in Nat /\ Len(b.ages) <= StormAttempts /\ Len(b.ages) \in Nat
  BY DEF BackoffType
<1>2. StormCooldown \in Nat \ {0} /\ StormAttempts \in Nat \ {0}
  BY PolicyAssumption
<1>0. /\ \A d \in record : Len(d.ages) <= StormAttempts => d \in BackoffType
      /\ \A d \in delays : d \in Int
      /\ <<>> \in lists /\ b.current \in delays /\ b.ages \in lists
  BY <1>1, PolicyAssumption DEF BackoffType
<1>3. CASE b.cooldown > dt
  <2> DEFINE ages == [i \in 1..Len(b.ages) |-> b.ages[i] + dt]
             left == b.cooldown - dt
             new == [b EXCEPT !.cooldown = left, !.ages = ages]
  <2>1. ages \in lists /\ Len(ages) = Len(b.ages) /\ left \in Nat /\ left > 0
    BY <1>1, <1>3
  <2>2. Attempt(b, dt) = new
    BY <1>1, <1>3 DEF Attempt
  <2> HIDE DEF ages, left, delays, lists
  <2>3. new \in record /\ new.current = b.current /\ new.ages = ages /\ new.cooldown = left
    BY <1>1, <2>1, Zenon
  <2> HIDE DEF new, record
  <2>4. new # NewBackoff
    BY <2>1, <2>3 DEF NewBackoff
  <2>5. new.current >= b.current
    BY <1>0, <2>3
  <2> QED
    BY <1>0, <1>1, <2>1, <2>2, <2>3, <2>4, <2>5 DEF Grew
<1>4. CASE b.cooldown <= dt /\ Len(recent) > StormAttempts
  <2> DEFINE new == [b EXCEPT !.ages = <<>>, !.cooldown = StormCooldown]
  <2>2. Attempt(b, dt) = new
    BY <1>1, <1>4 DEF Attempt
  <2>3. new \in record /\ new.current = b.current /\ new.ages = <<>>
        /\ new.cooldown = StormCooldown
    <3> HIDE DEF delays, lists
    <3> QED
      BY <1>0, <1>1, <1>2, Zenon
  <2> HIDE DEF new, record, delays
  <2>4. new # NewBackoff
    BY <1>2, <2>3 DEF NewBackoff
  <2>5. new.current >= b.current
    BY <1>0, <2>3
  <2>6. Len(new.ages) <= StormAttempts
    BY <1>2, <2>3
  <2> QED
    BY <1>0, <2>2, <2>3, <2>4, <2>5, <2>6 DEF Grew
<1>5. CASE b.cooldown <= dt /\ ~(Len(recent) > StormAttempts)
  <2> DEFINE new == [current |-> Doubled(b.current), ages |-> recent, cooldown |-> 0]
  <2>1. recent \in Seq(Nat) /\ recent # <<>> /\ Len(recent) \in Nat
    BY RecentFacts
  <2>2. Attempt(b, dt) = new
    BY <1>1, <1>5 DEF Attempt
  <2> HIDE DEF recent
  <2>3. Doubled(b.current) \in InitialDelay..MaxDelay /\ Doubled(b.current) >= b.current
    BY <1>1, DoubledFacts
  <2>4. new \in record /\ new.current = Doubled(b.current) /\ new.ages = recent
    BY <2>1, <2>3
  <2> HIDE DEF new
  <2>5. new # NewBackoff
    BY <2>1, <2>4 DEF NewBackoff
  <2>6. Len(new.ages) <= StormAttempts
    BY <1>2, <1>5, <2>1, <2>4
  <2> QED
    BY <2>2, <2>3, <2>4, <2>5, <2>6 DEF BackoffType, Grew
<1> QED
  BY <1>1, <1>3, <1>4, <1>5

LEMMA NewBackoffType == NewBackoff \in BackoffType
<1>1. <<>> \in Seq(Nat) /\ Len(<<>>) = 0
  OBVIOUS
<1> QED
  BY <1>1, PolicyAssumption DEF NewBackoff, BackoffType


-----------------------------------------------------------------------------
(* The queue of events. *)

AlarmIn(events) == \E i \in 1..Len(events) : events[i] \in Alarms
Announced(c) == c.lost = "yes" => AlarmIn(c.events)

\* An event that fits.
LEMMA QueueFacts ==
  ASSUME NEW e \in EventsType, NEW x \in States \cup {"data"},
         ~(Len(e) >= MaxPendingEvents)
  PROVE  /\ Append(e, x) \in EventsType
         /\ AlarmIn(e) => AlarmIn(Append(e, x))
         /\ x \in Alarms => AlarmIn(Append(e, x))
<1> DEFINE E == States \cup {"data"}
<1>1. e \in Seq(E) /\ x \in E
  BY DEF EventsType
<1>2. MaxPendingEvents \in Nat
  BY PublicAssumption
<1> DEFINE new == Append(e, x)
<1> HIDE DEF E
<1>3. /\ new \in Seq(E) /\ Len(new) = Len(e) + 1 /\ Len(e) \in Nat
      /\ \A i \in 1..Len(e) : new[i] = e[i]
      /\ new[Len(e) + 1] = x
  BY <1>1, AppendFacts
<1> HIDE DEF new
<1>4. Len(new) <= MaxPendingEvents
  BY <1>2, <1>3
<1>5. \A i \in 1..Len(e) : i \in 1..Len(new)
  BY <1>3
<1>6. AlarmIn(e) => AlarmIn(new)
  BY <1>3, <1>5 DEF AlarmIn
<1>7. x \in Alarms => AlarmIn(new)
  BY <1>3 DEF AlarmIn
<1> QED
  BY <1>3, <1>4, <1>6, <1>7 DEF EventsType, E, new

LEMMA DegradedFacts ==
  <<"degraded">> \in EventsType /\ AlarmIn(<<"degraded">>)
<1> DEFINE e == <<"degraded">>
<1>1. e \in Seq(States \cup {"data"}) /\ Len(e) = 1 /\ e[1] = "degraded"
  BY DEF States
<1> HIDE DEF e
<1>2. Len(e) <= MaxPendingEvents
  BY <1>1, PublicAssumption
<1>3. AlarmIn(e)
  BY <1>1 DEF AlarmIn, Alarms
<1> QED
  BY <1>1, <1>2, <1>3 DEF EventsType, e

\* The host reads an event.
LEMMA PopFacts ==
  ASSUME NEW e \in EventsType, e # <<>>
  PROVE  /\ Tail(e) \in EventsType
         /\ AlarmIn(e) /\ Head(e) \notin Alarms => AlarmIn(Tail(e))
<1> DEFINE rest == Tail(e)
<1>1. /\ rest \in Seq(States \cup {"data"}) /\ Len(rest) = Len(e) - 1 /\ Len(e) \in Nat
      /\ \A i \in 1..Len(rest) : rest[i] = e[i + 1]
      /\ Head(e) = e[1] /\ Len(e) <= MaxPendingEvents
  BY DEF EventsType
<1> HIDE DEF rest
<1>2. Len(rest) <= MaxPendingEvents
  BY <1>1, PublicAssumption
<1>3. ASSUME AlarmIn(e), e[1] \notin Alarms
      PROVE  AlarmIn(rest)
  <2>1. PICK i \in 1..Len(e) : e[i] \in Alarms
    BY <1>3 DEF AlarmIn
  <2>2. i - 1 \in 1..Len(rest) /\ (i - 1) + 1 = i
    BY <1>1, <1>3, <2>1
  <2>3. rest[i - 1] = e[i]
    BY <1>1, <2>2
  <2> QED
    BY <2>1, <2>2, <2>3 DEF AlarmIn
<1> QED
  BY <1>1, <1>2, <1>3 DEF EventsType, rest

-----------------------------------------------------------------------------
(* The invariant of the client's members. *)

OnInv(c) ==
  /\ "session_open" \in c.on => "started" \in c.on
  /\ "reconnect_pending" \in c.on => "channel" \notin c.on

\* Without a session nothing is acknowledged and nothing was asked.
RequestInv(c) ==
  "started" \in c.on /\ ~({"session_open", "channel"} \subseteq c.on) =>
    /\ \A t \in Topics : c.topics[t].acked = "no"
    /\ \A r \in Requests : c.pending[r] = 0

\* LiveIsFresh, of a client.
LiveInv(c) ==
  c.state = "live" =>
    /\ {"started", "channel", "session_open"} \subseteq c.on
    /\ ~Has(c, "reconnect_pending")
    /\ \A t \in Desired(c) :
         \/ c.topics[t].acked = "yes" /\ c.topics[t].fresh = "yes"
         \/ c.pending[<<"subscribe", t>>] > 0

LossInv(c) == "channel" \in c.on \/ "session_open" \in c.on => Announced(c)

\* A topic's stamp is that of the last message delivered.
StampInv(c) ==
  /\ c.regressed = "no"
  /\ \A t \in Topics : c.topics[t].desired = "no" => c.topics[t].stamp = 0
  /\ "channel" \in c.on =>
       \A t \in Topics :
         /\ c.delivered[t] <= c.topics[t].stamp
         /\ "session_open" \notin c.on => c.delivered[t] = 0

Inv(c) == OnInv(c) /\ RequestInv(c) /\ LiveInv(c) /\ LossInv(c) /\ StampInv(c)

\* What set_state leaves alone.
Same(c, d) ==
  /\ d.generation = c.generation /\ d.on = c.on /\ d.topics = c.topics
  /\ d.pending = c.pending /\ d.timers = c.timers /\ d.backoff = c.backoff
  /\ d.delivered = c.delivered /\ d.regressed = c.regressed

LEMMA SetStateFacts ==
  ASSUME NEW c \in ClientType, NEW s \in States, NEW d, d = SetState(c, s)
  PROVE  /\ d \in ClientType /\ d.state = s /\ Same(c, d)
         /\ c.lost = "yes" => d.lost = "yes"
         /\ Announced(c) => Announced(d)
         /\ s \in Alarms => Announced(d)
<1>1. c.events \in EventsType /\ c.lost \in FAnswer
  BY ClientTypeIs
<1>2. CASE Full(c)
  <2> DEFINE e == <<"degraded">>
             l == IF \E i \in DOMAIN c.events : c.events[i] = "data" THEN "yes" ELSE c.lost
  <2>1. d = [c EXCEPT !.state = s, !.events = e, !.lost = l]
    BY <1>2 DEF SetState
  <2>2. e \in EventsType /\ AlarmIn(e) /\ l \in FAnswer /\ (c.lost = "yes" => l = "yes")
    BY <1>1, DegradedFacts DEF FAnswer
  <2> HIDE DEF e, l
  <2>3. /\ d \in ClientType /\ d.state = s /\ Same(c, d)
        /\ d.events = e /\ d.lost = l
    BY <2>1, <2>2, ClientTypeIs, Zenon DEF Same
  <2> QED
    BY <2>2, <2>3 DEF Announced
<1>3. CASE ~Full(c)
  <2> DEFINE e == Append(c.events, s)
  <2>1. d = [[c EXCEPT !.events = e] EXCEPT !.state = s]
    BY <1>3 DEF SetState, Enqueue
  <2>2. e \in EventsType /\ (AlarmIn(c.events) => AlarmIn(e)) /\ (s \in Alarms => AlarmIn(e))
    BY <1>1, <1>3, QueueFacts DEF Full
  <2> HIDE DEF e
  <2>3. /\ d \in ClientType /\ d.state = s /\ Same(c, d)
        /\ d.events = e /\ d.lost = c.lost
    BY <2>1, <2>2, ClientTypeIs, Zenon DEF Same
  <2> QED
    BY <2>2, <2>3 DEF Announced
<1> QED
  BY <1>2, <1>3

\* A state other than live disturbs nothing.
LEMMA SetStateKept ==
  ASSUME NEW c \in ClientType, Inv(c), NEW s \in States, s # "live",
         NEW d, d = SetState(c, s)
  PROVE  d \in ClientType /\ Inv(d) /\ d.on = c.on /\ d.generation = c.generation
         /\ d.backoff = c.backoff /\ (Announced(c) => Announced(d))
<1>1. d \in ClientType /\ d.state = s /\ Same(c, d) /\ (Announced(c) => Announced(d))
  BY SetStateFacts
<1>2. OnInv(d) /\ RequestInv(d) /\ StampInv(d)
  BY <1>1 DEF Inv, OnInv, RequestInv, StampInv, Same
<1>3. LossInv(d) /\ LiveInv(d)
  BY <1>1 DEF Inv, LossInv, LiveInv, Same
<1> QED
  BY <1>1, <1>2, <1>3 DEF Inv, Same

LEMMA ForgottenFacts ==
  ASSUME NEW topics \in FTopics
  PROVE  /\ Forgotten(topics) \in FTopics
         /\ \A t \in Topics : /\ Forgotten(topics)[t].acked = "no"
                              /\ Forgotten(topics)[t].stamp = 0
<1>1. /\ NewTopic \in TopicType /\ NoTopic \in TopicType
      /\ NewTopic.acked = "no" /\ NoTopic.acked = "no"
      /\ NewTopic.stamp = 0 /\ NoTopic.stamp = 0
  BY PublicAssumption DEF NewTopic, NoTopic, TopicType
<1> QED
  BY <1>1 DEF Forgotten, FTopics

LEMMA NoRequestsFacts == NoRequests \in FPending /\ \A r \in Requests : NoRequests[r] = 0
BY DEF NoRequests, FPending

-----------------------------------------------------------------------------
(* The methods. *)

Waiting == {"started", "reconnect_pending"}

\* The flags of a client that opens a channel, and of one that does so while
\* it takes an earlier session for open.
Opening == {"started", "channel"}
Reopening == {"started", "channel", "session_open"}

\* schedule_reconnect, of a client that does not wait already.
LEMMA RescheduledKept ==
  ASSUME NEW c \in ClientType, NEW dt \in Nat, c.regressed = "no",
         "started" \in c.on, "reconnect_pending" \notin c.on,
         NEW d, d = ScheduleReconnect(c, dt)
  PROVE  /\ d \in ClientType /\ Inv(d) /\ d.on = Waiting
         /\ d.generation = c.generation /\ d.backoff = Attempt(c.backoff, dt)
         /\ c.lost = "yes" => d.lost = "yes"
         /\ Announced(d)
<1> DEFINE topics == Forgotten(c.topics)
           backoff == Attempt(c.backoff, dt)
           down == [c EXCEPT !.on = Waiting, !.pending = NoRequests,
                             !.topics = topics, !.backoff = backoff]
           told == SetState(down, "reconnect_wait")
           timers == told.timers \cup {c.generation}
<1>1. d = [told EXCEPT !.timers = timers]
  BY DEF ScheduleReconnect, Has, Waiting
<1>2. /\ topics \in FTopics
      /\ \A t \in Topics : topics[t].acked = "no" /\ topics[t].stamp = 0
  BY ClientTypeIs, ForgottenFacts
<1>3. backoff \in BackoffType
  BY ClientTypeIs, AttemptFacts
<1>4. Waiting \in FOn /\ "reconnect_wait" \in States /\ "reconnect_wait" \in Alarms
  BY DEF Waiting, FOn, Flags, States, Alarms
<1> HIDE DEF topics, backoff
<1>5. /\ down \in ClientType /\ down.on = Waiting /\ down.pending = NoRequests
      /\ down.topics = topics /\ down.backoff = backoff /\ down.regressed = "no"
      /\ down.generation = c.generation /\ down.lost = c.lost
  BY <1>2, <1>3, <1>4, ClientTypeIs, NoRequestsFacts, Zenon
<1> HIDE DEF down
<1>6. /\ told \in ClientType /\ told.state = "reconnect_wait" /\ Same(down, told)
      /\ down.lost = "yes" => told.lost = "yes"
      /\ Announced(told)
  BY <1>4, <1>5, SetStateFacts
<1> HIDE DEF told
<1>7. timers \in FTimers
  BY <1>6, ClientTypeIs DEF FTimers, FGeneration
<1> HIDE DEF timers
<1>8. /\ d \in ClientType /\ d.state = told.state /\ d.generation = told.generation
      /\ d.on = told.on /\ d.topics = told.topics /\ d.pending = told.pending
      /\ d.backoff = told.backoff /\ d.regressed = told.regressed /\ d.lost = told.lost
      /\ d.events = told.events
  BY <1>1, <1>6, <1>7, ClientTypeIs
<1>9. /\ d \in ClientType /\ d.state = "reconnect_wait" /\ d.generation = c.generation
      /\ d.on = Waiting /\ d.topics = topics /\ d.pending = NoRequests
      /\ d.backoff = backoff /\ d.regressed = "no" /\ (c.lost = "yes" => d.lost = "yes")
  BY <1>5, <1>6, <1>8 DEF Same
<1>10. OnInv(d) /\ RequestInv(d) /\ LiveInv(d)
  BY <1>2, <1>9, NoRequestsFacts DEF OnInv, RequestInv, LiveInv, Waiting
<1>11. LossInv(d) /\ StampInv(d)
  BY <1>2, <1>9 DEF LossInv, StampInv, Waiting
<1>12. Announced(d)
  BY <1>6, <1>8 DEF Announced
<1> QED
  BY <1>9, <1>10, <1>11, <1>12 DEF Inv, backoff

LEMMA ScheduleKept ==
  ASSUME NEW c \in ClientType, Inv(c), NEW dt \in Nat,
         NEW d, d = ScheduleReconnect(c, dt)
  PROVE  /\ d \in ClientType /\ Inv(d) /\ d.generation = c.generation
         /\ d.on = c.on \/ d.on = Waiting
         /\ Grew(c.backoff, d.backoff) /\ (Announced(c) => Announced(d))
<1>0. c.backoff \in BackoffType /\ c.regressed = "no"
  BY ClientTypeIs DEF Inv, StampInv
<1>1. CASE ~Has(c, "started") \/ Has(c, "reconnect_pending")
  <2>1. d = c
    BY <1>1 DEF ScheduleReconnect
  <2> QED
    BY <1>0, <2>1, GrewIsReflexive
<1>2. CASE ~(~Has(c, "started") \/ Has(c, "reconnect_pending"))
  <2>1. "started" \in c.on /\ "reconnect_pending" \notin c.on
    BY <1>2 DEF Has
  <2> QED
    BY <1>0, <2>1, RescheduledKept, AttemptFacts
<1> QED
  BY <1>1, <1>2

\* connect, up to async_open.
LEMMA ConnectingKept ==
  ASSUME NEW c \in ClientType, c.regressed = "no", c.generation < MaxGeneration,
         NEW d, d = Connecting(c)
  PROVE  /\ d \in ClientType /\ Inv(d) /\ d.on \in {Opening, Reopening}
         /\ d.generation = c.generation + 1 /\ d.backoff = c.backoff
<1> DEFINE topics == Forgotten(c.topics)
           on == {"started", "channel"} \cup (c.on \cap {"session_open"})
           none == [t \in Topics |-> 0]
           next == c.generation + 1
           new == [c EXCEPT !.generation = next, !.on = on, !.pending = NoRequests,
                            !.topics = topics, !.delivered = none]
<1>1. d = SetState(new, "connecting")
  BY DEF Connecting
<1>2. /\ topics \in FTopics
      /\ \A t \in Topics : topics[t].acked = "no" /\ topics[t].stamp = 0
  BY ClientTypeIs, ForgottenFacts
<1>3. next \in FGeneration
  <2>1. c.generation \in FGeneration
    BY ClientTypeIs
  <2> QED
    BY <2>1, PublicAssumption DEF FGeneration
<1>4. /\ on \in FOn /\ on \in {Opening, Reopening} /\ none \in FDelivered
      /\ "connecting" \in States /\ "connecting" \in Alarms
  <2>1. on = Opening \/ on = Reopening
    BY DEF Opening, Reopening
  <2> QED
    BY <2>1, PublicAssumption
       DEF Opening, Reopening, FOn, Flags, FDelivered, States, Alarms
<1>5. \A t \in Topics : none[t] = 0
  OBVIOUS
<1> HIDE DEF topics, none, next, on
<1>6. /\ new \in ClientType /\ new.on = on /\ new.pending = NoRequests
      /\ new.topics = topics /\ new.delivered = none /\ new.regressed = "no"
      /\ new.generation = next /\ new.backoff = c.backoff
  BY <1>2, <1>3, <1>4, ClientTypeIs, NoRequestsFacts, Zenon
<1> HIDE DEF new
<1>7. d \in ClientType /\ d.state = "connecting" /\ Same(new, d) /\ Announced(d)
  BY <1>1, <1>4, <1>6, SetStateFacts
<1>8. /\ d.on = on /\ d.pending = NoRequests /\ d.topics = topics /\ d.delivered = none
      /\ d.regressed = "no" /\ d.generation = next /\ d.backoff = c.backoff
  BY <1>6, <1>7 DEF Same
<1>9. OnInv(d) /\ RequestInv(d) /\ LiveInv(d) /\ LossInv(d)
  BY <1>2, <1>4, <1>7, <1>8, NoRequestsFacts
     DEF OnInv, RequestInv, LiveInv, LossInv, Opening, Reopening
<1>10. StampInv(d)
  BY <1>2, <1>5, <1>8 DEF StampInv
<1> QED
  BY <1>4, <1>7, <1>8, <1>9, <1>10 DEF Inv, next

LEMMA HardStopKept ==
  ASSUME NEW c \in ClientType, Inv(c), NEW d, d = HardStop(c)
  PROVE  /\ d \in ClientType /\ Inv(d) /\ d.on = {} /\ d.generation = c.generation
         /\ d.backoff = c.backoff
<1> DEFINE new == [c EXCEPT !.on = {}, !.pending = NoRequests]
<1>1. d = SetState(new, "stopped")
  BY DEF HardStop
<1>2. {} \in FOn /\ "stopped" \in States
  BY DEF FOn, States
<1>3. /\ new \in ClientType /\ new.on = {} /\ new.generation = c.generation
      /\ new.topics = c.topics /\ new.backoff = c.backoff /\ new.regressed = c.regressed
  BY <1>2, ClientTypeIs, NoRequestsFacts, Zenon
<1> HIDE DEF new
<1>4. d \in ClientType /\ d.state = "stopped" /\ Same(new, d)
  BY <1>1, <1>2, <1>3, SetStateFacts
<1>5. /\ d.on = {} /\ d.generation = c.generation /\ d.topics = c.topics
      /\ d.backoff = c.backoff /\ d.regressed = c.regressed
  BY <1>3, <1>4 DEF Same
<1> QED
  BY <1>4, <1>5 DEF Inv, OnInv, RequestInv, LiveInv, LossInv, StampInv

\* opened: the session is open and every desired topic was asked for.
LEMMA SubscribingKept ==
  ASSUME NEW c \in ClientType, Inv(c), "started" \in c.on, Announced(c),
         "channel" \in c.on \/ Desired(c) = {},
         NEW d, d = Subscribing(c)
  PROVE  /\ d \in ClientType /\ Inv(d) /\ d.generation = c.generation
         /\ d.on = c.on \cup {"session_open", "ack_timer"}
         /\ d.backoff = c.backoff
<1> DEFINE open == c.on \cup {"session_open"}
           up == [c EXCEPT !.on = open]
           told == SetState(up, "subscribing")
           pending == [r \in Requests |->
                         IF r[1] = "subscribe" /\ r[2] \in Desired(c) THEN 1 ELSE 0]
           on == told.on \cup {"ack_timer"}
<1>1. d = [told EXCEPT !.pending = pending, !.on = on]
  BY DEF Subscribing
<1>2. /\ open \in FOn /\ "subscribing" \in States /\ pending \in FPending
      /\ Desired(c) = {} => \A r \in Requests : pending[r] = 0
  BY ClientTypeIs DEF FOn, Flags, States, FPending
<1> HIDE DEF pending
<1>3. /\ up \in ClientType /\ up.on = open /\ up.generation = c.generation
      /\ up.topics = c.topics /\ up.backoff = c.backoff /\ up.delivered = c.delivered
      /\ up.regressed = c.regressed /\ up.lost = c.lost /\ up.events = c.events
  BY <1>2, ClientTypeIs, Zenon
<1> HIDE DEF up
<1>4. /\ told \in ClientType /\ told.state = "subscribing" /\ Same(up, told)
      /\ Announced(up) => Announced(told)
  BY <1>2, <1>3, SetStateFacts
<1>5. Announced(up)
  BY <1>3 DEF Announced
<1> HIDE DEF told
<1>6. on \in FOn /\ on = c.on \cup {"session_open", "ack_timer"}
  BY <1>2, <1>3, <1>4 DEF Same, FOn, Flags
<1> HIDE DEF on
<1>7. /\ d \in ClientType /\ d.state = told.state /\ d.on = on /\ d.pending = pending
      /\ d.generation = told.generation /\ d.topics = told.topics
      /\ d.backoff = told.backoff /\ d.delivered = told.delivered
      /\ d.regressed = told.regressed /\ d.lost = told.lost /\ d.events = told.events
  BY <1>1, <1>2, <1>4, <1>6, ClientTypeIs, Zenon
<1>8. /\ d.state = "subscribing" /\ d.generation = c.generation /\ d.topics = c.topics
      /\ d.backoff = c.backoff /\ d.delivered = c.delivered
      /\ d.regressed = c.regressed /\ Announced(d)
  BY <1>3, <1>4, <1>5, <1>7 DEF Same, Announced
<1>9. OnInv(d) /\ RequestInv(d) /\ LiveInv(d) /\ LossInv(d)
  BY <1>2, <1>6, <1>7, <1>8 DEF Inv, OnInv, RequestInv, LiveInv, LossInv
<1>10. StampInv(d)
  BY <1>6, <1>7, <1>8 DEF Inv, StampInv
<1> QED
  BY <1>6, <1>7, <1>8, <1>9, <1>10 DEF Inv

AllFresh(c) ==
  \A t \in Desired(c) : c.topics[t].acked = "yes" /\ c.topics[t].fresh = "yes"

LEMMA SetStateIfNewFacts ==
  ASSUME NEW c \in ClientType, NEW s \in States, NEW d, d = SetStateIfNew(c, s)
  PROVE  /\ d \in ClientType /\ d.state = s /\ Same(c, d)
         /\ Announced(c) => Announced(d)
<1>1. CASE c.state = s
  BY <1>1 DEF SetStateIfNew, Same
<1>2. CASE c.state # s
  <2>1. d = SetState(c, s)
    BY <1>2 DEF SetStateIfNew
  <2> QED
    BY <2>1, SetStateFacts
<1> QED
  BY <1>1, <1>2

\* update_freshness_state.
LEMMA FreshnessFacts ==
  ASSUME NEW c \in ClientType, NEW d, d = UpdateFreshness(c)
  PROVE  /\ d \in ClientType /\ d.generation = c.generation /\ d.on = c.on
         /\ d.topics = c.topics /\ d.pending = c.pending /\ d.delivered = c.delivered
         /\ d.regressed = c.regressed
         /\ Announced(c) => Announced(d)
         /\ d.state = "live" => AllFresh(c)
         /\ d.state = "live" \/ d.backoff = c.backoff
<1>0. {"subscribing", "synchronizing", "live"} \subseteq States
  BY DEF States
<1>1. CASE \E t \in Desired(c) : c.topics[t].acked = "no"
  <2>1. d = SetStateIfNew(c, "subscribing")
    BY <1>1 DEF UpdateFreshness
  <2> QED
    BY <1>0, <2>1, SetStateIfNewFacts DEF Same
<1>2. CASE /\ ~\E t \in Desired(c) : c.topics[t].acked = "no"
           /\ \E t \in Desired(c) : c.topics[t].fresh = "no"
  <2>1. d = SetStateIfNew(c, "synchronizing")
    BY <1>2 DEF UpdateFreshness
  <2> QED
    BY <1>0, <2>1, SetStateIfNewFacts DEF Same
<1>3. CASE /\ ~\E t \in Desired(c) : c.topics[t].acked = "no"
           /\ ~\E t \in Desired(c) : c.topics[t].fresh = "no"
  <2> DEFINE backoff == IF c.state = "live" THEN c.backoff ELSE MarkStable(c.backoff)
             new == [c EXCEPT !.backoff = backoff]
  <2>1. d = SetStateIfNew(new, "live")
    BY <1>3 DEF UpdateFreshness
  <2>2. backoff \in BackoffType
    BY ClientTypeIs, NewBackoffType DEF MarkStable
  <2> HIDE DEF backoff
  <2>3. /\ new \in ClientType /\ new.generation = c.generation /\ new.on = c.on
        /\ new.topics = c.topics /\ new.pending = c.pending /\ new.delivered = c.delivered
        /\ new.regressed = c.regressed /\ new.lost = c.lost /\ new.events = c.events
    BY <2>2, ClientTypeIs
  <2> HIDE DEF new
  <2>4. /\ d \in ClientType /\ d.state = "live" /\ Same(new, d)
        /\ Announced(new) => Announced(d)
    BY <1>0, <2>1, <2>3, SetStateIfNewFacts
  <2>5. AllFresh(c)
    <3> SUFFICES ASSUME NEW t \in Desired(c)
                 PROVE  c.topics[t].acked = "yes" /\ c.topics[t].fresh = "yes"
      BY DEF AllFresh
    <3>1. c.topics[t].acked \in {"no", "yes"} /\ c.topics[t].fresh \in {"no", "yes"}
      BY ClientTypeIs DEF FTopics, TopicType, Desired
    <3> QED
      BY <1>3, <3>1
  <2> QED
    BY <2>3, <2>4, <2>5 DEF Same, Announced
<1> QED
  BY <1>1, <1>2, <1>3

LEMMA FreshnessKept ==
  ASSUME NEW c \in ClientType, OnInv(c), RequestInv(c), LossInv(c), StampInv(c),
         "started" \in c.on,
         {"session_open", "channel"} \subseteq c.on \/ Desired(c) # {},
         NEW d, d = UpdateFreshness(c)
  PROVE  Inv(d)
<1>1. /\ d \in ClientType /\ d.on = c.on
      /\ d.topics = c.topics /\ d.pending = c.pending /\ d.delivered = c.delivered
      /\ d.regressed = c.regressed /\ (Announced(c) => Announced(d))
      /\ d.state = "live" => AllFresh(c)
  BY FreshnessFacts
<1>2. OnInv(d) /\ RequestInv(d) /\ LossInv(d) /\ StampInv(d)
  BY <1>1 DEF OnInv, RequestInv, LossInv, StampInv
<1>3. LiveInv(d)
  <2> SUFFICES ASSUME d.state = "live"
               PROVE  LiveInv(d)
    BY DEF LiveInv
  <2>1. {"session_open", "channel"} \subseteq c.on
    BY <1>1 DEF AllFresh, RequestInv, Desired
  <2>2. Desired(d) = Desired(c)
    BY <1>1 DEF Desired
  <2> QED
    BY <1>1, <2>1, <2>2 DEF OnInv, LiveInv, AllFresh, Has
<1> QED
  BY <1>2, <1>3 DEF Inv

\* An event that does not fit costs the connection.
LEMMA DeliverKept ==
  ASSUME NEW c \in ClientType, Inv(c), "started" \in c.on, NEW dt \in Nat,
         "session_open" \in c.on => "channel" \in c.on,
         NEW d, d = Deliver(c, dt)
  PROVE  /\ d \in ClientType /\ Inv(d) /\ d.generation = c.generation
         /\ d.on = c.on \/ d.on = Waiting
         /\ \/ d.state = c.state /\ d.backoff = c.backoff
            \/ d.lost = "yes" /\ Grew(c.backoff, d.backoff)
<1>1. CASE Full(c)
  <2> DEFINE l == [c EXCEPT !.lost = "yes"]
  <2>1. d = ScheduleReconnect(l, dt)
    BY <1>1 DEF Deliver
  <2>2. "yes" \in FAnswer
    BY DEF FAnswer
  <2>3. /\ l \in ClientType /\ l.state = c.state /\ l.generation = c.generation
        /\ l.on = c.on /\ l.topics = c.topics /\ l.pending = c.pending
        /\ l.backoff = c.backoff /\ l.delivered = c.delivered /\ l.lost = "yes"
        /\ l.regressed = c.regressed
    BY <2>2, ClientTypeIs
  <2> HIDE DEF l
  <2>4. c.backoff \in BackoffType /\ c.regressed = "no"
    BY ClientTypeIs DEF Inv, StampInv
  <2>5. CASE "reconnect_pending" \in c.on
    <3>1. d = l
      BY <2>1, <2>3, <2>5 DEF ScheduleReconnect, Has
    <3>2. OnInv(l) /\ RequestInv(l) /\ LossInv(l) /\ StampInv(l)
      BY <2>3, <2>5 DEF Inv, OnInv, RequestInv, LossInv, StampInv
    <3>3. LiveInv(l)
      BY <2>3 DEF Inv, LiveInv, Desired, Has
    <3> QED
      BY <2>3, <3>1, <3>2, <3>3 DEF Inv
  <2>6. CASE "reconnect_pending" \notin c.on
    <3>1. /\ d \in ClientType /\ Inv(d) /\ d.on = Waiting
          /\ d.generation = l.generation /\ d.backoff = Attempt(l.backoff, dt)
          /\ d.lost = "yes"
      BY <2>1, <2>3, <2>4, <2>6, RescheduledKept
    <3>2. Grew(c.backoff, d.backoff)
      BY <2>3, <2>4, <3>1, AttemptFacts
    <3> QED
      BY <2>3, <3>1, <3>2
  <2> QED
    BY <2>5, <2>6
<1>2. CASE ~Full(c)
  <2> DEFINE e == Append(c.events, "data")
  <2>1. d = [c EXCEPT !.events = e]
    BY <1>2 DEF Deliver, Enqueue
  <2>2. e \in EventsType /\ (AlarmIn(c.events) => AlarmIn(e))
    BY <1>2, ClientTypeIs, QueueFacts DEF Full
  <2> HIDE DEF e
  <2>3. /\ d \in ClientType /\ d.state = c.state /\ d.generation = c.generation
        /\ d.on = c.on /\ d.topics = c.topics /\ d.pending = c.pending
        /\ d.backoff = c.backoff /\ d.delivered = c.delivered /\ d.lost = c.lost
        /\ d.regressed = c.regressed /\ d.events = e
    BY <2>1, <2>2, ClientTypeIs
  <2>4. OnInv(d) /\ RequestInv(d) /\ StampInv(d)
    BY <2>3 DEF Inv, OnInv, RequestInv, StampInv
  <2>5. LossInv(d)
    BY <2>2, <2>3 DEF Inv, LossInv, Announced
  <2>6. LiveInv(d)
    BY <2>3 DEF Inv, LiveInv, Desired, Has
  <2> QED
    BY <2>3, <2>4, <2>5, <2>6 DEF Inv
<1> QED
  BY <1>1, <1>2

ButFor(c, t) ==
  \A u \in Desired(c) :
    c.topics[u].acked = "yes" /\ (u = t \/ c.topics[u].fresh = "yes")

\* handle_data.
LEMMA DataKept ==
  ASSUME NEW c \in ClientType, Inv(c), "started" \in c.on,
         "session_open" \in c.on <=> "channel" \in c.on,
         NEW t \in Topics, NEW stamp \in 0..MaxStamp, NEW dt \in Nat,
         NEW d, d = HandleData(c, t, stamp, dt)
  PROVE  /\ d \in ClientType /\ Inv(d) /\ d.generation = c.generation
         /\ d.on = c.on \/ d.on = Waiting
         /\ \/ Grew(c.backoff, d.backoff) \/ d.state = "live"
            \/ d.lost = "yes" /\ t \in Desired(c) /\ ButFor(c, t)
<1>1. CASE t \notin Desired(c) \/ (0 < stamp /\ stamp < c.topics[t].stamp)
  <2>1. d = ScheduleReconnect(c, dt)
    BY <1>1 DEF HandleData
  <2> QED
    BY <2>1, ScheduleKept
<1>2. CASE ~(t \notin Desired(c) \/ (0 < stamp /\ stamp < c.topics[t].stamp))
  <2> DEFINE topic == Refreshed(c.topics[t], stamp)
             topics == [c.topics EXCEPT ![t] = topic]
             delivered == [c.delivered EXCEPT ![t] = IF stamp = 0 THEN @ ELSE stamp]
             regressed == IF /\ 0 < stamp /\ stamp < c.delivered[t]
                             /\ Has(c, "session_open")
                          THEN "yes" ELSE c.regressed
             new == [c EXCEPT !.topics = topics, !.delivered = delivered,
                              !.regressed = regressed]
             fresh == UpdateFreshness(new)
  <2>1. d = Deliver(fresh, dt)
    <3>1. new = [c EXCEPT !.topics[t] = Refreshed(@, stamp),
                         !.delivered[t] = IF stamp = 0 THEN @ ELSE stamp,
                         !.regressed = regressed]
      BY ClientTypeIs
    <3> HIDE DEF new
    <3> QED
      BY <1>2, <3>1 DEF HandleData
  <2>2. /\ c.topics \in FTopics /\ c.delivered \in FDelivered /\ c.topics[t] \in TopicType
        /\ c.delivered[t] \in 0..MaxStamp /\ c.topics[t].stamp \in 0..MaxStamp
        /\ c.backoff \in BackoffType /\ c.regressed \in FAnswer
    <3>1. c.topics \in FTopics /\ c.delivered \in FDelivered /\ c.backoff \in BackoffType
          /\ c.regressed \in FAnswer
      BY ClientTypeIs
    <3> QED
      BY <3>1 DEF FTopics, FDelivered, TopicType
  <2>3. /\ topic \in TopicType /\ topic.desired = c.topics[t].desired
        /\ topic.acked = c.topics[t].acked
        /\ topic.stamp = IF stamp = 0 THEN c.topics[t].stamp ELSE stamp
    BY <2>2, PublicAssumption, Zenon DEF TopicType, Refreshed
  <2> HIDE DEF topic
  <2>4. /\ topics \in FTopics /\ topics[t] = topic
        /\ \A u \in Topics : u # t => topics[u] = c.topics[u]
    BY <2>2, <2>3 DEF FTopics
  <2>5. /\ delivered \in FDelivered
        /\ delivered[t] = IF stamp = 0 THEN c.delivered[t] ELSE stamp
        /\ \A u \in Topics : u # t => delivered[u] = c.delivered[u]
    BY <2>2 DEF FDelivered
  <2>6. regressed = "no" /\ regressed \in FAnswer
    <3>1. MaxStamp \in Nat
      BY PublicAssumption
    <3>2. c.regressed = "no"
      BY DEF Inv, StampInv
    <3>3. ASSUME 0 < stamp, stamp < c.delivered[t], Has(c, "session_open")
          PROVE  FALSE
      <4>1. c.delivered[t] <= c.topics[t].stamp
        BY <3>3 DEF Inv, OnInv, StampInv, Has
      <4>2. ~(stamp < c.topics[t].stamp)
        BY <1>2, <3>3
      <4> QED
        BY <2>2, <3>1, <3>3, <4>1, <4>2
    <3> QED
      BY <3>2, <3>3 DEF FAnswer
  <2> HIDE DEF topics, delivered, regressed
  <2>7. /\ new \in ClientType /\ new.state = c.state /\ new.generation = c.generation
        /\ new.on = c.on /\ new.topics = topics /\ new.pending = c.pending
        /\ new.backoff = c.backoff /\ new.delivered = delivered /\ new.lost = c.lost
        /\ new.events = c.events /\ new.regressed = regressed
    BY <2>4, <2>5, <2>6, ClientTypeIs, Zenon
  <2> HIDE DEF new
  <2>8. OnInv(new) /\ LossInv(new)
    BY <2>7 DEF Inv, OnInv, LossInv, Announced
  <2>9. RequestInv(new)
    BY <2>3, <2>4, <2>7 DEF Inv, RequestInv
  <2>10. StampInv(new)
    <3> SUFFICES ASSUME NEW u \in Topics
                 PROVE  /\ topics[u].desired = "no" => topics[u].stamp = 0
                        /\ "channel" \in c.on => delivered[u] <= topics[u].stamp
      BY <2>6, <2>7 DEF StampInv
    <3>1. CASE u # t
      BY <2>4, <2>5, <3>1 DEF Inv, StampInv
    <3>2. CASE u = t
      <4>1. topics[t].desired = "yes"
        BY <1>2, <2>3, <2>4 DEF Desired
      <4>2. "channel" \in c.on => c.delivered[t] <= c.topics[t].stamp
        BY DEF Inv, StampInv
      <4>3. stamp \in Int /\ stamp <= stamp
        BY PublicAssumption
      <4> QED
        BY <2>3, <2>4, <2>5, <3>2, <4>1, <4>2, <4>3
    <3> QED
      BY <3>1, <3>2
  <2>11. Desired(new) = Desired(c) /\ t \in Desired(c)
    BY <1>2, <2>3, <2>4, <2>7 DEF Desired
  <2>12. /\ fresh \in ClientType /\ Inv(fresh) /\ fresh.generation = c.generation
         /\ fresh.on = c.on
         /\ fresh.state = "live" => AllFresh(new)
         /\ fresh.state = "live" \/ fresh.backoff = c.backoff
    <3>1. Inv(fresh)
      BY <2>7, <2>8, <2>9, <2>10, <2>11, FreshnessKept
    <3> QED
      BY <2>7, <3>1, FreshnessFacts
  <2> HIDE DEF fresh
  <2>13. /\ d \in ClientType /\ Inv(d) /\ d.generation = c.generation
         /\ d.on = c.on \/ d.on = Waiting
         /\ \/ d.state = fresh.state /\ d.backoff = fresh.backoff
            \/ d.lost = "yes" /\ Grew(fresh.backoff, d.backoff)
    BY <2>1, <2>12, DeliverKept
  <2>14. CASE fresh.state = "live"
    <3>1. ButFor(c, t)
      BY <2>3, <2>4, <2>7, <2>11, <2>12, <2>14 DEF AllFresh, ButFor, Desired
    <3> QED
      BY <2>11, <2>13, <2>14, <3>1
  <2>15. CASE fresh.backoff = c.backoff
    BY <2>2, <2>13, <2>15, GrewIsReflexive
  <2> QED
    BY <2>12, <2>13, <2>14, <2>15
<1> QED
  BY <1>1, <1>2

\* handle_response, of a request that was granted.
LEMMA GrantedKept ==
  ASSUME NEW c \in ClientType, Inv(c), "started" \in c.on,
         NEW r \in Requests, c.pending[r] > 0, NEW dt \in Nat,
         NEW d, d = Granted(c, r, dt)
  PROVE  /\ d \in ClientType /\ Inv(d) /\ d.generation = c.generation
         /\ d.on = c.on \/ d.on = Waiting
         /\ Grew(c.backoff, d.backoff) \/ d.state = "live"
<1> DEFINE t == r[2]
           pending == [c.pending EXCEPT ![r] = @ - 1]
           answered == [c EXCEPT !.pending = pending]
<1>1. t \in Topics
  BY DEF Requests
<1>2. /\ c.topics \in FTopics /\ c.delivered \in FDelivered /\ c.pending \in FPending
      /\ c.backoff \in BackoffType /\ c.regressed = "no"
  BY ClientTypeIs DEF Inv, StampInv
<1>3. "session_open" \in c.on /\ "channel" \in c.on /\ "reconnect_pending" \notin c.on
  <2>1. c.pending[r] # 0
    BY <1>2 DEF FPending
  <2> QED
    BY <2>1 DEF Inv, OnInv, RequestInv
<1>4. pending \in FPending
  BY <1>2 DEF FPending
<1>5. answered = [c EXCEPT !.pending[r] = @ - 1]
  BY ClientTypeIs
<1> HIDE DEF pending
<1>6. /\ answered \in ClientType /\ answered.state = c.state
      /\ answered.generation = c.generation /\ answered.on = c.on
      /\ answered.topics = c.topics /\ answered.backoff = c.backoff
      /\ answered.delivered = c.delivered /\ answered.lost = c.lost
      /\ answered.events = c.events /\ answered.regressed = c.regressed
  BY <1>4, ClientTypeIs
<1> HIDE DEF answered
<1>7. ASSUME NEW topic \in TopicType, NEW stamp \in {0, c.delivered[t]},
             topic.desired = "no" => topic.stamp = 0, stamp <= topic.stamp,
             NEW new,
             new = [answered EXCEPT !.topics = [c.topics EXCEPT ![t] = topic],
                                    !.delivered = [c.delivered EXCEPT ![t] = stamp]],
             d = UpdateFreshness(new)
      PROVE  /\ d \in ClientType /\ Inv(d) /\ d.generation = c.generation
             /\ d.on = c.on
             /\ Grew(c.backoff, d.backoff) \/ d.state = "live"
  <2> DEFINE topics == [c.topics EXCEPT ![t] = topic]
             delivered == [c.delivered EXCEPT ![t] = stamp]
  <2>1. /\ topics \in FTopics /\ topics[t] = topic
        /\ \A u \in Topics : u # t => topics[u] = c.topics[u]
    BY <1>1, <1>2, <1>7 DEF FTopics
  <2>2. /\ delivered \in FDelivered /\ delivered[t] = stamp
        /\ \A u \in Topics : u # t => delivered[u] = c.delivered[u]
    BY <1>1, <1>2, <1>7, PublicAssumption DEF FDelivered
  <2> HIDE DEF topics, delivered
  <2>3. new = [answered EXCEPT !.topics = topics, !.delivered = delivered]
    BY <1>7 DEF topics, delivered
  <2>4. /\ new \in ClientType /\ new.generation = c.generation /\ new.on = c.on
        /\ new.topics = topics /\ new.backoff = c.backoff /\ new.delivered = delivered
        /\ new.lost = c.lost /\ new.events = c.events /\ new.regressed = c.regressed
    BY <1>6, <2>1, <2>2, <2>3, ClientTypeIs, Zenon
  <2>5. OnInv(new) /\ RequestInv(new) /\ LossInv(new)
    BY <1>3, <2>4 DEF Inv, OnInv, RequestInv, LossInv, Announced
  <2>6. StampInv(new)
    <3> SUFFICES ASSUME NEW u \in Topics
                 PROVE  /\ topics[u].desired = "no" => topics[u].stamp = 0
                        /\ delivered[u] <= topics[u].stamp
      BY <1>2, <1>3, <2>4 DEF StampInv
    <3>1. CASE u # t
      BY <1>3, <2>1, <2>2, <3>1 DEF Inv, StampInv
    <3>2. CASE u = t
      BY <1>7, <2>1, <2>2, <3>2
    <3> QED
      BY <3>1, <3>2
  <2>7. Inv(d)
    BY <1>3, <1>7, <2>4, <2>5, <2>6, FreshnessKept, Zenon
  <2> QED
    BY <1>2, <1>7, <2>4, <2>7, FreshnessFacts, GrewIsReflexive, Zenon
<1>8. c.topics[t] \in TopicType /\ c.delivered[t] <= c.topics[t].stamp
  BY <1>1, <1>2, <1>3 DEF FTopics, Inv, StampInv
<1>9. CASE r[1] = "unsubscribe"
  <2> DEFINE new == [answered EXCEPT !.topics[t] = NoTopic, !.delivered[t] = 0]
  <2>1. d = UpdateFreshness(new)
    BY <1>5, <1>9 DEF Granted
  <2>2. new = [answered EXCEPT !.topics = [c.topics EXCEPT ![t] = NoTopic],
                               !.delivered = [c.delivered EXCEPT ![t] = 0]]
    BY <1>6, ClientTypeIs, Zenon
  <2> HIDE DEF new
  <2>3. NoTopic \in TopicType /\ NoTopic.stamp = 0
    BY PublicAssumption DEF NoTopic, NewTopic, TopicType
  <2>4. 0 <= NoTopic.stamp
    BY <2>3
  <2> QED
    BY <1>7, <2>1, <2>2, <2>3, <2>4, Zenon
<1>10. CASE r[1] # "unsubscribe" /\ t \notin Desired(c)
  <2>1. d = ScheduleReconnect(answered, dt)
    BY <1>5, <1>10 DEF Granted
  <2> QED
    BY <1>2, <1>3, <1>6, <2>1, RescheduledKept, AttemptFacts
<1>11. CASE r[1] # "unsubscribe" /\ t \in Desired(c)
  <2> DEFINE topic == Acknowledged(c.topics[t], t)
             new == [answered EXCEPT !.topics[t] = Acknowledged(@, t)]
  <2>1. d = UpdateFreshness(new)
    BY <1>5, <1>11 DEF Granted
  <2>2. /\ topic \in TopicType /\ topic.desired = "yes"
        /\ topic.stamp = c.topics[t].stamp
    BY <1>1, <1>8, <1>11, Zenon DEF TopicType, Acknowledged, Desired
  <2> HIDE DEF topic
  <2>3. new = [answered EXCEPT !.topics = [c.topics EXCEPT ![t] = topic],
                               !.delivered = [c.delivered EXCEPT ![t] = c.delivered[t]]]
    <3>1. [c.delivered EXCEPT ![t] = c.delivered[t]] = c.delivered
      BY <1>1, <1>2 DEF FDelivered
    <3>2. new = [answered EXCEPT !.topics = [c.topics EXCEPT ![t] = topic]]
      BY <1>6, ClientTypeIs DEF topic
    <3>3. [answered EXCEPT !.topics = [c.topics EXCEPT ![t] = topic]] =
          [answered EXCEPT !.topics = [c.topics EXCEPT ![t] = topic],
                           !.delivered = c.delivered]
      BY <1>6, ClientTypeIs, Zenon
    <3> QED
      BY <3>1, <3>2, <3>3, Zenon
  <2> HIDE DEF new
  <2>4. c.delivered[t] <= topic.stamp
    BY <1>8, <2>2
  <2> QED
    BY <1>7, <2>1, <2>2, <2>3, <2>4, Zenon
<1> QED
  BY <1>9, <1>10, <1>11

=============================================================================
