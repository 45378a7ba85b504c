------------------------ MODULE WebSocketChannelProofs ------------------------
(***************************************************************************)
(* For any number of writes, reads and closes: one frame is written at a   *)
(* time, the frames reach the network in their order and at most once, and *)
(* each write is answered at most once, and truly.                         *)
(***************************************************************************)
EXTENDS WebSocketChannel, TLAPS

Frame == Nat \ {0}
Told == Frame \X {"ok", "failed", "refused"}

\* Frames were given in ascending order, up to the last call.
Ascending(s) == \A i, j \in 1..Len(s) : i < j => s[i] < s[j]

FramesInv ==
  /\ calls.write \in Nat
  /\ writes \in Seq(Frame) /\ Ascending(writes)
  /\ \A i \in 1..Len(writes) : writes[i] <= calls.write

FlightInv ==
  /\ inflight \in Seq([frame : Frame, can : SUBSET Either])
  /\ OneWriteAtATime

\* What is on the network is older than what is queued.
WireInv ==
  /\ wire \in Seq(Frame) /\ SentInOrder
  /\ \A k \in 1..Len(wire) :
       /\ wire[k] <= calls.write
       /\ \A i \in 1..Len(writes) : wire[k] < writes[i]

\* Who was answered is not queued, and what is on the network was answered.
ToldInv ==
  /\ told \in Seq(Told) /\ AnswersAreTrue
  /\ \A i \in 1..Len(told) :
       /\ told[i][1] <= calls.write
       /\ \A j \in 1..Len(writes) : told[i][1] # writes[j]
  /\ \A k \in 1..Len(wire) : \E i \in 1..Len(told) : told[i][1] = wire[k]

WriteInv == FramesInv /\ FlightInv /\ WireInv /\ ToldInv

writeVars == <<calls.write, writes, inflight, wire, told>>

-----------------------------------------------------------------------------
\* The steps that leave the queue alone.
LEMMA OtherKept ==
  ASSUME WriteInv, UNCHANGED writeVars
  PROVE  WriteInv'
BY DEF WriteInv, FramesInv, FlightInv, WireInv, ToldInv, Ascending, OneWriteAtATime,
       SentInOrder, AnswersAreTrue, writeVars

LEMMA AppendFacts ==
  ASSUME NEW S, NEW s \in Seq(S), NEW x \in S
  PROVE  /\ Append(s, x) \in Seq(S) /\ Len(Append(s, x)) = Len(s) + 1
         /\ \A i \in 1..Len(s) : Append(s, x)[i] = s[i]
         /\ Append(s, x)[Len(s) + 1] = x
OBVIOUS

LEMMA TailFacts ==
  ASSUME NEW S, NEW s \in Seq(S), s # <<>>
  PROVE  /\ Tail(s) \in Seq(S) /\ Len(Tail(s)) = Len(s) - 1 /\ Len(s) >= 1
         /\ \A i \in 1..Len(Tail(s)) : Tail(s)[i] = s[i + 1]
         /\ Head(s) = s[1] /\ s[1] \in S
OBVIOUS

LEMMA ConcatFacts ==
  ASSUME NEW S, NEW s \in Seq(S), NEW t \in Seq(S)
  PROVE  /\ s \o t \in Seq(S) /\ Len(s \o t) = Len(s) + Len(t)
         /\ \A i \in 1..Len(s) : (s \o t)[i] = s[i]
         /\ \A i \in 1..Len(t) : (s \o t)[Len(s) + i] = t[i]
OBVIOUS

LEMMA AppendIsConcat ==
  ASSUME NEW S, NEW s \in Seq(S), NEW x \in S
  PROVE  Append(s, x) = s \o <<x>>
OBVIOUS

LEMMA ConcatIsAssociative ==
  ASSUME NEW S, NEW s \in Seq(S), NEW t \in Seq(S), NEW u \in Seq(S)
  PROVE  (s \o t) \o u = s \o (t \o u)
OBVIOUS

LEMMA AscendingAppend ==
  ASSUME NEW s \in Seq(Frame), NEW x \in Frame, Ascending(s),
         \A i \in 1..Len(s) : s[i] < x
  PROVE  Ascending(Append(s, x))
<1> DEFINE t == Append(s, x)
<1>1. /\ Len(t) = Len(s) + 1 /\ Len(s) \in Nat
      /\ \A i \in 1..Len(s) : t[i] = s[i]
      /\ t[Len(s) + 1] = x
  BY AppendFacts
<1> SUFFICES ASSUME NEW i \in 1..Len(t), NEW j \in 1..Len(t), i < j
             PROVE  t[i] < t[j]
  BY DEF Ascending
<1>2. i \in 1..Len(s) /\ t[i] = s[i]
  BY <1>1
<1>3. CASE j \in 1..Len(s)
  <2>1. t[j] = s[j]
    BY <1>1, <1>3
  <2> QED
    BY <1>2, <1>3, <2>1 DEF Ascending
<1>4. CASE j \notin 1..Len(s)
  <2>1. j = Len(s) + 1
    BY <1>1, <1>4
  <2>2. t[j] = x
    BY <1>1, <2>1
  <2> QED
    BY <1>2, <2>2
<1> QED
  BY <1>3, <1>4

\* New answers, for frames not answered before and no longer queued.
LEMMA ToldKept ==
  ASSUME ToldInv, NEW more \in Seq(Told), told' = told \o more,
         wire' \in Seq(Frame), writes' \in Seq(Frame),
         calls.write \in Nat, calls'.write \in Nat, calls.write <= calls'.write,
         \A i, j \in 1..Len(more) : more[i][1] = more[j][1] => i = j,
         \A i \in 1..Len(told), j \in 1..Len(more) : told[i][1] # more[j][1],
         \A j \in 1..Len(more) : more[j][1] <= calls'.write,
         \A k \in 1..Len(writes') :
           /\ \A i \in 1..Len(told) : told[i][1] # writes'[k]
           /\ \A i \in 1..Len(more) : more[i][1] # writes'[k],
         \A k \in 1..Len(wire') :
           \/ \E i \in 1..Len(told) : told[i][1] = wire'[k]
           \/ \E i \in 1..Len(more) : more[i][1] = wire'[k],
         \A i \in 1..Len(told) :
           /\ told[i][2] = "refused" => \A k \in 1..Len(wire') : wire'[k] # told[i][1]
           /\ told[i][2] = "ok" => \E k \in 1..Len(wire') : wire'[k] = told[i][1],
         \A i \in 1..Len(more) :
           /\ more[i][2] = "refused" => \A k \in 1..Len(wire') : wire'[k] # more[i][1]
           /\ more[i][2] = "ok" => \E k \in 1..Len(wire') : wire'[k] = more[i][1]
  PROVE  ToldInv'
<1>1. told \in Seq(Told) /\ Len(told) \in Nat /\ Len(more) \in Nat
  BY DEF ToldInv
<1>2. /\ told' \in Seq(Told) /\ Len(told') = Len(told) + Len(more)
      /\ \A i \in 1..Len(told) : told'[i] = told[i]
      /\ \A i \in 1..Len(more) : told'[Len(told) + i] = more[i]
  BY <1>1, ConcatFacts
<1>3. \A i \in 1..Len(told') :
        \/ i \in 1..Len(told) /\ told'[i] = told[i]
        \/ \E j \in 1..Len(more) : i = Len(told) + j /\ told'[i] = more[j]
  <2> SUFFICES ASSUME NEW i \in 1..Len(told'), i \notin 1..Len(told)
               PROVE  \E j \in 1..Len(more) : i = Len(told) + j /\ told'[i] = more[j]
    BY <1>2
  <2>1. i - Len(told) \in 1..Len(more) /\ i = Len(told) + (i - Len(told))
    BY <1>1, <1>2
  <2> QED
    BY <1>2, <2>1
<1>4. \A i \in 1..Len(told') : told'[i][1] <= calls'.write
  <2>1. \A i \in 1..Len(told) : told[i][1] \in Nat
    BY <1>1 DEF Told, Frame
  <2>2. \A i \in 1..Len(told) : told[i][1] <= calls.write
    BY DEF ToldInv
  <2> SUFFICES ASSUME NEW i \in 1..Len(told')
               PROVE  told'[i][1] <= calls'.write
    OBVIOUS
  <2>3. CASE i \in 1..Len(told) /\ told'[i] = told[i]
    BY <2>1, <2>2, <2>3
  <2>4. CASE \E j \in 1..Len(more) : i = Len(told) + j /\ told'[i] = more[j]
    BY <2>4
  <2> QED
    BY <1>3, <2>3, <2>4
<1>5. \A i \in 1..Len(told') : \A j \in 1..Len(writes') : told'[i][1] # writes'[j]
  <2> SUFFICES ASSUME NEW i \in 1..Len(told'), NEW k \in 1..Len(writes')
               PROVE  told'[i][1] # writes'[k]
    OBVIOUS
  <2>1. CASE i \in 1..Len(told) /\ told'[i] = told[i]
    BY <2>1
  <2>2. CASE \E j \in 1..Len(more) : i = Len(told) + j /\ told'[i] = more[j]
    BY <2>2
  <2> QED
    BY <1>3, <2>1, <2>2
<1>6. \A k \in 1..Len(wire') : \E i \in 1..Len(told') : told'[i][1] = wire'[k]
  <2> SUFFICES ASSUME NEW k \in 1..Len(wire')
               PROVE  \E i \in 1..Len(told') : told'[i][1] = wire'[k]
    OBVIOUS
  <2>1. CASE \E i \in 1..Len(told) : told[i][1] = wire'[k]
    BY <1>1, <1>2, <2>1
  <2>2. CASE \E i \in 1..Len(more) : more[i][1] = wire'[k]
    <3>1. PICK i \in 1..Len(more) : more[i][1] = wire'[k]
      BY <2>2
    <3>2. Len(told) + i \in 1..Len(told') /\ told'[Len(told) + i] = more[i]
      BY <1>1, <1>2
    <3> QED
      BY <3>1, <3>2
  <2> QED
    BY <2>1, <2>2
<1>7. \A i, j \in 1..Len(told') : told'[i][1] = told'[j][1] => i = j
  <2> SUFFICES ASSUME NEW i \in 1..Len(told'), NEW j \in 1..Len(told'),
                      told'[i][1] = told'[j][1]
               PROVE  i = j
    OBVIOUS
  <2>1. \A m, n \in 1..Len(told) : told[m][1] = told[n][1] => m = n
    BY DEF ToldInv, AnswersAreTrue
  <2>2. CASE i \in 1..Len(told) /\ told'[i] = told[i]
    <3>1. CASE j \in 1..Len(told) /\ told'[j] = told[j]
      BY <2>1, <2>2, <3>1
    <3>2. CASE \E m \in 1..Len(more) : j = Len(told) + m /\ told'[j] = more[m]
      BY <2>2, <3>2
    <3> QED
      BY <1>3, <3>1, <3>2
  <2>3. CASE \E m \in 1..Len(more) : i = Len(told) + m /\ told'[i] = more[m]
    <3>0. PICK m \in 1..Len(more) : i = Len(told) + m /\ told'[i] = more[m]
      BY <2>3
    <3>1. CASE j \in 1..Len(told) /\ told'[j] = told[j]
      BY <3>0, <3>1
    <3>2. CASE \E n \in 1..Len(more) : j = Len(told) + n /\ told'[j] = more[n]
      BY <3>0, <3>2
    <3> QED
      BY <1>3, <3>1, <3>2
  <2> QED
    BY <1>3, <2>2, <2>3
<1>8. \A i \in 1..Len(told') :
        /\ told'[i][2] = "refused" => \A k \in 1..Len(wire') : wire'[k] # told'[i][1]
        /\ told'[i][2] = "ok" => \E k \in 1..Len(wire') : wire'[k] = told'[i][1]
  <2> SUFFICES ASSUME NEW i \in 1..Len(told')
               PROVE  /\ told'[i][2] = "refused" =>
                           \A k \in 1..Len(wire') : wire'[k] # told'[i][1]
                      /\ told'[i][2] = "ok" =>
                           \E k \in 1..Len(wire') : wire'[k] = told'[i][1]
    OBVIOUS
  <2>1. CASE i \in 1..Len(told) /\ told'[i] = told[i]
    BY <2>1
  <2>2. CASE \E m \in 1..Len(more) : i = Len(told) + m /\ told'[i] = more[m]
    BY <2>2
  <2> QED
    BY <1>3, <2>1, <2>2
<1> QED
  BY <1>2, <1>4, <1>5, <1>6, <1>7, <1>8 DEF ToldInv, AnswersAreTrue

\* A frame that was not queued is refused.
LEMMA RefuseKept ==
  ASSUME WriteInv, calls'.write = calls.write + 1, refuse(calls.write + 1),
         UNCHANGED wire
  PROVE  WriteInv'
<1> DEFINE frame == calls.write + 1
           more == <<<<frame, "refused">>>>
<1>0. calls.write \in Nat /\ frame \in Frame /\ frame > calls.write
  BY DEF WriteInv, FramesInv, Frame
<1>1. UNCHANGED <<writes, inflight, wire>> /\ told' = Append(told, <<frame, "refused">>)
  BY DEF refuse
<1>2. FramesInv'
  <2>1. /\ writes \in Seq(Frame) /\ Ascending(writes)
        /\ \A i \in 1..Len(writes) : writes[i] \in Nat /\ writes[i] <= calls.write
    BY DEF WriteInv, FramesInv, Frame
  <2>2. \A i \in 1..Len(writes) : writes[i] <= calls.write + 1
    BY <1>0, <2>1
  <2>3. Ascending(writes)'
    BY <1>1, <2>1 DEF Ascending
  <2> QED
    BY <1>0, <1>1, <2>1, <2>2, <2>3 DEF FramesInv
<1>3. FlightInv'
  BY <1>1 DEF WriteInv, FlightInv, OneWriteAtATime
<1>4. WireInv'
  BY <1>0, <1>1 DEF WriteInv, WireInv, SentInOrder, Frame
<1>5. more \in Seq(Told) /\ Len(more) = 1 /\ more[1] = <<frame, "refused">>
  BY <1>0 DEF Told
<1>6. told' = told \o more /\ told \in Seq(Told)
  <2>1. told \in Seq(Told)
    BY DEF WriteInv, ToldInv
  <2>2. <<frame, "refused">> \in Told
    BY <1>0 DEF Told
  <2> QED
    BY <1>1, <2>1, <2>2, AppendIsConcat
<1>7. /\ \A i \in 1..Len(told) : told[i][1] # frame
      /\ \A i \in 1..Len(wire) : wire[i] # frame
      /\ \A i \in 1..Len(writes) : writes[i] # frame
  BY <1>0 DEF WriteInv, ToldInv, WireInv, FramesInv
<1> HIDE DEF frame, more
<1>8. \A i \in 1..Len(more) : i = 1 /\ more[i] = <<frame, "refused">>
                                /\ more[i][1] = frame /\ more[i][2] = "refused"
  BY <1>5
<1>9. ToldInv'
  <2>1. wire' \in Seq(Frame) /\ writes' \in Seq(Frame) /\ ToldInv
    BY <1>1 DEF WriteInv, WireInv, FramesInv
  <2>2. calls'.write \in Nat /\ calls.write <= calls'.write /\ frame <= calls'.write
    BY <1>0 DEF frame
  <2>3. /\ \A i, j \in 1..Len(more) : more[i][1] = more[j][1] => i = j
        /\ \A i \in 1..Len(told), j \in 1..Len(more) : told[i][1] # more[j][1]
        /\ \A j \in 1..Len(more) : more[j][1] <= calls'.write
        /\ \A i \in 1..Len(more) :
             /\ more[i][2] = "refused" => \A k \in 1..Len(wire') : wire'[k] # more[i][1]
             /\ more[i][2] = "ok" => \E k \in 1..Len(wire') : wire'[k] = more[i][1]
    BY <1>1, <1>7, <1>8, <2>2
  <2>4. \A k \in 1..Len(writes') :
          /\ \A i \in 1..Len(told) : told[i][1] # writes'[k]
          /\ \A i \in 1..Len(more) : more[i][1] # writes'[k]
    BY <1>1, <1>7, <1>8 DEF WriteInv, ToldInv
  <2>5. /\ \A k \in 1..Len(wire') : \E i \in 1..Len(told) : told[i][1] = wire'[k]
        /\ \A i \in 1..Len(told) :
             /\ told[i][2] = "refused" => \A k \in 1..Len(wire') : wire'[k] # told[i][1]
             /\ told[i][2] = "ok" => \E k \in 1..Len(wire') : wire'[k] = told[i][1]
    BY <1>1 DEF WriteInv, ToldInv, AnswersAreTrue
  <2> QED
    BY <1>0, <1>5, <1>6, <2>1, <2>2, <2>3, <2>4, <2>5, ToldKept
<1> QED
  BY <1>2, <1>3, <1>4, <1>9 DEF WriteInv

\* start_write hands the front of the queue to an idle stream.
LEMMA FlightKept ==
  ASSUME NEW queue \in Seq(Frame), start_write(queue, <<>>)
  PROVE  FlightInv'
<1> DEFINE record == [frame |-> Head(queue), can |-> Prospects]
<1>1. writes' = queue
  BY DEF start_write
<1>2. CASE queue = <<>> \/ ~chan.opened
  <2>1. inflight' = <<>>
    BY <1>2 DEF start_write
  <2> QED
    BY <2>1 DEF FlightInv, OneWriteAtATime
<1>3. CASE queue # <<>> /\ chan.opened
  <2>1. inflight' = Append(<<>>, record)
    BY <1>3 DEF start_write
  <2>2. record \in [frame : Frame, can : SUBSET Either] /\ record.frame = queue[1]
    BY <1>3, TailFacts DEF Prospects, Either
  <2> HIDE DEF record
  <2>3. /\ inflight' \in Seq([frame : Frame, can : SUBSET Either])
        /\ Len(inflight') = 1 /\ inflight'[1] = record
    BY <2>1, <2>2
  <2> QED
    BY <1>1, <1>3, <2>2, <2>3 DEF FlightInv, OneWriteAtATime
<1> QED
  BY <1>2, <1>3

\* write: a frame joins the end of the queue, or is refused.
LEMMA QueueKept ==
  ASSUME WriteInv, calls'.write = calls.write + 1, write(calls.write + 1),
         UNCHANGED wire
  PROVE  WriteInv'
<1> DEFINE frame == calls.write + 1
<1>0. calls.write \in Nat /\ frame \in Frame /\ frame > calls.write
  BY DEF WriteInv, FramesInv, Frame
<1>1. CASE ~chan.opened
  BY <1>1, RefuseKept DEF write
<1>2. CASE chan.opened
  <2>1. /\ writes' = Append(writes, frame) /\ UNCHANGED told
        /\ inflight = <<>> => start_write(Append(writes, frame), <<>>)
        /\ inflight # <<>> => UNCHANGED inflight
    BY <1>2 DEF write, start_write
  <2>2. /\ writes' \in Seq(Frame) /\ Len(writes') = Len(writes) + 1 /\ Len(writes) \in Nat
        /\ \A i \in 1..Len(writes) : writes'[i] = writes[i]
        /\ writes'[Len(writes) + 1] = frame
    BY <1>0, <2>1, AppendFacts DEF WriteInv, FramesInv
  <2>3. \A i \in 1..Len(writes') :
          \/ i \in 1..Len(writes) /\ writes'[i] = writes[i]
          \/ i = Len(writes) + 1 /\ writes'[i] = frame
    BY <2>2
  <2>4. \A i \in 1..Len(writes) : writes[i] \in Nat /\ writes[i] < frame
    BY <1>0 DEF WriteInv, FramesInv, Frame
  <2>5. Ascending(writes')
    BY <1>0, <2>1, <2>4, AscendingAppend DEF WriteInv, FramesInv
  <2>6. FramesInv'
    BY <1>0, <2>2, <2>3, <2>4, <2>5 DEF FramesInv, Ascending, Frame
  <2>7. FlightInv'
    <3>1. CASE inflight = <<>>
      BY <2>1, <2>2, <3>1, FlightKept
    <3>2. CASE inflight # <<>>
      <4>1. Len(writes) >= 1 /\ writes'[1] = writes[1]
        BY <2>2, <3>2 DEF WriteInv, FramesInv, FlightInv, OneWriteAtATime
      <4> QED
        BY <2>1, <2>2, <3>2, <4>1 DEF WriteInv, FlightInv, OneWriteAtATime
    <3> QED
      BY <3>1, <3>2
  <2>8. WireInv'
    <3>1. \A k \in 1..Len(wire) : wire[k] \in Nat /\ wire[k] < frame
      BY <1>0 DEF WriteInv, WireInv, Frame
    <3>2. /\ wire' \in Seq(Frame) /\ SentInOrder'
          /\ \A k \in 1..Len(wire), i \in 1..Len(writes) : wire[k] < writes[i]
      BY DEF WriteInv, WireInv, SentInOrder
    <3>3. \A k \in 1..Len(wire') : wire'[k] <= calls'.write
      BY <1>0, <3>1
    <3>4. \A k \in 1..Len(wire'), i \in 1..Len(writes') : wire'[k] < writes'[i]
      BY <2>3, <3>1, <3>2
    <3> QED
      BY <3>2, <3>3, <3>4 DEF WireInv
  <2>9. ToldInv'
    <3>1. \A i \in 1..Len(told) : told[i][1] \in Nat /\ told[i][1] < frame
      BY <1>0 DEF WriteInv, ToldInv, Told, Frame
    <3>2. \A i \in 1..Len(told) : told[i][1] <= calls'.write
      BY <1>0, <3>1
    <3>3. \A i \in 1..Len(told), j \in 1..Len(writes') : told[i][1] # writes'[j]
      BY <2>3, <3>1 DEF WriteInv, ToldInv
    <3> QED
      BY <2>1, <3>2, <3>3 DEF WriteInv, ToldInv, AnswersAreTrue
  <2> QED
    BY <2>6, <2>7, <2>8, <2>9 DEF WriteInv
<1> QED
  BY <1>1, <1>2

\* What the write's handler finds: the frame in flight is the queue's front.
LEMMA FrontFacts ==
  ASSUME WriteInv, inflight # <<>>, writes # <<>>
  PROVE  /\ Tail(inflight) = <<>> /\ Head(inflight).frame = writes[1]
         /\ writes[1] \in Frame /\ Head(writes) = writes[1] /\ Len(writes) >= 1
         /\ \A i \in 1..Len(wire) : wire[i] < writes[1]
         /\ \A i \in 1..Len(told) : told[i][1] # writes[1]
         /\ writes[1] <= calls.write
<1>1. /\ inflight \in Seq([frame : Frame, can : SUBSET Either]) /\ Len(inflight) <= 1
      /\ writes \in Seq(Frame) /\ inflight[1].frame = writes[1]
  BY DEF WriteInv, FlightInv, FramesInv, OneWriteAtATime
<1>2. Tail(inflight) = <<>> /\ Head(inflight) = inflight[1]
  BY <1>1
<1>3. 1 \in 1..Len(writes) /\ Head(writes) = writes[1] /\ writes[1] \in Frame
      /\ Len(writes) >= 1
  BY <1>1, TailFacts
<1> QED
  BY <1>1, <1>2, <1>3 DEF WriteInv, FramesInv, WireInv, ToldInv

\* The frame in flight reaches the network.
LEMMA WireGrows ==
  ASSUME WriteInv, inflight # <<>>, writes # <<>>,
         wire' = Append(wire, writes[1])
  PROVE  /\ wire' \in Seq(Frame) /\ SentInOrder'
         /\ Len(wire') = Len(wire) + 1 /\ wire'[Len(wire) + 1] = writes[1]
         /\ \A k \in 1..Len(wire') :
              \/ k \in 1..Len(wire) /\ wire'[k] = wire[k]
              \/ k = Len(wire) + 1 /\ wire'[k] = writes[1]
<1>1. wire \in Seq(Frame) /\ writes[1] \in Frame /\ Len(wire) \in Nat
  BY FrontFacts DEF WriteInv, WireInv
<1>2. /\ wire' \in Seq(Frame) /\ Len(wire') = Len(wire) + 1
      /\ \A i \in 1..Len(wire) : wire'[i] = wire[i]
      /\ wire'[Len(wire) + 1] = writes[1]
  BY <1>1, AppendFacts
<1>3. \A k \in 1..Len(wire') :
        \/ k \in 1..Len(wire) /\ wire'[k] = wire[k]
        \/ k = Len(wire) + 1 /\ wire'[k] = writes[1]
  BY <1>1, <1>2
<1>4. SentInOrder'
  <2>1. Ascending(wire)
    BY DEF WriteInv, WireInv, SentInOrder, Ascending
  <2>2. Ascending(wire')
    BY <1>1, <2>1, FrontFacts, AscendingAppend
  <2> QED
    BY <2>2 DEF SentInOrder, Ascending
<1> QED
  BY <1>2, <1>3, <1>4

\* The rest of the queue.
LEMMA RestFacts ==
  ASSUME WriteInv, writes # <<>>
  PROVE  LET rest == Tail(writes) IN
         /\ rest \in Seq(Frame) /\ Len(rest) = Len(writes) - 1 /\ Ascending(rest)
         /\ \A i \in 1..Len(rest) :
              /\ i + 1 \in 1..Len(writes) /\ rest[i] = writes[i + 1]
              /\ writes[1] < rest[i] /\ rest[i] <= calls.write
<1> DEFINE rest == Tail(writes)
<1>1. /\ writes \in Seq(Frame) /\ Ascending(writes) /\ Len(writes) \in Nat
      /\ \A i \in 1..Len(writes) : writes[i] <= calls.write
  BY DEF WriteInv, FramesInv
<1>2. /\ rest \in Seq(Frame) /\ Len(rest) = Len(writes) - 1 /\ Len(writes) >= 1
      /\ \A i \in 1..Len(rest) : rest[i] = writes[i + 1]
  BY <1>1, TailFacts
<1> HIDE DEF rest
<1>3. \A i \in 1..Len(rest) : i + 1 \in 1..Len(writes) /\ i + 1 > 1 /\ i \in Nat
  BY <1>1, <1>2
<1>4. \A i \in 1..Len(rest) : writes[1] < rest[i] /\ rest[i] <= calls.write
  BY <1>1, <1>2, <1>3 DEF Ascending
<1>5. Ascending(rest)
  BY <1>1, <1>2, <1>3 DEF Ascending
<1> QED
  BY <1>2, <1>3, <1>4, <1>5 DEF rest

\* The write's handler, after a success.
LEMMA WrittenKept ==
  ASSUME WriteInv, inflight # <<>>, writes # <<>>, UNCHANGED calls,
         wire' = Append(wire, Head(inflight).frame),
         told' = Append(told, <<Head(writes), "ok">>),
         start_write(Tail(writes), Tail(inflight))
  PROVE  WriteInv'
<1> DEFINE rest == Tail(writes)
           front == writes[1]
           more == <<<<front, "ok">>>>
<1>1. /\ Tail(inflight) = <<>> /\ Head(inflight).frame = front
      /\ front \in Frame /\ Head(writes) = front /\ front <= calls.write
      /\ \A i \in 1..Len(wire) : wire[i] < front
      /\ \A i \in 1..Len(told) : told[i][1] # front
  BY FrontFacts
<1>2. /\ rest \in Seq(Frame) /\ Len(rest) = Len(writes) - 1 /\ Ascending(rest)
      /\ \A i \in 1..Len(rest) :
           /\ i + 1 \in 1..Len(writes) /\ rest[i] = writes[i + 1]
           /\ front < rest[i] /\ rest[i] <= calls.write
  BY RestFacts
<1>3. writes' = rest /\ calls' = calls /\ calls.write \in Nat
  BY DEF start_write, WriteInv, FramesInv
<1>4. more \in Seq(Told) /\ Len(more) = 1 /\ more[1] = <<front, "ok">>
  BY <1>1 DEF Told
<1>5. told' = told \o more /\ told \in Seq(Told)
  <2>1. told' = Append(told, <<front, "ok">>) /\ told \in Seq(Told)
    BY <1>1 DEF WriteInv, ToldInv
  <2>2. <<front, "ok">> \in Told
    BY <1>1 DEF Told
  <2> QED
    BY <2>1, <2>2, AppendIsConcat
<1>6. wire' = Append(wire, front)
  BY <1>1
<1>7. /\ wire' \in Seq(Frame) /\ SentInOrder'
      /\ Len(wire') = Len(wire) + 1 /\ wire'[Len(wire) + 1] = front
      /\ \A k \in 1..Len(wire') :
           \/ k \in 1..Len(wire) /\ wire'[k] = wire[k]
           \/ k = Len(wire) + 1 /\ wire'[k] = front
  BY <1>6, WireGrows
<1>8. FlightInv'
  BY <1>1, <1>2, FlightKept
<1> HIDE DEF rest, front, more
<1>9. FramesInv'
  <2>1. Ascending(writes)'
    BY <1>2, <1>3 DEF Ascending
  <2> QED
    BY <1>2, <1>3, <2>1 DEF FramesInv
<1>10. WireInv'
  <2>1. \A k \in 1..Len(wire) : wire[k] \in Nat /\ wire[k] <= calls.write
    BY DEF WriteInv, WireInv, Frame
  <2>2. \A k \in 1..Len(wire') : wire'[k] \in Nat /\ wire'[k] <= front /\ wire'[k] <= calls'.write
    BY <1>1, <1>3, <1>7, <2>1 DEF Frame
  <2>3. \A i \in 1..Len(rest) : rest[i] \in Nat
    BY <1>2 DEF Frame
  <2>4. \A k \in 1..Len(wire'), i \in 1..Len(rest) : wire'[k] < rest[i]
    <3> SUFFICES ASSUME NEW k \in 1..Len(wire'), NEW i \in 1..Len(rest)
                 PROVE  wire'[k] < rest[i]
      OBVIOUS
    <3>1. wire'[k] \in Nat /\ wire'[k] <= front /\ front \in Nat
      BY <1>1, <2>2 DEF Frame
    <3>2. rest[i] \in Nat /\ front < rest[i]
      BY <1>2, <2>3
    <3> QED
      BY <3>1, <3>2
  <2> QED
    BY <1>3, <1>7, <2>2, <2>4 DEF WireInv
<1>11. ToldInv'
  <2>1. \A i \in 1..Len(more) : i = 1 /\ more[i][1] = front /\ more[i][2] = "ok"
    BY <1>4
  <2>2. Len(wire) \in Nat /\ Len(wire) + 1 \in 1..Len(wire')
    BY <1>7 DEF WriteInv, WireInv
  <2>3. /\ \A i, j \in 1..Len(more) : more[i][1] = more[j][1] => i = j
        /\ \A i \in 1..Len(told), j \in 1..Len(more) : told[i][1] # more[j][1]
        /\ \A j \in 1..Len(more) : more[j][1] <= calls'.write
    BY <1>1, <1>3, <2>1
  <2>4. \A i \in 1..Len(more) :
          /\ more[i][2] = "refused" => \A k \in 1..Len(wire') : wire'[k] # more[i][1]
          /\ more[i][2] = "ok" => \E k \in 1..Len(wire') : wire'[k] = more[i][1]
    BY <1>7, <2>1, <2>2
  <2>5. \A k \in 1..Len(writes') :
          /\ \A i \in 1..Len(told) : told[i][1] # writes'[k]
          /\ \A i \in 1..Len(more) : more[i][1] # writes'[k]
    <3> SUFFICES ASSUME NEW k \in 1..Len(rest)
                 PROVE  /\ \A i \in 1..Len(told) : told[i][1] # rest[k]
                        /\ \A i \in 1..Len(more) : more[i][1] # rest[k]
      BY <1>3
    <3>1. k + 1 \in 1..Len(writes) /\ rest[k] = writes[k + 1] /\ front < rest[k]
      BY <1>2
    <3>2. rest[k] \in Nat /\ front \in Nat
      BY <1>1, <1>2 DEF Frame
    <3>3. front # rest[k]
      BY <3>1, <3>2
    <3>4. \A i \in 1..Len(told) : told[i][1] # writes[k + 1]
      BY <3>1 DEF WriteInv, ToldInv
    <3> QED
      BY <2>1, <3>1, <3>3, <3>4
  <2>6. \A k \in 1..Len(wire') :
          \/ \E i \in 1..Len(told) : told[i][1] = wire'[k]
          \/ \E i \in 1..Len(more) : more[i][1] = wire'[k]
    <3>1. \A k \in 1..Len(wire) : \E i \in 1..Len(told) : told[i][1] = wire[k]
      BY DEF WriteInv, ToldInv
    <3>2. 1 \in 1..Len(more) /\ more[1][1] = front
      BY <1>4
    <3> QED
      BY <1>7, <3>1, <3>2
  <2>7. \A i \in 1..Len(told) :
          /\ told[i][2] = "refused" => \A k \in 1..Len(wire') : wire'[k] # told[i][1]
          /\ told[i][2] = "ok" => \E k \in 1..Len(wire') : wire'[k] = told[i][1]
    <3> SUFFICES ASSUME NEW i \in 1..Len(told)
                 PROVE  /\ told[i][2] = "refused" =>
                             \A k \in 1..Len(wire') : wire'[k] # told[i][1]
                        /\ told[i][2] = "ok" =>
                             \E k \in 1..Len(wire') : wire'[k] = told[i][1]
      OBVIOUS
    <3>1. /\ told[i][2] = "refused" => \A k \in 1..Len(wire) : wire[k] # told[i][1]
          /\ told[i][2] = "ok" => \E k \in 1..Len(wire) : wire[k] = told[i][1]
      BY DEF WriteInv, ToldInv, AnswersAreTrue
    <3>2. \A k \in 1..Len(wire) : k \in 1..Len(wire') /\ wire'[k] = wire[k]
      BY <1>6, <1>7, <2>2, AppendFacts, <1>1 DEF WriteInv, WireInv
    <3> QED
      BY <1>1, <1>7, <3>1, <3>2
  <2>8. ToldInv /\ wire' \in Seq(Frame) /\ writes' \in Seq(Frame) /\ calls'.write \in Nat
        /\ calls.write <= calls'.write
    BY <1>2, <1>3, <1>7 DEF WriteInv
  <2> QED
    BY <1>3, <1>4, <1>5, <2>3, <2>4, <2>5, <2>6, <2>7, <2>8, ToldKept
<1> QED
  BY <1>8, <1>9, <1>10, <1>11 DEF WriteInv

\* The answers after a failure: the front failed, the rest is refused.
LEMMA FailureFacts ==
  ASSUME WriteInv, writes # <<>>
  PROVE  LET more == <<<<Head(writes), "failed">>>> \o Refused(Tail(writes)) IN
         /\ more \in Seq(Told) /\ Len(more) = Len(writes)
         /\ told \o <<<<Head(writes), "failed">>>> \o Refused(Tail(writes)) = told \o more
         /\ \A i \in 1..Len(more) :
              /\ more[i][1] = writes[i]
              /\ more[i][2] = IF i = 1 THEN "failed" ELSE "refused"
<1> DEFINE rest == Tail(writes)
           one == <<<<Head(writes), "failed">>>>
           more == one \o Refused(rest)
<1>1. /\ rest \in Seq(Frame) /\ Len(rest) = Len(writes) - 1 /\ Len(writes) \in Nat
      /\ \A i \in 1..Len(rest) : rest[i] = writes[i + 1]
  BY RestFacts DEF WriteInv, FramesInv
<1>2. Head(writes) = writes[1] /\ writes[1] \in Frame /\ Len(writes) >= 1
  BY TailFacts DEF WriteInv, FramesInv
<1> HIDE DEF rest
<1>3. one \in Seq(Told) /\ Len(one) = 1 /\ one[1] = <<writes[1], "failed">>
  BY <1>2 DEF Told
<1>4. /\ Refused(rest) \in Seq(Told) /\ Len(Refused(rest)) = Len(rest)
      /\ \A i \in 1..Len(rest) : Refused(rest)[i] = <<rest[i], "refused">>
  BY <1>1 DEF Refused, Told
<1>5. told \in Seq(Told)
  BY DEF WriteInv, ToldInv
<1> HIDE DEF one
<1>6. (told \o one) \o Refused(rest) = told \o more
  <2>1. one \in Seq(Told) /\ Refused(rest) \in Seq(Told)
    BY <1>3, <1>4
  <2> QED
    BY <1>5, <2>1, ConcatIsAssociative
<1>7. /\ more \in Seq(Told) /\ Len(more) = 1 + Len(rest)
      /\ more[1] = <<writes[1], "failed">>
      /\ \A i \in 1..Len(rest) : more[1 + i] = <<rest[i], "refused">>
  <2>1. /\ more \in Seq(Told) /\ Len(more) = Len(one) + Len(Refused(rest))
        /\ \A i \in 1..Len(one) : more[i] = one[i]
        /\ \A i \in 1..Len(Refused(rest)) : more[Len(one) + i] = Refused(rest)[i]
    <3>1. one \in Seq(Told) /\ Refused(rest) \in Seq(Told)
      BY <1>3, <1>4
    <3> QED
      BY <3>1, ConcatFacts
  <2> HIDE DEF more
  <2>2. Len(more) = 1 + Len(rest)
    BY <1>3, <1>4, <2>1
  <2>3. more[1] = one[1]
    BY <1>3, <2>1
  <2>4. ASSUME NEW i \in 1..Len(rest)
        PROVE  more[1 + i] = <<rest[i], "refused">>
    <3>1. more[1 + i] = Refused(rest)[i]
      BY <1>3, <1>4, <2>1
    <3> QED
      BY <1>4, <3>1
  <2> QED
    BY <1>3, <2>1, <2>2, <2>3, <2>4
<1> HIDE DEF more
<1>8. ASSUME NEW i \in 1..Len(more)
      PROVE  /\ more[i][1] = writes[i]
             /\ more[i][2] = IF i = 1 THEN "failed" ELSE "refused"
  <2>1. CASE i = 1
    BY <1>7, <2>1
  <2>2. CASE i # 1
    <3>1. i - 1 \in 1..Len(rest) /\ 1 + (i - 1) = i /\ (i - 1) + 1 = i
      BY <1>1, <1>7, <2>2
    <3>2. more[i] = <<rest[i - 1], "refused">> /\ rest[i - 1] = writes[i]
      BY <1>1, <1>7, <3>1
    <3> QED
      BY <2>2, <3>2
  <2> QED
    BY <2>1, <2>2
<1>9. Len(more) = Len(writes)
  BY <1>1, <1>2, <1>7
<1> QED
  BY <1>6, <1>7, <1>8, <1>9 DEF more, one, rest

\* The write's handler, after a failure: the frame may have been sent.
LEMMA ErrorKept ==
  ASSUME WriteInv, inflight # <<>>, writes # <<>>, UNCHANGED calls, OnWriteError,
         wire' = wire \/ wire' = Append(wire, Head(inflight).frame)
  PROVE  WriteInv'
<1> DEFINE front == writes[1]
           more == <<<<Head(writes), "failed">>>> \o Refused(Tail(writes))
<1>1. /\ Tail(inflight) = <<>> /\ Head(inflight).frame = front
      /\ front \in Frame /\ front <= calls.write
      /\ \A i \in 1..Len(wire) : wire[i] < front
      /\ \A i \in 1..Len(told) : told[i][1] # front
  BY FrontFacts
<1>2. /\ more \in Seq(Told) /\ Len(more) = Len(writes) /\ Len(writes) \in Nat \ {0}
      /\ told' = told \o more
      /\ \A i \in 1..Len(more) :
           /\ more[i][1] = writes[i]
           /\ more[i][2] = IF i = 1 THEN "failed" ELSE "refused"
  <2>1. told' = told \o <<<<Head(writes), "failed">>>> \o Refused(Tail(writes))
    BY DEF OnWriteError
  <2>2. Len(writes) \in Nat \ {0}
    BY DEF WriteInv, FramesInv
  <2>3. /\ more \in Seq(Told) /\ Len(more) = Len(writes)
        /\ told \o <<<<Head(writes), "failed">>>> \o Refused(Tail(writes)) = told \o more
        /\ \A i \in 1..Len(more) :
             /\ more[i][1] = writes[i]
             /\ more[i][2] = IF i = 1 THEN "failed" ELSE "refused"
    BY FailureFacts, Zenon
  <2> HIDE DEF more
  <2> QED
    BY <2>1, <2>2, <2>3
<1>3. /\ writes' = <<>> /\ inflight' = <<>> /\ calls' = calls /\ calls.write \in Nat
      /\ wire' = wire \/ wire' = Append(wire, front)
  BY <1>1 DEF OnWriteError, WriteInv, FramesInv
<1> HIDE DEF more
<1>4. /\ wire' \in Seq(Frame) /\ SentInOrder'
      /\ \A k \in 1..Len(wire') :
           \/ k \in 1..Len(wire) /\ wire'[k] = wire[k]
           \/ wire'[k] = front
      /\ \A k \in 1..Len(wire) : k \in 1..Len(wire') /\ wire'[k] = wire[k]
  <2>0. wire \in Seq(Frame) /\ Len(wire) \in Nat
    BY DEF WriteInv, WireInv
  <2>1. CASE wire' = wire
    BY <2>0, <2>1 DEF WriteInv, WireInv, SentInOrder
  <2>2. CASE wire' = Append(wire, front)
    <3>1. \A k \in 1..Len(wire) : k \in 1..Len(wire') /\ wire'[k] = wire[k]
      BY <1>1, <2>0, <2>2, AppendFacts
    <3> QED
      BY <2>2, <3>1, WireGrows
  <2> QED
    BY <1>3, <2>1, <2>2
<1>5. FramesInv' /\ FlightInv'
  BY <1>3 DEF FramesInv, FlightInv, OneWriteAtATime, Ascending
<1>6. WireInv'
  <2>1. \A k \in 1..Len(wire) : wire[k] <= calls.write
    BY DEF WriteInv, WireInv
  <2>2. \A k \in 1..Len(wire') : wire'[k] <= calls'.write
    BY <1>1, <1>3, <1>4, <2>1
  <2> QED
    BY <1>3, <1>4, <2>2 DEF WireInv
<1>7. ToldInv'
  <2>0. /\ writes \in Seq(Frame) /\ Ascending(writes)
        /\ \A i \in 1..Len(writes) : writes[i] \in Nat /\ writes[i] <= calls.write
    BY DEF WriteInv, FramesInv, Frame
  <2>1. \A i, j \in 1..Len(writes) : writes[i] = writes[j] => i = j
    <3> SUFFICES ASSUME NEW i \in 1..Len(writes), NEW j \in 1..Len(writes), i # j
                 PROVE  writes[i] # writes[j]
      OBVIOUS
    <3>1. CASE i < j
      BY <2>0, <3>1 DEF Ascending
    <3>2. CASE j < i
      BY <2>0, <3>2 DEF Ascending
    <3> QED
      BY <1>2, <3>1, <3>2
  <2>2. \A i \in 1..Len(told), j \in 1..Len(writes) : told[i][1] # writes[j]
    BY DEF WriteInv, ToldInv
  <2>3. /\ \A i, j \in 1..Len(more) : more[i][1] = more[j][1] => i = j
        /\ \A i \in 1..Len(told), j \in 1..Len(more) : told[i][1] # more[j][1]
        /\ \A j \in 1..Len(more) : more[j][1] <= calls'.write
    <3>1. \A i \in 1..Len(more) : i \in 1..Len(writes) /\ more[i][1] = writes[i]
      BY <1>2
    <3> QED
      BY <1>3, <2>0, <2>1, <2>2, <3>1
  <2>4. \A i \in 1..Len(more) :
          /\ more[i][2] = "refused" => \A k \in 1..Len(wire') : wire'[k] # more[i][1]
          /\ more[i][2] # "ok"
    <3> SUFFICES ASSUME NEW i \in 1..Len(more), i # 1, NEW k \in 1..Len(wire')
                 PROVE  wire'[k] # writes[i]
      BY <1>2
    <3>1. wire[k] < writes[i] \/ k \notin 1..Len(wire)
      BY <1>2 DEF WriteInv, WireInv
    <3>2. writes[i] # front
      BY <1>2, <2>1
    <3>3. k \in 1..Len(wire) => wire[k] \in Nat
      BY DEF WriteInv, WireInv, Frame
    <3> QED
      BY <1>2, <1>4, <2>0, <3>1, <3>2, <3>3
  <2>5. \A k \in 1..Len(writes') :
          /\ \A i \in 1..Len(told) : told[i][1] # writes'[k]
          /\ \A i \in 1..Len(more) : more[i][1] # writes'[k]
    BY <1>3
  <2>6. \A k \in 1..Len(wire') :
          \/ \E i \in 1..Len(told) : told[i][1] = wire'[k]
          \/ \E i \in 1..Len(more) : more[i][1] = wire'[k]
    <3>1. 1 \in 1..Len(more) /\ more[1][1] = front
      BY <1>2
    <3>2. \A k \in 1..Len(wire) : \E i \in 1..Len(told) : told[i][1] = wire[k]
      BY DEF WriteInv, ToldInv
    <3> QED
      BY <1>4, <3>1, <3>2
  <2>7. \A i \in 1..Len(told) :
          /\ told[i][2] = "refused" => \A k \in 1..Len(wire') : wire'[k] # told[i][1]
          /\ told[i][2] = "ok" => \E k \in 1..Len(wire') : wire'[k] = told[i][1]
    <3> SUFFICES ASSUME NEW i \in 1..Len(told)
                 PROVE  /\ told[i][2] = "refused" =>
                             \A k \in 1..Len(wire') : wire'[k] # told[i][1]
                        /\ told[i][2] = "ok" =>
                             \E k \in 1..Len(wire') : wire'[k] = told[i][1]
      OBVIOUS
    <3>1. /\ told[i][2] = "refused" => \A k \in 1..Len(wire) : wire[k] # told[i][1]
          /\ told[i][2] = "ok" => \E k \in 1..Len(wire) : wire[k] = told[i][1]
      BY DEF WriteInv, ToldInv, AnswersAreTrue
    <3> QED
      BY <1>1, <1>4, <3>1
  <2>8. /\ ToldInv /\ wire' \in Seq(Frame) /\ writes' \in Seq(Frame)
        /\ calls'.write \in Nat /\ calls.write <= calls'.write
    BY <1>3, <1>4 DEF WriteInv
  <2> QED
    BY <1>2, <1>3, <2>3, <2>4, <2>5, <2>6, <2>7, <2>8, ToldKept
<1> QED
  BY <1>5, <1>6, <1>7 DEF WriteInv

-----------------------------------------------------------------------------
\* The calls made, and the answer to the opening: it comes when no operation
\* of the opening is under way any more.
Results == {"ok", "failed", "cancelled", "deadline_exceeded", "invalid"}

CallsType ==
  [opened : Nat, answered : Seq(Results), read : Nat, write : Nat, close : Nat]

OpenInv ==
  /\ calls \in CallsType
  /\ calls.opened = 0 => op = Idle /\ calls.answered = <<>>
  /\ op # Idle => calls.answered = <<>>
  /\ Len(calls.answered) <= 1

\* The stages of an opening answer when they end.
LEMMA FinishKept ==
  ASSUME OpenInv, op # Idle, NEW result \in Results, finish_open(result)
  PROVE  OpenInv'
<1> DEFINE answered == Append(calls.answered, result)
<1>1. calls' = [calls EXCEPT !.answered = answered] /\ op' = Idle
  BY DEF finish_open
<1>2. answered \in Seq(Results) /\ Len(answered) = 1
  <2>1. calls.answered = <<>>
    BY DEF OpenInv
  <2> QED
    BY <2>1
<1>3. calls.opened # 0
  BY DEF OpenInv
<1> HIDE DEF answered
<1>4. calls' \in CallsType /\ calls'.opened = calls.opened /\ calls'.answered = answered
  BY <1>1, <1>2 DEF OpenInv, CallsType
<1>5. (Len(calls.answered) <= 1)'
  <2>1. Len(calls'.answered) = Len(answered)
    BY <1>4
  <2> QED
    BY <1>2, <2>1
<1>6. (calls.opened = 0 => op = Idle /\ calls.answered = <<>>)'
  BY <1>3, <1>4
<1>7. (op # Idle => calls.answered = <<>>)'
  BY <1>1
<1> QED
  BY <1>4, <1>5, <1>6, <1>7 DEF OpenInv

LEMMA FailKept ==
  ASSUME OpenInv, op # Idle, NEW outcome, fail_open(outcome)
  PROVE  OpenInv'
<1> DEFINE result == IF "cancelled" \in chan.seen \/ stopped THEN "cancelled"
                     ELSE IF "deadline" \in chan.seen \/ outcome = "timeout"
                     THEN "deadline_exceeded" ELSE "failed"
<1>1. finish_open(result)
  BY DEF fail_open
<1>2. result \in Results
  BY DEF Results
<1> HIDE DEF result
<1> QED
  BY <1>1, <1>2, FinishKept

\* An opening is answered at most once, however its deadline, its stop and the
\* stages interleave (websocket.cpp:152-234).
THEOREM OpensOnce == Spec => []OpenInv
<1>1. Init => OpenInv
  BY DEF Init, OpenInv, CallsType
<1>2. OpenInv /\ [Next]_vars => OpenInv'
  <2> SUFFICES ASSUME OpenInv, [Next]_vars
               PROVE  OpenInv'
    OBVIOUS
  <2>1. CASE Open
    <3>1. CASE calls.opened = 1
      <4>1. calls' \in CallsType /\ calls'.opened = 2 /\ calls'.answered = calls.answered
            /\ op' = op
        BY <2>1, <3>1 DEF Open, OpenInv, CallsType
      <4> QED
        BY <4>1 DEF OpenInv
    <3>2. CASE calls.opened # 1
      <4>0. calls.opened = 0
        BY <2>1, <3>2 DEF Open, OpenInv, CallsType
      <4>1. PICK r \in {"cancelled", "deadline_exceeded", "invalid", "none"} :
              /\ calls' = [calls EXCEPT !.opened = 1,
                             !.answered = IF r = "none" THEN @ ELSE <<r>>]
              /\ r # "none" => UNCHANGED op
        BY <2>1, <3>2 DEF Open
      <4>2. op = Idle /\ calls.answered = <<>>
        BY <4>0 DEF OpenInv
      <4>3. CASE r = "none"
        <5>1. calls' \in CallsType /\ calls'.opened = 1 /\ calls'.answered = <<>>
          BY <4>1, <4>2, <4>3 DEF OpenInv, CallsType
        <5> QED
          BY <5>1 DEF OpenInv
      <4>4. CASE r # "none"
        <5>1. <<r>> \in Seq(Results) /\ Len(<<r>>) = 1
          BY <4>4 DEF Results
        <5>2. calls' = [calls EXCEPT !.opened = 1, !.answered = <<r>>]
          BY <4>1, <4>4
        <5>3. calls' \in CallsType /\ calls'.opened = 1 /\ calls'.answered = <<r>>
          BY <5>1, <5>2 DEF OpenInv, CallsType
        <5> QED
          BY <4>1, <4>2, <4>4, <5>1, <5>3 DEF OpenInv
      <4> QED
        BY <4>3, <4>4
    <3> QED
      BY <3>1, <3>2
  <2>2. CASE OnOpening
    <3>1. CASE UNCHANGED calls
      BY <2>2, <3>1 DEF OnOpening, OpenInv
    <3>2. ASSUME NEW result \in {"ok", "failed"}, finish_open(result)
          PROVE  OpenInv'
      BY <2>2, <3>2, FinishKept DEF OnOpening, Results
    <3>3. ASSUME fail_open("failed")
          PROVE  OpenInv'
      BY <2>2, <3>3, FailKept DEF OnOpening
    <3> QED
      BY <2>2, <3>1, <3>2, <3>3 DEF OnOpening
  <2>3. CASE OnStreamTimeout
    <3>1. op # Idle
      BY <2>3 DEF OnStreamTimeout, Idle
    <3> QED
      BY <2>3, <3>1, FinishKept, FailKept DEF OnStreamTimeout, Results
  <2>4. CASE Read \/ Write \/ Close
    <3>1. op' = op /\ calls' \in CallsType /\ calls'.opened = calls.opened
          /\ calls'.answered = calls.answered
      BY <2>4 DEF Read, Write, Close, OpenInv, CallsType
    <3> QED
      BY <3>1 DEF OpenInv
  <2>5. CASE \/ OnDeadline \/ OnStop \/ OnRead \/ OnWritten \/ OnClosed \/ Cancel
            \/ RequestStop \/ DeadlinePasses \/ UNCHANGED vars
    BY <2>5 DEF OnDeadline, OnStop, OnRead, OnWritten, OnClosed, Cancel, RequestStop,
       DeadlinePasses, vars, OpenInv
  <2> QED
    BY <2>1, <2>2, <2>3, <2>4, <2>5 DEF Next
<1> QED
  BY <1>1, <1>2, PTL DEF Spec

\* The invariant of the queue holds always, whatever closes the channel.
THEOREM WritesSafe == Spec => []WriteInv
<1>1. Init => WriteInv
  BY DEF Init, WriteInv, FramesInv, FlightInv, WireInv, ToldInv, Ascending,
         OneWriteAtATime, SentInOrder, AnswersAreTrue
<1>2. OpenInv /\ WriteInv /\ [Next]_vars => WriteInv'
  <2> SUFFICES ASSUME OpenInv, WriteInv, [Next]_vars
               PROVE  WriteInv'
    OBVIOUS
  <2>1. CASE Write
    <3>1. calls'.write = calls.write + 1 /\ UNCHANGED wire
      BY <2>1 DEF Write
    <3> QED
      BY <2>1, <3>1, QueueKept, RefuseKept DEF Write
  <2>2. CASE OnWritten
    BY <2>2, WrittenKept, ErrorKept DEF OnWritten
  <2>3. CASE \/ OnDeadline \/ OnStop \/ OnRead \/ OnClosed \/ Cancel
            \/ RequestStop \/ DeadlinePasses \/ UNCHANGED vars
    BY <2>3, OtherKept DEF OnDeadline, OnStop, OnRead, OnClosed, Cancel, RequestStop,
       DeadlinePasses, vars, writeVars
  <2>4. CASE Open \/ OnOpening \/ OnStreamTimeout \/ Read \/ Close
    <3>1. UNCHANGED <<writes, inflight, wire, told>>
      BY <2>4 DEF Open, OnOpening, OnStreamTimeout, Read, Close
    <3>2. calls'.write = calls.write
      BY <2>4 DEF Open, OnOpening, OnStreamTimeout, Read, Close, finish_open, fail_open,
         OpenInv, CallsType
    <3> QED
      BY <3>1, <3>2, OtherKept DEF writeVars
  <2> QED
    BY <2>1, <2>2, <2>3, <2>4 DEF Next
<1> QED
  BY <1>1, <1>2, OpensOnce, PTL DEF Spec

\* The stream is given one frame at a time, the front of the queue, and the
\* write's handler never finds the queue empty (websocket.cpp:331-347).
THEOREM WritesOneAtATime == Spec => []OneWriteAtATime
<1>1. WriteInv => OneWriteAtATime
  BY DEF WriteInv, FlightInv
<1> QED
  BY <1>1, WritesSafe, PTL

\* For any number of frames, the network sees them in the order they were
\* given and none twice (websocket.cpp:335-364).
THEOREM SendsInOrder == Spec => []SentInOrder
<1>1. WriteInv => SentInOrder
  BY DEF WriteInv, WireInv
<1> QED
  BY <1>1, WritesSafe, PTL

\* Every answer to a write is the only one and true (websocket.cpp:321-347,
\* 431-437).
THEOREM AnswersTruly == Spec => []AnswersAreTrue
<1>1. WriteInv => AnswersAreTrue
  BY DEF WriteInv, ToldInv
<1> QED
  BY <1>1, WritesSafe, PTL
=============================================================================
