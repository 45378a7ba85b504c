---------------------- MODULE DurableOrderSessionProofs ---------------------
(***************************************************************************)
(* Proofs about DurableOrderSession, for any set of hashes and any bounds: *)
(* a create is sent at most once and only for an order that every          *)
(* surviving journal holds, and the session implements SubmitOnce.         *)
(***************************************************************************)
EXTENDS DurableOrderSession, PersistentOrderTrackerProofs

\* An operation in flight belongs to a running session that tracks its order,
\* a create that waits was never sent, and what was sent stays tracked.
SubmitInv ==
  \A h \in Hashes :
    /\ create[h] # "none" => up /\ tracker[h] # NoOrder
    /\ create[h] = "waiting" => posts[h] = 0
    /\ posts[h] > 0 => tracker[h] # NoOrder
    /\ posts[h] <= 1

\* A reconciliation in flight belongs to a running session.
FetchInv == rec.phase # "idle" => up

SessionInv == TrackerInv /\ SessionShape /\ SubmitInv /\ FetchInv

-----------------------------------------------------------------------------
LEMMA SessionInitInv == Init => SessionInv
<1> SUFFICES ASSUME Init PROVE SessionInv
  OBVIOUS
<1>1. TrackerInv
  BY InitInv DEF Init
<1>2. SessionShape
  BY SessionAssumption
     DEF Init, SessionShape, Idle, EmptyTable, Results, VenueStates
<1>3. SubmitInv
  <2>1. \A h \in Hashes : create[h] = "none" /\ posts[h] = 0
    BY DEF Init
  <2> SUFFICES ASSUME NEW h \in Hashes
               PROVE  create[h] = "none" /\ ~(posts[h] > 0) /\ posts[h] <= 1
    BY <2>1 DEF SubmitInv
  <2> QED BY <2>1
<1>4. FetchInv
  BY DEF Init, Idle, FetchInv
<1> QED BY <1>1, <1>2, <1>3, <1>4 DEF SessionInv

\* What an append and publish, successful or not, does to the tracked orders.
LEMMA JournalOneKeeps ==
  ASSUME TrackerInv, up, NEW h \in Hashes, NEW o, Fits(o), JournalOne(h, o)
  PROVE  /\ up' = up
         /\ \A k \in Hashes : tracker[k] # NoOrder => tracker'[k] # NoOrder
         /\ \A k \in Hashes \ {h} : tracker'[k] = tracker[k]
<1>1. tracker' = tracker \/ tracker' = [tracker EXCEPT ![h] = o]
  BY DEF JournalOne, Journal, Persist, PersistFails
<1>2. o # NoOrder
  BY NoOrderAssumption DEF Fits
<1> QED BY <1>1, <1>2
    DEF JournalOne, Journal, Persist, PersistFails, TrackerInv, FitTable, Tables

LEMMA JournalAllKeeps ==
  ASSUME NEW next, Tracked(next) = Tracked(tracker),
         Journal(next, Tracked(tracker))
  PROVE  up' = up /\ Tracked(tracker') = Tracked(tracker)
BY DEF Journal, Persist, PersistFails, Tracked

\* Opening never forgets a tracked order.
LEMMA OpenKeeps ==
  ASSUME TrackerInv,
         Create \/ CreateFails \/ Open \/ OpenAppendFails \/ OpenCorrupt
  PROVE  /\ ~up
         /\ \A h \in Hashes : tracker[h] # NoOrder => tracker'[h] # NoOrder
<1>1. CASE CreateFails \/ OpenAppendFails \/ OpenCorrupt
  BY <1>1 DEF CreateFails, OpenAppendFails, OpenCorrupt
<1>2. ASSUME NEW h \in Hashes, tracker[h] # NoOrder
      PROVE  Current.orders[h] # NoOrder
  BY <1>2, CurrentFacts, NoOrderAssumption DEF TrackerInv
<1>3. CASE Create
  <2>1. Current.orders = EmptyTable
    BY <1>3, CurrentFacts DEF Create, TrackerInv, Framed, Current
  <2> QED BY <1>2, <1>3, <2>1 DEF EmptyTable, Create
<1>4. CASE Open
  <2> DEFINE f == Repaired(Current)
             t == RequireReconciliation(f.orders)
  <2>1. ~up /\ Replays(Current) /\ tracker' = t
    BY <1>4 DEF Open
  <2>2. f.orders = Current.orders /\ Tracked(t) = Tracked(f.orders)
    BY <2>1, OpenFacts
  <2> HIDE DEF t, f
  <2> QED BY <1>2, <2>1, <2>2 DEF Tracked
<1> QED BY <1>1, <1>3, <1>4

-----------------------------------------------------------------------------
(* Every step keeps the invariant. *)

\* A step that sends nothing, starts nothing and forgets nothing.
LEMMA QuietStep ==
  ASSUME SubmitInv, posts' = posts,
         \A h \in Hashes : tracker[h] # NoOrder => tracker'[h] # NoOrder,
         \A h \in Hashes : create'[h] \in {"none", create[h]} \cup Results,
         \A h \in Hashes : create'[h] # "none" => up' /\ create[h] # "none"
  PROVE  SubmitInv'
BY DEF SubmitInv, Results, CreateOutcomes

LEMMA SubmitStep ==
  ASSUME "torn_append" \notin Faults, SessionInv, NEW h \in Hashes, Submit(h)
  PROVE  SessionInv'
<1> DEFINE next == [tracker EXCEPT ![h] = NewSubmission]
<1>1. /\ up /\ tracker[h] = NoOrder /\ JournalOne(h, NewSubmission)
      /\ UNCHANGED <<rec, inbox, wire, http, venue, posts>>
      /\ \/ tracker' = next /\ create' = [create EXCEPT ![h] = "waiting"]
         \/ UNCHANGED <<tracker, create>>
  BY DEF Submit, JournalOne, Journal, Persist, PersistFails, worldVars
<1>2. TrackerInv' /\ up'
  BY <1>1, NewSubmissionFits, JournalOneInv, JournalOneKeeps DEF SessionInv
<1>3. SessionShape'
  BY <1>1 DEF SessionInv, SessionShape, Results
<1>4. tracker[h] # NoOrder \/ posts[h] = 0
  BY DEF SessionInv, SubmitInv, SessionShape
<1>5. next[h] # NoOrder /\ \A k \in Hashes \ {h} : next[k] = tracker[k]
  BY NewSubmissionFits, NoOrderAssumption
     DEF Fits, SessionInv, TrackerInv, FitTable, Tables
<1> HIDE DEF next
<1>6. SubmitInv'
  <2>1. CASE UNCHANGED <<tracker, create>>
    BY <1>1, <1>2, <2>1 DEF SessionInv, SubmitInv
  <2>2. CASE tracker' = next /\ create' = [create EXCEPT ![h] = "waiting"]
    BY <1>1, <1>2, <1>4, <1>5, <2>2 DEF SessionInv, SubmitInv, SessionShape
  <2> QED BY <1>1, <2>1, <2>2
<1> QED BY <1>1, <1>2, <1>3, <1>6 DEF SessionInv, FetchInv

LEMMA DispatchStep ==
  ASSUME SessionInv, NEW h \in Hashes, Dispatch(h)
  PROVE  SessionInv'
<1>1. TrackerInv'
  BY DEF Dispatch, trackerVars, SessionInv, TrackerInv, PublishedIsDurable,
         Framed, Current
<1>2. SessionShape'
  BY DEF Dispatch, SessionInv, SessionShape
<1>3. /\ posts[h] = 0 /\ up /\ tracker[h] # NoOrder
      /\ up' = up /\ tracker' = tracker
      /\ create' = [create EXCEPT ![h] = "sent"]
      /\ posts' = [posts EXCEPT ![h] = posts[h] + 1]
  BY DEF Dispatch, SessionInv, SubmitInv, trackerVars
<1>4. SubmitInv'
  BY <1>3 DEF SessionInv, SubmitInv, SessionShape
<1> QED BY <1>1, <1>2, <1>3, <1>4 DEF SessionInv, FetchInv, Dispatch

\* Steps that leave the tracker alone.
LEMMA OutsideStep ==
  ASSUME SessionInv, UNCHANGED <<trackerVars, posts>>, SessionShape',
         \A h \in Hashes : create'[h] \in {"none", create[h]} \cup Results,
         \A h \in Hashes : create'[h] # "none" => create[h] # "none",
         rec'.phase # "idle" => rec.phase # "idle"
  PROVE  SessionInv'
<1>1. TrackerInv'
  BY DEF trackerVars, SessionInv, TrackerInv, PublishedIsDurable, Framed, Current
<1>2. \A h \in Hashes : create'[h] # "none" => up'
  BY DEF SessionInv, SubmitInv, trackerVars
<1>3. SubmitInv'
  BY <1>2, QuietStep DEF SessionInv, trackerVars
<1> QED BY <1>1, <1>3 DEF SessionInv, FetchInv, trackerVars

LEMMA OnResultJournals ==
  ASSUME SessionInv, NEW h \in Hashes, OnResult(h)
  PROVE  /\ up
         /\ UNCHANGED trackerVars \/ \E o : Fits(o) /\ JournalOne(h, o)
<1>1. create[h] # "none"
  BY DEF OnResult, Results, CreateOutcomes
<1>2. up /\ Fits(tracker[h])
  BY <1>1, TrackedFits DEF SessionInv, SubmitInv
<1>3. Fits(MarkSubmissionRejected(tracker[h]))
  BY <1>2, SubmissionRejectedFits
<1>4. Fits(ApplyCreateOutcome(tracker[h], create[h]))
  BY <1>2, CreateOutcomeFits
<1> QED BY <1>2, <1>3, <1>4 DEF OnResult

LEMMA OnResultStep ==
  ASSUME "torn_append" \notin Faults, SessionInv, NEW h \in Hashes, OnResult(h)
  PROVE  SessionInv'
<1>1. /\ create[h] \in Results /\ create[h] # "none"
      /\ create' = [create EXCEPT ![h] = "none"]
      /\ UNCHANGED <<rec, inbox, wire, http, venue, posts>>
  BY DEF OnResult, worldVars, Results, CreateOutcomes
<1>2. SessionShape'
  BY <1>1 DEF SessionInv, SessionShape
<1>3. /\ \A k \in Hashes : create'[k] \in {"none", create[k]} \cup Results
      /\ \A k \in Hashes : create'[k] # "none" => create[k] # "none"
  BY <1>1 DEF SessionInv, SessionShape
<1>4. CASE UNCHANGED trackerVars
  BY <1>1, <1>2, <1>3, <1>4, OutsideStep
<1>5. CASE \E o : Fits(o) /\ JournalOne(h, o)
  <2>1. PICK o : Fits(o) /\ JournalOne(h, o)
    BY <1>5
  <2>2. TrackerInv /\ up
    BY OnResultJournals DEF SessionInv
  <2>3. TrackerInv'
    BY <2>1, <2>2, JournalOneInv
  <2>4. /\ up' = up
        /\ \A k \in Hashes : tracker[k] # NoOrder => tracker'[k] # NoOrder
    BY <2>1, <2>2, JournalOneKeeps
  <2>5. SubmitInv'
    BY <1>1, <1>3, <2>2, <2>4, QuietStep DEF SessionInv
  <2> QED BY <1>1, <1>2, <2>3, <2>4, <2>5 DEF SessionInv, FetchInv
<1> QED BY <1>4, <1>5, OnResultJournals

\* A batch the strand journals: quarantine, or the complete snapshot.
LEMMA BatchStep ==
  ASSUME "torn_append" \notin Faults, SessionInv, up,
         NEW next, FitTable(next), Tracked(next) = Tracked(tracker),
         Journal(next, Tracked(tracker)),
         SessionShape', UNCHANGED <<create, posts>>
  PROVE  SessionInv'
<1>1. TrackerInv'
  BY JournalAllInv DEF SessionInv
<1>2. /\ up' = up
      /\ \A k \in Hashes : tracker[k] # NoOrder => tracker'[k] # NoOrder
  BY JournalAllKeeps DEF Tracked
<1>3. SubmitInv'
  BY <1>2 DEF SessionInv, SubmitInv
<1> QED BY <1>1, <1>2, <1>3 DEF SessionInv, FetchInv

LEMMA StartReconcileStep ==
  ASSUME "torn_append" \notin Faults, SessionInv, StartReconcile
  PROVE  SessionInv'
<1> DEFINE next == RequireReconciliation(tracker)
<1>1. /\ up /\ Journal(next, Tracked(tracker))
      /\ rec' = rec \/ rec' = [Idle EXCEPT !.phase = "requested"]
      /\ UNCHANGED <<create, inbox, wire, http, venue, posts>>
  BY DEF StartReconcile, Journal, worldVars
<1>2. FitTable(next) /\ Tracked(next) = Tracked(tracker)
  BY RequireReconciliationFits DEF SessionInv, TrackerInv
<1> HIDE DEF next
<1>3. [Idle EXCEPT !.phase = "requested"] =
        [phase |-> "requested", pages |-> 0, cursors |-> {},
         orders |-> EmptyTable, cursor |-> NoCursor]
  BY DEF Idle
<1>4. SessionShape'
  <2>1. CASE rec' = rec
    BY <1>1, <2>1 DEF SessionInv, SessionShape
  <2>2. CASE rec' = [Idle EXCEPT !.phase = "requested"]
    <3>1. rec' = [phase |-> "requested", pages |-> 0, cursors |-> {},
                  orders |-> EmptyTable, cursor |-> NoCursor]
      BY <1>3, <2>2
    <3>2. UNCHANGED <<create, inbox, wire, http, venue, posts>>
      BY <1>1
    <3> QED BY <3>1, <3>2 DEF SessionInv, SessionShape, EmptyTable
  <2> QED BY <1>1, <2>1, <2>2
<1> QED BY <1>1, <1>2, <1>4, BatchStep

LEMMA OnLastPageStep ==
  ASSUME "torn_append" \notin Faults, SessionInv, OnLastPage
  PROVE  SessionInv'
<1> DEFINE next == Reconcile(tracker, rec.orders)
<1>1. /\ up /\ Journal(next, Tracked(tracker)) /\ rec' = Idle
      /\ UNCHANGED <<create, inbox, wire, http, venue, posts>>
  BY DEF OnLastPage, worldVars, SessionInv, FetchInv
<1>2. FitTable(next) /\ Tracked(next) = Tracked(tracker)
  BY ReconcileFits DEF SessionInv, TrackerInv, SessionShape
<1> HIDE DEF next
<1>3. SessionShape'
  BY <1>1 DEF SessionInv, SessionShape, Idle, EmptyTable
<1> QED BY <1>1, <1>2, <1>3, BatchStep

\* The create operation in flight: nothing but its phase changes.
LEMMA RequestStep ==
  ASSUME SessionInv, NEW h \in Hashes,
         RefuseUnsent(h) \/ Answered(h) \/ Unanswered(h)
  PROVE  SessionInv'
<1>1. PICK result \in Results : create' = [create EXCEPT ![h] = result]
  BY DEF RefuseUnsent, Answered, Unanswered, Results, CreateOutcomes
<1>2. /\ UNCHANGED <<trackerVars, rec, inbox, wire, venue, posts>>
      /\ http' = http \/ http' = [http EXCEPT ![h] = "none"]
      /\ create[h] # "none"
  BY DEF RefuseUnsent, Answered, Unanswered, worldVars
<1>3. SessionShape'
  BY <1>1, <1>2 DEF SessionInv, SessionShape
<1>4. /\ \A k \in Hashes : create'[k] \in {"none", create[k]} \cup Results
      /\ \A k \in Hashes : create'[k] # "none" => create[k] # "none"
  BY <1>1, <1>2 DEF SessionInv, SessionShape
<1> QED BY <1>2, <1>3, <1>4, OutsideStep

\* The pages of a reconciliation, but for the last one.
LEMMA PageStep ==
  ASSUME SessionInv, ServePage \/ PageFails \/ OnPageContinues
  PROVE  SessionInv'
<1>1. /\ UNCHANGED <<trackerVars, create, inbox, wire, http, venue, posts>>
      /\ rec.phase # "idle"
  BY DEF ServePage, PageFails, OnPageContinues, worldVars
<1>2. Idle \in [phase : {"idle", "requested", "served"}, pages : Nat,
                cursors : SUBSET Cursors,
                orders : [Hashes -> RestReports \cup {NoOrder}],
                cursor : Cursors \cup {NoCursor}]
  BY DEF Idle, EmptyTable
<1>3. rec' \in [phase : {"idle", "requested", "served"}, pages : Nat,
                cursors : SUBSET Cursors,
                orders : [Hashes -> RestReports \cup {NoOrder}],
                cursor : Cursors \cup {NoCursor}]
  <2>1. CASE ServePage
    <3>1. PICK page \in [Hashes -> RestReports \cup {NoOrder}],
               cursor \in Cursors \cup {NoCursor} :
            rec' = [rec EXCEPT !.phase = "served", !.cursor = cursor,
                      !.orders = [h \in Hashes |->
                         IF page[h] # NoOrder THEN page[h] ELSE @[h]]]
      BY <2>1 DEF ServePage
    <3>2. [h \in Hashes |-> IF page[h] # NoOrder THEN page[h]
                            ELSE rec.orders[h]]
            \in [Hashes -> RestReports \cup {NoOrder}]
      BY DEF SessionInv, SessionShape
    <3> QED BY <3>1, <3>2 DEF SessionInv, SessionShape
  <2>2. CASE PageFails
    BY <1>2, <2>2 DEF PageFails
  <2>3. CASE OnPageContinues
    <3>1. rec.cursor \in Cursors /\ rec.pages + 1 \in Nat
      BY <2>3 DEF OnPageContinues, SessionInv, SessionShape
    <3>2. \/ rec' = Idle
          \/ rec' = [rec EXCEPT !.phase = "requested",
                                !.pages = rec.pages + 1,
                                !.cursors = rec.cursors \cup {rec.cursor}]
      BY <2>3 DEF OnPageContinues
    <3>3. CASE rec' = Idle
      BY <1>2, <3>3
    <3>4. CASE rec' = [rec EXCEPT !.phase = "requested",
                                  !.pages = rec.pages + 1,
                                  !.cursors = rec.cursors \cup {rec.cursor}]
      BY <3>1, <3>4 DEF SessionInv, SessionShape
    <3> QED BY <3>2, <3>3, <3>4
  <2> QED BY <2>1, <2>2, <2>3
<1>4. SessionShape'
  BY <1>1, <1>3 DEF SessionInv, SessionShape
<1> QED BY <1>1, <1>4, OutsideStep

LEMMA VenueStep ==
  ASSUME SessionInv, NEW h \in Hashes,
         \/ VenueAccepts(h) \/ VenueRefuses(h) \/ RequestLost(h)
         \/ VenueMoves(h) \/ VenueAnnounces(h)
  PROVE  SessionInv'
<1>1. UNCHANGED <<trackerVars, create, rec, posts>>
  BY DEF VenueAccepts, VenueRefuses, RequestLost, VenueMoves, VenueAnnounces,
         sessionVars
<1>2. ASSUME NEW type, NEW v, Emit(h, type, v)
      PROVE  inbox' \in Seq([hash : Hashes, event : WalletEvents])
  <2> DEFINE e == [type |-> type, fill |-> FillOf(v), sound |-> TRUE]
             m == [hash |-> h, event |-> e]
  <2>1. \/ inbox' = inbox
        \/ e \in WalletEvents /\ inbox' = Append(inbox, m)
    BY <1>2 DEF Emit
  <2>2. e \in WalletEvents => m \in [hash : Hashes, event : WalletEvents]
    OBVIOUS
  <2>3. inbox \in Seq([hash : Hashes, event : WalletEvents])
    BY DEF SessionInv, SessionShape
  <2> HIDE DEF m, e
  <2>4. CASE inbox' = inbox
    BY <2>3, <2>4
  <2>5. CASE e \in WalletEvents /\ inbox' = Append(inbox, m)
    BY <2>2, <2>3, <2>5, AppendProperties
  <2> QED BY <2>1, <2>4, <2>5
<1>3. inbox' \in Seq([hash : Hashes, event : WalletEvents])
  BY <1>2 DEF VenueAccepts, VenueRefuses, RequestLost, VenueMoves,
              VenueAnnounces, SessionInv, SessionShape
<1>4. /\ wire' \in SUBSET Hashes
      /\ http' \in [Hashes -> {"none", "ok", "refused"}]
  BY DEF VenueAccepts, VenueRefuses, RequestLost, VenueMoves,
         VenueAnnounces, SessionInv, SessionShape
<1>5. venue' \in [Hashes -> VenueStates]
  <2>1. Fates \subseteq VenueStates /\ "open" \in VenueStates
    BY SessionAssumption DEF VenueStates, Live, Dead
  <2>2. venue' = venue \/ \E v \in VenueStates : venue' = [venue EXCEPT ![h] = v]
    BY <2>1 DEF VenueAccepts, VenueRefuses, RequestLost, VenueMoves,
                VenueAnnounces
  <2> QED BY <2>2 DEF SessionInv, SessionShape
<1>6. SessionShape'
  BY <1>1, <1>3, <1>4, <1>5 DEF SessionInv, SessionShape
<1> QED BY <1>1, <1>6, OutsideStep DEF SessionInv, SessionShape

\* What the host forwards about one order.
LEMMA ForwardJournals ==
  ASSUME SessionInv, ForwardEvent \/ \E h \in Hashes : ForwardBookRemoved(h)
  PROVE  \/ UNCHANGED trackerVars
         \/ \E h \in Hashes : \E o : Fits(o) /\ JournalOne(h, o)
<1>1. CASE ForwardEvent
  <2>1. /\ Head(inbox).hash \in Hashes
        /\ Head(inbox).event \in WalletEvents
    <3>1. /\ inbox \in Seq([hash : Hashes, event : WalletEvents])
          /\ inbox # << >>
      BY <1>1 DEF ForwardEvent, SessionInv, SessionShape
    <3>2. Head(inbox) \in [hash : Hashes, event : WalletEvents]
      BY <3>1, HeadTailProperties
    <3> QED BY <3>2
  <2>2. ASSUME NEW h \in Hashes, NEW e \in WalletEvents, tracker[h] # NoOrder
        PROVE  Fits(ApplyWalletEvent(tracker[h], e))
    BY <2>2, TrackedFits, WalletEventFits, ReportsAssumption DEF SessionInv
  <2> QED BY <1>1, <2>1, <2>2 DEF ForwardEvent
<1>2. ASSUME NEW h \in Hashes, ForwardBookRemoved(h)
      PROVE  \E o : Fits(o) /\ JournalOne(h, o)
  BY <1>2, TrackedFits, BookRemovedFits
     DEF SessionInv, ForwardBookRemoved, BookRemoved, IsTracked
<1> QED BY <1>1, <1>2

LEMMA ForwardStep ==
  ASSUME "torn_append" \notin Faults, SessionInv,
         ForwardEvent \/ \E h \in Hashes : ForwardBookRemoved(h)
  PROVE  SessionInv'
<1>1. UNCHANGED <<create, rec, wire, http, venue, posts>> /\ up
  BY DEF ForwardEvent, ForwardBookRemoved, BookRemoved, IsTracked, sessionVars,
         worldVars
<1>2. inbox' \in Seq([hash : Hashes, event : WalletEvents])
  <2>1. inbox' = inbox \/ (inbox # << >> /\ inbox' = Tail(inbox))
    BY DEF ForwardEvent, ForwardBookRemoved, worldVars
  <2>2. inbox \in Seq([hash : Hashes, event : WalletEvents])
    BY DEF SessionInv, SessionShape
  <2> QED BY <2>1, <2>2
<1>3. SessionShape'
  BY <1>1, <1>2 DEF SessionInv, SessionShape
<1>4. CASE UNCHANGED trackerVars
  BY <1>1, <1>3, <1>4, OutsideStep DEF SessionInv, SessionShape
<1>5. ASSUME NEW h \in Hashes, NEW o, Fits(o), JournalOne(h, o)
      PROVE  SessionInv'
  <2>1. TrackerInv'
    BY <1>1, <1>5, JournalOneInv DEF SessionInv
  <2>2. /\ up' = up
        /\ \A k \in Hashes : tracker[k] # NoOrder => tracker'[k] # NoOrder
    BY <1>1, <1>5, JournalOneKeeps DEF SessionInv
  <2>3. SubmitInv'
    BY <1>1, <2>2 DEF SessionInv, SubmitInv
  <2> QED BY <1>1, <1>3, <2>1, <2>2, <2>3 DEF SessionInv, FetchInv
<1> QED BY <1>4, <1>5, ForwardJournals

LEMMA OpenSessionStep ==
  ASSUME "torn_append" \notin Faults, SessionInv, OpenSession
  PROVE  SessionInv'
<1>1. UNCHANGED <<create, rec, inbox, wire, http, venue, posts>>
  BY DEF OpenSession, sessionVars, worldVars
<1>2. TrackerInv'
  BY CreateInv, CreateFailsInv, OpenInv, OpenAppendFailsInv, OpenCorruptInv
     DEF OpenSession, SessionInv
<1>3. /\ ~up
      /\ \A h \in Hashes : tracker[h] # NoOrder => tracker'[h] # NoOrder
  BY OpenKeeps DEF OpenSession, SessionInv
<1>4. SessionShape'
  BY <1>1 DEF SessionInv, SessionShape
<1>5. \A h \in Hashes : create[h] = "none"
  BY <1>3 DEF SessionInv, SubmitInv
<1>6. SubmitInv'
  BY <1>1, <1>3, <1>5 DEF SessionInv, SubmitInv
<1> QED BY <1>1, <1>2, <1>3, <1>4, <1>6 DEF SessionInv, FetchInv

LEMMA DieStep ==
  ASSUME "torn_append" \notin Faults, SessionInv, Die
  PROVE  SessionInv'
<1>1. /\ create' = [h \in Hashes |-> "none"] /\ rec' = Idle
      /\ inbox' = << >> /\ http' = [h \in Hashes |-> "none"]
      /\ UNCHANGED <<wire, venue, posts, tracker>>
  BY DEF Die, Crash
<1>2. TrackerInv'
  BY CrashInv DEF Die, SessionInv
<1>3. SessionShape'
  BY <1>1 DEF SessionInv, SessionShape, Idle, EmptyTable
<1>4. SubmitInv'
  BY <1>1, QuietStep DEF SessionInv
<1>5. FetchInv'
  BY <1>1 DEF FetchInv, Idle
<1> QED BY <1>2, <1>3, <1>4, <1>5 DEF SessionInv

LEMMA SessionNextInv ==
  ASSUME "torn_append" \notin Faults, SessionInv, [Next]_vars
  PROVE  SessionInv'
<1>1. CASE UNCHANGED vars
  <2>1. UNCHANGED <<trackerVars, create, rec, inbox, wire, http, venue, posts>>
    BY <1>1 DEF vars, sessionVars, worldVars
  <2>2. SessionShape'
    BY <2>1 DEF SessionInv, SessionShape
  <2> QED BY <2>1, <2>2, OutsideStep
<1>2. ASSUME NEW h \in Hashes,
             \/ Submit(h) \/ RefuseUnsent(h) \/ Dispatch(h)
             \/ Answered(h) \/ Unanswered(h) \/ OnResult(h)
             \/ ForwardBookRemoved(h)
             \/ VenueAccepts(h) \/ VenueRefuses(h) \/ RequestLost(h)
             \/ VenueMoves(h) \/ VenueAnnounces(h)
      PROVE  SessionInv'
  BY <1>2, SubmitStep, RequestStep, DispatchStep, OnResultStep, ForwardStep,
     VenueStep
<1>3. CASE \/ StartReconcile \/ ServePage \/ PageFails
           \/ OnPageContinues \/ OnLastPage
  BY <1>3, StartReconcileStep, PageStep, OnLastPageStep
<1>4. CASE ForwardEvent \/ OpenSession \/ Die
  BY <1>4, ForwardStep, OpenSessionStep, DieStep
<1> QED BY <1>1, <1>2, <1>3, <1>4 DEF Next

-----------------------------------------------------------------------------
(* The theorems. *)

\* A record that replaces a tracked one is a record: what limbo holds is one.
LEMMA PostedStaysJournaled ==
  ASSUME SessionInv
  PROVE  PostedIsJournaled /\ AtMostOnePost /\ SessionTypeOK
<1>1. TypeOK
  BY InvImplies DEF SessionInv
<1>2. AtMostOnePost
  BY DEF SessionInv, SubmitInv, AtMostOnePost
<1>3. PostedIsJournaled
  <2> SUFFICES ASSUME NEW h \in Hashes, posts[h] > 0, NEW i \in 1..Len(disk)
               PROVE  disk[i].orders[h] # NoOrder
    BY DEF PostedIsJournaled
  <2>1. tracker[h] # NoOrder
    BY DEF SessionInv, SubmitInv
  <2>2. disk[i].orders[h] \in {tracker[h]} \cup limbo[h]
    BY DEF SessionInv, TrackerInv, PublishedIsDurable
  <2>3. limbo[h] \subseteq TrackedOrder
    BY <1>1 DEF TypeOK
  <2> QED BY <2>1, <2>2, <2>3, NoOrderAssumption
<1> QED BY <1>1, <1>2, <1>3 DEF SessionInv, SessionTypeOK

\* Of the session (execution_session.cpp:77-131, 216-241), for any set of
\* hashes and any number of crashes and failed appends that leave whole
\* frames: the create of a hash is sent at most once, and once it was sent
\* every file a crash may leave still holds the order.
THEOREM SessionSafety ==
  ASSUME "torn_append" \notin Faults
  PROVE  Spec => [](SessionTypeOK /\ PostedIsJournaled /\ AtMostOnePost)
<1>1. Init => SessionInv
  BY SessionInitInv
<1>2. SessionInv /\ [Next]_vars => SessionInv'
  BY SessionNextInv
<1>3. SessionInv => SessionTypeOK /\ PostedIsJournaled /\ AtMostOnePost
  BY PostedStaysJournaled
<1> QED BY <1>1, <1>2, <1>3, PTL DEF Spec

-----------------------------------------------------------------------------
(* The refinement. *)

\* No step forgets an order.
LEMMA NeverForgets ==
  ASSUME SessionInv, Next, NEW k \in Hashes, tracker[k] # NoOrder
  PROVE  tracker'[k] # NoOrder
<1>1. CASE UNCHANGED tracker
  BY <1>1
<1>2. ASSUME NEW h \in Hashes, NEW o, Fits(o), JournalOne(h, o), up
      PROVE  tracker'[k] # NoOrder
  BY <1>2, JournalOneKeeps DEF SessionInv
<1>3. ASSUME NEW next, Tracked(next) = Tracked(tracker),
             Journal(next, Tracked(tracker))
      PROVE  tracker'[k] # NoOrder
  BY <1>3, JournalAllKeeps DEF Tracked
<1>4. ASSUME NEW h \in Hashes, Submit(h) PROVE tracker'[k] # NoOrder
  <2>1. up /\ JournalOne(h, NewSubmission)
    BY <1>4 DEF Submit, JournalOne, Journal
  <2> QED BY <1>2, <2>1, NewSubmissionFits
<1>5. ASSUME NEW h \in Hashes, OnResult(h) PROVE tracker'[k] # NoOrder
  BY <1>1, <1>2, <1>5, OnResultJournals DEF trackerVars
<1>6. CASE ForwardEvent \/ \E h \in Hashes : ForwardBookRemoved(h)
  <2>1. up
    BY <1>6 DEF ForwardEvent, ForwardBookRemoved, BookRemoved, IsTracked
  <2> QED BY <1>1, <1>2, <1>6, <2>1, ForwardJournals DEF trackerVars
<1>7. CASE StartReconcile
  <2>1. Journal(RequireReconciliation(tracker), Tracked(tracker))
    BY <1>7 DEF StartReconcile, Journal
  <2>2. Tracked(RequireReconciliation(tracker)) = Tracked(tracker)
    BY RequireReconciliationFits DEF SessionInv, TrackerInv
  <2> QED BY <1>3, <2>1, <2>2
<1>8. CASE OnLastPage
  <2>1. Journal(Reconcile(tracker, rec.orders), Tracked(tracker))
    BY <1>8 DEF OnLastPage
  <2>2. Tracked(Reconcile(tracker, rec.orders)) = Tracked(tracker)
    BY ReconcileFits DEF SessionInv, TrackerInv, SessionShape
  <2> QED BY <1>3, <2>1, <2>2
<1>9. CASE OpenSession
  BY <1>9, OpenKeeps DEF OpenSession, SessionInv
<1>10. CASE ServePage \/ PageFails \/ OnPageContinues \/ Die
  BY <1>1, <1>10
     DEF ServePage, PageFails, OnPageContinues, Die, Crash, trackerVars
<1>11. ASSUME NEW h \in Hashes,
              \/ RefuseUnsent(h) \/ Dispatch(h) \/ Answered(h)
              \/ Unanswered(h) \/ VenueAccepts(h) \/ VenueRefuses(h)
              \/ RequestLost(h) \/ VenueMoves(h) \/ VenueAnnounces(h)
       PROVE  UNCHANGED tracker
  BY <1>11 DEF RefuseUnsent, Dispatch, Answered, Unanswered, VenueAccepts,
               VenueRefuses, RequestLost, VenueMoves, VenueAnnounces,
               trackerVars
<1> QED BY <1>1, <1>4, <1>5, <1>6, <1>7, <1>8, <1>9, <1>10, <1>11 DEF Next

\* Only Submit arms a hash and only Dispatch sends.
LEMMA OnlySubmitArms ==
  ASSUME SessionInv, Next, NEW k \in Hashes
  PROVE  \/ \E h \in Hashes : Submit(h) \/ Dispatch(h)
         \/ posts' = posts /\ (create'[k] = "waiting" => create[k] = "waiting")
<1> DEFINE Quiet ==
      posts' = posts /\ (create'[k] = "waiting" => create[k] = "waiting")
<1>1. CASE \/ StartReconcile \/ ServePage \/ PageFails \/ OnPageContinues
           \/ OnLastPage \/ ForwardEvent \/ OpenSession
  BY <1>1 DEF StartReconcile, ServePage, PageFails, OnPageContinues,
              OnLastPage, ForwardEvent, OpenSession, sessionVars
<1>2. CASE Die
  BY <1>2 DEF Die
<1>3. ASSUME NEW h \in Hashes,
             \/ ForwardBookRemoved(h) \/ VenueAccepts(h) \/ VenueRefuses(h)
             \/ RequestLost(h) \/ VenueMoves(h) \/ VenueAnnounces(h)
      PROVE  Quiet
  BY <1>3 DEF ForwardBookRemoved, VenueAccepts, VenueRefuses, RequestLost,
              VenueMoves, VenueAnnounces, sessionVars
<1>4. ASSUME NEW h \in Hashes,
             RefuseUnsent(h) \/ Answered(h) \/ Unanswered(h) \/ OnResult(h)
      PROVE  Quiet
  <2>1. PICK c \in Results \cup {"none"} : create' = [create EXCEPT ![h] = c]
    BY <1>4 DEF RefuseUnsent, Answered, Unanswered, OnResult, Results,
                CreateOutcomes
  <2>2. posts' = posts
    BY <1>4 DEF RefuseUnsent, Answered, Unanswered, OnResult
  <2> QED BY <2>1, <2>2 DEF Results, CreateOutcomes, SessionInv, SessionShape
<1> QED BY <1>1, <1>2, <1>3, <1>4 DEF Next

\* What a step does to the intent of one hash.
LEMMA QuietIntent ==
  ASSUME SessionInv, NEW k \in Hashes, posts'[k] = posts[k],
         create'[k] = "waiting" => create[k] = "waiting",
         tracker[k] # NoOrder => tracker'[k] # NoOrder
  PROVE  \/ Intent(k)' = Intent(k)
         \/ Intent(k) \in {"free", "armed"} /\ Intent(k)' = "void"
<1>1. posts[k] \in Nat
  BY DEF SessionInv, SessionShape
<1>2. create[k] = "waiting" => tracker[k] # NoOrder
  BY DEF SessionInv, SubmitInv
<1> QED BY <1>1, <1>2 DEF Intent

LEMMA SubmitIntent ==
  ASSUME SessionInv, NEW h \in Hashes, Submit(h)
  PROVE  \/ \A k \in Hashes : Intent(k)' = Intent(k)
         \/ /\ Intent(h) = "free" /\ Intent(h)' = "armed"
            /\ \A k \in Hashes \ {h} : Intent(k)' = Intent(k)
<1>1. /\ up /\ tracker[h] = NoOrder /\ posts' = posts
      /\ \/ UNCHANGED <<tracker, create>>
         \/ /\ tracker' = [tracker EXCEPT ![h] = NewSubmission]
            /\ create' = [create EXCEPT ![h] = "waiting"]
  BY DEF Submit, Persist, PersistFails
<1>2. posts \in [Hashes -> Nat] /\ posts[h] = 0 /\ create[h] # "waiting"
  BY <1>1 DEF SessionInv, SessionShape, SubmitInv
<1>3. CASE UNCHANGED <<tracker, create>>
  BY <1>1, <1>3 DEF Intent
<1>4. CASE /\ tracker' = [tracker EXCEPT ![h] = NewSubmission]
           /\ create' = [create EXCEPT ![h] = "waiting"]
  <2>1. create'[h] = "waiting"
    BY <1>4 DEF SessionInv, SessionShape
  <2>2. Intent(h) = "free" /\ Intent(h)' = "armed"
    BY <1>1, <1>2, <2>1 DEF Intent
  <2>3. ASSUME NEW k \in Hashes \ {h}
        PROVE  create'[k] = create[k] /\ tracker'[k] = tracker[k]
    BY <1>4 DEF SessionInv, SessionShape, TrackerInv, FitTable, Tables
  <2> QED BY <1>1, <2>2, <2>3 DEF Intent
<1> QED BY <1>1, <1>3, <1>4

LEMMA DispatchIntent ==
  ASSUME SessionInv, NEW h \in Hashes, Dispatch(h)
  PROVE  /\ Intent(h) = "armed" /\ Intent(h)' = "posted"
         /\ \A k \in Hashes \ {h} : Intent(k)' = Intent(k)
<1>1. /\ create[h] = "waiting" /\ posts[h] = 0 /\ posts \in [Hashes -> Nat]
      /\ posts' = [posts EXCEPT ![h] = posts[h] + 1] /\ tracker' = tracker
      /\ create' = [create EXCEPT ![h] = "sent"]
  BY DEF Dispatch, trackerVars, SessionInv, SubmitInv, SessionShape
<1>2. posts'[h] = 1
  BY <1>1
<1>3. Intent(h) = "armed" /\ Intent(h)' = "posted"
  BY <1>1, <1>2 DEF Intent
<1>4. ASSUME NEW k \in Hashes \ {h}
      PROVE  create'[k] = create[k] /\ posts'[k] = posts[k]
  BY <1>1 DEF SessionInv, SessionShape
<1> QED BY <1>1, <1>3, <1>4 DEF Intent

LEMMA IntentStep ==
  ASSUME SessionInv, [Next]_vars
  PROVE  [Once!OnceNext]_[h \in Hashes |-> Intent(h)]
<1> DEFINE now == [h \in Hashes |-> Intent(h)]
           then == [h \in Hashes |-> Intent(h)']
<1>1. ASSUME \A k \in Hashes :
               \/ Intent(k)' = Intent(k)
               \/ Intent(k) \in {"free", "armed"} /\ Intent(k)' = "void"
      PROVE  \E S \in SUBSET Hashes : Once!GiveUp(S)
  <2> DEFINE S == {k \in Hashes : Intent(k)' # Intent(k)}
  <2>1. \A k \in S : now[k] \in {"free", "armed"}
    BY <1>1
  <2>2. then = [k \in Hashes |-> IF k \in S THEN "void" ELSE now[k]]
    BY <1>1
  <2>3. Once!GiveUp(S)
    BY <2>1, <2>2 DEF Once!GiveUp
  <2> QED BY <2>3
<1>2. ASSUME NEW h \in Hashes, Intent(h) = "free", Intent(h)' = "armed",
             \A k \in Hashes \ {h} : Intent(k)' = Intent(k)
      PROVE  Once!Arm(h)
  <2>1. then = [now EXCEPT ![h] = "armed"]
    BY <1>2
  <2> QED BY <1>2, <2>1 DEF Once!Arm
<1>3. ASSUME NEW h \in Hashes, Intent(h) = "armed", Intent(h)' = "posted",
             \A k \in Hashes \ {h} : Intent(k)' = Intent(k)
      PROVE  Once!Post(h)
  <2>1. then = [now EXCEPT ![h] = "posted"]
    BY <1>3
  <2> QED BY <1>3, <2>1 DEF Once!Post
<1>4. ASSUME NEW h \in Hashes, Submit(h) PROVE Once!OnceNext
  BY <1>1, <1>2, <1>4, SubmitIntent DEF Once!OnceNext
<1>5. ASSUME NEW h \in Hashes, Dispatch(h) PROVE Once!OnceNext
  BY <1>3, <1>5, DispatchIntent DEF Once!OnceNext
<1>6. CASE Next /\ ~ \E h \in Hashes : Submit(h) \/ Dispatch(h)
  <2>1. \A k \in Hashes : \/ Intent(k)' = Intent(k)
                          \/ /\ Intent(k) \in {"free", "armed"}
                             /\ Intent(k)' = "void"
    BY <1>6, OnlySubmitArms, NeverForgets, QuietIntent
  <2> QED BY <1>1, <2>1 DEF Once!OnceNext
<1>7. CASE UNCHANGED vars
  BY <1>7 DEF vars, trackerVars, sessionVars, Intent
<1> QED BY <1>4, <1>5, <1>6, <1>7

\* The session implements SubmitOnce: an intent is durably recorded before
\* its one create is sent, and neither a crash, a replay of the journal nor a
\* refused request gives it a second one (execution_session.cpp:77-131).
THEOREM SessionSubmitsOnce ==
  ASSUME "torn_append" \notin Faults
  PROVE  Spec => SubmitsOnce
<1>1. Init => Once!OnceInit
  BY DEF Init, TrackerInit, EmptyTable, Once!OnceInit, Intent
<1>2. SessionInv /\ [Next]_vars
        => [Once!OnceNext]_[h \in Hashes |-> Intent(h)]
  BY IntentStep
<1>3. Init => SessionInv
  BY SessionInitInv
<1>4. SessionInv /\ [Next]_vars => SessionInv'
  BY SessionNextInv
<1> QED BY <1>1, <1>2, <1>3, <1>4, PTL DEF Spec, SubmitsOnce, Once!OnceSpec

=============================================================================
