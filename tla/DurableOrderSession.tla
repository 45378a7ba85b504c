------------------------ MODULE DurableOrderSession -------------------------
(***************************************************************************)
(* The order session of src/execution_session.cpp, composed with the       *)
(* journaled tracker it owns, the trading client and the REST client it    *)
(* calls, and the venue behind them.                                       *)
(*                                                                         *)
(* Every handler of the session runs on one strand, so a handler is one    *)
(* step; what interleaves is the strand, the requests in flight, the       *)
(* venue, the wallet events on their way and a crash of the process.       *)
(* TradingClient is used through its contract: an error means that the     *)
(* create was never sent or that the venue refused it, everything the      *)
(* client cannot know is ambiguous (trading.cpp, handle).                  *)
(***************************************************************************)
EXTENDS PersistentOrderTracker

CONSTANTS
  Cursors,                      \* pagination cursors the venue may return
  NoCursor,                     \* the page is the last one
  MaximumReconciliationPages,   \* SessionOptions
  Fates,                        \* what may become of an order at the venue
  MaxInbox                      \* bound on wallet events in flight

ASSUME SessionAssumption ==
  /\ NoCursor \notin Cursors
  /\ MaximumReconciliationPages \in Nat \ {0}
  /\ Fates \subseteq {"part", "filled", "cancelled", "expired",
                      "invalidated", "failed"}
  /\ MaxInbox \in Nat

VARIABLES
  create,   \* per hash, the create operation: none, waiting (not sent), sent,
            \* or the result posted to the strand
  rec,      \* the reconciliation: phase, pages, cursors, collected orders and
            \* the cursor of the page in flight
  inbox,    \* wallet events sent by the venue, not yet forwarded by the host
  wire,     \* create requests on their way to the venue
  http,     \* per hash, the venue's response on its way back
  venue,    \* per hash, the venue's order
  posts     \* ghost: per hash, create requests ever sent

sessionVars == <<create, rec>>
worldVars == <<inbox, wire, http, venue>>
vars == <<trackerVars, sessionVars, worldVars, posts>>

Results == CreateOutcomes \cup {"error"}
Live == {"open", "part"}
Dead == {"cancelled", "expired", "invalidated", "failed"}
VenueStates == {"absent", "filled"} \cup Live \cup Dead

Idle == [phase |-> "idle", pages |-> 0, cursors |-> {},
         orders |-> EmptyTable, cursor |-> NoCursor]

-----------------------------------------------------------------------------
(* Submission: SubmitOperation. *)

\* Variant: a hash that is already tracked is submitted again.
SubmitAgain(h) ==
  /\ up
  /\ Persist([tracker EXCEPT ![h] = NewSubmission], {h})
  /\ create' = [create EXCEPT ![h] = "waiting"]
  /\ UNCHANGED <<rec, worldVars, posts>>

Submit(h) ==
  LET next == [tracker EXCEPT ![h] = NewSubmission]
  IN /\ up /\ tracker[h] = NoOrder
     /\ \/ Persist(next, {h}) /\ create' = [create EXCEPT ![h] = "waiting"]
        \/ PersistFails(next, {h}) /\ UNCHANGED create
     /\ UNCHANGED <<rec, worldVars, posts>>

\* Cancelled, past its deadline, or without credentials before dispatch.
RefuseUnsent(h) ==
  /\ create[h] = "waiting"
  /\ create' = [create EXCEPT ![h] = "error"]
  /\ UNCHANGED <<trackerVars, rec, worldVars, posts>>

Dispatch(h) ==
  /\ create[h] = "waiting"
  /\ create' = [create EXCEPT ![h] = "sent"]
  /\ wire' = wire \cup {h}
  /\ posts' = [posts EXCEPT ![h] = @ + 1]
  /\ UNCHANGED <<trackerVars, rec, inbox, http, venue>>

\* A 2xx receipt for this or for another hash, or a 3xx or 4xx answer.
Answered(h) ==
  /\ create[h] = "sent" /\ http[h] # "none"
  /\ \E result \in IF http[h] = "ok" THEN {"acknowledged", "mismatched"}
                   ELSE {"error"} :
       create' = [create EXCEPT ![h] = result]
  /\ http' = [http EXCEPT ![h] = "none"]
  /\ UNCHANGED <<trackerVars, rec, inbox, wire, venue, posts>>

\* Variant: a create without an answer is reported as failed.
UnansweredFails(h) ==
  /\ create[h] = "sent"
  /\ create' = [create EXCEPT ![h] = "error"]
  /\ http' = [http EXCEPT ![h] = "none"]
  /\ UNCHANGED <<trackerVars, rec, inbox, wire, venue, posts>>

\* Variant: a request without an answer has no deadline.
UnansweredWaits(h) ==
  /\ create[h] = "sent" /\ http[h] # "none"
  /\ create' = [create EXCEPT ![h] = "ambiguous"]
  /\ http' = [http EXCEPT ![h] = "none"]
  /\ UNCHANGED <<trackerVars, rec, inbox, wire, venue, posts>>

\* Timeout, transport error, cancellation, 429, 5xx or a body that does not
\* decode: the request may or may not have reached the venue.
Unanswered(h) ==
  /\ create[h] = "sent"
  /\ create' = [create EXCEPT ![h] = "ambiguous"]
  /\ http' = [http EXCEPT ![h] = "none"]
  /\ UNCHANGED <<trackerVars, rec, inbox, wire, venue, posts>>

\* on_result.  A rejection of an order that has moved on, and a receipt for
\* another hash, are reported to the caller and change nothing.
OnResult(h) ==
  /\ create[h] \in Results
  /\ \/ /\ create[h] = "error" /\ tracker[h].state = "submission_pending"
        /\ JournalOne(h, MarkSubmissionRejected(tracker[h]))
     \/ /\ create[h] = "error" /\ tracker[h].state # "submission_pending"
        /\ UNCHANGED trackerVars
     \/ /\ create[h] \in CreateOutcomes /\ CreateOutcomeApplies(create[h])
        /\ JournalOne(h, ApplyCreateOutcome(tracker[h], create[h]))
     \/ /\ create[h] \in CreateOutcomes /\ ~CreateOutcomeApplies(create[h])
        /\ UNCHANGED trackerVars
  /\ create' = [create EXCEPT ![h] = "none"]
  /\ UNCHANGED <<rec, worldVars, posts>>

-----------------------------------------------------------------------------
(* Reconciliation: ReconcileOperation. *)

\* A second reconciliation while one is active is refused.
StartReconcile ==
  LET next == RequireReconciliation(tracker)
  IN /\ up /\ rec.phase = "idle"
     /\ \/ /\ Persist(next, Tracked(tracker))
           /\ rec' = [Idle EXCEPT !.phase = "requested"]
        \/ PersistFails(next, Tracked(tracker)) /\ UNCHANGED rec
     /\ UNCHANGED <<create, worldVars, posts>>

FillOf(v) == CASE v = "filled" -> "full" [] v = "part" -> "part"
               [] OTHER -> "zero"

StatusOf(v) == CASE v \in Live -> "open" [] v = "filled" -> "matched"
                 [] OTHER -> v

\* The venue's record of an order; a status the decoder does not know is read
\* as unknown.
RecordsOf(v) ==
  {[status |-> s, fill |-> FillOf(v), sound |-> TRUE] :
     s \in {StatusOf(v), "unknown"}} \cap RestReports

\* The venue answers with some of its orders and a cursor.
ServePage ==
  /\ rec.phase = "requested"
  /\ \E page \in [Hashes -> RestReports \cup {NoOrder}],
        cursor \in Cursors \cup {NoCursor} :
       /\ \A h \in Hashes :
            page[h] # NoOrder =>
              venue[h] # "absent" /\ page[h] \in RecordsOf(venue[h])
       /\ rec' = [rec EXCEPT !.phase = "served", !.cursor = cursor,
                    !.orders = [h \in Hashes |->
                       IF page[h] # NoOrder THEN page[h] ELSE @[h]]]
  /\ UNCHANGED <<trackerVars, create, worldVars, posts>>

\* The GET and its retries failed.
PageFails ==
  /\ rec.phase = "requested"
  /\ rec' = Idle
  /\ UNCHANGED <<trackerVars, create, worldVars, posts>>

\* Variant: neither pages nor cursors are counted.
OnPageContinuesUnbounded ==
  /\ rec.phase = "served" /\ rec.cursor # NoCursor
  /\ rec' = [rec EXCEPT !.phase = "requested"]
  /\ UNCHANGED <<trackerVars, create, worldVars, posts>>

\* on_page with a cursor: the next page, unless the cursor repeats or the page
\* bound is reached.
OnPageContinues ==
  /\ rec.phase = "served" /\ rec.cursor # NoCursor
  /\ rec' = IF \/ rec.cursor \in rec.cursors
               \/ rec.pages + 1 >= MaximumReconciliationPages
            THEN Idle
            ELSE [rec EXCEPT !.phase = "requested", !.pages = @ + 1,
                             !.cursors = @ \cup {rec.cursor}]
  /\ UNCHANGED <<trackerVars, create, worldVars, posts>>

\* on_page without a cursor: the snapshot is complete.
OnLastPage ==
  /\ rec.phase = "served" /\ rec.cursor = NoCursor
  /\ Journal(Reconcile(tracker, rec.orders), Tracked(tracker))
  /\ rec' = Idle
  /\ UNCHANGED <<create, worldVars, posts>>

-----------------------------------------------------------------------------
(* Wallet events and book removals forwarded by the host. *)

\* An event for an order that is not tracked is refused.
ForwardEvent ==
  /\ up /\ inbox # << >>
  /\ LET h == Head(inbox).hash
         e == Head(inbox).event
     IN IF tracker[h] = NoOrder
        THEN UNCHANGED trackerVars
        ELSE JournalOne(h, ApplyWalletEvent(tracker[h], e))
  /\ inbox' = Tail(inbox)
  /\ UNCHANGED <<sessionVars, wire, http, venue, posts>>

ForwardBookRemoved(h) ==
  /\ BookRemoved(h)
  /\ UNCHANGED <<sessionVars, worldVars, posts>>

-----------------------------------------------------------------------------
(* The venue and the network (external). *)

\* The private stream carries an event, or drops it.
Emit(h, type, v) ==
  LET e == [type |-> type, fill |-> FillOf(v), sound |-> TRUE]
  IN \/ UNCHANGED inbox
     \/ /\ e \in WalletEvents /\ Len(inbox) < MaxInbox
        /\ inbox' = Append(inbox, [hash |-> h, event |-> e])

VenueAccepts(h) ==
  /\ h \in wire /\ venue[h] = "absent"
  /\ wire' = wire \ {h}
  /\ venue' = [venue EXCEPT ![h] = "open"]
  /\ http' = [http EXCEPT ![h] = IF create[h] = "sent" THEN "ok" ELSE @]
  /\ Emit(h, "order_accepted", "open")
  /\ UNCHANGED <<trackerVars, sessionVars, posts>>

\* Refused before it was placed; an order the venue already has is a duplicate.
VenueRefuses(h) ==
  /\ h \in wire
  /\ wire' = wire \ {h}
  /\ http' = [http EXCEPT ![h] = IF create[h] = "sent" THEN "refused" ELSE @]
  /\ UNCHANGED <<trackerVars, sessionVars, inbox, venue, posts>>

RequestLost(h) ==
  /\ h \in wire
  /\ wire' = wire \ {h}
  /\ UNCHANGED <<trackerVars, sessionVars, inbox, http, venue, posts>>

EventFor(v) ==
  CASE v \in {"part", "filled"} -> "order_transaction_success"
    [] v = "cancelled"   -> "order_cancelled"
    [] v = "expired"     -> "order_expired"
    [] v = "invalidated" -> "order_not_accepted"
    [] v = "failed"      -> "order_transaction_failed"

VenueMoves(h) ==
  /\ venue[h] \in Live
  /\ \E v \in Fates \ {venue[h]} :
       /\ venue' = [venue EXCEPT ![h] = v]
       /\ Emit(h, EventFor(v), v)
  /\ UNCHANGED <<trackerVars, sessionVars, wire, http, posts>>

\* A settlement was sent, or something the decoder does not know.
VenueAnnounces(h) ==
  /\ venue[h] \in Live
  /\ \E type \in {"order_transaction_submitted", "unknown"} :
       Emit(h, type, venue[h])
  /\ UNCHANGED <<trackerVars, sessionVars, wire, http, venue, posts>>

-----------------------------------------------------------------------------
(* Opening and dying: operations in flight die with the process. *)

OpenSession ==
  /\ Create \/ CreateFails \/ Open \/ OpenAppendFails \/ OpenCorrupt
  /\ UNCHANGED <<sessionVars, worldVars, posts>>

Die ==
  /\ Crash
  /\ create' = [h \in Hashes |-> "none"]
  /\ rec' = Idle
  /\ inbox' = << >>
  /\ http' = [h \in Hashes |-> "none"]
  /\ UNCHANGED <<wire, venue, posts>>

-----------------------------------------------------------------------------
Init ==
  /\ TrackerInit
  /\ create = [h \in Hashes |-> "none"]
  /\ rec = Idle
  /\ inbox = << >>
  /\ wire = {}
  /\ http = [h \in Hashes |-> "none"]
  /\ venue = [h \in Hashes |-> "absent"]
  /\ posts = [h \in Hashes |-> 0]

Next ==
  \/ \E h \in Hashes :
       \/ Submit(h) \/ RefuseUnsent(h) \/ Dispatch(h)
       \/ Answered(h) \/ Unanswered(h) \/ OnResult(h)
       \/ ForwardBookRemoved(h)
       \/ VenueAccepts(h) \/ VenueRefuses(h) \/ RequestLost(h)
       \/ VenueMoves(h) \/ VenueAnnounces(h)
  \/ StartReconcile \/ ServePage \/ PageFails
  \/ OnPageContinues \/ OnLastPage
  \/ ForwardEvent
  \/ OpenSession \/ Die

Spec == Init /\ [][Next]_vars

\* A request ends by its answer or by the transport's deadline, a reserved
\* rate-limit slot comes, and the strand runs what is posted to it.  Nothing is
\* assumed of the venue, the wallet stream or the host.
Fairness ==
  /\ \A h \in Hashes :
       /\ WF_vars(RefuseUnsent(h) \/ Dispatch(h))
       /\ WF_vars(Answered(h) \/ Unanswered(h))
       /\ WF_vars(OnResult(h))
  /\ WF_vars(ServePage \/ PageFails)
  /\ WF_vars(OnPageContinues \/ OnLastPage)

FairSpec == Spec /\ Fairness

-----------------------------------------------------------------------------
(* What must hold. *)

\* The type invariant of the session and of the world around it.
SessionShape ==
  /\ create \in [Hashes -> {"none", "waiting", "sent"} \cup Results]
  /\ rec \in [phase : {"idle", "requested", "served"}, pages : Nat,
              cursors : SUBSET Cursors,
              orders : [Hashes -> RestReports \cup {NoOrder}],
              cursor : Cursors \cup {NoCursor}]
  /\ inbox \in Seq([hash : Hashes, event : WalletEvents])
  /\ wire \in SUBSET Hashes
  /\ http \in [Hashes -> {"none", "ok", "refused"}]
  /\ venue \in [Hashes -> VenueStates]
  /\ posts \in [Hashes -> Nat]

SessionTypeOK == TypeOK /\ SessionShape

\* "The deterministic order hash is durable before the only create attempt":
\* an order whose create was sent is in every image of the journal a crash may
\* leave, from the moment it is sent and for ever (execution_session.cpp:85-90).
PostedIsJournaled ==
  \A h \in Hashes : posts[h] > 0 =>
    \A i \in 1..Len(disk) : disk[i].orders[h] # NoOrder

\* The create of a hash is sent at most once, over all crashes, recoveries,
\* failed appends and repeated submissions (execution_session.cpp:85-88).
AtMostOnePost == \A h \in Hashes : posts[h] <= 1

\* The session implements SubmitOnce: what it has durably recorded of a hash
\* and how often it has sent its create move only as that specification says
\* (a second create would take the hash out of its states).
Intent(h) ==
  CASE posts[h] > 1 -> "resent"
    [] posts[h] = 1 -> "posted"
    [] posts[h] = 0 /\ create[h] = "waiting" -> "armed"
    [] posts[h] = 0 /\ create[h] # "waiting" /\ tracker[h] # NoOrder -> "void"
    [] OTHER -> "free"

Once == INSTANCE SubmitOnce WITH intent <- [h \in Hashes |-> Intent(h)]

SubmitsOnce == Once!OnceSpec

\* A terminal state, in memory or in a record that may be recovered, is true of
\* the venue for good: a filled order is filled there, and an order that may be
\* rebuilt with a new nonce can never trade (lifecycle.cpp:9-22).
NeverPlaced(h) ==
  venue[h] = "absent" /\ h \notin wire /\ create[h] # "waiting"

TrueAtVenue(h, o) ==
  /\ o.state = "filled" => venue[h] = "filled"
  /\ SafeToRebuildWithNewNonce(o) => venue[h] \in Dead \/ NeverPlaced(h)

TerminalIsTrue ==
  \A h \in Hashes :
    \A o \in {tracker[h]} \cup {disk[i].orders[h] : i \in 1..Len(disk)} :
      o # NoOrder => TrueAtVenue(h, o)

\* A reconciliation ends, whatever pages and cursors the venue returns, so the
\* next one is not refused for ever (execution_session.cpp:146, 178-203).
ReconcileFinishes == rec.phase # "idle" ~> rec.phase = "idle"

\* Every submission is answered (execution_session.cpp:101-131).
SubmitFinishes ==
  \A h \in Hashes : create[h] # "none" ~> create[h] = "none"

=============================================================================
