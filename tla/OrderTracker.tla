---------------------------- MODULE OrderTracker ----------------------------
(***************************************************************************)
(* The in-memory order lifecycle of src/lifecycle.cpp, as operators on one *)
(* tracked order and on the table of all of them.                          *)
(*                                                                         *)
(* A tracked order keeps what the code branches on: its lifecycle state,   *)
(* its reconciliation_required flag (recon) and whether its two amounts    *)
(* satisfy the checks OrderTracker::restore makes (sound: the requested    *)
(* amount positive, the filled one not negative).  The exact amounts come  *)
(* together in one report and are only compared with each other, so a      *)
(* report carries the outcome of that comparison (fill).  Ids, reasons,    *)
(* timestamps and stream generations are stored and never read back by     *)
(* the tracker; they are left out.                                         *)
(***************************************************************************)

CONSTANTS
  Hashes,     \* the order hashes a host may submit
  NoOrder     \* "the tracker has no order with this hash"

States ==
  {"submission_pending", "accepted", "open", "partially_filled", "filled",
   "book_removed", "cancelled", "expired", "rejected", "transaction_pending",
   "transaction_failed", "ambiguous", "unknown"}

TrackedOrder == [state : States, recon : BOOLEAN, sound : BOOLEAN]

Fills == {"zero", "part", "full"}   \* amount_filled against amount

OrderRecord ==
  [status : {"open", "matched", "cancelled", "expired", "invalidated",
             "failed", "unknown"},
   fill : Fills, sound : BOOLEAN]

WalletEvent ==
  [type : {"order_accepted", "order_not_accepted", "order_expired",
           "order_cancelled", "order_transaction_submitted",
           "order_transaction_success", "order_transaction_failed",
           "unknown"},
   fill : Fills, sound : BOOLEAN]

\* What the trading client reports for a create it did not refuse: an
\* acknowledgement for this hash, one for another hash, or no knowable result.
CreateOutcomes == {"acknowledged", "mismatched", "ambiguous"}

ASSUME NoOrderAssumption ==
  NoOrder \notin TrackedOrder \cup OrderRecord

-----------------------------------------------------------------------------
(* One order. *)

Terminal(o) ==
  o.state \in {"filled", "cancelled", "expired", "rejected",
               "transaction_failed"}

SafeToRebuildWithNewNonce(o) ==
  o.state \in {"cancelled", "expired", "rejected", "transaction_failed"}

\* A report that shows nothing filled leaves the state it just set.
DeriveFillState(state, fill) ==
  IF fill = "zero" THEN state
  ELSE IF fill = "full" THEN "filled" ELSE "partially_filled"

NewSubmission ==
  [state |-> "submission_pending", recon |-> FALSE, sound |-> TRUE]

\* An acknowledgement sets the state whatever it was and leaves recon alone;
\* one for another hash is refused (see CreateOutcomeApplies).
ApplyCreateOutcome(o, outcome) ==
  IF outcome = "ambiguous"
  THEN [o EXCEPT !.state = "ambiguous", !.recon = TRUE]
  ELSE [o EXCEPT !.state = "accepted"]

CreateOutcomeApplies(outcome) == outcome # "mismatched"

MarkSubmissionRejected(o) == [o EXCEPT !.state = "rejected", !.recon = FALSE]

RestState(r) ==
  CASE r.status = "open"    -> DeriveFillState("open", r.fill)
    [] r.status = "matched" -> "filled"
    [] r.status \in {"invalidated", "failed"} -> "rejected"
    [] OTHER -> r.status

ApplyRestOrder(o, r) ==
  [o EXCEPT !.state = RestState(r),
            !.recon = (r.status = "unknown"),
            !.sound = r.sound]

WalletState(e) ==
  CASE e.type = "order_accepted"     -> DeriveFillState("open", e.fill)
    [] e.type = "order_not_accepted" -> "rejected"
    [] e.type = "order_expired"      -> "expired"
    [] e.type = "order_cancelled"    -> "cancelled"
    [] e.type = "order_transaction_submitted" -> "transaction_pending"
    [] e.type = "order_transaction_success" ->
         DeriveFillState("accepted", e.fill)
    [] e.type = "order_transaction_failed" -> "transaction_failed"
    [] OTHER -> "unknown"

ApplyWalletEvent(o, e) ==
  [o EXCEPT !.state = WalletState(e),
            !.recon = (e.type = "unknown"),
            !.sound = e.sound]

\* Variant: a removal from the book is believed.
MarkBookRemovedTrusted(o) ==
  [o EXCEPT !.state = "book_removed", !.recon = FALSE]

MarkBookRemoved(o) == [o EXCEPT !.state = "book_removed", !.recon = TRUE]

Quarantine(o) ==
  IF o = NoOrder \/ Terminal(o) THEN o ELSE [o EXCEPT !.recon = TRUE]

-----------------------------------------------------------------------------
(* The table. *)

Tables == [Hashes -> TrackedOrder \cup {NoOrder}]

EmptyTable == [h \in Hashes |-> NoOrder]

Tracked(t) == {h \in Hashes : t[h] # NoOrder}

\* Variant: nothing is quarantined.
RequireNothing(t) == t

RequireReconciliation(t) == [h \in Hashes |-> Quarantine(t[h])]

\* snapshot[h] is the last record the REST pages hold for h, or NoOrder.  An
\* order that is not terminal and not in the snapshot stays quarantined.
Reconcile(t, snapshot) ==
  [h \in Hashes |->
     IF t[h] = NoOrder THEN NoOrder
     ELSE IF snapshot[h] # NoOrder THEN ApplyRestOrder(t[h], snapshot[h])
     ELSE Quarantine(t[h])]

\* OrderTracker::restore refuses the whole journal for one unsound record.
Restorable(t) == \A h \in Tracked(t) : t[h].sound

=============================================================================
