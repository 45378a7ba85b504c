----------------------- MODULE PersistentOrderTracker -----------------------
(***************************************************************************)
(* The journaled tracker of src/lifecycle_journal.cpp: every transition is *)
(* computed on a copy of the table, appended to the journal, forced to     *)
(* stable storage, and only then published in memory.  The process may     *)
(* die at any time; opening the journal replays it.                        *)
(*                                                                         *)
(* The file is modelled by what a replay of it would return.  disk is the  *)
(* sequence of file images a crash may leave behind: disk[1] is what is    *)
(* on stable storage, each later element adds bytes that were written and  *)
(* not yet synced, the last one is what a reader sees now.  An image holds *)
(* the latest record of every hash in the readable frames and the state of *)
(* the framing:                                                            *)
(*   absent  there is no file        header  fewer bytes than the magic    *)
(*   clean   whole frames only       tail    a partial frame ends the file *)
(*   inside  frames were appended behind a partial one                     *)
(***************************************************************************)
EXTENDS OrderTracker, Naturals, Sequences

CONSTANTS
  RestReports,    \* the REST records the venue may return
  WalletEvents,   \* the wallet events the host may forward
  Faults,         \* which storage faults occur
  MaxImages       \* bound on the unsynced images kept apart

ASSUME ReportsAssumption ==
  /\ RestReports \subseteq OrderRecord
  /\ WalletEvents \subseteq WalletEvent

\* append: an append or the creation of the file may fail, leaving whole
\* frames or none.  torn_append, torn_header: it may leave part of one.
ASSUME FaultsAssumption ==
  Faults \subseteq {"append", "torn_append", "torn_header"}

ASSUME MaxImagesAssumption == MaxImages \in Nat

VARIABLES
  up,        \* a tracker is open
  tracker,   \* its published table; after a crash, what it had published
  disk,      \* the images of the journal file
  limbo      \* ghost: per hash, the records in some image whose append was
             \* reported failed, none for that hash having succeeded since

trackerVars == <<up, tracker, disk, limbo>>

Frames == {"absent", "header", "clean", "tail", "inside"}
Image == [frame : Frames, orders : Tables]

Current == disk[Len(disk)]

-----------------------------------------------------------------------------
(* The journal file. *)

\* Variant: only the first frame of a batch is written.
WrittenFirst(f, t, S) ==
  IF S = {} THEN f
  ELSE LET first == CHOOSE h \in S : TRUE
       IN [f EXCEPT !.orders[first] = t[first]]

\* Frames for the hashes S, with the records of t, written behind f.
Written(f, t, S) ==
  IF S = {} THEN f
  ELSE IF f.frame = "clean"
  THEN [f EXCEPT !.orders = [h \in Hashes |-> IF h \in S THEN t[h] ELSE @[h]]]
  ELSE [f EXCEPT !.frame = "inside"]

\* A partial frame written behind f.
Torn(f) ==
  [f EXCEPT !.frame = CASE @ = "clean" -> "tail"
                        [] @ = "tail"  -> "inside"
                        [] OTHER -> @]

\* resize_file to the valid bytes.
Repaired(f) == [f EXCEPT !.frame = IF @ \in {"tail", "inside"} THEN "clean"
                                   ELSE @]

\* The failed records l that are in one of the images d.
LimboOf(l, d) ==
  [h \in Hashes |-> l[h] \cap {d[i].orders[h] : i \in DOMAIN d}]

\* append returned true: all frames written, flushed and synced.
AppendSucceeds(f, t, S) ==
  /\ disk' = <<Written(f, t, S)>>
  /\ limbo' = LimboOf([h \in Hashes |-> IF h \in S THEN {} ELSE limbo[h]],
                      disk')

\* append returned an error.  Nothing or some of the frames are in the file,
\* not synced, and a torn one may follow.  The frames go out in hash order;
\* which hashes come first is arbitrary, so T is any subset of the batch.
AppendFails(f, t, S) ==
  /\ "append" \in Faults
  /\ \E T \in SUBSET S, torn \in {FALSE} \cup {"torn_append" \in Faults} :
       LET w == Written(f, t, T)
           g == IF torn THEN Torn(w) ELSE w
       IN /\ IF g = f
             THEN disk' = [disk EXCEPT ![Len(disk)] = f]
             ELSE Len(disk) < MaxImages /\ disk' = Append(disk, g)
          /\ limbo' = LimboOf([h \in Hashes |-> limbo[h] \cup
                                 IF h \in T THEN {t[h]} ELSE {}], disk')

-----------------------------------------------------------------------------
(* The facade: copy, change, append, publish. *)

Persist(next, S) ==
  /\ AppendSucceeds(Current, next, S)
  /\ tracker' = next
  /\ UNCHANGED up

PersistFails(next, S) ==
  /\ AppendFails(Current, next, S)
  /\ UNCHANGED <<up, tracker>>

Journal(next, S) == Persist(next, S) \/ PersistFails(next, S)

JournalOne(h, o) == Journal([tracker EXCEPT ![h] = o], {h})

IsTracked(h) == up /\ tracker[h] # NoOrder

BeginSubmission(h) ==
  /\ up /\ tracker[h] = NoOrder
  /\ JournalOne(h, NewSubmission)

CreateOutcome(h, outcome) ==
  /\ IsTracked(h) /\ CreateOutcomeApplies(outcome)
  /\ JournalOne(h, ApplyCreateOutcome(tracker[h], outcome))

SubmissionRejected(h) ==
  /\ IsTracked(h) /\ tracker[h].state = "submission_pending"
  /\ JournalOne(h, MarkSubmissionRejected(tracker[h]))

RestOrder(h, r) ==
  /\ IsTracked(h)
  /\ JournalOne(h, ApplyRestOrder(tracker[h], r))

ForwardedEvent(h, e) ==
  /\ IsTracked(h)
  /\ JournalOne(h, ApplyWalletEvent(tracker[h], e))

BookRemoved(h) ==
  /\ IsTracked(h)
  /\ JournalOne(h, MarkBookRemoved(tracker[h]))

RequireReconciliationAll ==
  /\ up
  /\ Journal(RequireReconciliation(tracker), Tracked(tracker))

ReconcileSnapshot(snapshot) ==
  /\ up
  /\ Journal(Reconcile(tracker, snapshot), Tracked(tracker))

-----------------------------------------------------------------------------
(* Opening, and dying. *)

\* OrderJournal::initialize creates the file and syncs its magic.  It does not
\* sync the directory: that a synced file is still there after a crash is
\* assumed of the file system.
Create ==
  /\ ~up /\ Current.frame = "absent"
  /\ disk' = <<[frame |-> "clean", orders |-> EmptyTable]>>
  /\ up' = TRUE /\ tracker' = EmptyTable
  /\ UNCHANGED limbo

CreateFails ==
  /\ ~up /\ Current.frame = "absent"
  /\ "append" \in Faults /\ Len(disk) < MaxImages
  /\ \E frame \in {"clean"} \cup
                  IF "torn_header" \in Faults THEN {"header"} ELSE {} :
       disk' = Append(disk, [frame |-> frame, orders |-> EmptyTable])
  /\ UNCHANGED <<up, tracker, limbo>>

\* replay accepts the file.  A partial frame with frames behind it may look
\* like a truncated tail (the missing bytes reach past the end of the file).
Replays(f) == f.frame \in {"clean", "tail", "inside"}

Open ==
  LET f == Repaired(Current)
      t == RequireReconciliation(f.orders)
  IN /\ ~up /\ Replays(Current) /\ Restorable(f.orders)
     /\ IF Tracked(t) = {}
        THEN disk' = [disk EXCEPT ![Len(disk)] = f] /\ UNCHANGED limbo
        ELSE AppendSucceeds(f, t, Tracked(t))
     /\ up' = TRUE /\ tracker' = t

\* The quarantined table could not be appended: open returns the error.
OpenAppendFails ==
  LET f == Repaired(Current)
      t == RequireReconciliation(f.orders)
  IN /\ ~up /\ Replays(Current) /\ Restorable(f.orders)
     /\ Tracked(t) # {}
     /\ AppendFails(f, t, Tracked(t))
     /\ UNCHANGED <<up, tracker>>

\* open returns journal_corrupt; a torn tail was cut before restore refused.
OpenCorrupt ==
  /\ ~up
  /\ \/ /\ Current.frame \in {"header", "inside"}
        /\ UNCHANGED disk
     \/ /\ Replays(Current) /\ ~Restorable(Current.orders)
        /\ disk' = [disk EXCEPT ![Len(disk)] = Repaired(@)]
  /\ UNCHANGED <<up, tracker, limbo>>

\* The process or the machine dies, in the middle of an append or not: any
\* prefix of the unsynced bytes survives.
Crash ==
  /\ \E i \in 1..Len(disk), torn \in BOOLEAN :
       disk' = [j \in 1..i |->
                  IF j = i /\ torn THEN Torn(disk[j]) ELSE disk[j]]
  /\ limbo' = LimboOf(limbo, disk')
  /\ up' = FALSE
  /\ UNCHANGED tracker

-----------------------------------------------------------------------------
TrackerInit ==
  /\ up = FALSE
  /\ tracker = EmptyTable
  /\ disk = <<[frame |-> "absent", orders |-> EmptyTable]>>
  /\ limbo = [h \in Hashes |-> {}]

TrackerNext ==
  \/ \E h \in Hashes :
       \/ BeginSubmission(h)
       \/ \E outcome \in CreateOutcomes : CreateOutcome(h, outcome)
       \/ SubmissionRejected(h)
       \/ \E r \in RestReports : RestOrder(h, r)
       \/ \E e \in WalletEvents : ForwardedEvent(h, e)
       \/ BookRemoved(h)
  \/ RequireReconciliationAll
  \/ \E snapshot \in [Hashes -> RestReports \cup {NoOrder}] :
       ReconcileSnapshot(snapshot)
  \/ Create \/ CreateFails
  \/ Open \/ OpenAppendFails \/ OpenCorrupt
  \/ Crash

TrackerSpec == TrackerInit /\ [][TrackerNext]_trackerVars

-----------------------------------------------------------------------------
(* What must hold. *)

\* The type invariant: the table, the images and the ghost stay in shape.
TypeOK ==
  /\ up \in BOOLEAN
  /\ tracker \in Tables
  /\ disk \in Seq(Image) /\ disk # << >>
  /\ limbo \in [Hashes -> SUBSET TrackedOrder]

\* Journal before publish (src/lifecycle_journal.cpp:364-466): whatever a crash
\* leaves of the file now, its latest record for a hash is the one last
\* published for it, or one whose append was reported failed afterwards.
PublishedIsDurable ==
  \A i \in 1..Len(disk), h \in Hashes :
    disk[i].orders[h] \in {tracker[h]} \cup limbo[h]

\* The quarantine flag agrees with the state, in memory and in every record
\* the journal holds: a terminal order is never quarantined, an order of
\* ambiguous, unknown or book-removed state always is.
FlagFitsState(o) ==
  /\ Terminal(o) => ~o.recon
  /\ o.state \in {"ambiguous", "unknown", "book_removed"} => o.recon

QuarantineFitsState ==
  /\ \A h \in Tracked(tracker) : FlagFitsState(tracker[h])
  /\ \A i \in 1..Len(disk) :
       \A h \in Tracked(disk[i].orders) : FlagFitsState(disk[i].orders[h])

\* Recovery (src/lifecycle_journal.cpp:327-362): an opened tracker holds for
\* every hash the record last published before the crash, or one that failed
\* to be appended after it, quarantined unless terminal.  So no order that was
\* acknowledged to the caller is forgotten, and none comes back older.
RecoveryIsFaithful ==
  [][~up /\ up' =>
       \A h \in Hashes :
         \E o \in {tracker[h]} \cup limbo[h] : tracker'[h] = Quarantine(o)
    ]_trackerVars

=============================================================================
