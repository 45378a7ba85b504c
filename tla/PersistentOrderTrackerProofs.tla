-------------------- MODULE PersistentOrderTrackerProofs --------------------
(***************************************************************************)
(* Proofs about PersistentOrderTracker for any set of hashes, any reports, *)
(* any number of unsynced images and any storage fault but a torn append   *)
(* that is reported and followed by further appends.                       *)
(***************************************************************************)
EXTENDS PersistentOrderTracker, SequenceTheorems, TLAPS

-----------------------------------------------------------------------------
(* One order: every transition yields a tracked order whose flag fits. *)

Fits(o) == o \in TrackedOrder /\ FlagFitsState(o)

LEMMA NewSubmissionFits == Fits(NewSubmission)
BY DEF Fits, NewSubmission, TrackedOrder, States, FlagFitsState, Terminal

LEMMA CreateOutcomeFits ==
  ASSUME NEW o, Fits(o), NEW outcome
  PROVE  Fits(ApplyCreateOutcome(o, outcome))
BY DEF Fits, ApplyCreateOutcome, TrackedOrder, States, FlagFitsState, Terminal

LEMMA SubmissionRejectedFits ==
  ASSUME NEW o, Fits(o)
  PROVE  Fits(MarkSubmissionRejected(o))
BY DEF Fits, MarkSubmissionRejected, TrackedOrder, States, FlagFitsState,
       Terminal

LEMMA RestOrderFits ==
  ASSUME NEW o, Fits(o), NEW r \in OrderRecord
  PROVE  Fits(ApplyRestOrder(o, r))
<1>1. /\ RestState(r) \in States
      /\ RestState(r) = "unknown" <=> r.status = "unknown"
      /\ RestState(r) \notin {"ambiguous", "book_removed"}
  BY DEF RestState, DeriveFillState, OrderRecord, Fills, States
<1>2. r.sound \in BOOLEAN /\ (r.status = "unknown") \in BOOLEAN
  BY DEF OrderRecord
<1> QED
  BY <1>1, <1>2
  DEF Fits, ApplyRestOrder, TrackedOrder, FlagFitsState, Terminal

LEMMA WalletEventFits ==
  ASSUME NEW o, Fits(o), NEW e \in WalletEvent
  PROVE  Fits(ApplyWalletEvent(o, e))
<1>1. /\ WalletState(e) \in States
      /\ WalletState(e) = "unknown" <=> e.type = "unknown"
      /\ WalletState(e) \notin {"ambiguous", "book_removed"}
  BY DEF WalletState, DeriveFillState, WalletEvent, Fills, States
<1>2. e.sound \in BOOLEAN /\ (e.type = "unknown") \in BOOLEAN
  BY DEF WalletEvent
<1> QED
  BY <1>1, <1>2
  DEF Fits, ApplyWalletEvent, TrackedOrder, FlagFitsState, Terminal

LEMMA BookRemovedFits ==
  ASSUME NEW o, Fits(o)
  PROVE  Fits(MarkBookRemoved(o))
BY DEF Fits, MarkBookRemoved, TrackedOrder, States, FlagFitsState, Terminal

LEMMA QuarantineFits ==
  ASSUME NEW o, Fits(o)
  PROVE  Fits(Quarantine(o))
BY DEF Fits, Quarantine, TrackedOrder, States, FlagFitsState, Terminal

-----------------------------------------------------------------------------
(* The file. *)

\* A table all of whose orders fit.
FitTable(t) == t \in Tables /\ \A h \in Hashes : t[h] # NoOrder => Fits(t[h])

LEMMA RequireReconciliationFits ==
  ASSUME NEW t, FitTable(t)
  PROVE  /\ FitTable(RequireReconciliation(t))
         /\ Tracked(RequireReconciliation(t)) = Tracked(t)
<1> DEFINE q == RequireReconciliation(t)
<1>1. ASSUME NEW h \in Hashes
      PROVE  /\ t[h] = NoOrder => q[h] = NoOrder
             /\ t[h] # NoOrder => Fits(q[h]) /\ q[h] # NoOrder
  <2>1. q[h] = Quarantine(t[h])
    BY DEF RequireReconciliation
  <2>2. CASE t[h] = NoOrder
    BY <2>1, <2>2 DEF Quarantine
  <2>3. CASE t[h] # NoOrder
    <3>1. Fits(q[h])
      BY <2>1, <2>3, QuarantineFits DEF FitTable
    <3> QED BY <2>3, <3>1, NoOrderAssumption DEF Fits
  <2> QED BY <2>2, <2>3
<1>2. q \in Tables
  BY <1>1 DEF RequireReconciliation, Tables, Fits
<1> QED BY <1>1, <1>2 DEF FitTable, Tracked

LEMMA ReconcileFits ==
  ASSUME NEW t, FitTable(t),
         NEW snapshot \in [Hashes -> RestReports \cup {NoOrder}]
  PROVE  /\ FitTable(Reconcile(t, snapshot))
         /\ Tracked(Reconcile(t, snapshot)) = Tracked(t)
<1> DEFINE q == Reconcile(t, snapshot)
<1>1. ASSUME NEW h \in Hashes
      PROVE  /\ t[h] = NoOrder => q[h] = NoOrder
             /\ t[h] # NoOrder => Fits(q[h]) /\ q[h] # NoOrder
  <2>1. q[h] = IF t[h] = NoOrder THEN NoOrder
               ELSE IF snapshot[h] # NoOrder
                    THEN ApplyRestOrder(t[h], snapshot[h])
                    ELSE Quarantine(t[h])
    BY DEF Reconcile
  <2>2. CASE t[h] = NoOrder
    BY <2>1, <2>2
  <2>3. CASE t[h] # NoOrder
    <3>1. Fits(t[h])
      BY <2>3 DEF FitTable
    <3>2. snapshot[h] # NoOrder => snapshot[h] \in OrderRecord
      BY ReportsAssumption
    <3>3. Fits(q[h])
      BY <2>1, <2>3, <3>1, <3>2, RestOrderFits, QuarantineFits
    <3> QED BY <2>3, <3>3, NoOrderAssumption DEF Fits
  <2> QED BY <2>2, <2>3
<1>2. q \in Tables
  BY <1>1 DEF Reconcile, Tables, Fits
<1> QED BY <1>1, <1>2 DEF FitTable, Tracked

FitImage(f) == f \in Image /\ FitTable(f.orders)

LEMMA WrittenFits ==
  ASSUME NEW f, FitImage(f), NEW t, FitTable(t), NEW S \in SUBSET Tracked(t),
         f.frame = "clean"
  PROVE  /\ FitImage(Written(f, t, S))
         /\ Written(f, t, S).frame = "clean"
         /\ \A h \in Hashes : Written(f, t, S).orders[h] =
                                IF h \in S THEN t[h] ELSE f.orders[h]
<1>1. CASE S = {}
  BY <1>1 DEF Written
<1>2. CASE S # {}
  <2> DEFINE o == [h \in Hashes |-> IF h \in S THEN t[h] ELSE f.orders[h]]
  <2>1. Written(f, t, S) = [f EXCEPT !.orders = o]
    BY <1>2 DEF Written
  <2>2. FitTable(o)
    BY DEF FitTable, FitImage, Tables
  <2>3. o \in Tables
    BY <2>2 DEF FitTable
  <2> HIDE DEF o
  <2>4. /\ [f EXCEPT !.orders = o] \in Image
        /\ [f EXCEPT !.orders = o].orders = o
        /\ [f EXCEPT !.orders = o].frame = "clean"
    BY <2>3 DEF FitImage, Image
  <2>5. \A h \in Hashes : o[h] = IF h \in S THEN t[h] ELSE f.orders[h]
    BY DEF o
  <2> QED BY <2>1, <2>2, <2>4, <2>5 DEF FitImage
<1> QED BY <1>1, <1>2

LEMMA TornFits ==
  ASSUME NEW f, FitImage(f)
  PROVE  /\ FitImage(Torn(f)) /\ Torn(f).orders = f.orders
         /\ Torn(f).frame \in {"absent", "header"} =>
              f.frame \in {"absent", "header"}
BY DEF Torn, FitImage, Image, Frames

LEMMA RepairedFits ==
  ASSUME NEW f, FitImage(f)
  PROVE  /\ FitImage(Repaired(f)) /\ Repaired(f).orders = f.orders
         /\ Replays(f) => Repaired(f).frame = "clean"
         /\ Repaired(f).frame \in {"absent", "header"} =>
              f.frame \in {"absent", "header"}
BY DEF Repaired, FitImage, Image, Frames, Replays

-----------------------------------------------------------------------------
(* The inductive invariant. *)

\* While a tracker is open the file ends with whole frames, and a file
\* without a complete header holds no record.
Framed ==
  /\ up => Current.frame = "clean"
  /\ \A i \in 1..Len(disk) :
       disk[i].frame \in {"absent", "header"} => disk[i].orders = EmptyTable

TrackerInv ==
  /\ up \in BOOLEAN
  /\ FitTable(tracker)
  /\ disk \in Seq(Image) /\ disk # << >>
  /\ \A i \in 1..Len(disk) : FitImage(disk[i])
  /\ limbo \in [Hashes -> SUBSET TrackedOrder]
  /\ PublishedIsDurable
  /\ Framed

LEMMA InvImplies == TrackerInv => TypeOK /\ QuarantineFitsState
BY DEF TrackerInv, TypeOK, QuarantineFitsState, FitTable, FitImage, Fits, Tracked

LEMMA InitInv == TrackerInit => TrackerInv
<1> SUFFICES ASSUME TrackerInit PROVE TrackerInv
  OBVIOUS
<1>1. FitTable(EmptyTable)
  BY DEF FitTable, EmptyTable, Tables
<1>2. FitImage([frame |-> "absent", orders |-> EmptyTable])
  BY <1>1 DEF FitImage, Image, Frames, FitTable
<1>3. /\ Len(disk) = 1 /\ disk[1] = [frame |-> "absent", orders |-> EmptyTable]
      /\ disk \in Seq(Image) /\ disk # << >>
  BY <1>2 DEF TrackerInit, FitImage
<1>4. /\ up = FALSE /\ tracker = EmptyTable
      /\ limbo \in [Hashes -> SUBSET TrackedOrder]
  BY DEF TrackerInit
<1>5. PublishedIsDurable
  BY <1>3, <1>4 DEF PublishedIsDurable
<1>6. Framed
  BY <1>3, <1>4 DEF Framed
<1>7. \A i \in 1..Len(disk) : FitImage(disk[i])
  BY <1>2, <1>3
<1> QED BY <1>1, <1>3, <1>4, <1>5, <1>6, <1>7 DEF TrackerInv

\* The two outcomes of append, for a file f that ends with whole frames.
LEMMA AppendSucceedsInv ==
  ASSUME NEW f, FitImage(f), f.frame = "clean",
         NEW t, FitTable(t), NEW S \in SUBSET Tracked(t),
         limbo \in [Hashes -> SUBSET TrackedOrder],
         \A h \in Hashes \ S : f.orders[h] \in {t[h]} \cup limbo[h],
         AppendSucceeds(f, t, S),
         up' \in BOOLEAN, tracker' = t
  PROVE  TrackerInv'
<1> DEFINE w == Written(f, t, S)
<1>1. /\ FitImage(w) /\ w.frame = "clean"
      /\ \A h \in Hashes : w.orders[h] = IF h \in S THEN t[h] ELSE f.orders[h]
  BY WrittenFits
<1>2. disk' = <<w>>
  BY DEF AppendSucceeds
<1> HIDE DEF w
<1>3. /\ Len(disk') = 1 /\ disk'[1] = w /\ disk' \in Seq(Image) /\ disk' # << >>
      /\ DOMAIN disk' = {1}
  BY <1>1, <1>2 DEF FitImage
<1>4. \A h \in Hashes : limbo'[h] = (IF h \in S THEN {} ELSE limbo[h])
                                      \cap {w.orders[h]}
  BY <1>3 DEF AppendSucceeds, LimboOf
<1>5. limbo' \in [Hashes -> SUBSET TrackedOrder]
  <2>1. limbo' = [h \in Hashes |-> (IF h \in S THEN {} ELSE limbo[h])
                                      \cap {w.orders[h]}]
    BY <1>3 DEF AppendSucceeds, LimboOf
  <2> QED BY <2>1
<1>6. PublishedIsDurable'
  BY <1>1, <1>3, <1>4 DEF PublishedIsDurable
<1>7. Framed'
  BY <1>1, <1>3 DEF Framed, Current
<1> QED BY <1>1, <1>3, <1>5, <1>6, <1>7 DEF TrackerInv

LEMMA AppendFailsInv ==
  ASSUME "torn_append" \notin Faults, TrackerInv,
         NEW f, FitImage(f), f.frame = "clean", f.orders = Current.orders,
         NEW t, FitTable(t), NEW S \in SUBSET Tracked(t),
         AppendFails(f, t, S),
         UNCHANGED <<up, tracker>>
  PROVE  TrackerInv'
<1>1. PICK T \in SUBSET S :
        LET w == Written(f, t, T)
        IN /\ IF w = f
              THEN disk' = [disk EXCEPT ![Len(disk)] = f]
              ELSE disk' = Append(disk, w)
           /\ limbo' = LimboOf([h \in Hashes |-> limbo[h] \cup
                                 IF h \in T THEN {t[h]} ELSE {}], disk')
  BY DEF AppendFails
<1> DEFINE w == Written(f, t, T)
           l == [h \in Hashes |-> limbo[h] \cup IF h \in T THEN {t[h]} ELSE {}]
<1>2. /\ FitImage(w) /\ w.frame = "clean"
      /\ \A h \in Hashes : w.orders[h] = IF h \in T THEN t[h] ELSE f.orders[h]
  BY WrittenFits
<1> HIDE DEF w
<1>3. /\ disk \in Seq(Image) /\ Len(disk) \in Nat \ {0}
      /\ f \in Image /\ w \in Image
      /\ DOMAIN disk = 1..Len(disk)
  BY <1>2 DEF TrackerInv, FitImage
<1>4. /\ disk' \in Seq(Image) /\ disk' # << >>
      /\ disk'[Len(disk')].frame = "clean"
      /\ DOMAIN disk' = 1..Len(disk')
      /\ \A i \in 1..Len(disk') :
           \/ i \in 1..Len(disk) /\ disk'[i] = disk[i]
           \/ disk'[i] = f
           \/ disk'[i] = w
  <2>1. CASE w = f
    <3>1. disk' = [disk EXCEPT ![Len(disk)] = f]
      BY <1>1, <2>1 DEF w
    <3>2. /\ disk' \in Seq(Image) /\ Len(disk') = Len(disk)
          /\ \A i \in 1..Len(disk) :
               disk'[i] = IF i = Len(disk) THEN f ELSE disk[i]
      BY <1>3, <3>1, ExceptSeq
    <3>3. Len(disk) \in 1..Len(disk) /\ Len(disk) # 0
      BY <1>3
    <3>4. disk'[Len(disk)] = f
      BY <3>3, <3>2
    <3>5. disk' # << >> /\ DOMAIN disk' = 1..Len(disk')
      BY <3>3, <3>2
    <3>6. disk'[Len(disk')] = f
      BY <3>4, <3>2
    <3>7. \A i \in 1..Len(disk') :
            \/ i \in 1..Len(disk) /\ disk'[i] = disk[i]
            \/ disk'[i] = f
      BY <3>2
    <3> QED BY <3>2, <3>5, <3>6, <3>7
  <2>2. CASE w # f
    BY <1>1, <1>2, <1>3, <2>2 DEF w
  <2> QED BY <2>1, <2>2
<1>5. \A i \in 1..Len(disk') : FitImage(disk'[i])
  BY <1>2, <1>4 DEF TrackerInv
<1>6. \A h \in Hashes : l[h] = limbo[h] \cup IF h \in T THEN {t[h]} ELSE {}
  OBVIOUS
<1>7. l \in [Hashes -> SUBSET TrackedOrder]
  BY DEF TrackerInv, Tracked, FitTable, Fits
<1>8. limbo' = LimboOf(l, disk')
  BY <1>1
<1> HIDE DEF l
<1>9. \A h \in Hashes : f.orders[h] \in {tracker[h]} \cup limbo[h]
  BY <1>3 DEF TrackerInv, PublishedIsDurable, Current
<1>10. ASSUME NEW i \in 1..Len(disk'), NEW h \in Hashes
       PROVE  disk'[i].orders[h] \in {tracker[h]} \cup l[h]
  <2>1. CASE i \in 1..Len(disk) /\ disk'[i] = disk[i]
    BY <2>1, <1>6 DEF TrackerInv, PublishedIsDurable
  <2>2. CASE disk'[i] = f
    BY <2>2, <1>6, <1>9
  <2>3. CASE disk'[i] = w
    BY <2>3, <1>2, <1>6, <1>9
  <2> QED BY <1>4, <2>1, <2>2, <2>3
<1>11. PublishedIsDurable'
  BY <1>4, <1>8, <1>10 DEF PublishedIsDurable, LimboOf
<1>12. limbo' \in [Hashes -> SUBSET TrackedOrder]
  BY <1>7, <1>8 DEF LimboOf
<1>13. Framed'
  BY <1>2, <1>4 DEF Framed, Current, TrackerInv
<1> QED BY <1>4, <1>5, <1>11, <1>12, <1>13 DEF TrackerInv

\* A facade operation: its next table differs from the published one only in
\* the hashes it journals.
LEMMA JournalInv ==
  ASSUME "torn_append" \notin Faults, TrackerInv, up,
         NEW next, FitTable(next), NEW S \in SUBSET Tracked(next),
         \A h \in Hashes \ S : next[h] = tracker[h],
         Journal(next, S)
  PROVE  TrackerInv'
<1> DEFINE f == Current
<1>1. /\ FitImage(f) /\ f.frame = "clean" /\ f.orders = Current.orders
      /\ \A h \in Hashes : f.orders[h] \in {tracker[h]} \cup limbo[h]
  <2>1. Len(disk) \in 1..Len(disk)
    BY DEF TrackerInv
  <2> QED BY <2>1 DEF TrackerInv, Framed, Current, PublishedIsDurable
<1> HIDE DEF f
<1>2. CASE Persist(next, S)
  <2>1. /\ AppendSucceeds(f, next, S) /\ tracker' = next /\ up' \in BOOLEAN
        /\ limbo \in [Hashes -> SUBSET TrackedOrder]
        /\ \A h \in Hashes \ S : f.orders[h] \in {next[h]} \cup limbo[h]
    BY <1>1, <1>2 DEF Persist, TrackerInv, f
  <2> QED BY <1>1, <2>1, AppendSucceedsInv
<1>3. CASE PersistFails(next, S)
  <2>1. AppendFails(f, next, S) /\ UNCHANGED <<up, tracker>>
    BY <1>3 DEF PersistFails, f
  <2> QED BY <1>1, <2>1, AppendFailsInv
<1> QED BY <1>2, <1>3 DEF Journal

LEMMA JournalOneInv ==
  ASSUME "torn_append" \notin Faults, TrackerInv, up,
         NEW h \in Hashes, NEW o, Fits(o), JournalOne(h, o)
  PROVE  TrackerInv'
<1> DEFINE next == [tracker EXCEPT ![h] = o]
<1>1. FitTable(next)
  BY DEF TrackerInv, FitTable, Tables, Fits
<1>2. /\ {h} \in SUBSET Tracked(next)
      /\ \A k \in Hashes \ {h} : next[k] = tracker[k]
  BY NoOrderAssumption DEF TrackerInv, FitTable, Tables, Fits, Tracked
<1>3. Journal(next, {h})
  BY DEF JournalOne
<1> HIDE DEF next
<1> QED BY <1>1, <1>2, <1>3, JournalInv

\* All the orders a batch operation writes are the tracked ones.
LEMMA JournalAllInv ==
  ASSUME "torn_append" \notin Faults, TrackerInv, up,
         NEW next, FitTable(next), Tracked(next) = Tracked(tracker),
         Journal(next, Tracked(tracker))
  PROVE  TrackerInv'
<1>1. \A h \in Hashes \ Tracked(next) : next[h] = tracker[h]
  BY DEF Tracked
<1> QED BY <1>1, JournalInv

-----------------------------------------------------------------------------
(* Opening and dying. *)

LEMMA CurrentFacts ==
  ASSUME TrackerInv
  PROVE  /\ Len(disk) \in Nat \ {0} /\ Len(disk) \in 1..Len(disk)
         /\ FitImage(Current)
         /\ \A h \in Hashes : Current.orders[h] \in {tracker[h]} \cup limbo[h]
BY DEF TrackerInv, Current, PublishedIsDurable

LEMMA CreateInv ==
  ASSUME TrackerInv, Create
  PROVE  TrackerInv'
<1>1. FitTable(EmptyTable)
  BY DEF FitTable, EmptyTable, Tables
<1>2. FitImage([frame |-> "clean", orders |-> EmptyTable])
  BY <1>1 DEF FitImage, Image, Frames, FitTable
<1>3. /\ Len(disk') = 1 /\ disk'[1] = [frame |-> "clean", orders |-> EmptyTable]
      /\ disk' \in Seq(Image) /\ disk' # << >>
  BY <1>2 DEF Create, FitImage
<1>4. up' = TRUE /\ tracker' = EmptyTable /\ limbo' = limbo
  BY DEF Create
<1>5. PublishedIsDurable'
  BY <1>3, <1>4 DEF PublishedIsDurable
<1>6. Framed'
  BY <1>3, <1>4 DEF Framed, Current
<1>7. \A i \in 1..Len(disk') : FitImage(disk'[i])
  BY <1>2, <1>3
<1> QED BY <1>1, <1>3, <1>4, <1>5, <1>6, <1>7 DEF TrackerInv

LEMMA CreateFailsInv ==
  ASSUME TrackerInv, CreateFails
  PROVE  TrackerInv'
<1>1. PICK frame \in {"clean", "header"} :
        disk' = Append(disk, [frame |-> frame, orders |-> EmptyTable])
  BY DEF CreateFails
<1> DEFINE g == [frame |-> frame, orders |-> EmptyTable]
<1>2. FitTable(EmptyTable)
  BY DEF FitTable, EmptyTable, Tables
<1>3. FitImage(g) /\ g.orders = EmptyTable
  BY <1>2 DEF FitImage, Image, Frames, FitTable
<1>4. ~up /\ up' = up /\ tracker' = tracker /\ limbo' = limbo
  BY DEF CreateFails
<1>5. \A h \in Hashes : tracker[h] = NoOrder
  <2>1. Current.orders = EmptyTable
    BY CurrentFacts DEF CreateFails, TrackerInv, Framed, Current
  <2> QED BY <2>1, CurrentFacts, NoOrderAssumption DEF EmptyTable, TrackerInv
<1> HIDE DEF g
<1>6. /\ disk' \in Seq(Image) /\ disk' # << >>
      /\ \A i \in 1..Len(disk') :
           \/ i \in 1..Len(disk) /\ disk'[i] = disk[i]
           \/ disk'[i] = g
  <2>1. disk \in Seq(Image) /\ g \in Image /\ disk' = Append(disk, g)
    BY <1>1, <1>3 DEF TrackerInv, FitImage, g
  <2> QED BY <2>1
<1>7. PublishedIsDurable'
  BY <1>3, <1>4, <1>5, <1>6 DEF PublishedIsDurable, TrackerInv, EmptyTable
<1>8. Framed'
  BY <1>3, <1>4, <1>6 DEF Framed, TrackerInv
<1> QED BY <1>3, <1>4, <1>6, <1>7, <1>8 DEF TrackerInv

\* The repaired image and the quarantined table open works with.
LEMMA OpenFacts ==
  ASSUME TrackerInv, Replays(Current),
         NEW f, f = Repaired(Current), NEW t, t = RequireReconciliation(f.orders)
  PROVE  /\ FitImage(f) /\ f.frame = "clean" /\ f.orders = Current.orders
         /\ FitTable(t) /\ Tracked(t) = Tracked(f.orders)
         /\ \A h \in Hashes \ Tracked(t) : f.orders[h] = NoOrder /\ t[h] = NoOrder
<1>1. FitImage(f) /\ f.frame = "clean" /\ f.orders = Current.orders
  BY CurrentFacts, RepairedFits
<1>2. FitTable(f.orders)
  BY <1>1 DEF FitImage
<1>3. FitTable(t) /\ Tracked(t) = Tracked(f.orders)
  BY <1>2, RequireReconciliationFits
<1> QED BY <1>1, <1>3 DEF Tracked

LEMMA OpenInv ==
  ASSUME TrackerInv, Open
  PROVE  TrackerInv'
<1> DEFINE f == Repaired(Current)
           t == RequireReconciliation(f.orders)
<1>1. /\ Replays(Current) /\ up' = TRUE /\ tracker' = t
      /\ \/ /\ Tracked(t) = {} /\ limbo' = limbo
            /\ disk' = [disk EXCEPT ![Len(disk)] = f]
         \/ AppendSucceeds(f, t, Tracked(t))
  BY DEF Open
<1>2. /\ FitImage(f) /\ f.frame = "clean" /\ f.orders = Current.orders
      /\ FitTable(t) /\ Tracked(t) = Tracked(f.orders)
      /\ \A h \in Hashes \ Tracked(t) : f.orders[h] = NoOrder /\ t[h] = NoOrder
  BY <1>1, OpenFacts
<1> HIDE DEF f, t
<1>3. limbo \in [Hashes -> SUBSET TrackedOrder]
  BY DEF TrackerInv
<1>4. CASE AppendSucceeds(f, t, Tracked(t))
  BY <1>1, <1>2, <1>3, <1>4, AppendSucceedsInv
<1>5. CASE /\ Tracked(t) = {} /\ limbo' = limbo
           /\ disk' = [disk EXCEPT ![Len(disk)] = f]
  <2>1. \A h \in Hashes : tracker[h] = NoOrder /\ t[h] = NoOrder
    BY <1>2, <1>3, <1>5, CurrentFacts, NoOrderAssumption
  <2>2. disk \in Seq(Image) /\ f \in Image /\ Len(disk) \in 1..Len(disk)
    BY <1>2, CurrentFacts DEF TrackerInv, FitImage
  <2>3. /\ disk' \in Seq(Image) /\ Len(disk') = Len(disk)
        /\ \A i \in 1..Len(disk) :
             disk'[i] = IF i = Len(disk) THEN f ELSE disk[i]
    BY <1>5, <2>2, ExceptSeq
  <2>4. disk' # << >> /\ disk'[Len(disk')] = f
    BY <2>2, <2>3
  <2>5. \A i \in 1..Len(disk') : FitImage(disk'[i])
    BY <1>2, <2>3 DEF TrackerInv
  <2>6. PublishedIsDurable'
    <3>1. \A i \in 1..Len(disk), h \in Hashes :
            /\ disk[i].orders[h] \in {tracker[h]} \cup limbo[h]
            /\ f.orders[h] \in {tracker[h]} \cup limbo[h]
      BY <1>2, CurrentFacts DEF TrackerInv, PublishedIsDurable
    <3>2. \A h \in Hashes : tracker'[h] = tracker[h] /\ limbo'[h] = limbo[h]
      BY <1>1, <1>5, <2>1
    <3> QED BY <2>3, <3>1, <3>2 DEF PublishedIsDurable
  <2>7. Framed'
    BY <1>2, <2>3, <2>4 DEF Framed, Current, TrackerInv
  <2> QED BY <1>1, <1>2, <1>3, <1>5, <2>3, <2>4, <2>5, <2>6, <2>7 DEF TrackerInv
<1> QED BY <1>1, <1>4, <1>5

LEMMA OpenAppendFailsInv ==
  ASSUME "torn_append" \notin Faults, TrackerInv, OpenAppendFails
  PROVE  TrackerInv'
<1> DEFINE f == Repaired(Current)
           t == RequireReconciliation(f.orders)
<1>1. /\ Replays(Current) /\ AppendFails(f, t, Tracked(t))
      /\ UNCHANGED <<up, tracker>>
  BY DEF OpenAppendFails
<1>2. /\ FitImage(f) /\ f.frame = "clean" /\ f.orders = Current.orders
      /\ FitTable(t)
  BY <1>1, OpenFacts
<1> HIDE DEF f, t
<1> QED BY <1>1, <1>2, AppendFailsInv

LEMMA OpenCorruptInv ==
  ASSUME TrackerInv, OpenCorrupt
  PROVE  TrackerInv'
<1>1. ~up /\ up' = up /\ tracker' = tracker /\ limbo' = limbo
  BY DEF OpenCorrupt
<1>2. CASE UNCHANGED disk
  BY <1>1, <1>2 DEF TrackerInv, PublishedIsDurable, Framed, Current
<1>3. CASE disk' = [disk EXCEPT ![Len(disk)] = Repaired(Current)]
  <2> DEFINE f == Repaired(Current)
  <2>1. /\ FitImage(f) /\ f.orders = Current.orders
        /\ f.frame \in {"absent", "header"} =>
             Current.frame \in {"absent", "header"}
    BY CurrentFacts, RepairedFits
  <2> HIDE DEF f
  <2>2. disk \in Seq(Image) /\ f \in Image /\ Len(disk) \in 1..Len(disk)
    BY <2>1, CurrentFacts DEF TrackerInv, FitImage
  <2>3. /\ disk' \in Seq(Image) /\ Len(disk') = Len(disk)
        /\ \A i \in 1..Len(disk) :
             disk'[i] = IF i = Len(disk) THEN f ELSE disk[i]
    BY <1>3, <2>2, ExceptSeq DEF f
  <2>4. disk' # << >>
    BY <2>2, <2>3
  <2>5. \A i \in 1..Len(disk') : FitImage(disk'[i])
    BY <2>1, <2>3 DEF TrackerInv
  <2>6. PublishedIsDurable'
    BY <1>1, <2>1, <2>3, CurrentFacts DEF PublishedIsDurable, TrackerInv
  <2>7. Framed'
    BY <1>1, <2>1, <2>2, <2>3 DEF Framed, Current, TrackerInv
  <2> QED BY <1>1, <2>3, <2>4, <2>5, <2>6, <2>7 DEF TrackerInv
<1> QED BY <1>2, <1>3 DEF OpenCorrupt, Current

LEMMA CrashInv ==
  ASSUME TrackerInv, Crash
  PROVE  TrackerInv'
<1>1. PICK i \in 1..Len(disk), torn \in BOOLEAN :
        disk' = [j \in 1..i |-> IF j = i /\ torn THEN Torn(disk[j]) ELSE disk[j]]
  BY DEF Crash
<1>2. /\ up' = FALSE /\ tracker' = tracker
      /\ limbo' = LimboOf(limbo, disk')
  BY DEF Crash
<1>3. \A j \in 1..Len(disk) :
        /\ FitImage(disk[j]) /\ FitImage(Torn(disk[j]))
        /\ disk[j] \in Image /\ Torn(disk[j]) \in Image
        /\ Torn(disk[j]).orders = disk[j].orders
        /\ Torn(disk[j]).frame \in {"absent", "header"} =>
             disk[j].frame \in {"absent", "header"}
  BY TornFits DEF TrackerInv, FitImage
<1>4. i \in Nat \ {0} /\ Len(disk) \in Nat /\ i <= Len(disk)
  BY DEF TrackerInv
<1>5. /\ disk' \in Seq(Image) /\ Len(disk') = i /\ DOMAIN disk' = 1..i
      /\ \A j \in 1..i : j \in 1..Len(disk) /\ disk'[j] \in {disk[j], Torn(disk[j])}
  BY <1>1, <1>3, <1>4
<1>6. disk' # << >>
  BY <1>4, <1>5
<1>7. \A j \in 1..Len(disk') : FitImage(disk'[j])
  BY <1>3, <1>5
<1>8. \A j \in 1..Len(disk'), h \in Hashes :
        disk'[j].orders[h] \in {tracker[h]} \cup limbo[h]
  BY <1>3, <1>5 DEF TrackerInv, PublishedIsDurable
<1>9. PublishedIsDurable'
  BY <1>2, <1>5, <1>8 DEF PublishedIsDurable, LimboOf
<1>10. limbo' \in [Hashes -> SUBSET TrackedOrder]
  BY <1>2 DEF LimboOf, TrackerInv
<1>11. Framed'
  BY <1>2, <1>3, <1>5 DEF Framed, TrackerInv
<1> QED BY <1>2, <1>5, <1>6, <1>7, <1>9, <1>10, <1>11 DEF TrackerInv

-----------------------------------------------------------------------------
(* The theorems. *)

LEMMA TrackedFits ==
  ASSUME TrackerInv, NEW h \in Hashes, tracker[h] # NoOrder
  PROVE  Fits(tracker[h])
BY DEF TrackerInv, FitTable

LEMMA NextInv ==
  ASSUME "torn_append" \notin Faults, TrackerInv, [TrackerNext]_trackerVars
  PROVE  TrackerInv'
<1>1. ASSUME NEW h \in Hashes, BeginSubmission(h) PROVE TrackerInv'
  BY <1>1, NewSubmissionFits, JournalOneInv DEF BeginSubmission
<1>2. ASSUME NEW h \in Hashes, NEW outcome \in CreateOutcomes,
             CreateOutcome(h, outcome)
      PROVE  TrackerInv'
  BY <1>2, TrackedFits, CreateOutcomeFits, JournalOneInv
     DEF CreateOutcome, IsTracked
<1>3. ASSUME NEW h \in Hashes, SubmissionRejected(h) PROVE TrackerInv'
  BY <1>3, TrackedFits, SubmissionRejectedFits, JournalOneInv
     DEF SubmissionRejected, IsTracked
<1>4. ASSUME NEW h \in Hashes, NEW r \in RestReports, RestOrder(h, r)
      PROVE  TrackerInv'
  BY <1>4, TrackedFits, RestOrderFits, JournalOneInv, ReportsAssumption
     DEF RestOrder, IsTracked
<1>5. ASSUME NEW h \in Hashes, NEW e \in WalletEvents, ForwardedEvent(h, e)
      PROVE  TrackerInv'
  BY <1>5, TrackedFits, WalletEventFits, JournalOneInv, ReportsAssumption
     DEF ForwardedEvent, IsTracked
<1>6. ASSUME NEW h \in Hashes, BookRemoved(h) PROVE TrackerInv'
  BY <1>6, TrackedFits, BookRemovedFits, JournalOneInv
     DEF BookRemoved, IsTracked
<1>7. CASE RequireReconciliationAll
  <2>1. FitTable(tracker)
    BY DEF TrackerInv
  <2> QED BY <1>7, <2>1, RequireReconciliationFits, JournalAllInv
          DEF RequireReconciliationAll
<1>8. ASSUME NEW snapshot \in [Hashes -> RestReports \cup {NoOrder}],
             ReconcileSnapshot(snapshot)
      PROVE  TrackerInv'
  <2>1. FitTable(tracker)
    BY DEF TrackerInv
  <2> QED BY <1>8, <2>1, ReconcileFits, JournalAllInv DEF ReconcileSnapshot
<1>9. CASE Create \/ CreateFails \/ Open \/ OpenAppendFails \/ OpenCorrupt
             \/ Crash
  BY <1>9, CreateInv, CreateFailsInv, OpenInv, OpenAppendFailsInv,
     OpenCorruptInv, CrashInv
<1>10. CASE UNCHANGED trackerVars
  BY <1>10 DEF trackerVars, TrackerInv, PublishedIsDurable, Framed, Current
<1> QED
  BY <1>1, <1>2, <1>3, <1>4, <1>5, <1>6, <1>7, <1>8, <1>9, <1>10
     DEF TrackerNext

\* If a failed append leaves whole frames or none, then whatever fails and
\* whenever the process dies: the types hold, every surviving journal holds for
\* each hash the published record or one that failed after it, and the
\* quarantine flag fits the state in memory and on disk.
THEOREM TrackerSafety ==
  ASSUME "torn_append" \notin Faults
  PROVE  TrackerSpec => [](TypeOK /\ PublishedIsDurable /\ QuarantineFitsState)
<1>1. TrackerInit => TrackerInv
  BY InitInv
<1>2. TrackerInv /\ [TrackerNext]_trackerVars => TrackerInv'
  BY NextInv
<1>3. TrackerInv => TypeOK /\ PublishedIsDurable /\ QuarantineFitsState
  BY InvImplies DEF TrackerInv
<1> QED BY <1>1, <1>2, <1>3, PTL DEF TrackerSpec

\* Under the same assumption, a tracker that opens holds for every hash what
\* was last published for it, or what failed to be appended after that, and
\* quarantines it unless it is terminal.
THEOREM RecoveryFaithful ==
  ASSUME "torn_append" \notin Faults
  PROVE  TrackerSpec => RecoveryIsFaithful
<1> DEFINE Faithful ==
      ~up /\ up' =>
        \A h \in Hashes :
          \E o \in {tracker[h]} \cup limbo[h] : tracker'[h] = Quarantine(o)
<1>1. TrackerInit => TrackerInv
  BY InitInv
<1>2. TrackerInv /\ [TrackerNext]_trackerVars => TrackerInv'
  BY NextInv
<1>3. TrackerInv /\ [TrackerNext]_trackerVars => [Faithful]_trackerVars
  <2> SUFFICES ASSUME TrackerInv, TrackerNext, ~up, up', NEW h \in Hashes
               PROVE  \E o \in {tracker[h]} \cup limbo[h] :
                        tracker'[h] = Quarantine(o)
    BY DEF Faithful
  <2>1. CASE Open
    <3>1. tracker' = RequireReconciliation(Current.orders)
      BY <2>1, OpenFacts DEF Open
    <3>2. Current.orders[h] \in {tracker[h]} \cup limbo[h]
      BY CurrentFacts
    <3> QED BY <3>1, <3>2 DEF RequireReconciliation
  <2>2. CASE Create
    <3>1. Current.orders = EmptyTable
      BY <2>2, CurrentFacts DEF Create, TrackerInv, Framed, Current
    <3>2. NoOrder \in {tracker[h]} \cup limbo[h]
      BY <3>1, CurrentFacts DEF EmptyTable
    <3> QED BY <2>2, <3>2 DEF Create, EmptyTable, Quarantine
  <2>3. Open \/ Create
    BY DEF TrackerNext, BeginSubmission, CreateOutcome, SubmissionRejected,
       RestOrder, ForwardedEvent, BookRemoved, IsTracked,
       RequireReconciliationAll, ReconcileSnapshot, CreateFails,
       OpenAppendFails, OpenCorrupt, Crash
  <2> QED BY <2>1, <2>2, <2>3
<1> QED BY <1>1, <1>2, <1>3, PTL DEF TrackerSpec, RecoveryIsFaithful

=============================================================================
