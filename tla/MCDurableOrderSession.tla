----------------------- MODULE MCDurableOrderSession ------------------------
(* Instances of DurableOrderSession for TLC. *)
EXTENDS DurableOrderSession, TLC

CONSTANTS h1, h2, c1, c2

MCOneHash == {h1}
MCHashes == {h1, h2}
MCCursors == {c1, c2}
AllFates == {"part", "filled"} \cup Dead

\* Every report there is, with sound amounts.
AllReports == {r \in OrderRecord : r.sound}
AllEvents == {e \in WalletEvent : e.sound}

\* What an order that is open, filled or cancelled shows.
FewReports ==
  {r \in AllReports : \/ r.status = "open" /\ r.fill = "zero"
                      \/ r.status = "matched" /\ r.fill = "full"
                      \/ r.status = "cancelled" /\ r.fill = "zero"}
FewEvents ==
  {e \in AllEvents :
     \/ e.type = "order_accepted" /\ e.fill = "zero"
     \/ e.type = "order_transaction_success" /\ e.fill = "full"}

\* Only open orders are reported, and no wallet events.
OpenReports == {r \in FewReports : r.status = "open"}
Symmetry == Permutations(MCHashes)

=============================================================================
