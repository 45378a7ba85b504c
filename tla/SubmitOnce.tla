----------------------------- MODULE SubmitOnce -----------------------------
(***************************************************************************)
(* What an order session promises of each order hash, without journals,    *)
(* requests or crashes: an intent to submit is recorded, then used for one *)
(* create request or given up, and never comes back.                       *)
(*   free    nothing is recorded for the hash                              *)
(*   armed   recorded; its create request may be sent                      *)
(*   posted  its create request was sent                                   *)
(*   void    recorded; its create request will never be sent               *)
(***************************************************************************)
CONSTANT Hashes
VARIABLE intent

Intents == {"free", "armed", "posted", "void"}

OnceInit == intent = [h \in Hashes |-> "free"]

Arm(h) ==
  /\ intent[h] = "free"
  /\ intent' = [intent EXCEPT ![h] = "armed"]

Post(h) ==
  /\ intent[h] = "armed"
  /\ intent' = [intent EXCEPT ![h] = "posted"]

\* A crash or a refusal gives up the intents of S.
GiveUp(S) ==
  /\ \A h \in S : intent[h] \in {"free", "armed"}
  /\ intent' = [h \in Hashes |-> IF h \in S THEN "void" ELSE intent[h]]

OnceNext ==
  \/ \E h \in Hashes : Arm(h) \/ Post(h)
  \/ \E S \in SUBSET Hashes : GiveUp(S)

OnceSpec == OnceInit /\ [][OnceNext]_intent

=============================================================================
