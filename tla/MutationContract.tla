-------------------------- MODULE MutationContract --------------------------
(***************************************************************************)
(* What a trading mutation promises (include/predictfun/types/trading.hpp, *)
(* MutationOutcome): it is called back once.  An error says that the venue *)
(* did not act: the request was refused before it was sent and will never  *)
(* be sent, or the venue rejected it.  Everything else that is not an      *)
(* acknowledgement is ambiguous, and an ambiguous request may still be     *)
(* about to go out.                                                        *)
(***************************************************************************)
VARIABLES
  outcome,   \* what the handler was called with
  wired      \* the request is on the network

contractVars == <<outcome, wired>>

ContractInit == outcome = "pending" /\ wired = FALSE

GoOut ==
  /\ outcome \in {"pending", "ambiguous"} /\ ~wired
  /\ wired' = TRUE /\ UNCHANGED outcome

Refuse ==
  /\ outcome = "pending" /\ ~wired
  /\ outcome' = "refused" /\ UNCHANGED wired

Settle ==
  /\ outcome = "pending" /\ wired
  /\ outcome' \in {"acknowledged", "rejected"} /\ UNCHANGED wired

GiveUp ==
  /\ outcome = "pending"
  /\ outcome' = "ambiguous" /\ UNCHANGED wired

ContractSpec ==
  ContractInit /\ [][GoOut \/ Refuse \/ Settle \/ GiveUp]_contractVars

=============================================================================
