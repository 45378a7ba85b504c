---------------------------- MODULE MCAcceptance ----------------------------
(* Two sessions over a scope with two approvals. *)
EXTENDS Acceptance

MCPlanned == <<"exchange", "adapter">>

MCMenu == [o \in Calls |-> {[kind |-> "approvals", steps |-> MCPlanned, options |-> {}]}]

=============================================================================
