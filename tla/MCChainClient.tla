---------------------------- MODULE MCChainClient ----------------------------
(* Two calls: the first may be anything, the second competes for the nonce.  *)
(* The approval runs have two steps, one of them named twice.                *)
EXTENDS ChainClient, TLC

Method(kind, steps, options) ==
  [kind |-> kind, steps |-> steps, options |-> options]

Plan == <<"exchange", "adapter", "exchange">>

MCMenu ==
  (1 :> {Method("chain", <<>>, {}), Method("read", <<>>, {}),
         Method("checks", <<"exchange", "adapter">>, {}),
         Method("checks", <<>>, {}), Method("execute", <<>>, {"deadline"}),
         Method("execute", <<>>, {"unsigned"})}
        \cup {Method("approvals", Plan, options) : options \in
               {{"skip", "stop", "deadline"}, {"skip"}, {"unrouted"},
                {"skip", "unrouted"}}})
  @@ (2 :> {Method("execute", <<>>, {})})

=============================================================================
