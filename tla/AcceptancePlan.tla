--------------------------- MODULE AcceptancePlan ---------------------------
(***************************************************************************)
(* The plans, command lines and confirmation phrases of the acceptance     *)
(* tool (tools/testnet_acceptance_support.cpp) and the transaction a plan  *)
(* is turned into (tools/testnet_acceptance.cpp).  A command line is a     *)
(* mode and a sequence of flags with their values, a name or a number; a   *)
(* phrase is the sequence of its space-separated words.                    *)
(***************************************************************************)
EXTENDS Positions

NewPlan ==
  [operation |-> "none", condition_id |-> <<>>, neg_risk_on_chain_id |-> <<>>,
   amount |-> <<>>, index_set |-> <<>>, token_ids |-> <<>>,
   is_neg_risk |-> FALSE, is_yield_bearing |-> FALSE]

Missing(option) == option \in {<<>>, <<0>>}

AmountMissing(plan) ==
  (plan.operation # "redeem" \/ plan.is_neg_risk) /\ Missing(plan.amount)

validate_testnet_position_plan(plan) ==
  LET tokens == Len(plan.token_ids)
      paired == plan.operation \in {"split", "merge"}
  IN  ~ \/ plan.operation = "none"
        \/ plan.operation = "convert"
           /\ (plan.neg_risk_on_chain_id = <<>> \/ Missing(plan.index_set))
        \/ plan.operation # "convert" /\ plan.condition_id = <<>>
        \/ AmountMissing(plan)
        \/ plan.operation = "redeem" /\ plan.index_set \notin {<<1>>, <<2>>}
        \/ tokens < (IF paired THEN 2 ELSE 1) \/ (paired /\ tokens # 2)
        \/ plan.operation = "redeem" /\ tokens > 2
        \/ \E i \in DOMAIN plan.token_ids : plan.token_ids[i] = 0
        \/ \E i, j \in DOMAIN plan.token_ids :
             i # j /\ plan.token_ids[i] = plan.token_ids[j]

position_approval_scope(plan) ==
  [operation |-> plan.operation,
   is_neg_risk |-> plan.operation = "convert" \/ plan.is_neg_risk,
   is_yield_bearing |-> plan.is_yield_bearing, side |-> "both"]

position_transaction(plan) ==
  LET pair == [condition_id |-> plan.condition_id[1], amount |-> plan.amount[1],
               is_neg_risk |-> plan.is_neg_risk,
               is_yield_bearing |-> plan.is_yield_bearing]
  IN  CASE plan.operation = "split" -> split_transaction(pair, DefaultRoute)
        [] plan.operation = "merge" -> merge_transaction(pair, DefaultRoute)
        [] plan.operation = "redeem" ->
             redeem_transaction(
               [condition_id |-> plan.condition_id[1], amount |-> plan.amount,
                index_set |-> IF plan.index_set = <<1>> THEN 1 ELSE 2,
                is_neg_risk |-> plan.is_neg_risk,
                is_yield_bearing |-> plan.is_yield_bearing],
               DefaultRoute)
        [] OTHER ->
             convert_transaction(
               [neg_risk_on_chain_id |-> plan.neg_risk_on_chain_id[1],
                index_set |-> plan.index_set[1], amount |-> plan.amount[1],
                is_yield_bearing |-> plan.is_yield_bearing],
               DefaultRoute)

position_token_contract(plan) ==
  conditional_tokens(plan.operation = "convert" \/ plan.is_neg_risk,
                     plan.is_yield_bearing)

testnet_position_operation_code(plan) ==
  <<plan.operation, plan.operation = "convert" \/ plan.is_neg_risk,
    plan.is_yield_bearing>>

testnet_position_confirmation(owner, plan) ==
  <<owner, testnet_position_operation_code(plan),
    IF plan.operation = "convert" THEN plan.neg_risk_on_chain_id ELSE plan.condition_id,
    plan.amount, plan.index_set, plan.token_ids>>

approval_scope_code(scope) ==
  <<scope.operation, IF scope.operation = "trade" THEN scope.side ELSE "",
    scope.is_neg_risk, scope.is_yield_bearing>>

testnet_approval_confirmation(owner, scope, amount) ==
  <<owner, approval_scope_code(scope), amount>>

-----------------------------------------------------------------------------
(* The command line. *)

NewScope == [operation |-> "trade", side |-> "both", is_neg_risk |-> FALSE,
             is_yield_bearing |-> FALSE]

PositionModes == {"position-probe", "position-execute"}
WriteModes == {"approve", "position-execute"}

\* The optional position is there in a position mode.
NewOptions(mode) ==
  [error |-> "none", mode |-> mode, help |-> FALSE, execute |-> FALSE,
   owner |-> <<>>, scope |-> NewScope, position |-> NewPlan,
   approval_amount |-> <<>>, evidence |-> <<>>, secrets |-> <<>>,
   confirmation |-> <<>>,
   endpoint |-> [host |-> "default", port |-> "default", target |-> "/"]]

parse_scope(value) ==
  CASE value = "trade-buy" -> [NewScope EXCEPT !.side = "buy"]
    [] value = "trade-sell" -> [NewScope EXCEPT !.side = "sell"]
    [] value = "convert" -> [NewScope EXCEPT !.operation = value, !.is_neg_risk = TRUE]
    [] OTHER -> [NewScope EXCEPT !.operation = value]

\* Variant: the scope's flags start anew.
ScopedAnew(options, value) == [options EXCEPT !.scope = parse_scope(value)]

\* The flags given so far stay.
Scoped(options, value) ==
  LET scope == parse_scope(value)
  IN  [options EXCEPT !.scope = [scope EXCEPT
         !.is_neg_risk = @ \/ options.scope.is_neg_risk,
         !.is_yield_bearing = options.scope.is_yield_bearing]]

PlanFields == [f \in {"--operation", "--condition-id", "--neg-risk-on-chain-id",
                      "--amount", "--index-set", "--token-id"} |->
                 CASE f = "--operation" -> "operation"
                   [] f = "--condition-id" -> "condition_id"
                   [] f = "--neg-risk-on-chain-id" -> "neg_risk_on_chain_id"
                   [] f = "--amount" -> "amount"
                   [] f = "--index-set" -> "index_set"
                   [] OTHER -> "token_ids"]

OptionFields == [f \in {"--owner", "--evidence", "--secret-env-file"} |->
                   CASE f = "--owner" -> "owner" [] f = "--evidence" -> "evidence"
                     [] OTHER -> "secrets"]

EndpointFields == [f \in {"--rpc-host", "--rpc-port", "--rpc-target"} |->
                     CASE f = "--rpc-host" -> "host" [] f = "--rpc-port" -> "port"
                       [] OTHER -> "target"]

\* A target that is neither empty nor absolute is called "relative".
EndpointInvalid(endpoint) ==
  \/ "" \in {endpoint.host, endpoint.port, endpoint.target}
  \/ endpoint.target = "relative"

\* A flag of the plan, which only a position mode takes.
Planned(options, argument) ==
  [options EXCEPT !.position[PlanFields[argument.flag]] =
     CASE argument.flag = "--operation" -> argument.name
       [] argument.flag = "--token-id" -> Append(@, argument.number)
       [] OTHER -> <<argument.number>>]

\* One argument.  A value that cannot be parsed, or that is missing, is given
\* as the flag "malformed".
ParseArgument(options, argument) ==
  LET flag == argument.flag
      position == options.mode \in PositionModes
      Set(field) == [options EXCEPT !.scope[field] = TRUE,
                                    !.position[field] = position \/ @]
  IN  CASE options.error # "none" -> options
        [] flag = "--help" -> [options EXCEPT !.help = TRUE]
        [] flag = "--execute" -> [options EXCEPT !.execute = TRUE]
        [] flag = "--neg-risk" -> Set("is_neg_risk")
        [] flag = "--yield-bearing" -> Set("is_yield_bearing")
        [] flag = "--scope" /\ ~position -> Scoped(options, argument.name)
        [] flag = "--approval-amount" /\ ~position /\ argument.number # 0 ->
             [options EXCEPT !.approval_amount = <<argument.number>>]
        [] flag \in DOMAIN PlanFields /\ position ->
             Planned(options, argument)
        [] flag \in DOMAIN OptionFields ->
             [options EXCEPT ![OptionFields[flag]] = <<argument.number>>]
        [] flag = "--confirm" -> [options EXCEPT !.confirmation = argument.phrase]
        [] flag \in DOMAIN EndpointFields ->
             [options EXCEPT !.endpoint[EndpointFields[flag]] = argument.name]
        [] OTHER -> [options EXCEPT !.error = "invalid_argument"]

parse_testnet_acceptance_arguments(mode, arguments) ==
  LET options == FoldLeft(ParseArgument, NewOptions(mode), arguments)
      position == mode \in PositionModes
  IN  CASE mode = "--help" -> [NewOptions(mode) EXCEPT !.help = TRUE]
        [] mode \notin PositionModes \cup {"probe", "approve"} -> Invalid
        [] options.error # "none" \/ options.help -> options
        [] \/ options.owner = <<>> \/ EndpointInvalid(options.endpoint)
           \/ options.scope.operation = "convert" /\ ~options.scope.is_neg_risk
           \/ position /\ ~validate_testnet_position_plan(options.position)
           \/ options.secrets # <<>> /\ mode \notin WriteModes -> Invalid
        [] position -> [options EXCEPT
                          !.scope = position_approval_scope(options.position)]
        [] OTHER -> options

validate_testnet_write_gate(options) ==
  /\ options.mode = "approve" /\ options.execute
  /\ options.owner # <<>> /\ options.evidence # <<>>
  /\ options.confirmation = testnet_approval_confirmation(
       options.owner[1], options.scope, options.approval_amount)

validate_testnet_position_write_gate(options) ==
  /\ options.mode = "position-execute" /\ options.execute
  /\ options.evidence # <<>>
  /\ options.confirmation = testnet_position_confirmation(
       options.owner[1], options.position)

=============================================================================
