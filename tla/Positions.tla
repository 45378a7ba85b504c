------------------------------ MODULE Positions ------------------------------
(***************************************************************************)
(* Position operations and the approvals they need                         *)
(* (src/chain_operations.cpp, src/chain_approvals.cpp, the registry of     *)
(* src/order_types.cpp).                                                   *)
(*                                                                         *)
(* An address is a sequence of AddressBytes bytes.  Ids and amounts are    *)
(* numbers; an optional value is a sequence of at most one.                *)
(***************************************************************************)
EXTENDS ChainEncoding

CONSTANT Registry     \* the addresses of a chain's contracts

Contracts ==
  {"yield_exchange", "yield_neg_exchange", "yield_neg_adapter", "yield_tokens",
   "yield_neg_tokens", "exchange", "neg_exchange", "neg_adapter", "tokens",
   "neg_tokens", "usdt"}

ASSUME RegistryAssumption ==
  /\ DOMAIN Registry = Contracts
  /\ \A c \in Contracts : Len(Registry[c]) = AddressBytes

\* The methods called, in the order of their selectors.
Methods ==
  <<"splitPosition(bytes32,uint256)",
    "splitPosition(address,bytes32,bytes32,uint256[],uint256)",
    "mergePositions(bytes32,uint256)",
    "mergePositions(address,bytes32,bytes32,uint256[],uint256)",
    "redeemPositions(bytes32,uint256[])",
    "redeemPositions(address,bytes32,bytes32,uint256[])",
    "convertPositions(bytes32,uint256,uint256)",
    "execute(bytes32,bytes)", "approve(address,uint256)",
    "setApprovalForAll(address,bool)", "cancelOrders(tuple[])">>

Selector(method) == <<CHOOSE i \in DOMAIN Methods : Methods[i] = method>>

Invalid == [error |-> "invalid_argument"]

\* A scope and an operation say whether their market is of negative risk and
\* whether it bears yield.
exchange_address(kind) ==
  Registry[IF kind.is_yield_bearing
           THEN (IF kind.is_neg_risk THEN "yield_neg_exchange" ELSE "yield_exchange")
           ELSE (IF kind.is_neg_risk THEN "neg_exchange" ELSE "exchange")]

conditional_tokens(neg_risk, yield) ==
  Registry[IF yield THEN (IF neg_risk THEN "yield_neg_tokens" ELSE "yield_tokens")
                    ELSE (IF neg_risk THEN "neg_tokens" ELSE "tokens")]

neg_adapter(yield) == Registry[IF yield THEN "yield_neg_adapter" ELSE "neg_adapter"]

-----------------------------------------------------------------------------
(* Approvals. *)

Erc20(spender) ==
  [kind |-> "erc20_allowance", spender |-> spender, token |-> Registry["usdt"]]

Erc1155(spender, token) ==
  [kind |-> "erc1155_operator", spender |-> spender, token |-> token]

Only(condition, step) == IF condition THEN <<step>> ELSE <<>>

SplitStep(scope) ==
  Erc20(IF scope.is_neg_risk THEN neg_adapter(scope.is_yield_bearing)
        ELSE conditional_tokens(FALSE, scope.is_yield_bearing))

approval_steps(scope) ==
  LET ctf == conditional_tokens(scope.is_neg_risk, scope.is_yield_bearing)
      exchange == exchange_address(scope)
      adapter == Erc1155(neg_adapter(scope.is_yield_bearing), ctf)
      steps == CASE scope.operation = "trade" ->
                      Only(scope.side # "buy", Erc1155(exchange, ctf))
                        \o Only(scope.is_neg_risk, adapter)
                        \o Only(scope.side # "sell", Erc20(exchange))
                 [] scope.operation = "split" -> <<SplitStep(scope)>>
                 [] OTHER -> Only(scope.is_neg_risk, adapter)
  IN  IF scope.operation = "convert" /\ ~scope.is_neg_risk THEN Invalid
      ELSE [error |-> "none", steps |-> steps]

\* The id of a step: its kind and its spender.
StepId(step) == <<step.kind, step.spender>>

AddStep(steps, step) ==
  IF \E i \in DOMAIN steps : StepId(steps[i]) = StepId(step) THEN steps
  ELSE Append(steps, step)

\* The steps of every operation but a conversion, on the tracks asked for.
all_approval_steps(is_yield_bearing) ==
  LET Scopes(yield, neg) ==
        [i \in 1..4 |-> [operation |-> <<"trade", "split", "merge", "redeem">>[i],
                         is_neg_risk |-> neg, is_yield_bearing |-> yield,
                         side |-> "both"]]
      Track(yield) == IF is_yield_bearing \in {<<>>, <<yield>>}
                      THEN Scopes(yield, FALSE) \o Scopes(yield, TRUE) ELSE <<>>
      scopes == Track(FALSE) \o Track(TRUE)
      candidates == FlattenSeq([i \in DOMAIN scopes |-> approval_steps(scopes[i]).steps])
  IN  FoldLeft(AddStep, <<>>, candidates)

Transaction(to, data) == [error |-> "none", to |-> to, data |-> data, value |-> 0]

\* Without an amount the allowance is unlimited.
approval_transaction(step, amount, approved) ==
  LET allowance == IF approved THEN (IF amount = <<>> THEN 256 ^ WordBytes - 1 ELSE amount[1])
                               ELSE 0
  IN  Transaction(step.token,
        IF step.kind = "erc1155_operator"
        THEN encode_call(Selector("setApprovalForAll(address,bool)"),
                         <<address_word(step.spender), word(IF approved THEN 1 ELSE 0)>>)
        ELSE encode_call(Selector("approve(address,uint256)"),
                         <<address_word(step.spender), word(allowance)>>))

-----------------------------------------------------------------------------
(* Operations. *)

RoutedData(tx) ==
  encode_call_with_bytes(Selector("execute(bytes32,bytes)"), <<word(0)>>,
                         tx.to \o word(tx.value) \o tx.data)

\* RouteOptions, as they are by default.
DefaultRoute == [route |-> "eoa", predict_account |-> <<>>]

route_transaction(tx, route) ==
  LET account == route.predict_account
  IN  CASE route.route = "eoa" -> tx
        [] account = <<>> \/ account[1] = Zeros(AddressBytes) -> Invalid
        [] OTHER -> Transaction(account[1], RoutedData(tx))

\* Every operation ends here: a transaction that was not refused is routed.
Routed(direct, route) ==
  IF direct.error # "none" THEN direct ELSE route_transaction(direct, route)

InvalidPosition(operation) == operation.condition_id = 0 \/ operation.amount = 0

\* The standard call: collateral, parent collection, condition, index sets.
StandardCall(method, operation, sets, after) ==
  Transaction(conditional_tokens(FALSE, operation.is_yield_bearing),
    encode_call_with_uint_array(Selector(method),
      <<address_word(Registry["usdt"]), word(0), word(operation.condition_id)>>,
      sets, after))

AdapterCall(operation, data) == Transaction(neg_adapter(operation.is_yield_bearing), data)

\* split_transaction and merge_transaction, which differ in the methods.
PairTransaction(operation, neg_method, method) ==
  CASE InvalidPosition(operation) -> Invalid
    [] operation.is_neg_risk ->
         AdapterCall(operation, encode_call(Selector(neg_method),
           <<word(operation.condition_id), word(operation.amount)>>))
    [] OTHER -> StandardCall(method, operation, <<1, 2>>, <<word(operation.amount)>>)

split_transaction(operation, route) ==
  Routed(PairTransaction(operation, "splitPosition(bytes32,uint256)",
                         "splitPosition(address,bytes32,bytes32,uint256[],uint256)"),
         route)

merge_transaction(operation, route) ==
  Routed(PairTransaction(operation, "mergePositions(bytes32,uint256)",
                         "mergePositions(address,bytes32,bytes32,uint256[],uint256)"),
         route)

RedeemDirect(operation) ==
  LET of(set) == IF operation.index_set = set THEN operation.amount[1] ELSE 0
  IN  CASE \/ operation.condition_id = 0 \/ operation.index_set \notin {1, 2}
           \/ operation.is_neg_risk /\ operation.amount \in {<<>>, <<0>>} -> Invalid
        [] operation.is_neg_risk ->
             AdapterCall(operation, encode_call_with_uint_array(
               Selector("redeemPositions(bytes32,uint256[])"),
               <<word(operation.condition_id)>>, <<of(1), of(2)>>, <<>>))
        [] OTHER -> StandardCall("redeemPositions(address,bytes32,bytes32,uint256[])",
                                 operation, <<operation.index_set>>, <<>>)

redeem_transaction(operation, route) == Routed(RedeemDirect(operation), route)

ConvertDirect(operation) ==
  IF \E id \in {"neg_risk_on_chain_id", "index_set", "amount"} : operation[id] = 0
  THEN Invalid
  ELSE AdapterCall(operation, encode_call(Selector("convertPositions(bytes32,uint256,uint256)"),
         <<word(operation.neg_risk_on_chain_id), word(operation.index_set),
           word(operation.amount)>>))

convert_transaction(operation, route) == Routed(ConvertDirect(operation), route)

\* An order's static fields, the offset of its signature, the signature.  A
\* private order's taker is an address, any other's the zero word.
encode_order_tuple(order) ==
  FlattenSeq(<<word(order.salt), address_word(order.maker), address_word(order.signer),
               IF order.taker = <<>> THEN word(0) ELSE address_word(order.taker[1]),
               word(order.token_id), word(order.maker_amount), word(order.taker_amount),
               word(order.expiration), word(order.nonce), word(order.fee_rate_bps),
               word(order.side), word(order.signature_type),
               word(13 * WordBytes), word(Len(order.signature))>>)
    \o Padded(order.signature)

\* Variant: offsets count from the first tuple.
TupleOffsetFromTuples(tuples, i) == Len(FlattenSeq(SubSeq(tuples, 1, i - 1)))

\* Where the i-th tuple starts, from the first offset on.
TupleOffset(tuples, i) ==
  (Len(tuples) * WordBytes) + Len(FlattenSeq(SubSeq(tuples, 1, i - 1)))

encode_cancel_orders(orders) ==
  LET tuples == [i \in DOMAIN orders |-> encode_order_tuple(orders[i])]
  IN  Selector("cancelOrders(tuple[])") \o word(WordBytes) \o word(Len(orders))
        \o FlattenSeq([i \in DOMAIN tuples |-> word(TupleOffset(tuples, i))])
        \o FlattenSeq(tuples)

\* The transaction is optional: without orders there is none to send, and the
\* route is not looked at.  An order without a signature is refused.
cancel_orders_transaction(orders, kind, route) ==
  LET unsigned == \E i \in DOMAIN orders : orders[i].signature = <<>>
      direct == IF unsigned THEN [error |-> "invalid_field"]
                ELSE Transaction(exchange_address(kind), encode_cancel_orders(orders))
      routed == Routed(direct, route)
  IN  CASE orders = <<>> -> [error |-> "none", transaction |-> <<>>]
        [] routed.error # "none" -> routed
        [] OTHER -> [error |-> "none", transaction |-> <<routed>>]

=============================================================================
