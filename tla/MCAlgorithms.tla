---------------------------- MODULE MCAlgorithms ----------------------------
(***************************************************************************)
(* The pure parts of the library against reference definitions: every call *)
(* of a bounded set of calls is one step, and the properties say what its  *)
(* result must be.                                                         *)
(***************************************************************************)
EXTENDS OrderAmounts, Liquidity, AcceptancePlan

VARIABLE call     \* the operation called, and its arguments

MCRegistry ==
  [c \in Contracts |->
     CASE c = "yield_exchange" -> <<1>> [] c = "yield_neg_exchange" -> <<2>>
       [] c = "yield_neg_adapter" -> <<3>> [] c = "yield_tokens" -> <<4>>
       [] c = "yield_neg_tokens" -> <<5>> [] c = "exchange" -> <<6>>
       [] c = "neg_exchange" -> <<7>> [] c = "neg_adapter" -> <<8>>
       [] c \in {"tokens", "neg_tokens"} -> <<9>> [] OTHER -> <<10>>]

UpTo(n, S) == UNION {[1..k -> S] : k \in 0..n}
Optional(S) == {<<>>} \cup {<<x>> : x \in S}

Operations ==
  {"decimal", "truncate", "fixed", "no_book", "limit", "market", "value", "round_trip",
   "transaction", "quantity", "cancel", "plan", "approvals", "arguments"}

\* The operation is chosen first, then its arguments.
Init == call \in [op : Operations]

Made == "in" \in DOMAIN call

Calls(name, arguments) ==
  /\ call.op = name /\ ~Made
  /\ \E a \in arguments : call' = [op |-> name, in |-> a]

-----------------------------------------------------------------------------
(* Inputs. *)

Texts ==
  {t \in [sign : {"none", "-"}, whole : UpTo(2, {0, 1, 9}), points : {0, 1, 2},
          fraction : UpTo(3, {0, 5}), characters : {"digits", "other"},
          exponent : Optional([sign : {"none", "-", "+"}, value : {0, 1, 3}])] :
     /\ t.points = 0 => t.fraction = <<>>
     /\ t.characters = "other" => t.sign = "none" /\ t.exponent = <<>>}

DepthLevels == [price : {33, 50, 100}, quantity : {1, 7, 30}]
Depths == UpTo(3, DepthLevels) \cup {<<[price |-> p, quantity |-> 7]>> : p \in {0, 101}}

\* Levels worth a value order: its minimum is a token.
ValueDepths == UpTo(3, [price : {33, 50, 100}, quantity : {1, 70, 150}])
                 \cup {<<[price |-> p, quantity |-> 7]>> : p \in {0, 101}}

\* Tick precisions 1 and 2, quantities of either scale.
BookLevels ==
  [price : {Price(t, 1) : t \in {0, 3, 10}} \cup {Price(t, 2) : t \in {33, 50}},
   quantity : {FixedDecimal(3, 2), FixedDecimal(1, 0), FixedDecimal(15, 1)}]
Sides == UpTo(2, BookLevels)

Numbers == {0, 1, 127, 128, 256}
Data == {<<>>, <<0>>, <<128>>} \cup {[i \in 1..n |-> i % 256] : n \in {2, 40, 55, 56, 57, 260}}

Orders ==
  [salt : {700}, maker : {<<1>>}, signer : {<<1>>}, taker : Optional({<<2>>}),
   token_id : {5}, maker_amount : {1, 600}, taker_amount : {2}, expiration : {300},
   nonce : {0}, fee_rate_bps : {4}, side : {0, 1}, signature_type : {0},
   signature : {<<>>, <<17>>, <<1, 2, 3>>}]

\* The account's own transaction, and the routes through a Predict Account.
Account == <<77>>
Routes ==
  {DefaultRoute} \cup [route : {"predict_account"},
                      predict_account : Optional({Zeros(AddressBytes), Account})]

Plans ==
  [operation : {"none", "split", "merge", "redeem", "convert"},
   condition_id : Optional({7}), neg_risk_on_chain_id : Optional({8}),
   amount : Optional({0, 3}), index_set : Optional({1, 2, 3}),
   token_ids : {<<>>, <<1>>, <<1, 2>>, <<1, 1>>, <<0, 1>>, <<1, 2, 3>>},
   is_neg_risk : BOOLEAN, is_yield_bearing : BOOLEAN]

\* Plans to tell apart: every identifier, amount and token has another one.
ValidPlans ==
  {plan \in [operation : {"split", "merge", "redeem", "convert"},
             condition_id : Optional({7, 9}), neg_risk_on_chain_id : Optional({8, 9}),
             amount : Optional({0, 3, 4}), index_set : Optional({1, 2, 3}),
             token_ids : {<<1>>, <<1, 2>>, <<2, 1>>, <<1, 3>>, <<1, 2, 3>>},
             is_neg_risk : BOOLEAN, is_yield_bearing : BOOLEAN] :
     validate_testnet_position_plan(plan)}

Arguments ==
  [flag : {"--neg-risk", "--yield-bearing", "--execute", "--neg-risk-on-chain-id",
           "--index-set", "--token-id", "--approval-amount", "--secret-env-file"},
   name : {""}, number : {1}]
    \cup [flag : {"--scope"}, name : {"trade-sell", "split", "convert"}, number : {0}]
    \cup [flag : {"--operation"}, name : {"redeem", "convert"}, number : {0}]

EndpointArguments ==
  [flag : {"--rpc-host", "--rpc-port"}, name : {"", "node"}, number : {0}]
    \cup [flag : {"--rpc-target"}, name : {"", "relative", "/rpc"}, number : {0}]
    \cup [flag : {"--help", "--execute"}, name : {""}, number : {0}]

Different(lines) ==
  {l \in lines : \A i, j \in DOMAIN l : i # j => l[i].flag # l[j].flag}

\* What every line of a mode starts with.
Given(mode) ==
  LET flags == <<"--owner">> \o
        (IF mode \in PositionModes THEN <<"--condition-id", "--amount">> ELSE <<>>)
  IN  [i \in DOMAIN flags |-> [flag |-> flags[i], name |-> "", number |-> 1]]

\* Command lines of up to four different flags, or three for the endpoint.
CommandLines ==
  LET lines == Different(UpTo(4, Arguments)) \cup Different(UpTo(3, EndpointArguments))
  IN  {[mode |-> mode, line |-> Given(mode) \o l] :
         mode \in {"probe", "approve", "position-probe", "--help"}, l \in lines}

-----------------------------------------------------------------------------
(* One step per operation. *)

ParseDecimal == Calls("decimal", Texts)
TruncateDigits == Calls("truncate", [value : 0..1200, digits : 0..4])
ReadFixed == Calls("fixed", [units : 0..300, scale : 0..MaxScale, target : 0..(MaxScale + 1)])
DeriveNoBook == Calls("no_book", [asks : Sides, bids : Sides])
LimitAmounts == Calls("limit", [side : {"buy", "sell"}, price : 0..130,
                                quantity : {0, 2, 3, 99, 101, 257}])
MarketAmounts ==
  Calls("market", {[order |-> o, book |-> [asks |-> b, bids |-> b]] :
    o \in [side : {"buy", "sell"}, quantity : {2, 5, 37}, slippage : {0, 1, 5},
           min_amount_out : BOOLEAN], b \in Depths})
MarketValue ==
  Calls("value", {[order |-> o, asks |-> b] :
    o \in [value : {99, 100, 101, 130}, slippage : {0, 1}, min_amount_out : BOOLEAN],
    b \in ValueDepths})
QuoteRoundTrip == Calls("round_trip", [value : {0, 1, 2, 50, 151}, asks : Sides, bids : Sides])
SignTransaction ==
  Calls("transaction", [nonce : Numbers, gas_price : {128, 256}, gas_limit : {21000},
    to : {<<3>>}, value : {0, 1}, data : Data, chain_id : {56, 97},
    answer : Optional({[error |-> "none", bytes |-> <<r, s, 0, t, v>>] :
                         r \in {0, 9}, s \in {0, 200}, t \in {0, 130}, v \in {27, 28, 29}}
                        \cup {[error |-> "signing_failed"]})])
ReadQuantity == Calls("quantity", UpTo(5, {-1, 0, 1, 15}))
CancelOrders == Calls("cancel", [orders : UpTo(2, Orders), route : Routes])
RunPlan == Calls("plan", Plans)
ApproveAll == Calls("approvals", Optional(BOOLEAN))
ParseArguments ==
  Calls("arguments", CommandLines)

Next ==
  \/ ParseDecimal \/ TruncateDigits \/ ReadFixed \/ DeriveNoBook
  \/ LimitAmounts \/ MarketAmounts \/ MarketValue \/ QuoteRoundTrip
  \/ SignTransaction \/ ReadQuantity \/ CancelOrders
  \/ RunPlan \/ ApproveAll \/ ParseArguments

Spec == Init /\ [][Next]_call

-----------------------------------------------------------------------------
(* What must hold. *)

Worth(units, scale) == units * 10 ^ (MaxScale - scale)

\* A decimal is read without rounding or wrapping around, and equal numbers
\* become equal values however they were written (decimal.cpp:112-139): the
\* result is worth what the text says, and has no zeros to drop.
ParseIsExact ==
  Made /\ call.op = "decimal" =>
    LET t == call.in
        d == FixedDecimalParse(t)
        spelled == Number(t.whole \o t.fraction)
        places == MaxScale - Len(t.fraction) + Exponent(t)
    IN  Succeeded(d) =>
          /\ IF places >= 0 THEN Worth(d.units, d.scale) = spelled * 10 ^ places
             ELSE Worth(d.units, d.scale) * 10 ^ (0 - places) = spelled
          /\ d.units <= FixedMax /\ d.scale <= MaxScale
          /\ d.scale = 0 \/ d.units % 10 # 0

\* A decimal that was rescaled and printed reads as the decimal it was, and so
\* does a price (decimal.cpp:142-221).
PrintedReadsBack ==
  Made /\ call.op = "fixed" =>
    LET d == Stripped(call.in.units, call.in.scale)
        r == rescale_exact(d, call.in.target)
        p == from_ticks(call.in.units, call.in.scale)
    IN  /\ Succeeded(r) => FixedDecimalParse(to_string(r)) = d
        /\ Succeeded(p) => PriceParse(PriceToString(p), p.precision) = p

\* The wei an order is signed for are the wei the public data stands for: a
\* text both parsers accept is worth the same to both, and is accepted as an
\* exact decimal (order_amounts.cpp:164-199, liquidity.cpp:42-45,
\* exact_number.cpp:21-45).
WeiAgrees ==
  Made /\ call.op = "decimal" =>
    LET wei == decimal_to_wei(call.in)
        d == FixedDecimalParse(call.in)
    IN  Succeeded(wei) =>
          /\ Succeeded(ExactDecimalParse(call.in))
          /\ Succeeded(d) => quantity_wei(d) = wei.value

\* Digits are cut, never rounded up: the result is the largest number not
\* above the value that has so few digits (order_amounts.cpp:37-47, 201-210).
TruncationIsLargest ==
  Made /\ call.op = "truncate" /\ call.in.digits # 0 =>
    LET v == call.in.value
        Fits(n) == \E k \in 0..4 : n % 10 ^ k = 0 /\ n \div 10 ^ k < 10 ^ call.in.digits
        t == retain_significant_digits(v, call.in.digits).value
    IN  t <= v /\ Fits(t) /\ \A n \in (t + 1)..v : ~Fits(n)

\* Best first.
Ascending(levels) == \A i \in 2..Len(levels) : levels[i - 1].price <= levels[i].price
Descending(levels) == \A i \in 2..Len(levels) : levels[i - 1].price >= levels[i].price

Wei(levels) == [i \in DOMAIN levels |-> [price |-> price_wei(levels[i].price),
                                        quantity |-> quantity_wei(levels[i].quantity)]]
Ordered(book) ==
  /\ Ascending(Wei(book.asks)) /\ Descending(Wei(book.bids))
  /\ book.asks # <<>> /\ book.bids # <<>> =>
       price_wei(book.bids[1].price) <= price_wei(book.asks[1].price)

\* The NO view of an ordered, uncrossed book is an ordered, uncrossed book, and
\* its NO view is the book (orderbook.cpp:5-19).  A level at a whole token has
\* a mirror at 0, which the quotes refuse (liquidity.cpp:70-74, 148-152).
NoBookMirrors ==
  Made /\ call.op = "no_book" =>
    /\ Ordered(call.in) => Ordered(derive_no_book(call.in))
    /\ derive_no_book(derive_no_book(call.in)) = call.in

\* A limit order is never signed at a worse price than asked for, and not by a
\* wei more than rounding takes (order_amounts.cpp:212-242).
LimitKeepsPrice ==
  Made /\ call.op = "limit" =>
    LET a == limit_amounts(call.in)
        paid == IF call.in.side = "buy" THEN a.maker ELSE a.taker
    IN  Succeeded(a) =>
          /\ a.last <= call.in.price /\ a.amount <= call.in.quantity
          /\ paid * precision <= a.last * a.amount
          /\ a.last * a.amount < (paid + 1) * precision

\* The price of the k-th share of a book, and what the first n cost.
SharePrice(levels, k) ==
  LET Before(i) == FoldLeft(LAMBDA n, l : n + l.quantity, 0, SubSeq(levels, 1, i))
  IN  levels[CHOOSE i \in DOMAIN levels : Before(i - 1) < k /\ k <= Before(i)].price

SharesCost(levels, n) ==
  FoldLeft(LAMBDA c, k : c + SharePrice(levels, k), 0, [k \in 1..n |-> k])

\* A market order can be filled by the book it was priced from: a buyer offers
\* enough for the shares asked for, a seller asks for no more than they fetch,
\* share by share (order_amounts.cpp:55-160); and no buyer offers more than a
\* token a share, whatever the slippage (order_amounts.cpp:125-128).
MarketOrderFills ==
  Made /\ call.op = "market" =>
    LET o == call.in.order
        levels == IF o.side = "buy" THEN call.in.book.asks ELSE call.in.book.bids
        a == market_quantity(o, call.in.book)
        cost == SharesCost(levels, a.amount) \div precision
    IN  Succeeded(a) /\ (IF o.side = "buy" THEN Ascending(levels) ELSE Descending(levels)) =>
          IF o.side = "sell" THEN a.maker = a.amount /\ a.taker <= cost
          ELSE cost <= a.maker /\ a.maker <= a.amount /\ a.taker <= a.amount

\* A book that has the value has the shares: an order for a value is refused
\* only for its size, and an order for at least so many shares offers no more
\* than the value and a wei of rounding per level (order_amounts.cpp:249-294).
ValueOrderIsBacked ==
  Made /\ call.op = "value" =>
    LET o == call.in.order
        asks == call.in.asks
        a == market_value(o, [asks |-> asks, bids |-> <<>>])
    IN  /\ ~Succeeded(a) => \/ a.error = "invalid_quantity"
                            \/ asks = <<>> \/ ~ValidLevel(asks[1])
        /\ Succeeded(a) /\ o.min_amount_out => a.maker < o.value + Len(asks)

\* A buy quote spends no more than asked for, accounts for all of it, and is
\* complete whenever the book is deep enough (liquidity.cpp:49-125).
BuyQuoteIsExact ==
  Made /\ call.op = "round_trip" =>
    LET asks == Wei(call.in.asks)
        q == quote_market_buy_value(call.in.value, call.in.asks)
        depth == FoldLeft(LAMBDA c, l : c + Cost(l.price, l.quantity), 0, asks)
    IN  Succeeded(q) =>
          /\ q.value \in 0..call.in.value /\ q.value + q.left = call.in.value
          /\ depth >= call.in.value => q.complete
          /\ q.vwap <= q.worst /\ (q.shares = 0 <=> q.value = 0)

\* Buying and selling into the same uncrossed snapshot gains nothing but the
\* rounding of the levels bought, so the loss is what was spent and not
\* recovered; and it is complete only if all that was bought was sold
\* (liquidity.cpp:197-226).
RoundTripLoses ==
  Made /\ call.op = "round_trip" /\ Ordered(call.in) =>
    LET q == quote_immediate_round_trip(call.in.value, call.in.asks, call.in.bids)
    IN  Succeeded(q) =>
          /\ q.recovered <= q.buy.value + q.buy.levels
          /\ q.recovered <= q.buy.value => q.loss = q.buy.value - q.recovered
          /\ q.complete => q.sell.left <= 1 /\ q.buy.left <= 1

\* A signer that knows one digest, if there is a signer.
Signed(tx) ==
  sign_legacy_transaction(tx,
    [i \in DOMAIN tx.answer |-> legacy_transaction_signing_digest(tx) :> tx.answer[i]])

\* A node reads from the signed bytes the transaction that was asked for, on
\* the chain it was populated for, with integers in the shortest form a node
\* accepts; without a signer, without its answer or with an answer that is no
\* signature there are no signed bytes (chain_transaction.cpp:18-168).
TransactionReads ==
  Made /\ call.op = "transaction" =>
    LET tx == call.in
        signed == Signed(tx)
        f == RlpList(signed.raw)
        digest == RlpList(legacy_transaction_signing_digest(tx))
        integers == {1, 2, 3, 5, 7, 8, 9}
        signature == tx.answer[1].bytes
        answered == tx.answer # <<>> /\ tx.answer[1].error = "none"
    IN  IF ~answered \/ Last(signature) = 29 THEN "raw" \notin DOMAIN signed
        ELSE
          /\ signed.error = "none" /\ Len(f) = 9 /\ Len(digest) = 9
          /\ \A i \in 1..6 : f[i] = digest[i]
          /\ <<uint_from_bytes(f[1]), uint_from_bytes(f[2]), uint_from_bytes(f[3]), f[4],
               uint_from_bytes(f[5]), f[6]>>
             = <<tx.nonce, tx.gas_price, tx.gas_limit, tx.to, tx.value, tx.data>>
          /\ (uint_from_bytes(f[7]) - 35) \div 2 = tx.chain_id
          /\ uint_from_bytes(digest[7]) = tx.chain_id
          /\ Zeros(WordBytes - Len(f[8])) \o f[8] = SubSeq(signature, 1, WordBytes)
          /\ \A i \in integers : f[i] = <<>> \/ f[i][1] # 0
          /\ raw_transaction_hash(signed.raw).hash = signed.hash

\* An RPC quantity has one text: what is read is what would be written
\* (chain_abi.cpp:62-82, 112-123).
QuantityHasOneText ==
  Made /\ call.op = "quantity" =>
    LET q == decode_quantity(call.in)
    IN  q.error = "none" => encode_quantity(q.value) = call.in

\* Nothing is sent when nothing is cancelled, whatever the route; a signed
\* order is cancelled unless the account to route through is missing; and the
\* exchange reads from the call, or from the call the account unwraps, the
\* orders that were signed, each at its offset
\* (chain_operations.cpp:58-141, 155-183, 309-328).
CancellationReads ==
  Made /\ call.op = "cancel" =>
    LET orders == call.in.orders
        route == call.in.route
        cancelled == cancel_orders_transaction(orders, NewScope, route)
        sent == cancelled.transaction[1]
        direct == route.route = "eoa"
        exchange == exchange_address(NewScope)
        inner == CallBytes(sent.data, 2)
        head == AddressBytes + WordBytes
        data == IF direct THEN sent.data ELSE SubSeq(inner, head + 1, Len(inner))
        refused == \/ \E i \in DOMAIN orders : orders[i].signature = <<>>
                   \/ ~direct /\ route.predict_account # <<Account>>
        first == 3
        Tuple(i) == first + CallWord(data, first - 1 + i) \div WordBytes
        Field(i, n) == CallWord(data, Tuple(i) + n - 1)
        Start(i) == 2 + (Tuple(i) - 1 + Field(i, 13) \div WordBytes + 1) * WordBytes
    IN  CASE orders = <<>> -> cancelled = [error |-> "none", transaction |-> <<>>]
          [] orders # <<>> /\ refused -> cancelled.error # "none"
          [] OTHER ->
               /\ cancelled.error = "none" /\ Len(cancelled.transaction) = 1
               /\ sent.to = (IF direct THEN exchange ELSE Account)
               /\ ~direct => SubSeq(inner, 1, head) = exchange \o word(0)
               /\ CallWord(data, 1) = WordBytes /\ CallWord(data, 2) = Len(orders)
               /\ \A i \in DOMAIN orders :
                    /\ Field(i, 1) = orders[i].salt /\ Field(i, 5) = orders[i].token_id
                    /\ Field(i, 6) = orders[i].maker_amount
                    /\ Field(i, 4) = IF orders[i].taker = <<>> THEN 0 ELSE orders[i].taker[1][1]
                    /\ SubSeq(data, Start(i), Start(i) + Field(i, 14) - 1) = orders[i].signature

Identified(plan) ==
  IF plan.operation = "convert" THEN plan.neg_risk_on_chain_id[1] # 0
  ELSE plan.condition_id[1] # 0

\* A plan that passes validation becomes a transaction, and the approvals asked
\* for it let the contract that the transaction calls move what it moves: the
\* collateral of a split, the outcome tokens of everything the adapter does
\* (testnet_acceptance_support.cpp:298-319, 384-430,
\* chain_approvals.cpp:54-111, chain_operations.cpp:185-307).
PlanIsApproved ==
  Made /\ call.op = "plan" /\ validate_testnet_position_plan(call.in) /\ Identified(call.in) =>
    LET plan == call.in
        tx == position_transaction(plan)
        approvals == approval_steps(position_approval_scope(plan))
        Grants(kind, token) ==
          \E i \in DOMAIN approvals.steps :
            approvals.steps[i] = [kind |-> kind, spender |-> tx.to, token |-> token]
    IN  /\ tx.error = "none" /\ approvals.error = "none"
        /\ plan.operation = "split" => Grants("erc20_allowance", Registry["usdt"])
        /\ plan.operation # "split" =>
             \/ tx.to = position_token_contract(plan)
             \/ Grants("erc1155_operator", position_token_contract(plan))

\* The account executes the transaction that was routed through it: its
\* target, value and call data are what a wallet reads from the wrapped call
\* (chain_operations.cpp:155-183).
RoutedCallUnwraps ==
  Made /\ call.op = "plan" /\ validate_testnet_position_plan(call.in) /\ Identified(call.in) =>
    LET tx == position_transaction(call.in)
        routed == route_transaction(tx, [route |-> "predict_account",
                                         predict_account |-> <<Account>>])
    IN  routed.to = Account /\ CallBytes(routed.data, 2) = tx.to \o word(tx.value) \o tx.data

Scopes(yield) ==
  {s \in [operation : {"trade", "split", "merge", "redeem", "convert"},
          side : {"both", "buy", "sell"}, is_neg_risk : BOOLEAN, is_yield_bearing : {yield}] :
     s.operation = "convert" => s.is_neg_risk}

\* What passes the write gates with the phrase of a plan, or of its approvals.
Gated(mode, owner, phrase) ==
  [NewOptions(mode) EXCEPT !.execute = TRUE, !.evidence = <<1>>, !.owner = <<owner>>,
                           !.confirmation = phrase]

\* One confirmation phrase authorizes one transaction of one owner: whatever
\* valid plan passes the write gate with it, though it differs in any of its
\* fields, is the same transaction under the same approvals, and whatever scope
\* and amount pass with the phrase of an approval are the same approval
\* (testnet_acceptance_support.cpp:270-296, 366-382, 432-448).
ConfirmationBinds ==
  Made /\ call.op = "plan" /\ validate_testnet_position_plan(call.in) =>
    LET phrase == testnet_position_confirmation(1, call.in)
        scope == position_approval_scope(call.in)
        approval == testnet_approval_confirmation(1, scope, call.in.amount)
    IN  /\ \A owner \in {1, 2}, other \in ValidPlans :
             LET gated == [Gated("position-execute", owner, phrase) EXCEPT !.position = other]
             IN  validate_testnet_position_write_gate(gated) =>
                   /\ owner = 1 /\ position_transaction(other) = position_transaction(call.in)
                   /\ position_approval_scope(other) = scope
        /\ \A owner \in {1, 2}, amount \in Optional({0, 3, 4}),
              other \in UNION {Scopes(yield) : yield \in BOOLEAN} :
             LET gated == [Gated("approve", owner, approval) EXCEPT !.scope = other,
                                                                   !.approval_amount = amount]
             IN  validate_testnet_write_gate(gated) =>
                   /\ owner = 1 /\ amount = call.in.amount
                   /\ approval_steps(other) = approval_steps(scope)

\* What a token contract reads from the transaction of an approval step.
Grant(step, amount, approved) ==
  LET tx == approval_transaction(step, amount, approved)
      last == SubSeq(tx.data, Len(tx.data) - WordBytes + 1, Len(tx.data))
  IN  [token |-> tx.to, spender |-> CallWord(tx.data, 1),
       granted |-> IF step.kind = "erc1155_operator" THEN decode_word_bool(last).value
                   ELSE decode_word_uint256(last).value]

\* The full list of approvals has every step of every operation of its tracks,
\* though steps are told apart by kind and spender only and conversions are
\* not among the operations it goes through (chain_approvals.cpp:113-138); a
\* step's transaction grants its spender what was asked for, and nothing when
\* it revokes (chain_approvals.cpp:140-155).
AllStepsCover ==
  Made /\ call.op = "approvals" =>
    LET all == all_approval_steps(call.in)
    IN  /\ \A yield \in (IF call.in = <<>> THEN BOOLEAN ELSE {call.in[1]}) :
             \A scope \in Scopes(yield) :
               \A i \in DOMAIN approval_steps(scope).steps :
                 Contains(all, approval_steps(scope).steps[i])
        /\ \A i \in DOMAIN all, approved \in BOOLEAN :
             Grant(all[i], <<300>>, approved) =
               [token |-> all[i].token, spender |-> all[i].spender[1],
                granted |-> CASE ~approved -> 0
                              [] all[i].kind = "erc1155_operator" -> 1
                              [] OTHER -> 300]

Swapped(line, i) ==
  [j \in DOMAIN line |-> IF j = i THEN line[i + 1] ELSE IF j = i + 1 THEN line[i] ELSE line[j]]

\* The order of the flags does not matter, even where one flag sets what
\* another resets (testnet_acceptance_support.cpp:115-217).
ArgumentsCommute ==
  Made /\ call.op = "arguments" =>
    \A i \in 2..(Len(call.in.line) - 1) :
      LET one == parse_testnet_acceptance_arguments(call.in.mode, call.in.line)
          two == parse_testnet_acceptance_arguments(call.in.mode, Swapped(call.in.line, i))
      IN  IF one.error = "none" THEN one = two ELSE two.error # "none"

\* Numbers keep their value on the way from a text to wei and back.
NumbersAreExact ==
  ParseIsExact /\ PrintedReadsBack /\ WeiAgrees /\ TruncationIsLargest

\* The amounts an order is signed for are those its price, its size or the book
\* it was computed from allows.
OrdersAreBacked == LimitKeepsPrice /\ MarketOrderFills /\ ValueOrderIsBacked

\* The quotes account for what is asked of a book, on either outcome.
QuotesAreExact == NoBookMirrors /\ BuyQuoteIsExact /\ RoundTripLoses

\* Who decodes the bytes of a transaction finds what was put into it.
BytesReadBack ==
  /\ TransactionReads /\ QuantityHasOneText /\ CancellationReads
  /\ RoutedCallUnwraps

\* What an operator confirms is what is approved and executed.
PlansAreBound ==
  PlanIsApproved /\ ConfirmationBinds /\ AllStepsCover /\ ArgumentsCommute

=============================================================================
