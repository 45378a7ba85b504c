---------------------------- MODULE OrderAmounts ----------------------------
(***************************************************************************)
(* The amounts an order is signed for (src/order_amounts.cpp): a limit     *)
(* order's from its price and quantity, a market order's from a walk over  *)
(* the book.  Amounts are integers in wei; precision is one token, and the *)
(* protocol's digits, minimum and basis points are parameters.             *)
(***************************************************************************)
EXTENDS Decimals

CONSTANTS
  ProtocolDecimals,    \* protocol_decimals: precision is 10 ^ this
  minimum_quantity,
  basis_points,
  PriceDigits,         \* significant digits of a price
  QuantityDigits       \* and of a quantity

precision == 10 ^ ProtocolDecimals
minimum_value == precision

ASSUME AmountsAssumption ==
  /\ ProtocolDecimals \in Nat /\ minimum_quantity \in Nat \ {0}
  /\ basis_points \in Nat \ {0}
  /\ PriceDigits \in Nat \ {0} /\ QuantityDigits \in Nat \ {0}

Lesser(a, b) == IF a < b THEN a ELSE b

truncate_significant(value, digits) ==
  LET excess == Len(DigitsOf(value)) - digits
  IN  IF excess <= 0 THEN value ELSE (value \div 10 ^ excess) * 10 ^ excess

retain_significant_digits(value, digits) ==
  IF digits = 0 THEN Fails("invalid_argument")
  ELSE Uint256(truncate_significant(value, digits))

\* The digits of the text, filled up to ProtocolDecimals places.
decimal_to_wei(text) ==
  LET zeros == [i \in 1..(ProtocolDecimals - Len(text.fraction)) |-> 0]
  IN  CASE Empty(text) \/ text.sign # "none" \/ text.points > 1
           \/ text.characters = "other" \/ text.exponent # <<>>
             -> Fails("invalid_decimal")
        [] text.whole = <<>> \/ Len(text.fraction) > ProtocolDecimals
           \/ (text.points = 1 /\ text.fraction = <<>>)
             -> Fails("unsupported_precision")
        [] OTHER -> Uint256(Number(text.whole \o text.fraction \o zeros))

ValidLevel(level) ==
  level.price \in 1..precision /\ level.quantity > 0

\* One level of the walk: a level is looked at until the walk is over, even
\* when nothing remains to be taken from it.
ConsumeLevel(requested, walk, level) ==
  LET consumed == Lesser(requested - walk.quantity, level.quantity)
  IN  CASE walk.over -> walk
        [] ~ValidLevel(level) ->
             [walk EXCEPT !.over = TRUE, !.error = "invalid_orderbook"]
        [] requested <= walk.quantity -> [walk EXCEPT !.over = TRUE]
        [] OTHER -> [walk EXCEPT !.quantity = @ + consumed,
                                 !.weighted_price = @ + level.price * consumed,
                                 !.last_price = level.price]

WalkBook(levels, requested) ==
  FoldLeft(LAMBDA walk, level : ConsumeLevel(requested, walk, level),
           [error |-> "none", over |-> FALSE, quantity |-> 0,
            weighted_price |-> 0, last_price |-> 0],
           levels)

process_book(levels, requested) ==
  LET walk == WalkBook(levels, requested)
  IN  IF Succeeded(walk) /\ walk.quantity < requested
      THEN Fails("invalid_orderbook") ELSE walk

Amounts(last, average, maker, taker, amount) ==
  IF \E v \in {last, average, maker, taker, amount} : ~Succeeded(Uint256(v))
  THEN Fails("numeric_overflow")
  ELSE [error |-> "none", last |-> last, average |-> average,
        maker |-> maker, taker |-> taker, amount |-> amount]

Collateral(price, quantity) == (price * quantity) \div precision

\* An amount less the slippage.
Deflated(base, slippage) ==
  IF slippage > basis_points THEN 0
  ELSE (base * (basis_points - slippage)) \div basis_points

\* Variant: a buyer may be made to pay more than a whole token per share.
BuyerPaysUncapped(base, quantity, slippage) ==
  (base * (basis_points + slippage)) \div basis_points

BuyerPays(base, quantity, slippage) ==
  IF slippage = 0 THEN base
  ELSE Lesser((base * (basis_points + slippage)) \div basis_points, quantity)

\* What the order is signed for, from the walk over the book.
SignedAmounts(input, quantity, walk) ==
  LET base == Collateral(walk.last_price, quantity)
  IN  CASE input.side = "buy" /\ input.min_amount_out ->
             [maker |-> walk.weighted_price \div precision,
              taker |-> Deflated(walk.weighted_price \div walk.last_price,
                                 input.slippage)]
        [] input.side = "buy" ->
             [maker |-> BuyerPays(base, quantity, input.slippage),
              taker |-> quantity]
        [] OTHER -> [maker |-> quantity, taker |-> Deflated(base, input.slippage)]

market_quantity(input, book) ==
  LET quantity == truncate_significant(input.quantity, QuantityDigits)
      walk == process_book(IF input.side = "buy" THEN book.asks ELSE book.bids,
                           quantity)
      signed == SignedAmounts(input, quantity, walk)
  IN  CASE quantity < minimum_quantity -> Fails("invalid_quantity")
        [] input.side \notin {"buy", "sell"} -> Fails("invalid_argument")
        [] ~Succeeded(walk) -> Fails(walk.error)
        [] OTHER -> Amounts(walk.last_price, walk.weighted_price \div quantity,
                            signed.maker, signed.taker, quantity)

limit_amounts(input) ==
  LET price == truncate_significant(input.price, PriceDigits)
      quantity == truncate_significant(input.quantity, QuantityDigits)
      collateral == Collateral(price, quantity)
      buys == input.side = "buy"
  IN  CASE input.side \notin {"buy", "sell"} -> Fails("invalid_argument")
        [] quantity < minimum_quantity -> Fails("invalid_quantity")
        [] price = 0 -> Fails("invalid_price")
        [] OTHER -> Amounts(price, price, IF buys THEN collateral ELSE quantity,
                            IF buys THEN quantity ELSE collateral, quantity)

\* One level of the walk that spends a value.
SpendLevel(value, walk, level) ==
  LET remaining == value - walk.spent
      level_cost == Collateral(level.price, level.quantity)
      shares == IF level_cost <= remaining THEN level.quantity
                ELSE (remaining * precision) \div level.price
  IN  CASE walk.over -> walk
        [] ~ValidLevel(level) ->
             [walk EXCEPT !.over = TRUE, !.error = "invalid_orderbook"]
        [] remaining <= 0 -> [walk EXCEPT !.over = TRUE]
        [] OTHER -> [walk EXCEPT !.shares = @ + shares,
                                 !.spent = @ + Collateral(level.price, shares)]

\* market_amounts of a value: the shares it buys, then their market order.
market_value(input, book) ==
  LET walk == FoldLeft(LAMBDA w, level : SpendLevel(input.value, w, level),
                       [error |-> "none", over |-> FALSE, shares |-> 0, spent |-> 0],
                       book.asks)
  IN  CASE input.value < minimum_value -> Fails("invalid_quantity")
        [] ~Succeeded(walk) \/ walk.shares = 0 -> Fails("invalid_orderbook")
        [] OTHER ->
             market_quantity(
               [side |-> "buy", slippage |-> input.slippage,
                quantity |-> truncate_significant(walk.shares, QuantityDigits),
                min_amount_out |-> input.min_amount_out], book)

=============================================================================
