------------------------------ MODULE Liquidity ------------------------------
(***************************************************************************)
(* Execution estimates over a public book (src/liquidity.cpp): spending a  *)
(* value on the asks, selling shares into the bids, and both in turn.      *)
(* protocol_scale is 10 ^ MaxScale, as 18 is the scale of both in the code.*)
(***************************************************************************)
EXTENDS Decimals

protocol_scale == 10 ^ MaxScale

price_wei(price) == (price.ticks * protocol_scale) \div price.scale
quantity_wei(quantity) == quantity.units * 10 ^ (MaxScale - quantity.scale)
Cost(price, quantity) == (price * quantity) \div protocol_scale

\* A level is checked, for its own values and against the level before it,
\* until the walk is over.
BadLevel(price, quantity, sorted) ==
  price \notin 1..protocol_scale \/ quantity <= 0 \/ ~sorted

Taken(walk, price, quantity, cost) ==
  [walk EXCEPT !.value = @ + cost, !.shares = @ + quantity,
               !.weighted_price = @ + price * quantity,
               !.worst_price = price, !.levels = @ + 1]

Walk(previous) ==
  [error |-> "none", over |-> FALSE, value |-> 0, shares |-> 0,
   weighted_price |-> 0, worst_price |-> 0, previous |-> previous, levels |-> 0]

\* Less than two wei are not worth another level.
Negligible(remaining) == remaining <= 1

Affordable(remaining, price) == (remaining * protocol_scale) \div price

\* One ask.  A level is bought whole, or as far as the value goes; one that
\* costs nothing is passed over.
BuyLevel(requested, walk, level) ==
  LET price == price_wei(level.price)
      quantity == quantity_wei(level.quantity)
      remaining == requested - walk.value
      dear == Cost(price, quantity) > remaining
      consumed == IF dear THEN Affordable(remaining, price) ELSE quantity
      next == [walk EXCEPT !.previous = price]
  IN  CASE walk.over -> walk
        [] BadLevel(price, quantity, walk.previous <= price) ->
             [walk EXCEPT !.over = TRUE, !.error = "invalid_orderbook"]
        [] Negligible(remaining) \/ (dear /\ consumed <= 0) ->
             [next EXCEPT !.over = TRUE]
        [] Cost(price, consumed) <= 0 -> next
        [] OTHER -> Taken(next, price, consumed, Cost(price, consumed))

Average(walk) == IF walk.shares > 0 THEN walk.weighted_price \div walk.shares ELSE 0

\* The quote of a walk that took `done` of `requested`.
Quote(walk, requested, done) ==
  [error |-> "none", requested |-> requested, done |-> done,
   left |-> requested - done, value |-> walk.value, shares |-> walk.shares,
   vwap |-> Average(walk), worst |-> walk.worst_price, levels |-> walk.levels,
   complete |-> requested - done <= 1]

Quoted(walk, requested, done) ==
  IF \E v \in {done, walk.value, walk.shares, Average(walk)} : ~Succeeded(Uint256(v))
  THEN Fails("numeric_overflow") ELSE Quote(walk, requested, done)

quote_market_buy_value(requested, asks) ==
  LET walk == FoldLeft(LAMBDA w, level : BuyLevel(requested, w, level), Walk(0), asks)
  IN  CASE requested <= 0 -> Fails("invalid_quantity")
        [] ~Succeeded(walk) -> Fails(walk.error)
        [] OTHER -> Quoted(walk, requested, walk.value)

\* One bid.
SellLevel(requested, walk, level) ==
  LET price == price_wei(level.price)
      quantity == quantity_wei(level.quantity)
      remaining == requested - walk.shares
      consumed == IF quantity < remaining THEN quantity ELSE remaining
      next == [walk EXCEPT !.previous = price]
  IN  CASE walk.over -> walk
        [] BadLevel(price, quantity, price <= walk.previous) ->
             [walk EXCEPT !.over = TRUE, !.error = "invalid_orderbook"]
        [] Negligible(remaining) -> [next EXCEPT !.over = TRUE]
        [] OTHER -> Taken(next, price, consumed, Cost(price, consumed))

quote_market_sell_shares(requested, bids) ==
  LET walk == FoldLeft(LAMBDA w, level : SellLevel(requested, w, level),
                       Walk(protocol_scale + 1), bids)
  IN  CASE requested <= 0 -> Fails("invalid_quantity")
        [] ~Succeeded(walk) -> Fails(walk.error)
        [] OTHER -> Quoted(walk, requested, walk.shares)

\* Variant: what the sale leaves over is not part of the loss, and an
\* incomplete sale passes for a complete one.
quote_immediate_round_tripOfBuy(value, asks, bids) ==
  LET buy == quote_market_buy_value(value, asks)
      sell == quote_market_sell_shares(buy.shares, bids)
  IN  CASE ~Succeeded(buy) -> buy
        [] buy.shares = 0 -> [error |-> "none", buy |-> buy, recovered |-> 0,
                              loss |-> 0, complete |-> FALSE]
        [] ~Succeeded(sell) -> sell
        [] OTHER -> [error |-> "none", buy |-> buy, sell |-> sell,
                     recovered |-> sell.value,
                     loss |-> IF buy.value > sell.value
                              THEN buy.value - sell.value ELSE 0,
                     complete |-> buy.complete]

quote_immediate_round_trip(value, asks, bids) ==
  LET buy == quote_market_buy_value(value, asks)
      sell == quote_market_sell_shares(buy.shares, bids)
  IN  CASE ~Succeeded(buy) -> buy
        [] buy.shares = 0 -> [error |-> "none", buy |-> buy, recovered |-> 0,
                              loss |-> 0, complete |-> FALSE]
        [] ~Succeeded(sell) -> sell
        [] OTHER -> [error |-> "none", buy |-> buy, sell |-> sell,
                     recovered |-> sell.value,
                     loss |-> IF buy.value > sell.value
                              THEN buy.value - sell.value ELSE 0,
                     complete |-> buy.complete /\ sell.complete]

=============================================================================
