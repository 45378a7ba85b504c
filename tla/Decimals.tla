------------------------------ MODULE Decimals ------------------------------
(***************************************************************************)
(* Exact decimals: FixedDecimal and Price (src/decimal.cpp), ExactDecimal  *)
(* and Uint256 (src/exact_number.cpp), the NO view of a YES book           *)
(* (src/orderbook.cpp).  The widths are parameters: FixedMax stands for    *)
(* 2^64 - 1, UintMax for 2^256 - 1, MaxScale for 18.                       *)
(*                                                                         *)
(* A text is what the parsers tell apart in it: its sign, the digits       *)
(* before and after the point, the number of points, whether any other     *)
(* character occurs, and the exponent's sign and value, if it has one.     *)
(***************************************************************************)
EXTENDS Integers, SequencesExt

CONSTANTS FixedMax, UintMax, MaxScale

ASSUME WidthAssumption ==
  FixedMax \in Nat \ {0} /\ UintMax \in Nat \ {0} /\ MaxScale \in Nat \ {0}

Fails(code) == [error |-> code]
Succeeded(result) == result.error = "none"

\* The number a sequence of digits spells.
Number(digits) == FoldLeft(LAMBDA n, d : 10 * n + d, 0, digits)

DigitsOf(n) ==
  LET width == CHOOSE w \in 1..10 : n < 10 ^ w /\ (w = 1 \/ n >= 10 ^ (w - 1))
  IN  [i \in 1..width |-> (n \div 10 ^ (width - i)) % 10]

Empty(text) == text.whole = <<>> /\ text.points = 0 /\ text.exponent = <<>>

FixedDecimal(units, scale) == [error |-> "none", units |-> units, scale |-> scale]

\* Variant: the product wraps around.
checked_multiplyWraps(value, factor) ==
  [error |-> "none", value |-> (value * factor) % (FixedMax + 1)]

checked_multiply(value, factor) ==
  IF factor # 0 /\ value > FixedMax \div factor
  THEN Fails("numeric_overflow")
  ELSE [error |-> "none", value |-> value * factor]

\* The trailing zeros of the fraction go.
Stripped(units, scale) ==
  LET zeros == CHOOSE z \in 0..scale :
                 /\ units % 10 ^ z = 0
                 /\ z = scale \/ units % 10 ^ (z + 1) # 0
  IN  FixedDecimal(units \div 10 ^ zeros, scale - zeros)

\* from_chars: a minus sign is part of the number, a plus sign is not.
Exponent(text) ==
  CASE text.exponent = <<>> -> 0
    [] text.exponent[1].sign = "-" -> 0 - text.exponent[1].value
    [] OTHER -> text.exponent[1].value

FixedDecimalParse(text) ==
  LET digits == text.whole \o text.fraction
      units == Number(digits)
      scale == Len(text.fraction) - Exponent(text)
      grown == checked_multiply(units, 10 ^ (0 - scale))
  IN  CASE Empty(text) \/ text.sign # "none" \/ text.points > 1
           \/ text.characters = "other" \/ digits = <<>>
           \/ (text.exponent # <<>> /\ text.exponent[1].sign = "+")
             -> Fails("invalid_decimal")
        [] units > FixedMax \/ scale < 0 - MaxScale -> Fails("numeric_overflow")
        [] scale < 0 -> IF Succeeded(grown) THEN FixedDecimal(grown.value, 0)
                                            ELSE grown
        [] scale > MaxScale -> Fails("unsupported_precision")
        [] OTHER -> Stripped(units, scale)

rescale_exact(d, target) ==
  LET grown == checked_multiply(d.units, 10 ^ (target - d.scale))
      divisor == 10 ^ (d.scale - target)
  IN  CASE target > MaxScale -> Fails("unsupported_precision")
        [] target = d.scale -> d
        [] target > d.scale -> IF Succeeded(grown)
                               THEN FixedDecimal(grown.value, target) ELSE grown
        [] d.units % divisor # 0 -> Fails("invalid_decimal")
        [] OTHER -> FixedDecimal(d.units \div divisor, target)

PlainText(whole, fraction) ==
  [sign |-> "none", whole |-> whole, points |-> IF fraction = <<>> THEN 0 ELSE 1,
   fraction |-> fraction, characters |-> "digits", exponent |-> <<>>]

to_string(d) ==
  LET raw == DigitsOf(d.units)
      zeros == IF Len(raw) <= d.scale THEN d.scale + 1 - Len(raw) ELSE 0
      digits == [i \in 1..zeros |-> 0] \o raw
      point == Len(digits) - d.scale
  IN  PlainText(SubSeq(digits, 1, point), SubSeq(digits, point + 1, Len(digits)))

-----------------------------------------------------------------------------
(* Prices and the books made of them. *)

Price(ticks, precision) ==
  [error |-> "none", ticks |-> ticks, precision |-> precision, scale |-> 10 ^ precision]

from_ticks(ticks, precision) ==
  CASE precision > MaxScale -> Fails("unsupported_precision")
    [] ticks > 10 ^ precision -> Fails("invalid_price")
    [] OTHER -> Price(ticks, precision)

PriceParse(text, precision) ==
  LET decimal == FixedDecimalParse(text)
      aligned == rescale_exact(decimal, precision)
  IN  IF ~Succeeded(decimal) \/ ~Succeeded(aligned) THEN Fails("invalid_price")
      ELSE from_ticks(aligned.units, precision)

complement(price) == Price(price.scale - price.ticks, price.precision)

PriceToString(price) == to_string(FixedDecimal(price.ticks, price.precision))

Complemented(levels) ==
  [i \in DOMAIN levels |-> [levels[i] EXCEPT !.price = complement(@)]]

derive_no_book(book) ==
  [asks |-> Complemented(book.bids), bids |-> Complemented(book.asks)]

-----------------------------------------------------------------------------
(* Decimals and integers that are kept as text. *)

ExactDecimalParse(text) ==
  IF \/ Empty(text) \/ text.sign = "+" \/ text.points > 1
     \/ text.characters = "other" \/ text.exponent # <<>>
     \/ text.whole \o text.fraction = <<>>
     \/ text.points = 1 /\ text.fraction = <<>>
  THEN Fails("invalid_decimal")
  ELSE [error |-> "none", text |-> text]

\* Uint256::parse of the digits of an integer.
Uint256(value) ==
  IF value > UintMax THEN Fails("numeric_overflow")
                     ELSE [error |-> "none", value |-> value]

=============================================================================
