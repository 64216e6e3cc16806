-------------------------------- MODULE Money --------------------------------
(***************************************************************************)
(* Fixed-point amounts (pkg/money/money.go): 64-bit integers in units of   *)
(* 1/Scale, whose sums wrap. Every operation returns [err, amount]; the    *)
(* amount of an error is zero.                                             *)
(*                                                                         *)
(* A decimal is its sign, its integer part and a fraction in units of      *)
(* 1/Scale: what Parse makes of its digits, and String prints.             *)
(***************************************************************************)
EXTENDS Integers

CONSTANTS Scale,    \* 10^Decimals
          MaxInt    \* the largest int64

ASSUME MoneyAssumption ==
  Scale \in Nat /\ MaxInt \in Nat /\ 1 < Scale /\ Scale <= MaxInt

MinInt == -MaxInt - 1
Amount == MinInt..MaxInt

Ok(a) == [err |-> FALSE, amount |-> a]
Overflow == [err |-> TRUE, amount |-> 0]

\* The 64 bits that remain of an integer that is at most one bit longer.
Wrap(x) ==
  IF x > MaxInt THEN x - 2 * (MaxInt + 1)
  ELSE IF x < MinInt THEN x + 2 * (MaxInt + 1)
  ELSE x

\* Division as Go's, toward zero.
Quo(a, b) == IF a >= 0 THEN a \div b ELSE -((-a) \div b)
-----------------------------------------------------------------------------

Add(a, b) ==
  LET r == Wrap(a + b)
  IN IF (b > 0 /\ r < a) \/ (b < 0 /\ r > a) THEN Overflow ELSE Ok(r)

Sub(a, b) ==
  LET r == Wrap(a - b)
  IN IF (b < 0 /\ r < a) \/ (b > 0 /\ r > a) THEN Overflow ELSE Ok(r)

Neg(a) == Wrap(-a)

FromInt(units) ==
  IF units > Quo(MaxInt, Scale) \/ units < Quo(MinInt, Scale) THEN Overflow
  ELSE Ok(units * Scale)

\* Through big.Int: nothing wraps.
Notional(price, qty) ==
  LET prod == Quo(price * qty, Scale)
  IN IF prod \in Amount THEN Ok(prod) ELSE Overflow

\* ParseInt refuses an integer part that is not an int64.
Parse(decimal) ==
  LET scaled == decimal.int * Scale
      total == Wrap(scaled + decimal.frac)
  IN IF decimal.int > MaxInt \/ decimal.int > Quo(MaxInt, Scale) THEN Overflow
     ELSE IF scaled > 0 /\ total < scaled THEN Overflow
     ELSE Ok(IF decimal.neg THEN Wrap(-total) ELSE total)

\* The absolute value is taken in 64 bits, which the least amount does not have;
\* both parts of its text would be negative (and String panics, padding them).
String(a) ==
  LET v == IF a < 0 THEN Neg(a) ELSE a
  IN [neg |-> a < 0, int |-> Quo(v, Scale), frac |-> v - Quo(v, Scale) * Scale]
=============================================================================
