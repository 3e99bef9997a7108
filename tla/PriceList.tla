----------------------------- MODULE PriceList -----------------------------
(* The prices that calculate() gives, asked for one service amount after the *)
(* other: how the pricing formulas are compared with exact rounding.         *)
EXTENDS Pricing

CONSTANT PriceLimit      \* bound, for model checking only

ASSUME LimitAssumption == PriceLimit \in Nat

\* The service amount whose price is asked for.
VARIABLE quote

FirstQuote == quote = MinAmount
Quote == quote < PriceLimit /\ quote' = quote + 1

Quotes == FirstQuote /\ [][Quote]_quote

\* The price of whatever is asked for is the exact one, see IsExact: the integer
\* formula of calculateBps rounds as claimed, and only the two limits refuse.
PricesAreExact == IsExact(quote)
=============================================================================
