---------------------------- MODULE PricingFormula ----------------------------
(***************************************************************************)
(* The formulas of prices and margins (pricing.formula.ts) and their       *)
(* counterparts in the pricing form (products.tsx).  The margin is over    *)
(* the sale price:  margin = (price - cost) / price.                       *)
(*                                                                         *)
(* A margin is a whole number of 1/Unit (four decimals: Unit = 10000), a   *)
(* cost or a price a whole number of 1/Sub cents (four decimals:           *)
(* Sub = 100).  A rounded price is a multiple of Sub.                      *)
(***************************************************************************)
EXTENDS Integers

CONSTANTS Unit, Sub
ASSUME ScaleAssumption == Unit \in Nat \ {0, 1} /\ Sub \in Nat \ {0}

\* ROUND_HALF_UP of a quotient.
RoundDiv(a, b) == (a + b \div 2) \div b

RoundPrice(p) == Sub * RoundDiv(p, Sub)

\* Where priceFromMargin throws: nothing can be derived from no cost.
PriceDerivable(cost, margin) == cost > 0 /\ margin < Unit
PriceFromMargin(cost, margin) ==
    Sub * RoundDiv(cost * Unit, (Unit - margin) * Sub)

\* Where marginFromPrice throws: the margin would be negative.
MarginDerivable(cost, price) == price = 0 \/ price >= cost
MarginFromPrice(cost, price) ==
    LET raw == RoundDiv((price - cost) * Unit, price)
    IN  IF price = 0 THEN 0 ELSE IF raw >= Unit THEN Unit - 1 ELSE raw

IsConsistent(cost, price, margin) ==
    IF price = 0 \/ cost = 0 THEN margin = 0
    ELSE margin < Unit /\ PriceFromMargin(cost, margin) = RoundPrice(price)

IsOutOfMargin(margin, minMargin) == minMargin > 0 /\ margin < minMargin

-----------------------------------------------------------------------------
(* The form *)

ClientPriceFromMargin(cost, margin) ==
    IF PriceDerivable(cost, margin) THEN PriceFromMargin(cost, margin) ELSE 0

\* Below the cost the form shows a margin of 0 where the server refuses.
ClientMarginFromPrice(cost, price) ==
    IF MarginDerivable(cost, RoundPrice(price))
    THEN MarginFromPrice(cost, RoundPrice(price)) ELSE 0
=============================================================================
