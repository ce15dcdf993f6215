--------------------------- MODULE MCLinePricing ----------------------------
(* LinePricing for TLC: one product with two levels and two prices.        *)
EXTENDS LinePricing

CONSTANTS p, l1, l2, c1, c2

OneProduct == {p}
TwoLevels == {l1, l2}
TwoPrices == {c1, c2}
=============================================================================
