------------------------------ MODULE MCPricing ------------------------------
(* PricingForm for TLC: one user at the form, one at the api; two levels.    *)
EXTENDS PricingForm, TLC

CONSTANTS u1, u2, p1, p2

Users == {u1, u2}
Levels == {p1, p2}

Send2(cost, min, a, b) ==
    [cost |-> cost, min |-> min, level |-> (p1 :> a @@ p2 :> b)]
Price(p) == [price |-> p, margin |-> Unsent]
Margin(m) == [price |-> Unsent, margin |-> m]

\* A new cost alone, a margin and a price, a pair, a minimum.
SomeBodies ==
    { Send2(200, Unsent, Nothing, Nothing),
      Send2(Unsent, Unsent, Margin(33), Price(455)),
      Send2(Unsent, 40, Nothing, [price |-> 150, margin |-> 33]) }
SomePatches == {[cost |-> 130, sale |-> Unsent], [cost |-> Unsent, sale |-> 203]}
SomeCreated == {[cost |-> 0, sale |-> 155], [cost |-> 100, sale |-> 155]}

\* In the api's own units: a product that costs 1.0000 and sells at 5.00.
RealCreated == {[cost |-> 10000, sale |-> 50000]}
=============================================================================
