---------------------------- MODULE MCPurchasing ----------------------------
(* Instances of Purchasing for TLC: two products, small quantities.        *)
EXTENDS Purchasing

CONSTANTS p, q, n1, n2, n3

Both == {p, q}
TwoNumbers == {n1, n2}
ThreeNumbers == {n1, n2, n3}

Of(product, n, k) == [product |-> product, qty |-> n, unitCost |-> k]
Ask(kind) == [kind |-> kind, number |-> n1, lines |-> <<>>]
Edit(ls) == [kind |-> "UPDATE", number |-> n1, lines |-> ls]
Receive(n, ls) == [kind |-> "RECEIVE", number |-> n, lines |-> ls]

\* Orders whose lines differ in length, both products, and zero units.
ShortOrders == { <<Of(p, 2, 3)>>, <<Of(p, 1, 4), Of(q, 1, 5)>>, <<Of(q, 0, 5)>> }

\* Receipts of one unit, of both products in opposite orders, and of none.
Bodies ==
    { <<Of(p, 1, NoCost)>>, <<Of(p, 1, NoCost), Of(q, 1, NoCost)>>,
      <<Of(q, 1, NoCost), Of(p, 1, NoCost)>> }
Nothing == Receive(n1, <<Of(q, 0, 2)>>)

Requests ==
    {Ask(k) : k \in {"REMOVE", "APPROVE", "CANCEL"}}
    \cup {Edit(<<>>), Edit(<<Of(p, 2, 3)>>)}
    \cup {Receive(n, b) : n \in TwoNumbers, b \in Bodies} \cup {Nothing}

\* Only what two receipts can do to each other: on the same product, and on
\* one product each.
Receipts == {Ask("APPROVE")} \cup {Receive(n, b) : n \in TwoNumbers, b \in Bodies}
Apart ==
    {Ask("APPROVE"), Receive(n1, <<Of(p, 1, NoCost)>>),
     Receive(n2, <<Of(q, 1, NoCost)>>)}

\* Several lines of a product at different costs, and lines of zero units.
LongOrders ==
    { <<Of(p, 1, 4), Of(q, 1, 5), Of(p, 2, 7)>>, <<Of(p, 2, 3), Of(p, 2, 6)>>,
      <<Of(q, 2, 5)>>, <<Of(p, 0, 3)>>, <<Of(p, 1, 4), Of(p, 0, 2), Of(p, 1, 5)>> }

LongBodies ==
    { <<Of(p, 1, NoCost)>>, <<Of(p, 2, NoCost)>>, <<Of(p, 3, NoCost)>>,
      <<Of(p, 1, 9)>>, <<Of(q, 1, NoCost), Of(p, 1, NoCost)>>,
      <<Of(p, 1, NoCost), Of(p, 2, NoCost)>>, <<Of(p, 0, 2)>>, <<Of(p, 0, NoCost)>> }

OneByOne ==
    {Ask(k) : k \in {"REMOVE", "APPROVE", "CANCEL"}}
    \cup {Edit(ls) : ls \in LongOrders \cup {<<>>}}
    \cup {Receive(n, b) : n \in ThreeNumbers, b \in LongBodies}
    \cup {[kind |-> "DIRECT", number |-> n1, lines |-> <<Of(p, 1, 2)>>]}

Sym == Permutations(Tx)
=============================================================================
