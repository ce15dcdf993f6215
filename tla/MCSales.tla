------------------------------- MODULE MCSales ------------------------------
(* Instances of SalesOverlap for TLC: one product, small amounts.          *)
EXTENDS SalesOverlap

CONSTANTS p, c1, c2, n1, n2, f1, f2

OneProduct == {p}
TwoCustomers == {c1, c2}
OrderNumbers == {n1, n2}
InvoiceNumbers == {f1, f2}

\* Lines with a product, without one, and both.
Goods == <<[product |-> p, amount |-> 2]>>
Mixed == <<[product |-> None, amount |-> 1], [product |-> p, amount |-> 2]>>
Free == <<[product |-> None, amount |-> 1]>>

Ask(kind, d) ==
    [kind |-> kind, doc |-> d, number |-> None, customer |-> c1, lines |-> <<>>]
Edit(d, c, ls) == [Ask("UPDATE", d) EXCEPT !.customer = c, !.lines = ls]
Numbered(kind, d, n) == [Ask(kind, d) EXCEPT !.number = n]

\* What users ask of the quotation, and of order 2.
OnQuote ==
    {Ask(k, Quote) : k \in {"REMOVE", "SEND", "ACCEPT", "REJECT", "EXPIRE"}}
    \cup {Numbered("CONVERT", Quote, n) : n \in OrderNumbers}
    \cup {Edit(Quote, c2, <<>>), Edit(Quote, Keep, Free)}
OnOrder(d) ==
    {Ask(k, d) : k \in {"REMOVE", "CONFIRM", "CANCEL"}}
    \cup {Numbered("INVOICE", d, n) : n \in InvoiceNumbers}
    \cup {Edit(d, c2, <<>>), Edit(d, Keep, Goods \o Goods)}
Voids == {Numbered("VOID", 0, f) : f \in InvoiceNumbers}

OnlyGoods == {Goods}
OnlyMixed == {Mixed}
\* An invoice without an order.
Direct == {Numbered("INVOICE", 0, f1)}
Requests == OnQuote \cup OnOrder(2) \cup Voids \cup Direct

Sym == Permutations(Tx) \cup Permutations(OrderNumbers)
           \cup Permutations(InvoiceNumbers)
=============================================================================
