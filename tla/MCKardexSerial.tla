--------------------------- MODULE MCKardexSerial ---------------------------
(* KardexSerial for TLC, with the valuation of the stock.                  *)
EXTENDS KardexSerial, SequencesExt, FiniteSetsExt

CONSTANTS p, w1, w2

One == {p}
Two == {w1, w2}
A == <<p, w1>>
B == <<p, w2>>

Single(c, q, k) ==
    [kind |-> "MOVEMENT", lines |-> <<[cell |-> c, qty |-> q, unitCost |-> k]>>]
TransferOf(c, d, q) ==
    [kind |-> "TRANSFER",
     lines |-> <<[cell |-> c, qty |-> -q, unitCost |-> 0],
                 [cell |-> d, qty |-> q, unitCost |-> 0]>>]

Requests ==
    { Single(A, 2, 3), Single(B, 1, 5), Single(A, -1, 0), Single(B, -2, 0),
      TransferOf(A, B, 1), TransferOf(A, B, 2), TransferOf(B, A, 1),
      TransferOf(A, B, 0), Single(B, 0, 9),
      [kind |-> "DOCUMENT",
       lines |-> <<[cell |-> A, qty |-> 1, unitCost |-> 8],
                   [cell |-> B, qty |-> 1, unitCost |-> 8],
                   [cell |-> A, qty |-> 1, unitCost |-> 7]>>] }

Sym == Permutations(Tx)

-----------------------------------------------------------------------------
\* What the stock is worth.
Worth == FoldSet(LAMBDA c, n : n + stock[c].qty * stock[c].avgCost, 0, Cell)

AbsDiff(a, b) == IF a > b THEN a - b ELSE b - a

\* A transfer does not change what the stock is worth ("no altera el costo
\* agregado"), but for rounding the average of the destination: half a
\* fourth decimal per unit there.
TransferNeutral ==
    [][\A t \in Tx :
        pc[t] = "commit" /\ req[t].kind = "TRANSFER" /\ pc'[t] = "committed" =>
            2 * AbsDiff(Worth', Worth) <= stock'[req[t].lines[2].cell].qty]_vars
=============================================================================
