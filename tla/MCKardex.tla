------------------------------ MODULE MCKardex ------------------------------
(* Instances of Kardex for TLC: one product in two warehouses.             *)
EXTENDS Kardex, SequencesExt, FiniteSetsExt

CONSTANTS p, w1, w2

One == {p}
Two == {w1, w2}
A == <<p, w1>>
B == <<p, w2>>

Movement1(c, q, k) ==
    [kind |-> "MOVEMENT", lines |-> <<[cell |-> c, qty |-> q, unitCost |-> k]>>]
TransferOf(c, d, q) ==
    [kind |-> "TRANSFER",
     lines |-> <<[cell |-> c, qty |-> -q, unitCost |-> 0],
                 [cell |-> d, qty |-> q, unitCost |-> 0]>>]
Document(lines) == [kind |-> "DOCUMENT", lines |-> lines]

\* Entries at two costs, an exit, a document whose second line repeats the
\* row of the first, and transfers both ways.
Requests ==
    { Movement1(A, 2, 3), Movement1(A, -1, 0), TransferOf(A, B, 1),
      Document(<<[cell |-> B, qty |-> 2, unitCost |-> 7],
                 [cell |-> A, qty |-> 1, unitCost |-> 7]>>) }

Crossing ==
    { Movement1(A, 1, 3), TransferOf(A, B, 1), TransferOf(B, A, 1),
      Document(<<[cell |-> B, qty |-> 1, unitCost |-> 7],
                 [cell |-> A, qty |-> 1, unitCost |-> 7]>>) }

Sym == Permutations(Tx)

-----------------------------------------------------------------------------
(* The kardex read as a ledger *)

LedgerQty(c) ==
    FoldSeq(LAMBDA m, n : n + (IF m.cell = c THEN m.qty ELSE 0), 0, kardex)

\* The stock row is the sum of the movements: the kardex is the source of
\* truth and stock only its snapshot.
StockEqualsLedger == \A c \in Cell : stock[c].qty = LedgerQty(c)
=============================================================================
