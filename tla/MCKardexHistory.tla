-------------------------- MODULE MCKardexHistory ---------------------------
(* KardexHistory for TLC, and the meaning of its net.                      *)
EXTENDS KardexHistory, SequencesExt, FiniteSetsExt

CONSTANTS p, w1, w2

One == {p}
Two == {w1, w2}
A == <<p, w1>>
B == <<p, w2>>

\* An entry, an exit, transfers in both directions and a document
\* whose second line is on the row of the first.
Requests ==
    { [kind |-> "MOVEMENT", lines |-> <<[cell |-> A, qty |-> -1, unitCost |-> 0]>>],
      [kind |-> "MOVEMENT", lines |-> <<[cell |-> A, qty |-> 2, unitCost |-> 3]>>],
      [kind |-> "TRANSFER",
       lines |-> <<[cell |-> A, qty |-> -1, unitCost |-> 0],
                   [cell |-> B, qty |-> 1, unitCost |-> 0]>>],
      [kind |-> "TRANSFER",
       lines |-> <<[cell |-> B, qty |-> -1, unitCost |-> 0],
                   [cell |-> A, qty |-> 1, unitCost |-> 0]>>],
      [kind |-> "DOCUMENT",
       lines |-> <<[cell |-> B, qty |-> 2, unitCost |-> 7],
                   [cell |-> B, qty |-> -1, unitCost |-> 7]>>] }

\* The history's net is the sum of the movements in the kardex.
NetIsLedger ==
    \A c \in Cell :
        net[c] = FoldSeq(LAMBDA m, n : n + (IF m.cell = c THEN m.qty ELSE 0),
                         0, kardex)
=============================================================================
