----------------------------- MODULE StockLedger ----------------------------
(***************************************************************************)
(* What the stock engine promises (README PR-25 and PR-29, the comments of *)
(* stock_movement in the schema): the kardex is the source of truth, every *)
(* movement prints the balance it leaves, a balance is never negative, and *)
(* stock is the running balance of the kardex.  A request posts its        *)
(* movements all at once.                                                  *)
(***************************************************************************)
EXTENDS Integers, Sequences

CONSTANT Cell

VARIABLES ledger,   \* sequence of [cell, qty, balance]
          balance   \* [Cell -> Nat], the stock quantities

Init ==
    /\ ledger = <<>>
    /\ balance = [c \in Cell |-> 0]

\* Balance of c after the first n entries of a ledger.
BalanceAfter(l, n, c) ==
    LET of == {i \in 1 .. n : l[i].cell = c}
    IN  IF of = {} THEN 0
        ELSE l[CHOOSE i \in of : \A j \in of : j <= i].balance

Post ==
    /\ Len(ledger') > Len(ledger)
    /\ SubSeq(ledger', 1, Len(ledger)) = ledger
    /\ \A i \in Len(ledger) + 1 .. Len(ledger') :
        /\ ledger'[i].balance =
             BalanceAfter(ledger', i - 1, ledger'[i].cell) + ledger'[i].qty
        /\ ledger'[i].balance >= 0
    /\ balance' =
         [c \in Cell |-> BalanceAfter(ledger', Len(ledger'), c)]

Spec == Init /\ [][Post]_<<ledger, balance>>
=============================================================================
